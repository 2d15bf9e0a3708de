-------------------------- MODULE Experiment2Proofs --------------------------
(***************************************************************************)
(* Theorems about Experiment2, for every number of threads, data set,      *)
(* assignment of keys and database.                                        *)
(***************************************************************************)
EXTENDS Experiment2, FoldLemmas

-----------------------------------------------------------------------------
(* The inductive invariant *)

\* Rows worker t has put into the table: those below its index, and the one
\* at its index between the two statements of a Cassandra insert.
Inserted(t) ==
  StartIdx(t) .. (IF pc[t] = "by_user" THEN next[t] ELSE next[t] - 1)

Between == {t \in Thread : pc[t] = "by_user"}

\* A worker is somewhere in its range once it is spawned.
WorkersInRange ==
  phase = "spawn" => \A t \in Thread :
     /\ pc[t] # "threw"
     /\ pc[t] = "idle" <=> idx <= t
     /\ pc[t] = "idle" => next[t] = 0
     /\ pc[t] # "idle" => next[t] \in StartIdx(t) .. EndIdx(t)
     /\ pc[t] = "by_user" => DualTables /\ next[t] < EndIdx(t)
     /\ pc[t] = "done" => next[t] = EndIdx(t)

\* The table holds what the workers have inserted, no more and no less.
OrdersByWorkers ==
  /\ phase \in {"clear_by_user", "divide", "connect"} => orders = {}
  /\ phase = "clear_by_user" => DualTables
  /\ phase = "spawn" =>
        \A r \in Row : r \in orders <=>
           \E t \in Thread : pc[t] # "idle" /\ r \in Inserted(t)
  /\ phase = "merge" => NumThreads = 0 \/ orders = Target
  /\ phase \in {"teardown", "done"} => orders = Target /\ NumThreads # 0
  /\ phase = "teardown" => result_ops = Total

\* Rows of orders_by_id without one in orders_by_user are in the hands of a
\* worker; when the process is gone there is one for each thread at most.
OrphansInHand ==
  DualTables =>
     /\ phase = "spawn" => Orphans \subseteq {next[t] : t \in Between}
     /\ phase \in {"merge", "teardown", "done"} => Orphans = {}
     /\ phase \in {"clear", "threw", "terminated"} =>
           Cardinality(Orphans) <= NumThreads

\* From the second truncation on, every row of orders_by_user is in
\* orders_by_id, under its own key.
NoGhosts ==
  DualTables /\ phase \in {"divide", "connect", "spawn", "merge", "teardown", "done"} =>
     \A k \in UserKey :
        by_user[k] # NoRow => by_user[k] \in orders /\ KeyOf[by_user[k]] = k

\* As long as nothing was thrown, the slots not yet assigned are empty.
SlotsEmpty ==
  /\ db_open
  /\ leaked > 0 => threw
  /\ phase = "done" => slot = NoSlots
  /\ ~threw /\ phase \in {"clear", "clear_by_user", "divide"} => slot = NoSlots
  /\ ~threw /\ phase = "connect" =>
        \A t \in Thread : idx <= t => slot[t] = "null"
  /\ phase = "threw" => threw

\* A recorder has counted the inserts of its worker.
CountsByWorkers ==
  /\ phase = "spawn" => \A t \in Thread :
        count[t] = IF pc[t] = "idle" THEN 0 ELSE next[t] - StartIdx(t)
  /\ phase \in {"merge", "teardown"} => \A t \in Thread :
        count[t] = EndIdx(t) - StartIdx(t)

IInv ==
  /\ TypeOK
  /\ WorkersInRange
  /\ OrdersByWorkers
  /\ OrphansInHand
  /\ NoGhosts
  /\ SlotsEmpty
  /\ CountsByWorkers

-----------------------------------------------------------------------------
(* The partition of the data set *)

LEMMA TotalBounds ==
  /\ Requested \in Nat /\ Total \in Nat
  /\ Total <= Requested /\ Requested <= DatasetSize
  /\ Requested < UInt32 => Total = Requested
  /\ Target \subseteq Row
<1> USE TablesAssumption, Experiment2Assumption
<1>1. Requested \in Nat /\ Requested <= DatasetSize
  BY DEF Requested
<1>2. /\ Total \in Nat /\ Total <= Requested
      /\ Requested < UInt32 => Total = Requested
  BY <1>1 DEF Total
<1>3. Target \subseteq Row
  BY <1>1, <1>2 DEF Target, Row
<1> QED
  BY <1>1, <1>2, <1>3

\* The range of every thread lies within the target.
LEMMA RangeBounds ==
  ASSUME NEW t \in Thread
  PROVE  /\ RowsPerThread \in Nat
         /\ StartIdx(t) \in Nat /\ EndIdx(t) \in Nat
         /\ StartIdx(t) <= EndIdx(t) /\ EndIdx(t) <= Total
<1>1. NumThreads \in Nat /\ NumThreads # 0 /\ t \in Nat /\ t + 1 <= NumThreads
  BY Experiment2Assumption DEF Thread
<1>2. RowsPerThread \in Nat /\ NumThreads * RowsPerThread <= Total
  BY <1>1, TotalBounds DEF RowsPerThread
<1>3. t * RowsPerThread \in Nat
  BY <1>1, <1>2
<1>4. (t + 1) * RowsPerThread <= NumThreads * RowsPerThread
  BY <1>1, <1>2
<1>5. (t + 1) * RowsPerThread = t * RowsPerThread + RowsPerThread
  BY <1>1, <1>2
<1>6. t * RowsPerThread + RowsPerThread <= Total
  BY <1>1, <1>2, <1>3, <1>4, <1>5, TotalBounds
<1> QED
  BY <1>1, <1>2, <1>3, <1>6, TotalBounds DEF StartIdx, EndIdx

\* The ranges follow each other and do not overlap.
LEMMA RangesDisjoint ==
  ASSUME NEW t \in Thread, NEW s \in Thread, t < s
  PROVE  EndIdx(t) <= StartIdx(s)
<1>1. /\ NumThreads \in Nat
      /\ t \in Nat /\ s \in Nat /\ t + 1 <= s /\ t # NumThreads - 1
  BY Experiment2Assumption DEF Thread
<1>2. RowsPerThread \in Nat
  BY RangeBounds
<1>3. (t + 1) * RowsPerThread <= s * RowsPerThread
  BY <1>1, <1>2
<1>4. (t + 1) * RowsPerThread = t * RowsPerThread + RowsPerThread
  BY <1>1, <1>2
<1> QED
  BY <1>1, <1>2, <1>3, <1>4 DEF StartIdx, EndIdx

\* Every row of the target lies in the range of a thread.
LEMMA RangesCover ==
  ASSUME NumThreads # 0, NEW r \in Target
  PROVE  \E t \in Thread : r \in StartIdx(t) .. EndIdx(t) - 1
<1> DEFINE last == NumThreads - 1
<1>1. last \in Thread /\ last \in Nat /\ NumThreads \in Nat
  BY Experiment2Assumption DEF Thread
<1>2. RowsPerThread \in Nat /\ Total \in Nat /\ r \in Nat /\ r < Total
  BY <1>1, RangeBounds, TotalBounds DEF Target
<1>3. CASE last * RowsPerThread <= r
  <2>1. EndIdx(last) = Total
    BY <1>1 DEF EndIdx
  <2> QED
    BY <1>1, <1>2, <1>3, <2>1 DEF StartIdx
<1>4. CASE r < last * RowsPerThread
  <2>1. RowsPerThread # 0
    BY <1>1, <1>2, <1>4
  <2> DEFINE t == r \div RowsPerThread
  <2>2. /\ t \in Nat /\ t * RowsPerThread <= r
        /\ r < t * RowsPerThread + RowsPerThread
    BY <1>2, <2>1
  <2>3. t < last
    <3>1. SUFFICES ASSUME last <= t PROVE FALSE
      BY <1>1, <2>2
    <3>2. last * RowsPerThread <= t * RowsPerThread
      BY <1>1, <1>2, <2>2, <3>1
    <3> QED
      BY <1>1, <1>2, <1>4, <2>2, <3>2
  <2>4. t \in Thread /\ EndIdx(t) = t * RowsPerThread + RowsPerThread
    BY <1>1, <2>2, <2>3 DEF Thread, EndIdx, StartIdx
  <2> QED
    BY <1>2, <2>2, <2>4 DEF StartIdx
<1> QED
  BY <1>1, <1>2, <1>3, <1>4

-----------------------------------------------------------------------------
(* Every action preserves every conjunct of the inductive invariant *)

\* The row a worker is inserting is one of its range, and so of the target.
LEMMA InFlight ==
  ASSUME TypeOK, WorkersInRange, NEW t \in Thread,
         Inserting(t) \/ (Running /\ pc[t] = "by_user")
  PROVE  /\ next[t] \in StartIdx(t) .. EndIdx(t) - 1
         /\ next[t] \in Target /\ next[t] \in Row
         /\ next[t] # NoRow /\ KeyOf[next[t]] \in UserKey
<1>1. next[t] \in StartIdx(t) .. EndIdx(t) - 1
  BY RangeBounds DEF TypeOK, WorkersInRange, Inserting, Running
<1>2. next[t] \in Target /\ next[t] \in Row
  BY <1>1, RangeBounds, TotalBounds DEF Target
<1> QED
  BY <1>1, <1>2, TablesAssumption

\* teardown() loses no connection and closes the shared client for nobody.
LEMMA TeardownReleases ==
  ASSUME TypeOK, Teardown
  PROVE  leaked' = leaked /\ db_open' = db_open
<1> DEFINE Lost == {t \in Thread \ Owned : slot[t] = "own"}
<1>1. Lost = {}
  BY DEF Owned
<1>2. leaked' = leaked
  <2>1. leaked' = leaked + Cardinality(Lost) /\ leaked \in Nat
    BY DEF Teardown, TypeOK
  <2> HIDE DEF Lost
  <2>2. Cardinality(Lost) = 0
    BY <1>1, FS_EmptySet
  <2> QED
    BY <2>1, <2>2
<1>3. \A t \in Owned : slot[t] # "db"
  BY DEF Owned
<1> QED
  BY <1>2, <1>3 DEF Teardown, TypeOK

LEMMA TypeStep ==
  ASSUME TypeOK, WorkersInRange, [Next]_vars
  PROVE  TypeOK'
<1> USE DEF TypeOK, TablesTypeOK, Phases,
            tables, main, connections, workers, result, history
<1>1. CASE Clear
  BY <1>1 DEF Clear, TruncateOrders
<1>2. CASE ClearThrows
  BY <1>2 DEF ClearThrows, TruncateOrdersInDoubt, TruncateOrders, Throw
<1>3. CASE ClearByUser
  BY <1>3 DEF ClearByUser, TruncateByUser, NoUserRows
<1>4. CASE ClearByUserThrows
  BY <1>4 DEF ClearByUserThrows, TruncateByUserInDoubt, TruncateByUser, NoUserRows, Throw
<1>5. CASE Divide
  BY <1>5, Experiment2Assumption DEF Divide
<1>6. CASE DivideTraps
  BY <1>6 DEF DivideTraps, Terminate
<1>7. CASE Connect
  BY <1>7, Experiment2Assumption DEF Connect, Thread
<1>8. CASE ConnectThrows
  BY <1>8 DEF ConnectThrows, Throw
<1>9. CASE StartSpawning
  BY <1>9, Experiment2Assumption DEF StartSpawning, NoWorkers, AllIdle, AllZero
<1>10. CASE Spawn
  <2>1. idx \in Thread
    BY <1>10, Experiment2Assumption DEF Spawn, Thread
  <2> QED
    BY <1>10, <2>1, RangeBounds, Experiment2Assumption DEF Spawn
<1>11. CASE SpawnThrows
  BY <1>11 DEF SpawnThrows, Throw, Terminate
<1>12. CASE \E t \in Thread : Insert(t)
  BY <1>12, InFlight DEF Insert, Inserting, InsertOrder, Advance
<1>13. CASE \E t \in Thread : InsertUser(t)
  BY <1>13, InFlight, TablesAssumption DEF InsertUser, InsertByUser, Advance
<1>14. CASE \E t \in Thread : Finish(t)
  BY <1>14 DEF Finish
<1>15. CASE \E t \in Thread : WorkerThrows(t)
  BY <1>15, InFlight, TablesAssumption
     DEF WorkerThrows, Inserting, InsertOrderInDoubt, InsertOrder,
         InsertByUserInDoubt, InsertByUser, Terminate
<1>16. CASE Join
  BY <1>16 DEF Join
<1>17. CASE Merge
  BY <1>17, TotalBounds DEF Merge
<1>18. CASE MergeCrashes
  BY <1>18 DEF MergeCrashes, Terminate
<1>19. CASE MergeThrows
  BY <1>19 DEF MergeThrows, Throw
<1>20. CASE Teardown
  BY <1>20, TeardownReleases DEF Teardown, NoSlots, NoWorkers, AllIdle, AllZero
<1>21. CASE Reexecute
  BY <1>21, Experiment2Assumption DEF Reexecute, Again
<1>22. CASE NewProcess
  <2>1. /\ slot' \in [Thread -> {"null", "own", "db"}]
        /\ pc' \in [Thread -> {"idle", "insert", "by_user", "done", "threw"}]
        /\ next' \in [Thread -> Nat] /\ count' \in [Thread -> Nat]
    BY <1>22 DEF NewProcess, NoSlots, NoWorkers, AllIdle, AllZero
  <2>2. /\ TablesTypeOK'
        /\ phase' \in Phases /\ idx' \in 0 .. NumThreads
        /\ runs' \in 1 .. MaxRuns
    BY <1>22, Experiment2Assumption DEF NewProcess, Again
  <2>3. leaked' \in Nat /\ result_ops' \in Nat /\ result_stats' \in {"initial", "merged", "garbage"}
    BY <1>22 DEF NewProcess
  <2>4. db_open' \in BOOLEAN /\ threw' \in BOOLEAN
    BY <1>22 DEF NewProcess
  <2> QED
    BY <2>1, <2>2, <2>3, <2>4
<1>23. CASE UNCHANGED vars
  BY <1>23 DEF vars
<1> QED
  BY <1>1, <1>2, <1>3, <1>4, <1>5, <1>6, <1>7, <1>8, <1>9, <1>10, <1>11, <1>12, <1>13, <1>14, <1>15, <1>16, <1>17, <1>18, <1>19, <1>20, <1>21, <1>22, <1>23 DEF Next, Main, Worker, Fails

\* The steps after which the threads are running.
LEMMA SpawnPhase ==
  ASSUME TypeOK, [Next]_vars, phase' = "spawn"
  PROVE  \/ StartSpawning
         \/ Spawn
         \/ \E t \in Thread : Insert(t)
         \/ \E t \in Thread : InsertUser(t)
         \/ \E t \in Thread : Finish(t)
         \/ UNCHANGED vars
<1>1. CASE Main \/ Reexecute \/ NewProcess
  BY <1>1 DEF Main, Clear, ClearByUser, Divide, Connect, Join, Merge, Teardown,
              Reexecute, NewProcess, Again
<1>2. CASE Fails
  BY <1>2 DEF Fails, ClearThrows, ClearByUserThrows, DivideTraps, ConnectThrows,
              SpawnThrows, MergeThrows, MergeCrashes, WorkerThrows, Throw, Terminate
<1> QED
  BY <1>1, <1>2 DEF Next, Worker

LEMMA WorkersStep ==
  ASSUME TypeOK, WorkersInRange, [Next]_vars
  PROVE  WorkersInRange'
<1> SUFFICES ASSUME phase' = "spawn" PROVE WorkersInRange'
  BY DEF WorkersInRange
<1> USE DEF WorkersInRange, tables, main, connections, workers, result, history
<1>1. CASE StartSpawning
  BY <1>1, Experiment2Assumption
     DEF StartSpawning, NoWorkers, AllIdle, AllZero, Thread
<1>2. CASE Spawn
  <2>1. idx \in Thread /\ idx \in Nat /\ phase = "spawn"
    BY <1>2, Experiment2Assumption DEF Spawn, Running, Thread, TypeOK
  <2>2. /\ pc' = [pc EXCEPT ![idx] = "insert"]
        /\ next' = [next EXCEPT ![idx] = StartIdx(idx)]
        /\ idx' = idx + 1
    BY <1>2 DEF Spawn
  <2>3. \A t \in Thread : t \in Nat
    BY DEF Thread
  <2>4. StartIdx(idx) \in StartIdx(idx) .. EndIdx(idx)
    BY <2>1, RangeBounds
  <2> QED
    BY <2>1, <2>2, <2>3, <2>4 DEF TypeOK
<1>3. CASE \E t \in Thread : Insert(t)
  <2>1. PICK t \in Thread : Insert(t)
    BY <1>3
  <2>2. next[t] < EndIdx(t) /\ next[t] \in StartIdx(t) .. EndIdx(t) - 1
    BY <2>1, InFlight DEF Insert, Inserting
  <2>3. next[t] + 1 \in StartIdx(t) .. EndIdx(t)
    BY <2>2, RangeBounds
  <2> QED
    BY <2>1, <2>2, <2>3 DEF Insert, Inserting, Running, Advance, TypeOK
<1>4. CASE \E t \in Thread : InsertUser(t)
  <2>1. PICK t \in Thread : InsertUser(t)
    BY <1>4
  <2>2. next[t] \in StartIdx(t) .. EndIdx(t) - 1
    BY <2>1, InFlight DEF InsertUser
  <2>3. next[t] + 1 \in StartIdx(t) .. EndIdx(t)
    BY <2>2, RangeBounds
  <2> QED
    BY <2>1, <2>2, <2>3 DEF InsertUser, Running, Advance, TypeOK
<1>5. CASE \E t \in Thread : Finish(t)
  <2>1. PICK t \in Thread : Finish(t)
    BY <1>5
  <2>2. next[t] = EndIdx(t)
    BY <2>1, RangeBounds DEF Finish, Running
  <2> QED
    BY <2>1, <2>2 DEF Finish, Running, TypeOK
<1>6. CASE UNCHANGED vars
  BY <1>6 DEF vars
<1> QED
  BY <1>1, <1>2, <1>3, <1>4, <1>5, <1>6, SpawnPhase

\* What a worker has inserted is part of its range.
LEMMA InsertedInRange ==
  ASSUME TypeOK, WorkersInRange, phase = "spawn",
         NEW t \in Thread, pc[t] # "idle"
  PROVE  /\ Inserted(t) \subseteq StartIdx(t) .. EndIdx(t) - 1
         /\ next[t] \in Nat /\ StartIdx(t) \in Nat
         /\ pc[t] = "done" => Inserted(t) = StartIdx(t) .. EndIdx(t) - 1
BY RangeBounds DEF WorkersInRange, Inserted, TypeOK

\* FreshInserts follows from the invariant: the row at a worker's index is not
\* among those it has inserted, and not in any other worker's range.
LEMMA Fresh ==
  ASSUME TypeOK, WorkersInRange, OrdersByWorkers, NEW t \in Thread, Inserting(t)
  PROVE  next[t] \notin orders
<1> DEFINE r == next[t]
<1>1. r \in Row /\ r \in StartIdx(t) .. EndIdx(t) - 1 /\ phase = "spawn"
  BY InFlight DEF Inserting, Running
<1>2. SUFFICES ASSUME NEW s \in Thread, pc[s] # "idle", r \in Inserted(s)
               PROVE  FALSE
  BY <1>1 DEF OrdersByWorkers
<1>3. r \in StartIdx(s) .. EndIdx(s) - 1
  BY <1>1, <1>2, InsertedInRange
<1>4. CASE s = t
  BY <1>1, <1>2, <1>4, RangeBounds DEF Inserted, Inserting
<1>5. CASE s # t
  <2>1. s < t \/ t < s
    BY <1>5 DEF Thread
  <2> QED
    BY <1>1, <1>3, <2>1, RangesDisjoint, RangeBounds
<1> QED
  BY <1>4, <1>5

LEMMA OrdersStep ==
  ASSUME TypeOK, WorkersInRange, OrdersByWorkers, [Next]_vars
  PROVE  OrdersByWorkers'
<1> USE DEF OrdersByWorkers, tables, main, connections, workers, result, history
<1>1. CASE phase' = "spawn"
  <2> SUFFICES ASSUME NEW r \in Row
               PROVE  r \in orders' <=>
                        \E t \in Thread : pc'[t] # "idle" /\ r \in Inserted(t)'
    BY <1>1
  <2>1. CASE StartSpawning
    BY <2>1 DEF StartSpawning, NoWorkers, AllIdle
  <2>2. CASE Spawn
    <3>1. PICK t \in Thread : t = idx
      BY <2>2, Experiment2Assumption DEF Spawn, Thread, TypeOK
    <3>2. phase = "spawn" /\ pc[t] = "idle" /\ orders' = orders
      BY <2>2, <3>1 DEF Spawn, Running, Thread, WorkersInRange
    <3>3. /\ pc' = [pc EXCEPT ![t] = "insert"]
          /\ next' = [next EXCEPT ![t] = StartIdx(t)]
      BY <2>2, <3>1 DEF Spawn
    <3>4. r \notin Inserted(t)'
      BY <3>3, RangeBounds DEF Inserted, TypeOK, StartIdx
    <3>5. \A s \in Thread \ {t} : pc'[s] = pc[s] /\ Inserted(s)' = Inserted(s)
      BY <3>3 DEF Inserted, TypeOK
    <3> QED
      BY <3>2, <3>4, <3>5
  <2>3. CASE \E t \in Thread : Insert(t)
    <3>1. PICK t \in Thread : Insert(t)
      BY <2>3
    <3>2. /\ phase = "spawn" /\ pc[t] = "insert" /\ pc'[t] # "idle"
          /\ orders' = orders \cup {next[t]} /\ next[t] \in Row
          /\ StartIdx(t) \in Nat /\ next[t] \in Nat /\ StartIdx(t) <= next[t]
      BY <3>1, InFlight, RangeBounds
         DEF Insert, Inserting, Running, InsertOrder, TypeOK
    <3>3. Inserted(t)' = Inserted(t) \cup {next[t]}
      BY <3>1, <3>2 DEF Insert, Inserted, Advance, TypeOK
    <3>4. \A s \in Thread \ {t} : pc'[s] = pc[s] /\ Inserted(s)' = Inserted(s)
      BY <3>1 DEF Insert, Inserted, Advance, TypeOK
    <3> QED
      BY <3>2, <3>3, <3>4
  <2>4. CASE \E t \in Thread : InsertUser(t)
    <3>1. PICK t \in Thread : InsertUser(t)
      BY <2>4
    <3>2. /\ phase = "spawn" /\ pc[t] = "by_user" /\ orders' = orders
          /\ next[t] \in Nat
      BY <3>1 DEF InsertUser, Running, TypeOK
    <3>3. pc'[t] = "insert" /\ Inserted(t)' = Inserted(t)
      BY <3>1, <3>2 DEF InsertUser, Inserted, Advance, TypeOK
    <3>4. \A s \in Thread \ {t} : pc'[s] = pc[s] /\ Inserted(s)' = Inserted(s)
      BY <3>1 DEF InsertUser, Inserted, Advance, TypeOK
    <3> QED
      BY <3>2, <3>3, <3>4
  <2>5. CASE \E t \in Thread : Finish(t)
    <3>1. PICK t \in Thread : Finish(t)
      BY <2>5
    <3>2. /\ phase = "spawn" /\ orders' = orders
          /\ \A s \in Thread : /\ pc'[s] = "idle" <=> pc[s] = "idle"
                              /\ Inserted(s)' = Inserted(s)
      BY <3>1 DEF Finish, Running, Inserted, TypeOK
    <3> QED
      BY <3>2
  <2>6. CASE UNCHANGED vars
    BY <1>1, <2>6 DEF vars, Inserted
  <2> QED
    BY <1>1, <2>1, <2>2, <2>3, <2>4, <2>5, <2>6, SpawnPhase
<1>2. CASE Join
  <2>1. SUFFICES ASSUME NumThreads # 0 PROVE orders' = Target
    BY <1>2 DEF Join
  <2>2. /\ phase = "spawn" /\ orders' = orders
        /\ \A t \in Thread : pc[t] = "done"
    BY <1>2 DEF Join, Running
  <2>3. \A t \in Thread : Inserted(t) = StartIdx(t) .. EndIdx(t) - 1
    BY <2>2, InsertedInRange
  <2>4. ASSUME NEW r \in orders PROVE r \in Target
    <3>1. PICK t \in Thread : r \in Inserted(t)
      BY <2>2, <2>4 DEF TypeOK, TablesTypeOK
    <3> QED
      BY <2>3, <3>1, RangeBounds, TotalBounds DEF Target
  <2>5. ASSUME NEW r \in Target PROVE r \in orders
    BY <2>1, <2>2, <2>3, RangesCover, TotalBounds
  <2> QED
    BY <2>2, <2>4, <2>5
<1>3. CASE phase' # "spawn" /\ ~Join
  <2>1. CASE Main
    BY <1>3, <2>1
       DEF Main, Clear, TruncateOrders, ClearByUser, Divide, Connect,
           StartSpawning, Spawn, Running, Merge, Teardown
  <2>2. CASE \E t \in Thread : Worker(t)
    BY <1>3, <2>2 DEF Worker, Insert, Inserting, InsertUser, Finish, Running
  <2>3. CASE Fails \/ Reexecute \/ NewProcess
    BY <2>3
       DEF Fails, ClearThrows, ClearByUserThrows, DivideTraps, ConnectThrows,
           SpawnThrows, MergeThrows, MergeCrashes, WorkerThrows, Throw,
           Terminate, Reexecute, NewProcess, Again
  <2>4. CASE UNCHANGED vars
    BY <1>3, <2>4 DEF vars
  <2> QED
    BY <2>1, <2>2, <2>3, <2>4 DEF Next
<1> QED
  BY <1>1, <1>2, <1>3

LEMMA GhostsStep ==
  ASSUME TypeOK, WorkersInRange, OrdersByWorkers, NoGhosts, [Next]_vars
  PROVE  NoGhosts'
<1> USE DEF NoGhosts, tables, main, connections, workers, result, history
<1>1. CASE \E t \in Thread : InsertUser(t)
  <2>1. PICK t \in Thread : InsertUser(t)
    BY <1>1
  <2>2. next[t] \in Row /\ next[t] \in Inserted(t)
    BY <2>1, InFlight, RangeBounds DEF InsertUser, Inserted
  <2>3. next[t] \in orders /\ orders' = orders /\ phase' = phase /\ phase = "spawn"
    BY <2>1, <2>2 DEF InsertUser, Running, OrdersByWorkers
  <2>4. by_user' = [by_user EXCEPT ![KeyOf[next[t]]] = next[t]]
    BY <2>1 DEF InsertUser, InsertByUser
  <2> QED
    BY <2>3, <2>4 DEF TypeOK, TablesTypeOK
<1>2. CASE ClearByUser
  BY <1>2 DEF ClearByUser, TruncateByUser, NoUserRows
<1>3. CASE Main /\ ~ClearByUser
  BY <1>3 DEF Main, Clear, Divide, Connect, StartSpawning, Spawn, Running, Join,
              Merge, Teardown
<1>4. CASE \E t \in Thread : Insert(t) \/ Finish(t)
  BY <1>4 DEF Insert, Inserting, Finish, Running, InsertOrder
<1>5. CASE Fails \/ Reexecute \/ NewProcess
  BY <1>5 DEF Fails, ClearThrows, ClearByUserThrows, DivideTraps, ConnectThrows,
              SpawnThrows, MergeThrows, MergeCrashes, WorkerThrows, Throw,
              Terminate, Reexecute, NewProcess, Again
<1>6. CASE UNCHANGED vars
  BY <1>6 DEF vars
<1> QED
  BY <1>1, <1>2, <1>3, <1>4, <1>5, <1>6 DEF Next, Worker

\* A set whose elements are indices of workers has at most one for each.
LEMMA AtMostThreads ==
  ASSUME TypeOK, NEW S, S \subseteq {next[t] : t \in Thread}
  PROVE  Cardinality(S) <= NumThreads
<1> DEFINE T == {next[t] : t \in Thread}
<1>1. IsFiniteSet(Thread) /\ Cardinality(Thread) = NumThreads
  <2>1. 0 \in Int /\ NumThreads - 1 \in Int
    BY Experiment2Assumption
  <2>2. /\ IsFiniteSet(Thread)
        /\ Cardinality(Thread) = IF 0 > NumThreads - 1 THEN 0 ELSE (NumThreads - 1) - 0 + 1
    BY <2>1, FS_Interval DEF Thread
  <2> QED
    BY <2>2, Experiment2Assumption
<1>2. next \in Surjection(Thread, T)
  BY DEF Surjection, TypeOK
<1>3. IsFiniteSet(T) /\ Cardinality(T) <= NumThreads
  BY <1>1, <1>2, FS_Surjection
<1>4. IsFiniteSet(S) /\ Cardinality(S) <= Cardinality(T)
  BY <1>3, FS_Subset
<1> QED
  BY <1>3, <1>4, FS_CardinalityType, Experiment2Assumption

LEMMA NoOrphans ==
  ASSUME orders = {} \/ Orphans = {}
  PROVE  Orphans = {} /\ Cardinality(Orphans) <= NumThreads
BY FS_EmptySet, Experiment2Assumption DEF Orphans

\* In every phase, an orphan is at most one for each thread.
LEMMA OrphansBounded ==
  ASSUME TypeOK, WorkersInRange, OrdersByWorkers, OrphansInHand, DualTables
  PROVE  Cardinality(Orphans) <= NumThreads
<1>1. CASE phase \in {"clear_by_user", "divide", "connect"}
  BY <1>1, NoOrphans DEF OrdersByWorkers
<1>2. CASE phase = "spawn"
  <2>1. Orphans \subseteq {next[t] : t \in Thread}
    BY <1>2 DEF OrphansInHand, Between
  <2> QED
    BY <2>1, AtMostThreads
<1>3. CASE phase \in {"merge", "teardown", "done"}
  BY <1>3, NoOrphans DEF OrphansInHand
<1>4. CASE phase \in {"clear", "threw", "terminated"}
  BY <1>4 DEF OrphansInHand
<1> QED
  BY <1>1, <1>2, <1>3, <1>4 DEF TypeOK, Phases

LEMMA OrphansStep ==
  ASSUME TypeOK, WorkersInRange, OrdersByWorkers, OrphansInHand, [Next]_vars,
         TypeOK', WorkersInRange', OrdersByWorkers'
  PROVE  OrphansInHand'
<1> SUFFICES ASSUME DualTables PROVE OrphansInHand'
  BY DEF OrphansInHand, DualTables
<1> USE DEF tables, main, connections, workers, result, history
<1>1. CASE phase' = "spawn"
  <2> SUFFICES ASSUME NEW r \in Orphans'
               PROVE  r \in {next'[t] : t \in Between'}
    BY <1>1 DEF OrphansInHand
  <2>1. CASE StartSpawning
    BY <2>1 DEF StartSpawning, Orphans, OrdersByWorkers
  <2>2. CASE Spawn
    <3>1. phase = "spawn" /\ Orphans' = Orphans /\ pc[idx] = "idle"
      BY <2>2, Experiment2Assumption
         DEF Spawn, Running, Orphans, WorkersInRange, Thread, TypeOK
    <3>2. PICK t \in Between : next[t] = r
      BY <3>1 DEF OrphansInHand
    <3>3. pc'[t] = "by_user" /\ next'[t] = next[t]
      BY <2>2, <3>1, <3>2 DEF Spawn, Between, TypeOK
    <3> QED
      BY <3>2, <3>3 DEF Between
  <2>3. CASE \E t \in Thread : Insert(t)
    <3>1. PICK t \in Thread : Insert(t)
      BY <2>3
    <3>2. /\ phase = "spawn" /\ pc[t] = "insert"
          /\ pc' = [pc EXCEPT ![t] = "by_user"] /\ next' = next
          /\ by_user' = by_user /\ orders' = orders \cup {next[t]}
      BY <3>1 DEF Insert, Inserting, Running, InsertOrder
    <3>3. r \in Orphans \/ r = next[t]
      BY <3>2 DEF Orphans
    <3>4. Between' = Between \cup {t}
      BY <3>2 DEF Between, TypeOK
    <3> QED
      BY <3>2, <3>3, <3>4 DEF OrphansInHand
  <2>4. CASE \E t \in Thread : InsertUser(t)
    <3>1. PICK t \in Thread : InsertUser(t)
      BY <2>4
    <3>2. /\ phase = "spawn" /\ orders' = orders
          /\ by_user' = [by_user EXCEPT ![KeyOf[next[t]]] = next[t]]
          /\ next[t] # NoRow /\ KeyOf[next[t]] \in UserKey
      BY <3>1, InFlight DEF InsertUser, Running, InsertByUser
    <3>3. r \in Orphans /\ r # next[t]
      BY <3>2, TablesAssumption DEF Orphans, TypeOK, TablesTypeOK
    <3>4. PICK s \in Between : next[s] = r
      BY <3>2, <3>3 DEF OrphansInHand
    <3>5. pc'[s] = "by_user" /\ next'[s] = next[s]
      BY <3>1, <3>3, <3>4 DEF InsertUser, Advance, Between, TypeOK
    <3> QED
      BY <3>4, <3>5 DEF Between
  <2>5. CASE \E t \in Thread : Finish(t)
    BY <2>5 DEF Finish, Running, Between, Orphans, OrphansInHand, TypeOK
  <2>6. CASE UNCHANGED vars
    BY <1>1, <2>6 DEF vars, Between, Orphans, OrphansInHand
  <2> QED
    BY <1>1, <2>1, <2>2, <2>3, <2>4, <2>5, <2>6, SpawnPhase
<1>2. CASE phase' # "spawn" /\ Main
  <2>1. CASE Join
    <3>1. Orphans = {} /\ Orphans' = Orphans
      BY <2>1 DEF Join, Running, OrphansInHand, Between, Orphans
    <3> QED
      BY <1>2, <2>1, <3>1 DEF Join, OrphansInHand
  <2>2. CASE Merge \/ Teardown
    BY <2>2 DEF Merge, Teardown, OrphansInHand, Orphans
  <2>3. CASE ~(Join \/ Merge \/ Teardown)
    BY <1>2, <2>3
       DEF Main, Clear, ClearByUser, Divide, Connect, StartSpawning, Spawn,
           Running, OrphansInHand
  <2> QED
    BY <2>1, <2>2, <2>3
<1>3. CASE \E t \in Thread : Worker(t)
  BY <1>1, <1>3 DEF Worker, Insert, Inserting, InsertUser, Finish, Running
<1>4. CASE Fails \/ Reexecute \/ NewProcess
  <2>1. phase' \in {"clear", "threw", "terminated"}
    BY <1>4 DEF Fails, ClearThrows, ClearByUserThrows, DivideTraps, ConnectThrows,
                SpawnThrows, MergeThrows, MergeCrashes, WorkerThrows, Throw,
                Terminate, Reexecute, NewProcess, Again
  <2> SUFFICES Cardinality(Orphans)' <= NumThreads
    BY <2>1 DEF OrphansInHand
  <2>2. CASE UNCHANGED tables
    BY <2>2, OrphansBounded DEF Orphans
  <2>3. CASE ClearThrows
    <3>1. orders' = {} \/ UNCHANGED tables
      BY <2>3 DEF ClearThrows, TruncateOrdersInDoubt, TruncateOrders
    <3>2. CASE orders' = {}
      BY <3>2, FS_EmptySet, Experiment2Assumption DEF Orphans
    <3> QED
      BY <2>2, <3>1, <3>2
  <2>4. CASE ClearByUserThrows
    <3>1. orders' = {}
      BY <2>4 DEF ClearByUserThrows, OrdersByWorkers
    <3> QED
      BY <3>1, FS_EmptySet, Experiment2Assumption DEF Orphans
  <2>5. CASE \E t \in Thread : WorkerThrows(t)
    <3>1. PICK t \in Thread : WorkerThrows(t)
      BY <2>5
    <3>2. phase = "spawn" /\ next' = next
      BY <3>1 DEF WorkerThrows, Inserting, Running
    <3>3. ASSUME NEW r \in Orphans' PROVE r \in Orphans \/ r = next[t]
      BY <3>1, InFlight, TablesAssumption
         DEF WorkerThrows, InsertOrderInDoubt, InsertOrder, InsertByUserInDoubt,
             InsertByUser, Orphans, TypeOK, TablesTypeOK
    <3>4. Orphans' \subseteq {next[s] : s \in Thread}
      BY <3>2, <3>3 DEF OrphansInHand, Between
    <3> QED
      BY <3>4, AtMostThreads
  <2> QED
    BY <1>4, <2>2, <2>3, <2>4, <2>5
       DEF Fails, DivideTraps, ConnectThrows, SpawnThrows, MergeThrows,
           MergeCrashes, Reexecute, NewProcess, Again
<1>5. CASE UNCHANGED vars
  BY <1>1, <1>5 DEF vars, Orphans, OrphansInHand
<1> QED
  BY <1>1, <1>2, <1>3, <1>4, <1>5 DEF Next, Main

LEMMA SlotsStep ==
  ASSUME TypeOK, SlotsEmpty, [Next]_vars
  PROVE  SlotsEmpty'
<1> USE DEF SlotsEmpty, tables, main, connections, workers, result, history
<1>1. CASE Connect
  <2>1. idx \in Thread /\ idx \in Nat /\ \A t \in Thread : t \in Nat
    BY <1>1, Experiment2Assumption DEF Connect, Thread, TypeOK
  <2>2. ~threw => slot[idx] = "null"
    BY <1>1, <2>1 DEF Connect
  <2> QED
    BY <1>1, <2>1, <2>2 DEF Connect, TypeOK
<1>2. CASE Divide
  BY <1>2 DEF Divide, NoSlots
<1>3. CASE Clear \/ ClearByUser
  BY <1>3 DEF Clear, ClearByUser
<1>4. CASE StartSpawning \/ Spawn \/ Join \/ Merge
  <2>1. /\ phase' \in {"spawn", "merge", "teardown"}
        /\ leaked' = leaked /\ threw' = threw /\ db_open' = db_open
    BY <1>4 DEF StartSpawning, Spawn, Running, Join, Merge
  <2> QED
    BY <2>1
<1>5. CASE Teardown
  BY <1>5, TeardownReleases DEF Teardown
<1>6. CASE \E t \in Thread : Worker(t)
  <2>1. phase' = "spawn" /\ leaked' = leaked /\ threw' = threw /\ db_open' = db_open
    BY <1>6 DEF Worker, Insert, Inserting, InsertUser, Finish, Running
  <2> QED
    BY <2>1
<1>7. CASE Fails
  BY <1>7 DEF Fails, ClearThrows, ClearByUserThrows, DivideTraps, ConnectThrows,
              SpawnThrows, MergeThrows, MergeCrashes, WorkerThrows, Throw, Terminate
<1>8. CASE Reexecute
  BY <1>8 DEF Reexecute, Again
<1>9. CASE NewProcess
  BY <1>9 DEF NewProcess, Again
<1>10. CASE UNCHANGED vars
  BY <1>10 DEF vars
<1> QED
  BY <1>1, <1>2, <1>3, <1>4, <1>5, <1>6, <1>7, <1>8, <1>9, <1>10 DEF Next, Main

LEMMA CountsStep ==
  ASSUME TypeOK, WorkersInRange, CountsByWorkers, [Next]_vars
  PROVE  CountsByWorkers'
<1> USE DEF CountsByWorkers, main, connections, workers, result, history
<1>1. CASE StartSpawning
  BY <1>1 DEF StartSpawning, NoWorkers, AllIdle, AllZero
<1>2. CASE Spawn
  <2>1. idx \in Thread /\ pc[idx] = "idle" /\ phase = "spawn"
    BY <1>2, Experiment2Assumption DEF Spawn, Running, Thread, TypeOK, WorkersInRange
  <2>2. \A t \in Thread : StartIdx(t) \in Nat
    BY RangeBounds
  <2> QED
    BY <1>2, <2>1, <2>2 DEF Spawn, Running, TypeOK
<1>3. CASE \E t \in Thread : Insert(t) \/ InsertUser(t)
  <2>1. PICK t \in Thread : Insert(t) \/ InsertUser(t)
    BY <1>3
  <2>2. phase = "spawn" /\ phase' = "spawn" /\ pc[t] # "idle"
    BY <2>1 DEF Insert, InsertUser, Inserting, Running
  <2>3. CASE Advance(t)
    <3>1. pc'[t] # "idle" /\ \A s \in Thread \ {t} : pc'[s] = pc[s]
      BY <2>1, <2>2, <2>3 DEF Insert, InsertUser, TypeOK
    <3>2. /\ next'[t] = next[t] + 1 /\ count'[t] = count[t] + 1
          /\ \A s \in Thread \ {t} : next'[s] = next[s] /\ count'[s] = count[s]
      BY <2>3 DEF Advance, TypeOK
    <3>3. next[t] \in Nat /\ StartIdx(t) \in Nat
      BY RangeBounds DEF TypeOK
    <3> QED
      BY <2>2, <3>1, <3>2, <3>3
  <2>4. CASE ~ Advance(t)
    BY <2>1, <2>2, <2>4 DEF Insert, InsertUser, TypeOK
  <2> QED
    BY <2>3, <2>4
<1>4. CASE \E t \in Thread : Finish(t)
  BY <1>4 DEF Finish, Running, TypeOK
<1>5. CASE Join
  BY <1>5 DEF Join, Running, WorkersInRange
<1>6. CASE Merge
  BY <1>6 DEF Merge
<1>7. CASE Main /\ ~ (StartSpawning \/ Spawn \/ Join \/ Merge)
  BY <1>7 DEF Main, Clear, ClearByUser, Divide, Connect, Teardown
<1>8. CASE Fails \/ Reexecute \/ NewProcess
  BY <1>8 DEF Fails, ClearThrows, ClearByUserThrows, DivideTraps, ConnectThrows,
              SpawnThrows, MergeThrows, MergeCrashes, WorkerThrows, Throw,
              Terminate, Reexecute, NewProcess, Again
<1>9. CASE UNCHANGED vars
  BY <1>9 DEF vars
<1> QED
  BY <1>1, <1>2, <1>3, <1>4, <1>5, <1>6, <1>7, <1>8, <1>9 DEF Next, Main, Worker

\* The ranges of the threads make up the data set.
LEMMA RangesAddUp ==
  ASSUME NumThreads # 0, NEW f,
         \A t \in Thread : f[t] = EndIdx(t) - StartIdx(t)
  PROVE  SumFunctionOnSet(f, Thread) = Total
<1> DEFINE last == NumThreads - 1
           Sum(k) == SumFunctionOnSet(f, 0 .. k - 1)
           P == {k \in Nat : k <= last => Sum(k) = k * RowsPerThread}
<1>1. last \in Thread /\ last \in Nat /\ RowsPerThread \in Nat
  <2>1. last \in Thread /\ last \in Nat
    BY Experiment2Assumption DEF Thread
  <2> QED
    BY <2>1, RangeBounds
<1>2. \A t \in Thread : f[t] \in Nat
  BY RangeBounds
<1>3. ASSUME NEW k \in Nat, k <= last PROVE Sum(k + 1) = Sum(k) + f[k]
  <2>1. k \in Thread /\ 0 .. k - 1 \subseteq Thread
    BY <1>1, <1>3 DEF Thread
  <2>2. IsFiniteSet(0 .. k - 1) /\ k \notin 0 .. k - 1
    BY FS_Interval
  <2>3. (0 .. k - 1) \cup {k} = 0 .. (k + 1) - 1
    OBVIOUS
  <2>4. \A x \in (0 .. k - 1) \cup {k} : f[x] \in Nat
    BY <1>2, <2>1
  <2>5. SumFunctionOnSet(f, (0 .. k - 1) \cup {k}) = Sum(k) + f[k]
    BY <2>2, <2>4, SumAdd
  <2> QED
    BY <2>3, <2>5
<1> HIDE DEF Sum
<1>4. 0 \in P
  <2>1. Sum(0) = 0
    BY SumEmpty DEF Sum
  <2> QED
    BY <1>1, <2>1
<1>5. ASSUME NEW k \in Nat, k \in P PROVE k + 1 \in P
  <2> SUFFICES ASSUME k + 1 <= last PROVE Sum(k + 1) = (k + 1) * RowsPerThread
    OBVIOUS
  <2>1. k \in Thread /\ k # NumThreads - 1
    BY <1>1, Experiment2Assumption DEF Thread
  <2>2. f[k] = RowsPerThread
    BY <1>1, <2>1, RangeBounds DEF EndIdx
  <2>3. Sum(k) = k * RowsPerThread /\ Sum(k + 1) = Sum(k) + f[k]
    BY <1>1, <1>3, <1>5
  <2>4. (k + 1) * RowsPerThread = k * RowsPerThread + RowsPerThread
    BY <1>1
  <2> QED
    BY <2>2, <2>3, <2>4
<1> HIDE DEF P
<1>6. last \in P
  BY <1>1, <1>4, <1>5, NatSetInduction
<1>7. Sum(last) = StartIdx(last)
  BY <1>1, <1>6 DEF P, StartIdx
<1>8. f[last] = Total - StartIdx(last) /\ StartIdx(last) \in Nat /\ Total \in Nat
  BY <1>1, RangeBounds, TotalBounds DEF EndIdx
<1>9. Sum(last + 1) = Total
  BY <1>1, <1>3, <1>7, <1>8
<1>10. 0 .. (last + 1) - 1 = Thread
  BY <1>1, Experiment2Assumption DEF Thread
<1> QED
  BY <1>9, <1>10 DEF Sum

-----------------------------------------------------------------------------
(* The theorems *)

LEMMA InitIInv == Init => IInv
<1> SUFFICES ASSUME Init PROVE IInv
  OBVIOUS
<1> USE DEF Init, EmptyTables, NoUserRows, NoSlots, AllIdle, AllZero
<1>1. TypeOK
  <2>1. TablesTypeOK /\ idx \in 0 .. NumThreads /\ runs \in 1 .. MaxRuns
    BY Experiment2Assumption DEF TablesTypeOK
  <2>2. /\ slot \in [Thread -> {"null", "own", "db"}]
        /\ pc \in [Thread -> {"idle", "insert", "by_user", "done", "threw"}]
        /\ next \in [Thread -> Nat] /\ count \in [Thread -> Nat]
    OBVIOUS
  <2>3. /\ phase \in Phases /\ leaked \in Nat /\ result_ops \in Nat
        /\ result_stats \in {"initial", "merged", "garbage"}
    BY DEF Phases
  <2>4. db_open \in BOOLEAN /\ threw \in BOOLEAN
    OBVIOUS
  <2> QED
    BY <2>1, <2>2, <2>3, <2>4 DEF TypeOK
<1>2. WorkersInRange /\ OrdersByWorkers /\ NoGhosts /\ SlotsEmpty /\ CountsByWorkers
  BY DEF WorkersInRange, OrdersByWorkers, NoGhosts, SlotsEmpty, CountsByWorkers
<1>3. OrphansInHand
  BY NoOrphans DEF OrphansInHand
<1> QED
  BY <1>1, <1>2, <1>3 DEF IInv

LEMMA StepIInv == IInv /\ [Next]_vars => IInv'
BY TypeStep, WorkersStep, OrdersStep, OrphansStep, GhostsStep, SlotsStep, CountsStep DEF IInv

\* The inductive invariant holds in every reachable state.
THEOREM Invariance == Spec => []IInv
BY InitIInv, StepIInv, PTL DEF Spec

\* Every variable keeps its type.
THEOREM TypeCorrect == Spec => []TypeOK
<1>1. IInv => TypeOK
  BY DEF IInv
<1> QED
  BY Invariance, <1>1, PTL

\* No worker ever inserts a row that is already there.
THEOREM InsertsAreFresh == Spec => []FreshInserts
<1>1. IInv => FreshInserts
  BY Fresh DEF IInv, FreshInserts
<1> QED
  BY Invariance, <1>1, PTL

\* The ranges of the threads add up to the data set, whatever their number.
THEOREM EveryRowLoaded == Spec => []LoadedExactly
<1>1. IInv => LoadedExactly
  BY TotalBounds DEF IInv, OrdersByWorkers, LoadedExactly, Target
<1> QED
  BY Invariance, <1>1, PTL

\* The operations that are reported are the inserts that were recorded, and the
\* rows of the table, however the data set is divided.
THEOREM OpsCounted == Spec => []OpsReported
<1>1. IInv => OpsReported
  <2> SUFFICES ASSUME IInv, phase = "teardown"
               PROVE  /\ result_ops = Cardinality(orders)
                      /\ result_ops = SumFunction(count)
    BY DEF OpsReported
  <2>1. orders = Target /\ result_ops = Total /\ NumThreads # 0
    BY DEF IInv, OrdersByWorkers
  <2>2. Cardinality(Target) = Total
    BY TotalBounds, FS_Interval DEF Target
  <2>3. SumFunctionOnSet(count, Thread) = Total
    BY <2>1, RangesAddUp DEF IInv, CountsByWorkers
  <2>4. DOMAIN count = Thread
    BY DEF IInv, TypeOK
  <2> QED
    BY <2>1, <2>2, <2>3, <2>4 DEF SumFunction
<1> QED
  BY Invariance, <1>1, PTL

\* The two Cassandra tables never differ by more than a row for each thread.
THEOREM TablesNearlyInSync == Spec => []OutOfSyncBound
<1>1. IInv => OutOfSyncBound
  BY OrphansBounded DEF IInv, OutOfSyncBound
<1> QED
  BY Invariance, <1>1, PTL

\* A completed execution leaves the two Cassandra tables in sync.
THEOREM TablesInSyncWhenDone == Spec => []UserViewAgrees
<1>1. IInv => UserViewAgrees
  <2> SUFFICES ASSUME IInv, DualTables, phase = "done", NEW k \in UserKey
               PROVE  IF \E r \in orders : KeyOf[r] = k
                        THEN by_user[k] \in orders /\ KeyOf[by_user[k]] = k
                        ELSE by_user[k] = NoRow
    BY DEF UserViewAgrees
  <2>1. by_user[k] # NoRow => by_user[k] \in orders /\ KeyOf[by_user[k]] = k
    BY DEF IInv, NoGhosts
  <2>2. \A r \in orders : by_user[KeyOf[r]] # NoRow
    BY DEF IInv, OrphansInHand, Orphans
  <2> QED
    BY <2>1, <2>2
<1> QED
  BY Invariance, <1>1, PTL

\* Every connection of a thread is released, the shared client of Cassandra
\* never is, and connections leak only after an exception.
THEOREM ConnectionsAccounted == Spec => []ConnectionsReleased
<1>1. IInv => ConnectionsReleased
  BY DEF IInv, SlotsEmpty, ConnectionsReleased, NoSlots
<1> QED
  BY Invariance, <1>1, PTL

-----------------------------------------------------------------------------
(* The threads implement the abstract insert phase *)

LEMMA BulkInit == Init => Bulk!Init
BY DEF Init, EmptyTables, Bulk!Init, LoadStatus

LEMMA BulkStep ==
  ASSUME IInv, [Next]_vars
  PROVE  [Bulk!Next]_(Bulk!vars)
<1> USE DEF tables, main, connections, workers, result, history
<1>1. CASE Clear
  BY <1>1 DEF Clear, TruncateOrders, LoadStatus, Bulk!Next, Bulk!Clear
<1>2. CASE ClearThrows
  <2>1. Bulk!FailClearing
    BY <1>2 DEF ClearThrows, TruncateOrdersInDoubt, TruncateOrders, Throw,
                LoadStatus, Bulk!FailClearing
  <2> QED
    BY <2>1 DEF Bulk!Next
<1>3. CASE ClearByUser \/ Divide \/ Connect \/ StartSpawning \/ Spawn \/ Join
  BY <1>3 DEF ClearByUser, Divide, Connect, StartSpawning, Spawn, Running, Join,
              LoadStatus, Bulk!vars
<1>4. CASE Merge
  <2>1. Bulk!Complete
    BY <1>4 DEF Merge, IInv, OrdersByWorkers, LoadStatus, Bulk!Complete
  <2> QED
    BY <2>1 DEF Bulk!Next
<1>5. CASE Teardown
  BY <1>5 DEF Teardown, LoadStatus, Bulk!vars
<1>6. CASE \E t \in Thread : Insert(t)
  <2>1. PICK t \in Thread : Insert(t)
    BY <1>6
  <2>2. next[t] \in Target /\ next[t] \notin orders
    BY <2>1, InFlight, Fresh DEF Insert, IInv
  <2>3. Bulk!Insert(next[t])
    BY <2>1, <2>2 DEF Insert, Inserting, Running, InsertOrder, LoadStatus, Bulk!Insert
  <2> QED
    BY <2>2, <2>3 DEF Bulk!Next
<1>7. CASE \E t \in Thread : InsertUser(t) \/ Finish(t)
  BY <1>7 DEF InsertUser, Finish, Running, LoadStatus, Bulk!vars
<1>8. CASE \E t \in Thread : WorkerThrows(t)
  <2>1. PICK t \in Thread : WorkerThrows(t)
    BY <1>8
  <2>2. next[t] \in Target
    BY <2>1, InFlight DEF WorkerThrows, IInv
  <2>3. Bulk!FailLoading
    BY <2>1, <2>2 DEF WorkerThrows, Inserting, Running, InsertOrderInDoubt,
                      InsertOrder, Terminate, LoadStatus, Bulk!FailLoading
  <2> QED
    BY <2>3 DEF Bulk!Next
<1>9. CASE \/ ClearByUserThrows \/ DivideTraps \/ ConnectThrows
           \/ SpawnThrows \/ MergeThrows \/ MergeCrashes
  <2>1. Bulk!FailLoading
    BY <1>9 DEF ClearByUserThrows, DivideTraps, ConnectThrows, SpawnThrows,
                Running, MergeThrows, MergeCrashes, Throw, Terminate, LoadStatus,
                Bulk!FailLoading
  <2> QED
    BY <2>1 DEF Bulk!Next
<1>10. CASE Reexecute \/ NewProcess
  <2>1. Bulk!Restart
    BY <1>10 DEF Reexecute, NewProcess, Ended, Again, LoadStatus, Bulk!Restart
  <2> QED
    BY <2>1 DEF Bulk!Next
<1>11. CASE UNCHANGED vars
  BY <1>11 DEF vars, LoadStatus, Bulk!vars
<1> QED
  BY <1>1, <1>2, <1>3, <1>4, <1>5, <1>6, <1>7, <1>8, <1>9, <1>10, <1>11
     DEF Next, Main, Worker, Fails

\* Whatever the interleaving and wherever it fails, an execution clears the
\* table first, adds each target row once, and reports completion only of the
\* complete table.
THEOREM Refinement == Spec => ImplementsBulkLoad
BY BulkInit, BulkStep, Invariance, PTL DEF Spec, Bulk!Spec, ImplementsBulkLoad
=============================================================================
