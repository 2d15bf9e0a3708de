-------------------------- MODULE ExperimentsProofs --------------------------
(***************************************************************************)
(* Theorems about Experiments, for every data set, sample and number of    *)
(* executions, on Mongo and on Cassandra.                                  *)
(***************************************************************************)
EXTENDS Experiments, FiniteSetTheorems, TLAPS

-----------------------------------------------------------------------------
(* Lemmas about the server *)

LEMMA RestartType ==
  ASSUME EngineTypeOK, NEW clean \in BOOLEAN, Restart(clean)
  PROVE  EngineTypeOK' /\ warm' = {} /\ (clean => orders' = orders)
<1>1. CASE clean
  BY <1>1 DEF EngineTypeOK, TablesTypeOK, Restart, tables
<1>2. CASE ~clean
  <2>1. PICK lost \in SUBSET UserKey :
          by_user' = [k \in UserKey |-> IF k \in lost THEN NoRow ELSE by_user[k]]
    BY <1>2 DEF Restart
  <2> QED
    BY <1>2, <2>1 DEF EngineTypeOK, TablesTypeOK, Restart
<1> QED
  BY <1>1, <1>2

LEMMA ClearTableType ==
  ASSUME EngineTypeOK, ClearTable \/ ClearTableThrows
  PROVE  EngineTypeOK'
BY DEF EngineTypeOK, TablesTypeOK, ClearTable, ClearTableThrows, TruncateOrders,
       TruncateByUser, TruncateOrdersInDoubt, TruncateByUserInDoubt, NoUserRows

LEMMA InsertOneType ==
  ASSUME EngineTypeOK, NEW r \in Row, InsertOne(r) \/ InsertOneThrows(r)
  PROVE  EngineTypeOK' /\ (InsertOne(r) => orders' = orders \cup {r})
<1>1. KeyOf[r] \in UserKey
  BY TablesAssumption
<1>2. InsertByUser(r) => by_user' \in [UserKey -> Row \cup {NoRow}]
  BY <1>1 DEF InsertByUser, EngineTypeOK, TablesTypeOK
<1> QED
  BY <1>2 DEF EngineTypeOK, TablesTypeOK, InsertOne, InsertOneThrows, InsertOrder,
              InsertByUserInDoubt, tables

-----------------------------------------------------------------------------
(* Lemmas about the loops *)

\* The data of an object that no step changes.
Fixed == size \in SampleSizes /\ drawn \in [1 .. SampleLength -> Row]

LEMMA Lengths ==
  ASSUME size \in SampleSizes
  PROVE  size \in Nat /\ SampleLength \in Nat
BY TablesAssumption, ExperimentsAssumption DEF SampleLength

\* Experiment 1 inserts every row of the data set.
LEMMA InsertsAll == n = DatasetSize /\ n \in Nat
BY TablesAssumption, ExperimentsAssumption DEF n

\* How many iterations a loop has.
Count(e, p) ==
  IF e = 1 THEN n ELSE IF OverIds(e, p) THEN samples[e] * SampleLength ELSE size

LEMMA ProductNat == \A a, b \in Nat : a * b \in Nat
OBVIOUS

LEMMA IterationsAre ==
  ASSUME size \in SampleSizes, samples \in [Exp -> Nat], NEW e \in Exp, NEW p \in 1 .. 3
  PROVE  /\ Count(e, p) \in Nat
         /\ Iterations(e, p) = 1 .. Count(e, p)
<1>1. samples[e] * SampleLength \in Nat
  BY Lengths, ProductNat
<1> QED
  BY <1>1, Lengths, InsertsAll DEF Count, Iterations, Ids

LEMMA RemainderInRange == \A a \in Nat, b \in Nat \ {0} : a % b \in 0 .. b - 1
OBVIOUS

LEMMA PositiveFactor == \A a, b \in Nat : a * b >= 1 => b >= 1
<1>1. \A a \in Nat : a * 0 = 0
  OBVIOUS
<1> QED
  BY <1>1

\* Every id of a sample is that of a row.
LEMMA IdsAreRows ==
  ASSUME Fixed, samples \in [Exp -> Nat], NEW e \in Exp, NEW j \in Ids(e)
  PROVE  IdAt(j) \in Row
<1>1. SampleLength \in Nat /\ samples[e] \in Nat
  BY Lengths DEF Fixed
<1>2. j \in Nat /\ j >= 1 /\ samples[e] * SampleLength \in Nat /\ j <= samples[e] * SampleLength
  BY <1>1, ProductNat DEF Ids
<1>3. SampleLength \in Nat \ {0}
  BY <1>1, <1>2, PositiveFactor
<1>4. (j - 1) % SampleLength \in 0 .. SampleLength - 1
  BY <1>2, <1>3, RemainderInRange
<1>5. 1 + ((j - 1) % SampleLength) \in 1 .. SampleLength
  BY <1>3, <1>4
<1> QED
  BY <1>5 DEF IdAt, Fixed

-----------------------------------------------------------------------------
(* Types and control *)

\* Which object is in which phase, and what is left of its loop.
ControlInv ==
  /\ (phase = "idle") <=> (exp = 0)
  /\ phase # "pass" => left = {}
  /\ phase = "pass" => pass \in 1 .. Passes[exp] /\ left \subseteq Iterations(exp, pass)
  /\ phase = "clear" => exp = 1
  /\ phase = "sample" => exp \in {3, 4, 6}
  /\ phase \in {"flush", "connect"} => exp = 3
  /\ phase \in {"index_user", "index_date", "drop_user", "drop_date"} => exp \in {4, 5}
  /\ phase = "compact" => exp = 6 /\ pass = 1
  /\ phase = "terminated" => exp = 5
  /\ exp = 6 => Db = "cassandra"

\* `loaded` is given up when experiment 1 begins.
Base == TypeOK /\ ControlInv /\ (exp = 1 => ~loaded)

LEMMA PassesAre ==
  /\ Passes[1] = 1 /\ Passes[3] = 1 /\ Passes[4] = 2 /\ Passes[5] = 3 /\ Passes[6] = 2
  /\ \A e \in Exp : Passes[e] \in 1 .. 3
<1>1. \A e \in Exp : Passes[e] = CASE e \in {1, 3} -> 1 [] e \in {4, 6} -> 2 [] OTHER -> 3
  BY DEF Passes
<1> QED
  BY <1>1 DEF Exp

LEMMA LeftIsNat ==
  ASSUME TypeOK, NEW e \in Exp, NEW p \in 1 .. 3
  PROVE  Iterations(e, p) \subseteq Nat
<1>1. size \in SampleSizes /\ samples \in [Exp -> Nat]
  BY DEF TypeOK
<1>2. Count(e, p) \in Nat /\ Iterations(e, p) = 1 .. Count(e, p)
  BY <1>1, IterationsAre
<1> QED
  BY <1>2

\* What a call does to the server leaves it a server.
LEMMA EngineStep == TypeOK /\ ControlInv /\ [Next]_vars => EngineTypeOK'
<1> SUFFICES ASSUME TypeOK, ControlInv, [Next]_vars
             PROVE  EngineTypeOK'
  OBVIOUS
<1>0. EngineTypeOK
  BY DEF TypeOK
<1>1. CASE UNCHANGED engine
  BY <1>0, <1>1 DEF EngineTypeOK, TablesTypeOK, engine, tables
<1>2. CASE UNCHANGED tables /\ warm' \subseteq warm \cup orders
  BY <1>0, <1>2 DEF EngineTypeOK, TablesTypeOK, tables
<1>3. CASE Clear \/ ClearThrows
  BY <1>0, <1>1, <1>3, ClearTableType DEF Clear, ClearThrows
<1>4. CASE Flush \/ FlushThrows
  BY <1>0, <1>1, <1>4, RestartType DEF Flush, FlushThrows, RestartServer
<1>5. CASE Insert \/ CallThrows
  <2>1. ASSUME NEW j \in left, exp = 1, phase = "pass"
        PROVE  j - 1 \in Row
    <3>1. pass \in 1 .. 3 /\ j \in 1 .. n
      BY <2>1, PassesAre, IterationsAre DEF ControlInv, TypeOK, Exp, Count
    <3> QED
      BY <3>1, InsertsAll, TablesAssumption DEF Row
  <2>2. CASE exp = 1
    BY <1>0, <1>5, <2>1, <2>2, InsertOneType DEF Insert, CallThrows, InPass
  <2>3. CASE exp # 1
    BY <1>2, <1>5, <2>3 DEF Insert, CallThrows, InPass
  <2> QED
    BY <2>2, <2>3
<1>6. CASE ReadById \/ ReadByUser \/ ReadRange
  BY <1>1, <1>2, <1>6 DEF ReadById, ReadByUser, ReadRange, FindByPrimaryKey
<1>7. CASE Compact \/ CompactThrows
  BY <1>1, <1>2, <1>7 DEF Compact, CompactThrows, Rewrite
<1>8. CASE \/ \E e \in Exp : Execute(e)
           \/ Skip \/ Sample \/ Connect \/ ConnectThrows \/ CreateUserIndex
           \/ CreateDateIndex \/ CreateThrows \/ Start \/ DivideTraps \/ NewProcess
           \/ NextPass \/ EndFirstPassOf6 \/ EndRun \/ DropUserIndex \/ DropDateIndex
           \/ DropFails \/ UNCHANGED vars
  BY <1>1, <1>8
     DEF Execute, Skip, Sample, Connect, ConnectThrows, CreateUserIndex, CreateDateIndex,
         CreateThrows, Start, DivideTraps, NewProcess, NextPass, EndFirstPassOf6, EndRun,
         DropUserIndex, DropDateIndex, DropFails, vars
<1> QED
  BY <1>3, <1>4, <1>5, <1>6, <1>7, <1>8 DEF Next, Step, Fails

\* What no step of an execution changes, and what only a new process does.
LEMMA ObjectsStep ==
  TypeOK /\ ControlInv /\ [Next]_vars =>
    /\ Fixed' /\ size' = size /\ drawn' = drawn
    /\ samples' \in [Exp -> Nat]
    /\ recorded' \in [Exp -> [1 .. 3 -> Nat]]
    /\ {before', after'} \subseteq 0 .. MaxExecutions
    /\ cut' \subseteq Exp
    /\ index' \subseteq Field
    /\ executions' \in 0 .. MaxExecutions
    /\ {loaded', failed'} \subseteq BOOLEAN
<1> SUFFICES ASSUME TypeOK, ControlInv, [Next]_vars
             PROVE  /\ size' = size /\ drawn' = drawn
                    /\ samples' \in [Exp -> Nat]
                    /\ recorded' \in [Exp -> [1 .. 3 -> Nat]]
                    /\ {before', after'} \subseteq 0 .. MaxExecutions
                    /\ cut' \subseteq Exp
                    /\ index' \subseteq Field
                    /\ executions' \in 0 .. MaxExecutions
                    /\ {loaded', failed'} \subseteq BOOLEAN
  BY DEF Fixed, SampleLength, TypeOK
<1> USE DEF TypeOK
<1>0. /\ samples \in [Exp -> Nat] /\ recorded \in [Exp -> [1 .. 3 -> Nat]]
      /\ loaded \in BOOLEAN /\ failed \in BOOLEAN
      /\ before \in 0 .. MaxExecutions /\ after \in 0 .. MaxExecutions
      /\ executions \in 0 .. MaxExecutions /\ executions \in Nat /\ MaxExecutions \in Nat
  BY ExperimentsAssumption
<1>1. CASE \/ \E e \in Exp : Execute(e)
           \/ Skip
  <2>1. executions' \in 0 .. MaxExecutions
    BY <1>0, <1>1 DEF Execute, Skip
  <2>2. loaded' \in BOOLEAN /\ failed' \in BOOLEAN
    BY <1>0, <1>1 DEF Execute, Skip, observed
  <2> QED
    BY <1>1, <2>1, <2>2 DEF Execute, Skip, objects
<1>2. CASE Clear \/ ClearThrows
  BY <1>2 DEF Clear, ClearThrows, Throw, Leave, Return, Proceed, objects, ControlInv, Exp
<1>3. CASE Sample
  <2>1. exp \in Exp /\ samples' = [samples EXCEPT ![exp] = @ + 1]
    BY <1>3 DEF Sample, ControlInv, Exp
  <2>2. samples' \in [Exp -> Nat]
    BY <1>0, <2>1
  <2>3. before' \in 0 .. MaxExecutions /\ after' \in 0 .. MaxExecutions
    BY <1>0, <1>3 DEF Sample, Counts
  <2>4. loaded' \in BOOLEAN /\ failed' \in BOOLEAN
    BY <1>0, <1>3 DEF Sample, observed
  <2> QED
    BY <1>3, <2>2, <2>3, <2>4 DEF Sample, Proceed
<1>4. CASE Flush \/ FlushThrows
  BY <1>4 DEF Flush, FlushThrows, RestartServer, Leave, Return, Proceed, objects, ControlInv, Exp
<1>5. CASE Connect \/ ConnectThrows
  BY <1>5 DEF Connect, ConnectThrows, Throw, Leave, Return, Proceed, objects, observed, ControlInv, Exp
<1>6. CASE CreateUserIndex \/ CreateDateIndex \/ CreateThrows
  <2>1. Creating("user_id") \subseteq Field /\ Creating("created_at") \subseteq Field
    BY DEF Creating, Field
  <2> QED
    BY <1>6, <2>1 DEF CreateUserIndex, CreateDateIndex, CreateThrows, Throw, Leave, Return,
                      Proceed, objects, observed, ControlInv, Exp
<1>7. CASE Insert \/ ReadById \/ ReadByUser \/ ReadRange
  <2>1. exp \in Exp /\ pass \in 1 .. 3
    BY <1>7 DEF Insert, ReadById, ReadByUser, ReadRange, InPass, ControlInv
  <2>2. PICK j : Done(j)
    BY <1>7 DEF Insert, ReadById, ReadByUser, ReadRange
  <2>3. recorded' = [recorded EXCEPT ![exp][pass] = @ + 1]
    BY <2>2 DEF Done
  <2>4. recorded[exp] \in [1 .. 3 -> Nat] /\ recorded[exp][pass] + 1 \in Nat
    BY <1>0, <2>1
  <2>5. [recorded[exp] EXCEPT ![pass] = recorded[exp][pass] + 1] \in [1 .. 3 -> Nat]
    BY <2>1, <2>4
  <2>6. recorded' \in [Exp -> [1 .. 3 -> Nat]]
    BY <1>0, <2>1, <2>3, <2>5
  <2> QED
    BY <2>2, <2>6 DEF Done, observed
<1>8. CASE CallThrows \/ CompactThrows
  BY <1>8 DEF CallThrows, CompactThrows, InPass, Throw, Leave, Return, ControlInv, Exp
<1>9. CASE NewProcess
  <2>1. samples' \in [Exp -> Nat] /\ recorded' \in [Exp -> [1 .. 3 -> Nat]]
    BY <1>9 DEF NewProcess
  <2>2. {before', after'} \subseteq 0 .. MaxExecutions /\ cut' \subseteq Exp
    BY <1>0, <1>9 DEF NewProcess
  <2> QED
    BY <1>9, <2>1, <2>2 DEF NewProcess, Return
<1>10. CASE Compact
  <2>1. before' \in 0 .. MaxExecutions /\ after' \in 0 .. MaxExecutions
    BY <1>0, <1>10 DEF Compact, Counts
  <2> QED
    BY <1>10, <2>1 DEF Compact, StartPass, observed
<1>11. CASE Start \/ DivideTraps \/ NextPass \/ EndFirstPassOf6 \/ UNCHANGED vars
  BY <1>11 DEF Start, DivideTraps, NextPass, EndFirstPassOf6, StartPass, Proceed, vars,
               control, objects, observed
<1>12. CASE EndRun \/ DropUserIndex \/ DropDateIndex \/ DropFails
  BY <1>12 DEF EndRun, DropUserIndex, DropDateIndex, DropFails, Return, Proceed, objects, observed
<1> QED
  BY <1>1, <1>2, <1>3, <1>4, <1>5, <1>6, <1>7, <1>8, <1>9, <1>10, <1>11, <1>12
     DEF Next, Step, Fails

\* The ids of a loop stay the same while nothing is sampled.
LEMMA IterationsKeep ==
  ASSUME UNCHANGED <<samples, size>>
  PROVE  Iterations(exp, pass)' = Iterations(exp', pass')
BY DEF Iterations, Ids, SampleLength, OverIds

LEMMA ControlStep ==
  TypeOK /\ ControlInv /\ [Next]_vars =>
    /\ ControlInv'
    /\ exp' \in Exp \cup {0} /\ pass' \in 1 .. 3 /\ left' \subseteq Nat
    /\ phase' \in {"idle", "clear", "sample", "flush", "connect", "index_user",
                   "index_date", "start", "pass", "compact", "drop_user",
                   "drop_date", "terminated"}
<1> DEFINE Types ==
      /\ exp' \in Exp \cup {0} /\ pass' \in 1 .. 3 /\ left' \subseteq Nat
      /\ phase' \in {"idle", "clear", "sample", "flush", "connect", "index_user",
                     "index_date", "start", "pass", "compact", "drop_user",
                     "drop_date", "terminated"}
<1> SUFFICES ASSUME TypeOK, ControlInv, [Next]_vars
             PROVE  ControlInv' /\ Types
  OBVIOUS
<1>0. /\ exp \in Exp \cup {0} /\ pass \in 1 .. 3 /\ left \subseteq Nat
      /\ phase \in {"idle", "clear", "sample", "flush", "connect", "index_user",
                    "index_date", "start", "pass", "compact", "drop_user",
                    "drop_date", "terminated"}
  BY DEF TypeOK
\* Between the phases of one execution, outside the loops.
<1>a. ASSUME NEW to, Proceed(to), phase # "idle", to # "pass", left = {},
             to \in {"flush", "connect"} => exp = 3,
             to \in {"index_user", "index_date", "drop_user", "drop_date"} => exp \in {4, 5},
             to = "compact" => exp = 6 /\ pass = 1,
             to = "terminated" => exp = 5,
             to \in {"flush", "connect", "index_user", "index_date", "start", "compact",
                     "drop_user", "drop_date", "terminated"}
      PROVE  ControlInv' /\ Types
  BY <1>0, <1>a DEF Proceed, ControlInv
<1>b. ASSUME Return
      PROVE  ControlInv' /\ Types
  BY <1>0, <1>b DEF Return, ControlInv
<1>c. ASSUME NEW p \in 1 .. 3, StartPass(p), exp \in Exp, p <= Passes[exp],
             UNCHANGED <<samples, size>>, exp = 6 => Db = "cassandra"
      PROVE  ControlInv' /\ Types
  <2>1. Iterations(exp, p) \subseteq Nat
    BY <1>c, LeftIsNat
  <2>2. p \in 1 .. Passes[exp]
    BY <1>c, PassesAre
  <2>3. exp' = exp /\ pass' = p /\ left' = Iterations(exp, p) /\ phase' = "pass"
    BY <1>c DEF StartPass
  <2>4. Iterations(exp, pass)' = left'
    BY <1>c, <2>3, IterationsKeep
  <2> QED
    BY <1>0, <1>c, <2>1, <2>2, <2>3, <2>4 DEF ControlInv, Exp
<1>d. ASSUME UNCHANGED <<exp, phase, pass, samples, size>>, left' \subseteq left
      PROVE  ControlInv' /\ Types
  <2>1. Iterations(exp, pass)' = Iterations(exp, pass)
    BY <1>d, IterationsKeep
  <2> QED
    BY <1>0, <1>d, <2>1 DEF ControlInv
<1>1. ASSUME NEW e \in Exp, Execute(e)
      PROVE  ControlInv' /\ Types
  BY <1>0, <1>1, PassesAre DEF Execute, ControlInv, Exp
<1>2. CASE Skip
  BY <1>2, <1>d DEF Skip, objects
<1>3. CASE Clear
  BY <1>3, <1>a DEF Clear, ControlInv
<1>4. CASE ClearThrows \/ FlushThrows \/ ConnectThrows \/ CreateThrows
           \/ CallThrows \/ CompactThrows \/ NewProcess \/ DropDateIndex
  BY <1>4, <1>b DEF ClearThrows, FlushThrows, ConnectThrows, CreateThrows, CallThrows,
                    CompactThrows, NewProcess, DropDateIndex, Throw, Leave
<1>5. CASE Sample
  BY <1>5, <1>a DEF Sample, ControlInv
<1>6. CASE Flush \/ Connect
  BY <1>6, <1>a DEF Flush, Connect, ControlInv
<1>7. CASE CreateUserIndex \/ CreateDateIndex
  BY <1>7, <1>a DEF CreateUserIndex, CreateDateIndex, ControlInv
<1>8. CASE Start
  BY <1>0, <1>8, <1>c, PassesAre DEF Start, ControlInv, objects
<1>9. CASE Insert \/ ReadById \/ ReadByUser \/ ReadRange
  <2>1. PICK j : Done(j)
    BY <1>9 DEF Insert, ReadById, ReadByUser, ReadRange
  <2> QED
    BY <2>1, <1>d DEF Done
<1>10. CASE DivideTraps
  BY <1>10, <1>a DEF DivideTraps
<1>11. CASE NextPass
  <2>1. exp \in Exp /\ pass \in 1 .. Passes[exp] /\ pass # Passes[exp]
    BY <1>0, <1>11 DEF NextPass, LastPass, ControlInv
  <2>2. pass + 1 \in 1 .. 3 /\ pass + 1 <= Passes[exp]
    BY <2>1, PassesAre
  <2> QED
    BY <1>11, <1>c, <2>1, <2>2 DEF NextPass, objects, ControlInv
<1>12. CASE EndFirstPassOf6
  BY <1>12, <1>a DEF EndFirstPassOf6, ControlInv
<1>13. CASE Compact
  BY <1>0, <1>13, <1>c, PassesAre DEF Compact, ControlInv, Exp
<1>14. CASE EndRun
  BY <1>14, <1>a, <1>b DEF EndRun
<1>15. CASE DropUserIndex \/ DropFails
  BY <1>15, <1>a, <1>b DEF DropUserIndex, DropFails, ControlInv
<1>16. CASE UNCHANGED vars
  BY <1>16, <1>d DEF vars, control, objects
<1> QED
  BY <1>1, <1>2, <1>3, <1>4, <1>5, <1>6, <1>7, <1>8, <1>9, <1>10, <1>11, <1>12, <1>13,
     <1>14, <1>15, <1>16 DEF Next, Step, Fails

LEMMA BaseStarts == Init => Base
<1> SUFFICES ASSUME Init
             PROVE  Base
  OBVIOUS
<1>1. EngineTypeOK
  BY DEF Init, EmptyTables, NoUserRows, EngineTypeOK, TablesTypeOK
<1>2. /\ samples \in [Exp -> Nat] /\ recorded \in [Exp -> [1 .. 3 -> Nat]]
      /\ loaded \in BOOLEAN /\ failed \in BOOLEAN
  BY DEF Init
<1>3. 0 \in 0 .. MaxExecutions
  BY ExperimentsAssumption
<1>4. TypeOK
  BY <1>1, <1>2, <1>3 DEF Init, TypeOK
<1>5. ControlInv
  BY DEF Init, ControlInv
<1> QED
  BY <1>4, <1>5 DEF Init, Base

LEMMA BasePreserved == Base /\ [Next]_vars => Base'
<1> SUFFICES ASSUME Base, [Next]_vars
             PROVE  Base'
  OBVIOUS
<1>1. TypeOK /\ ControlInv
  BY DEF Base
<1>2. TypeOK' /\ ControlInv'
  <2>1. size' \in SampleSizes /\ drawn' \in [1 .. SampleLength' -> Row]
    BY <1>1, ObjectsStep DEF Fixed
  <2> QED
    BY <1>1, <2>1, EngineStep, ObjectsStep, ControlStep DEF TypeOK
<1>3. exp' = 1 => ~loaded'
  <2>a. ASSUME exp' \in {exp, 0}, loaded' = loaded
        PROVE  exp' = 1 => ~loaded'
    BY <2>a DEF Base
  <2>1. CASE \E e \in Exp : Execute(e)
    BY <2>1 DEF Execute
  <2>2. CASE Flush \/ FlushThrows
    BY <1>1, <2>2 DEF Flush, FlushThrows, Leave, Return, Proceed, ControlInv
  <2>3. CASE EndRun
    BY <2>3 DEF EndRun, Return, Proceed
  <2>4. CASE Insert \/ ReadById \/ ReadByUser \/ ReadRange
    <3>1. PICK j : Done(j)
      BY <2>4 DEF Insert, ReadById, ReadByUser, ReadRange
    <3> QED
      BY <2>a, <3>1 DEF Done, observed
  <2>5. CASE \/ ClearThrows \/ ConnectThrows \/ CreateThrows \/ CallThrows \/ CompactThrows
             \/ NewProcess \/ DropDateIndex \/ DropFails
    BY <2>a, <2>5 DEF ClearThrows, ConnectThrows, CreateThrows, CallThrows, CompactThrows,
                      NewProcess, DropDateIndex, DropFails, Throw, Leave, Return, Proceed, observed
  <2>6. CASE \/ Skip \/ Clear \/ Sample \/ Connect \/ CreateUserIndex \/ CreateDateIndex
             \/ DivideTraps \/ EndFirstPassOf6 \/ DropUserIndex \/ UNCHANGED vars
    BY <2>a, <2>6 DEF Skip, Clear, Sample, Connect, CreateUserIndex, CreateDateIndex, DivideTraps,
                      EndFirstPassOf6, DropUserIndex, Proceed, vars, control, observed
  <2>7. CASE Start \/ NextPass \/ Compact
    BY <2>a, <2>7 DEF Start, NextPass, Compact, StartPass, observed
  <2> QED
    BY <2>1, <2>2, <2>3, <2>4, <2>5, <2>6, <2>7 DEF Next, Step, Fails
<1> QED
  BY <1>2, <1>3 DEF Base

THEOREM BaseInvariance == Spec => []Base
BY BaseStarts, BasePreserved, PTL DEF Spec

\* Every variable of the experiments keeps its type, whatever throws.
THEOREM TypeCorrect == Spec => []TypeOK
<1>1. Base => TypeOK
  BY DEF Base
<1> QED
  BY BaseInvariance, <1>1, PTL

-----------------------------------------------------------------------------
(* The secondary indexes *)

\* While no call has failed, only experiments 4 and 5 keep an index.
IndexInv ==
  /\ Db = "cassandra" => index = {}
  /\ phase \in {"start", "pass"} /\ exp = 1 => index = {}
  /\ phase = "index_date" /\ Db = "mongo" => "user_id" \in index
  /\ phase \in {"start", "pass"} /\ exp \in {4, 5} /\ Db = "mongo" => index = Field
  /\ ~failed /\ index # {} => exp \in {4, 5}
  /\ ~failed /\ phase = "drop_date" => index \subseteq {"created_at"}

LEMMA Databases == Db \in {"mongo", "cassandra"}
BY ExperimentsAssumption

LEMMA IndexPreserved == Base /\ IndexInv /\ [Next]_vars => IndexInv'
<1> SUFFICES ASSUME Base, IndexInv, [Next]_vars
             PROVE  IndexInv'
  OBVIOUS
<1>0. ControlInv /\ index \subseteq Field
  BY DEF Base, TypeOK
<1> USE DEF IndexInv
\* A step that leaves the indexes alone and does not go where they matter.
<1>a. ASSUME UNCHANGED <<index, failed>>, exp' \in {exp, 0}, exp' = 0 => failed \/ index = {},
             phase' \in {"start", "pass"} => phase \in {"start", "pass"} \/ exp \notin {1, 4, 5},
             phase' \notin {"index_date", "drop_date"}
      PROVE  IndexInv'
  BY <1>a
<1>b. ASSUME failed' = TRUE, exp' = 0, phase' = "idle", index' = {} \/ Db = "mongo"
      PROVE  IndexInv'
  BY <1>b
<1>1. CASE \E e \in Exp : Execute(e)
  BY <1>0, <1>1 DEF Execute, ControlInv
<1>2. CASE Skip \/ UNCHANGED vars
  BY <1>2 DEF Skip, vars, control, observed
<1>3. CASE Clear
  BY <1>0, <1>3 DEF Clear, Proceed, ControlInv
<1>4. CASE ClearThrows \/ FlushThrows \/ ConnectThrows \/ CreateThrows \/ CallThrows \/ CompactThrows
  BY <1>4, <1>b, Databases DEF ClearThrows, FlushThrows, ConnectThrows, CreateThrows, CallThrows,
                    CompactThrows, Throw, Leave, Return
<1>5. CASE Sample \/ Flush \/ Connect
  <2>1. exp' = exp /\ exp \in {3, 4, 6} /\ UNCHANGED <<index, failed>>
    BY <1>0, <1>5 DEF Sample, Flush, Connect, Proceed, observed, ControlInv
  <2>2. phase' \in {"flush", "index_user", "connect", "start"}
    BY <1>5 DEF Sample, Flush, Connect, Proceed
  <2>3. phase' = "start" => exp \in {3, 6}
    BY <1>0, <1>5 DEF Sample, Flush, Connect, Proceed, ControlInv
  <2> QED
    BY <1>a, <2>1, <2>2, <2>3
<1>6. CASE CreateUserIndex
  BY <1>0, <1>6, Databases DEF CreateUserIndex, Creating, Proceed, observed, ControlInv
<1>7. CASE CreateDateIndex
  <2>1. exp' = exp /\ exp \in {4, 5} /\ phase' = "start" /\ failed' = failed
    BY <1>0, <1>7 DEF CreateDateIndex, Proceed, observed, ControlInv
  <2>2. Db = "mongo" => index' = Field
    BY <1>0, <1>7 DEF CreateDateIndex, Creating, Field
  <2>3. Db = "cassandra" => index' = {}
    BY <1>7 DEF CreateDateIndex, Creating
  <2> QED
    BY <2>1, <2>2, <2>3, Databases
<1>8. CASE Start \/ NextPass
  BY <1>8, <1>a, <1>0 DEF Start, NextPass, StartPass, observed, ControlInv
<1>9. CASE Insert \/ ReadById \/ ReadByUser \/ ReadRange
  <2>1. PICK j : Done(j)
    BY <1>9 DEF Insert, ReadById, ReadByUser, ReadRange
  <2>2. phase = "pass"
    BY <1>9 DEF Insert, ReadById, ReadByUser, ReadRange, InPass
  <2> QED
    BY <1>0, <1>a, <2>1, <2>2 DEF Done, observed, ControlInv
<1>10. CASE DivideTraps \/ EndFirstPassOf6
  BY <1>0, <1>10, <1>a DEF DivideTraps, EndFirstPassOf6, Proceed, observed, ControlInv
<1>11. CASE Compact
  BY <1>0, <1>11, <1>a DEF Compact, StartPass, observed, ControlInv
<1>12. CASE EndRun
  BY <1>0, <1>12 DEF EndRun, Return, Proceed, ControlInv
<1>13. CASE DropUserIndex
  BY <1>0, <1>13 DEF DropUserIndex, Proceed, observed, ControlInv, Field
<1>14. CASE DropDateIndex
  BY <1>0, <1>14 DEF DropDateIndex, Return, observed, ControlInv
<1>15. CASE DropFails
  BY <1>0, <1>15 DEF DropFails, Return, Proceed, ControlInv
<1>16. CASE NewProcess
  BY <1>0, <1>16, <1>b, Databases DEF NewProcess, Return
<1> QED
  BY <1>1, <1>2, <1>3, <1>4, <1>5, <1>6, <1>7, <1>8, <1>9, <1>10, <1>11, <1>12, <1>13,
     <1>14, <1>15, <1>16 DEF Next, Step, Fails

THEOREM IndexInvariance == Spec => [](Base /\ IndexInv)
<1>1. Init => IndexInv
  BY DEF Init, IndexInv
<1> QED
  BY <1>1, BaseStarts, BasePreserved, IndexPreserved, PTL DEF Spec

\* Inserts run without an index, reads by user and by date with both, whatever
\* an earlier execution left behind.
THEOREM IndexMeant == Spec => []IndexedAsMeant
<1>1. Base /\ IndexInv => IndexedAsMeant
  BY DEF IndexInv, IndexedAsMeant
<1> QED
  BY IndexInvariance, <1>1, PTL

\* An index outlives its execution only after a failed call.
THEOREM IndexLeaks == Spec => []IndexLeaksOnlyByFailure
<1>1. Base /\ IndexInv => IndexLeaksOnlyByFailure
  BY DEF Base, ControlInv, IndexInv, IndexLeaksOnlyByFailure
<1> QED
  BY IndexInvariance, <1>1, PTL

-----------------------------------------------------------------------------
(* The rows of experiment 1 *)

\* While experiment 1 inserts, the rows of the iterations it has done are in
\* the table; once it has returned, every row of the data set is.
LoadInv ==
  /\ phase = "pass" /\ exp = 1 => \A j \in (1 .. n) \ left : j - 1 \in orders
  /\ loaded => Row \subseteq orders

\* What a step may do to the rows of the table.
LEMMA OrdersStep ==
  Base /\ [Next]_vars =>
    \/ orders \subseteq orders'
    \/ exp = 1 /\ phase' # "pass"
    \/ exp = 3 /\ ~loaded'
<1> SUFFICES ASSUME Base, [Next]_vars
             PROVE  \/ orders \subseteq orders'
                    \/ exp = 1 /\ phase' # "pass"
                    \/ exp = 3 /\ ~loaded'
  OBVIOUS
<1>0. ControlInv /\ EngineTypeOK
  BY DEF Base, TypeOK
<1>1. CASE UNCHANGED orders
  BY <1>1
<1>2. CASE Clear \/ ClearThrows
  BY <1>0, <1>2 DEF Clear, ClearThrows, Throw, Leave, Return, Proceed, ControlInv
<1>3. CASE Flush \/ FlushThrows
  <2>1. exp = 3
    BY <1>0, <1>3 DEF Flush, FlushThrows, ControlInv
  <2>2. ASSUME NEW clean \in BOOLEAN, RestartServer(clean)
        PROVE  ~loaded' \/ UNCHANGED orders
    BY <1>0, <2>2, RestartType DEF RestartServer
  <2> QED
    BY <1>3, <2>1, <2>2 DEF Flush, FlushThrows, engine, tables
<1>4. CASE Insert
  BY <1>4 DEF Insert, InsertOne, InsertOrder
<1>5. CASE CallThrows
  BY <1>5 DEF CallThrows, InsertOneThrows, InsertOrder, tables
<1>6. CASE ReadById \/ ReadByUser \/ ReadRange
  BY <1>6 DEF ReadById, ReadByUser, ReadRange, FindByPrimaryKey, engine, tables
<1>7. CASE \/ \E e \in Exp : Execute(e)
           \/ Skip \/ Sample \/ Connect \/ ConnectThrows \/ CreateUserIndex
           \/ CreateDateIndex \/ CreateThrows \/ Start \/ DivideTraps \/ NewProcess
           \/ NextPass \/ EndFirstPassOf6 \/ Compact \/ CompactThrows \/ EndRun
           \/ DropUserIndex \/ DropDateIndex \/ DropFails \/ UNCHANGED vars
  BY <1>7
     DEF Execute, Skip, Sample, Connect, ConnectThrows, CreateUserIndex, CreateDateIndex,
         CreateThrows, Start, DivideTraps, NewProcess, NextPass, EndFirstPassOf6, Compact, Rewrite,
         CompactThrows, EndRun, DropUserIndex, DropDateIndex, DropFails, vars, engine, tables
<1> QED
  BY <1>2, <1>3, <1>4, <1>5, <1>6, <1>7 DEF Next, Step, Fails

\* Where `loaded` comes from.
LEMMA LoadedStep ==
  Base /\ [Next]_vars => (loaded' => loaded \/ (EndRun /\ exp = 1))
<1> SUFFICES ASSUME Base, [Next]_vars, loaded'
             PROVE  loaded \/ (EndRun /\ exp = 1)
  OBVIOUS
<1>1. CASE UNCHANGED loaded
  BY <1>1
<1>2. CASE \/ \E e \in Exp : Execute(e)
           \/ Flush \/ FlushThrows
  BY <1>2 DEF Execute, Flush, FlushThrows, RestartServer
<1>3. CASE EndRun
  BY <1>3 DEF EndRun
<1>4. CASE Insert \/ ReadById \/ ReadByUser \/ ReadRange
  BY <1>4 DEF Insert, ReadById, ReadByUser, ReadRange, Done, observed
<1>5. CASE \/ Skip \/ Clear \/ ClearThrows \/ Sample \/ Connect \/ ConnectThrows
           \/ CreateUserIndex \/ CreateDateIndex \/ CreateThrows \/ Start \/ CallThrows
           \/ DivideTraps \/ NewProcess \/ NextPass \/ EndFirstPassOf6 \/ Compact
           \/ CompactThrows \/ DropUserIndex \/ DropDateIndex \/ DropFails \/ UNCHANGED vars
  BY <1>1, <1>5
     DEF Skip, Clear, ClearThrows, Sample, Connect, ConnectThrows, CreateUserIndex,
         CreateDateIndex, CreateThrows, Start, CallThrows, DivideTraps, NewProcess, NextPass,
         EndFirstPassOf6, Compact, CompactThrows, DropUserIndex, DropDateIndex, DropFails,
         Throw, vars, observed
<1> QED
  BY <1>2, <1>3, <1>4, <1>5 DEF Next, Step, Fails

\* What a step does to the loop: it begins one, goes on with it or does not.
LEMMA PassStep ==
  Base /\ [Next]_vars /\ phase' = "pass" =>
    \/ \E p \in 1 .. 3 :
         /\ StartPass(p) /\ samples' = samples
         /\ \/ phase = "start" /\ p = 1
            \/ phase = "pass" /\ left = {} /\ exp # 6 /\ p = pass + 1
            \/ phase = "compact" /\ p = 2
    \/ Insert \/ ReadById \/ ReadByUser \/ ReadRange
    \/ phase = "pass" /\ UNCHANGED <<exp, pass, left, objects>>
<1> SUFFICES ASSUME Base, [Next]_vars, phase' = "pass"
             PROVE  \/ \E p \in 1 .. 3 :
                         /\ StartPass(p) /\ samples' = samples
                         /\ \/ phase = "start" /\ p = 1
                            \/ phase = "pass" /\ left = {} /\ exp # 6 /\ p = pass + 1
                            \/ phase = "compact" /\ p = 2
                    \/ Insert \/ ReadById \/ ReadByUser \/ ReadRange
                    \/ phase = "pass" /\ UNCHANGED <<exp, pass, left, objects>>
  OBVIOUS
<1>0. TypeOK /\ ControlInv
  BY DEF Base
<1>1. CASE Start
  BY <1>1 DEF Start, objects
<1>2. CASE NextPass
  <2>1. pass \in 1 .. Passes[exp] /\ exp \in Exp /\ pass # Passes[exp]
    BY <1>0, <1>2 DEF NextPass, LastPass, ControlInv, TypeOK
  <2>2. pass + 1 \in 1 .. 3
    BY <2>1, PassesAre
  <2> QED
    BY <1>2, <2>2 DEF NextPass, objects
<1>3. CASE Compact
  BY <1>3 DEF Compact
<1>4. CASE Insert \/ ReadById \/ ReadByUser \/ ReadRange
  BY <1>4
<1>5. CASE UNCHANGED vars
  BY <1>5 DEF vars, control
<1>6. CASE Skip
  BY <1>6 DEF Skip
<1>7. CASE \E e \in Exp : Execute(e)
  BY <1>7 DEF Execute
<1>8. CASE \/ Clear \/ Sample \/ Flush \/ Connect \/ CreateUserIndex \/ CreateDateIndex
           \/ DivideTraps \/ EndFirstPassOf6 \/ EndRun \/ DropUserIndex \/ DropDateIndex
  BY <1>8 DEF Clear, Sample, Flush, Connect, CreateUserIndex, CreateDateIndex, DivideTraps,
              EndFirstPassOf6, EndRun, DropUserIndex, DropDateIndex, Return, Proceed
<1>9. CASE Fails \/ NewProcess
  BY <1>9 DEF Fails, ClearThrows, FlushThrows, ConnectThrows, CreateThrows, CallThrows,
              CompactThrows, DropFails, NewProcess, Throw, Leave, Return, Proceed
<1> QED
  BY <1>1, <1>2, <1>3, <1>4, <1>5, <1>6, <1>7, <1>8, <1>9 DEF Next, Step

LEMMA LoadPreserved == Base /\ LoadInv /\ [Next]_vars => LoadInv'
<1> SUFFICES ASSUME Base, LoadInv, [Next]_vars
             PROVE  LoadInv'
  OBVIOUS
<1>0. TypeOK /\ ControlInv /\ Base'
  BY BasePreserved DEF Base
<1>1. ASSUME loaded'
      PROVE  Row \subseteq orders'
  <2>1. CASE loaded
    <3>1. exp # 1
      BY <2>1 DEF Base
    <3> QED
      BY <1>1, <2>1, <3>1, OrdersStep DEF LoadInv
  <2>2. CASE EndRun /\ exp = 1
    <3>1. \A j \in 1 .. n : j - 1 \in orders
      BY <2>2 DEF EndRun, LoadInv
    <3>2. \A r \in Row : r + 1 \in 1 .. n /\ (r + 1) - 1 = r
      BY InsertsAll, TablesAssumption DEF Row
    <3>3. Row \subseteq orders
      BY <3>1, <3>2
    <3> QED
      BY <2>2, <3>3 DEF EndRun, engine, tables
  <2> QED
    BY <1>1, <2>1, <2>2, LoadedStep
<1>2. ASSUME phase' = "pass", exp' = 1, NEW j \in (1 .. n) \ left'
      PROVE  j - 1 \in orders'
  <2>1. n' = n /\ n \in Nat
    BY InsertsAll DEF n
  <2>2. CASE \E p \in 1 .. 3 : StartPass(p)
    <3>1. left' = 1 .. n
      BY <1>2, <2>2 DEF StartPass, Iterations
    <3> QED
      BY <1>2, <3>1
  <2>3. CASE phase = "pass" /\ UNCHANGED <<exp, pass, left, objects>>
    BY <1>2, <2>3, OrdersStep DEF LoadInv
  <2>4. CASE Insert \/ ReadById \/ ReadByUser \/ ReadRange
    <3>1. exp = 1 /\ phase = "pass"
      BY <1>2, <2>4 DEF Insert, ReadById, ReadByUser, ReadRange, InPass, Done
    <3>2. PICK d : InsertOne(d - 1) /\ Done(d)
      BY <2>4, <3>1 DEF Insert, ReadById, ReadByUser, ReadRange, OverIds
    <3> QED
      BY <1>2, <3>1, <3>2 DEF InsertOne, InsertOrder, Done, LoadInv
  <2> QED
    BY <1>2, <2>2, <2>3, <2>4, PassStep
<1> QED
  BY <1>1, <1>2, InsertsAll DEF LoadInv, n

THEOREM LoadInvariance == Spec => [](Base /\ LoadInv)
<1>1. Init => LoadInv
  BY DEF Init, LoadInv
<1> QED
  BY <1>1, BaseStarts, BasePreserved, LoadPreserved, PTL DEF Spec

\* Once experiment 1 has returned, every id that a later experiment reads is
\* that of a row of the table, unless a restart has killed the server.
THEOREM SampledRows == Spec => []SampledRowsArePresent
<1>1. ASSUME Base, LoadInv, phase = "pass", OverIds(exp, pass), loaded, NEW j \in left
      PROVE  IdAt(j) \in orders
  <2>1. exp \in Exp /\ exp # 1 /\ TypeOK /\ left \subseteq Iterations(exp, pass)
    BY <1>1 DEF Base, ControlInv, TypeOK
  <2>2. j \in Ids(exp)
    BY <1>1, <2>1 DEF Iterations
  <2>3. IdAt(j) \in Row
    BY <2>1, <2>2, IdsAreRows DEF TypeOK, Fixed
  <2> QED
    BY <1>1, <2>3 DEF LoadInv
<1>2. Base /\ LoadInv => SampledRowsArePresent
  BY <1>1 DEF SampledRowsArePresent
<1> QED
  BY LoadInvariance, <1>2, PTL

-----------------------------------------------------------------------------
(* The rows in memory *)

\* Experiment 3 finds in memory what it has read itself.
WarmInv ==
  /\ phase = "connect" \/ (phase = "start" /\ exp = 3) => warm = {}
  /\ phase = "pass" /\ exp = 3 => \A r \in warm : \E d \in Ids(3) \ left : IdAt(d) = r

LEMMA IdsKeep ==
  ASSUME UNCHANGED <<samples, size, drawn>>
  PROVE  /\ Ids(3)' = Ids(3)
         /\ \A d : IdAt(d)' = IdAt(d)
BY DEF Ids, IdAt, SampleLength

LEMMA WarmPreserved == Base /\ WarmInv /\ [Next]_vars => WarmInv'
<1> SUFFICES ASSUME Base, WarmInv, [Next]_vars
             PROVE  WarmInv'
  OBVIOUS
<1>0. TypeOK /\ ControlInv
  BY DEF Base
\* Most steps go to a phase that nothing is claimed of.
<1>a. ASSUME phase' \notin {"connect", "start", "pass"}
      PROVE  WarmInv'
  BY <1>a DEF WarmInv
<1>b. ASSUME phase' \in {"start", "pass"}, exp' # 3
      PROVE  WarmInv'
  BY <1>b DEF WarmInv
<1>c. ASSUME UNCHANGED <<phase, exp, pass, left, samples, size, drawn, orders, warm>>
      PROVE  WarmInv'
  BY <1>c, IdsKeep DEF WarmInv
<1>1. CASE UNCHANGED vars \/ Skip
  BY <1>1, <1>c DEF vars, Skip, control, objects, engine, tables
<1>2. CASE \E e \in Exp : Execute(e)
  BY <1>2, <1>a DEF Execute
<1>3. CASE Clear \/ CreateUserIndex \/ CreateDateIndex
  BY <1>0, <1>3, <1>a, <1>b
     DEF Clear, CreateUserIndex, CreateDateIndex, Proceed, ControlInv
<1>4. CASE Sample
  BY <1>0, <1>4, <1>a DEF Sample, Proceed, ControlInv, WarmInv
<1>5. CASE Flush
  <2>1. PICK clean \in BOOLEAN : Restart(clean)
    BY <1>5 DEF Flush, RestartServer
  <2>2. warm' = {} /\ phase' = "connect"
    BY <1>5, <2>1, RestartType DEF Flush, Proceed, Restart
  <2> QED
    BY <2>2 DEF WarmInv
<1>6. CASE Connect
  BY <1>0, <1>6 DEF Connect, Proceed, engine, ControlInv, WarmInv
<1>7. CASE Start
  <2>1. exp' = exp /\ pass' = 1 /\ phase' = "pass" /\ phase = "start"
        /\ left' = Iterations(exp, 1) /\ UNCHANGED <<samples, size, drawn, orders, warm>>
    BY <1>7 DEF Start, StartPass, objects, engine, tables
  <2> QED
    BY <2>1 DEF WarmInv
<1>8. CASE Insert \/ ReadByUser \/ ReadRange
  <2>1. exp # 3 /\ exp' = exp /\ phase' = "pass"
    BY <1>8 DEF Insert, ReadByUser, ReadRange, InPass, Done
  <2> QED
    BY <2>1, <1>b
<1>9. CASE ReadById
  <2>1. PICK j \in left : FindByPrimaryKey(IdAt(j)) /\ Done(j)
    BY <1>9 DEF ReadById
  <2>2. /\ warm' = warm \cup (orders \cap {IdAt(j)}) /\ orders' = orders
        /\ left' = left \ {j} /\ phase = "pass"
        /\ UNCHANGED <<phase, exp, pass, samples, size, drawn>>
    BY <1>9, <2>1 DEF ReadById, InPass, FindByPrimaryKey, Done, tables
  <2>3. CASE exp = 3
    <3>1. pass = 1 /\ left \subseteq Iterations(3, pass)
      BY <1>0, <2>2, <2>3, PassesAre DEF ControlInv
    <3>2. j \in Ids(3)
      BY <2>1, <3>1 DEF Iterations, OverIds
    <3>3. \A r \in warm' : \E d \in Ids(3) \ left' : IdAt(d) = r
      BY <2>2, <2>3, <3>2 DEF WarmInv
    <3> QED
      BY <2>2, <2>3, <3>3, IdsKeep DEF WarmInv
  <2>4. CASE exp # 3
    BY <2>2, <2>4, <1>b
  <2> QED
    BY <2>3, <2>4
<1>10. CASE NextPass
  <2>1. exp # 3 /\ exp' = exp /\ phase' = "pass"
    BY <1>0, <1>10, PassesAre DEF NextPass, LastPass, StartPass, ControlInv
  <2> QED
    BY <2>1, <1>b
<1>11. CASE EndFirstPassOf6
  BY <1>11, <1>a DEF EndFirstPassOf6, Proceed
<1>12. CASE Compact
  <2>1. exp' = 6 /\ phase' = "pass"
    BY <1>0, <1>12 DEF Compact, StartPass, ControlInv
  <2> QED
    BY <2>1, <1>b
<1>13. CASE DivideTraps \/ EndRun \/ DropUserIndex \/ DropDateIndex \/ NewProcess
  BY <1>13, <1>a DEF DivideTraps, EndRun, DropUserIndex, DropDateIndex, NewProcess, Return, Proceed
<1>14. CASE Fails
  BY <1>14, <1>a DEF Fails, ClearThrows, FlushThrows, ConnectThrows, CreateThrows, CallThrows,
              CompactThrows, DropFails, Throw, Leave, Return, Proceed
<1> QED
  BY <1>1, <1>2, <1>3, <1>4, <1>5, <1>6, <1>7, <1>8, <1>9, <1>10, <1>11, <1>12, <1>13,
     <1>14 DEF Next, Step

THEOREM WarmInvariance == Spec => [](Base /\ WarmInv)
<1>1. Init => WarmInv
  BY DEF Init, WarmInv
<1> QED
  BY <1>1, BaseStarts, BasePreserved, WarmPreserved, PTL DEF Spec

\* A row that experiment 3 finds in memory is one it has read itself since the
\* restart, for any sample: the flush makes every first read a cold one.
THEOREM ColdFirstReads == Spec => []FirstReadsAreCold
<1>1. Base /\ WarmInv => FirstReadsAreCold
  BY DEF WarmInv, FirstReadsAreCold
<1> QED
  BY WarmInvariance, <1>1, PTL

-----------------------------------------------------------------------------
(***************************************************************************)
(* What the results are computed from, for every sample and number of      *)
(* executions: what a loop has recorded and what it has left to record add *)
(* up, and only sampling, or experiment 5 beginning, raises the sum.       *)
(***************************************************************************)

(* The sum of a loop *)

\* What the current execution has still to record in the p-th loop of e.
Missing(e, p) ==
  IF exp # e THEN 0
  ELSE IF phase \in {"flush", "connect", "index_user", "index_date", "start"} THEN Count(e, p)
  ELSE IF phase = "pass" /\ p = pass THEN Cardinality(left)
  ELSE IF (phase = "pass" /\ p > pass) \/ (phase = "compact" /\ p = 2) THEN Count(e, p)
  ELSE 0

Balance(e, p) == recorded[e][p] + Missing(e, p)

LEMMA CountKeep ==
  ASSUME UNCHANGED <<samples, size>>, NEW e, NEW p
  PROVE  Count(e, p)' = Count(e, p)
BY DEF Count, OverIds, SampleLength, n

LEMMA LeftIsFinite ==
  ASSUME Base
  PROVE  IsFiniteSet(left) /\ Cardinality(left) \in Nat
<1>0. TypeOK /\ ControlInv
  BY DEF Base
<1>1. CASE phase # "pass"
  BY <1>0, <1>1, FS_EmptySet DEF ControlInv
<1>2. CASE phase = "pass"
  <2>1. exp \in Exp /\ pass \in 1 .. 3
    BY <1>0, <1>2 DEF ControlInv, TypeOK
  <2>2. Count(exp, pass) \in Nat /\ left \subseteq 1 .. Count(exp, pass)
    BY <1>0, <1>2, <2>1, IterationsAre DEF ControlInv, TypeOK
  <2>3. IsFiniteSet(1 .. Count(exp, pass))
    BY <2>2, FS_Interval
  <2> QED
    BY <2>2, <2>3, FS_Subset, FS_CardinalityType
<1> QED
  BY <1>1, <1>2

LEMMA BalanceType ==
  ASSUME Base, NEW e \in Exp, NEW p \in 1 .. 3
  PROVE  /\ recorded[e][p] \in Nat
         /\ Missing(e, p) \in Nat /\ Count(e, p) \in Nat /\ Balance(e, p) \in Nat
<1>1. TypeOK
  BY DEF Base
<1>2. recorded[e][p] \in Nat
  BY <1>1 DEF TypeOK
<1>3. Count(e, p) \in Nat
  BY <1>1, IterationsAre DEF TypeOK
<1>4. Missing(e, p) \in Nat
  BY <1>3, LeftIsFinite DEF Missing
<1> QED
  BY <1>2, <1>3, <1>4 DEF Balance

\* A loop that begins has all of its iterations left.
LEMMA AllLeft ==
  ASSUME Base, NEW e \in Exp, NEW p \in 1 .. 3
  PROVE  Cardinality(Iterations(e, p)) = Count(e, p)
<1>1. Count(e, p) \in Nat /\ Iterations(e, p) = 1 .. Count(e, p)
  BY IterationsAre DEF Base, TypeOK
<1>2. Cardinality(1 .. Count(e, p)) = Count(e, p)
  BY <1>1, FS_Interval
<1> QED
  BY <1>1, <1>2

\* An iteration moves one from what is left to what is recorded.
LEMMA DoneBalances ==
  ASSUME Base, NEW e \in Exp, NEW p \in 1 .. 3, NEW j \in left, phase = "pass", Done(j)
  PROVE  Balance(e, p)' = Balance(e, p)
<1>0. /\ exp \in Exp /\ pass \in 1 .. 3
      /\ recorded \in [Exp -> [1 .. 3 -> Nat]]
  BY DEF Base, TypeOK, ControlInv
<1>1. UNCHANGED <<exp, phase, pass, samples, size>>
  BY DEF Done
<1>2. Count(e, p)' = Count(e, p)
  BY <1>1, CountKeep
<1>3. recorded' = [recorded EXCEPT ![exp][pass] = @ + 1] /\ left' = left \ {j}
  BY DEF Done
<1>4. CASE e = exp /\ p = pass
  <2>1. recorded'[e][p] = recorded[e][p] + 1
    BY <1>0, <1>3, <1>4
  <2>2. Cardinality(left') = Cardinality(left) - 1
    BY <1>3, LeftIsFinite, FS_RemoveElement
  <2>3. Missing(e, p) = Cardinality(left) /\ Missing(e, p)' = Cardinality(left')
    BY <1>1, <1>4 DEF Missing
  <2>4. recorded[e][p] \in Nat /\ Cardinality(left) \in Nat
    BY <1>0, LeftIsFinite
  <2> QED
    BY <2>1, <2>2, <2>3, <2>4 DEF Balance
<1>5. CASE ~(e = exp /\ p = pass)
  <2>1. recorded'[e][p] = recorded[e][p]
    BY <1>0, <1>3, <1>5
  <2>2. Missing(e, p)' = Missing(e, p)
    BY <1>1, <1>2, <1>5 DEF Missing
  <2> QED
    BY <2>1, <2>2 DEF Balance
<1> QED
  BY <1>4, <1>5

\* Experiment 5 samples nothing: its loops begin with the execution.
Begins(e) == (Sample /\ exp = e) \/ (e = 5 /\ Execute(5))

LEMMA BalanceKeeps ==
  ASSUME Base, [Next]_vars, NEW e \in {3, 4, 5, 6}, NEW p \in 1 .. 3, p <= Passes[e],
         e \notin cut', ~NewProcess, ~Begins(e)
  PROVE  Balance(e, p)' = Balance(e, p)
<1>0. TypeOK /\ ControlInv /\ e \in Exp /\ p \in Nat /\ p >= 1
  BY DEF Base, Exp
<1>1. ASSUME recorded' = recorded, Missing(e, p)' = Missing(e, p)
      PROVE  Balance(e, p)' = Balance(e, p)
  BY <1>1 DEF Balance
<1>2. ASSUME UNCHANGED <<recorded, samples, size>>, exp # e, exp' # e
      PROVE  Balance(e, p)' = Balance(e, p)
  <2>1. Missing(e, p) = 0 /\ Missing(e, p)' = 0
    BY <1>2 DEF Missing
  <2> QED
    BY <1>1, <1>2, <2>1
\* From one phase before the loops to the next.
<1>3. ASSUME UNCHANGED <<recorded, samples, size, exp>>,
             phase \in {"flush", "connect", "index_user", "index_date"},
             phase' \in {"flush", "connect", "index_user", "index_date", "start"}
      PROVE  Balance(e, p)' = Balance(e, p)
  <2>1. Missing(e, p)' = Missing(e, p)
    BY <1>3, CountKeep DEF Missing
  <2> QED
    BY <1>1, <1>3, <2>1
\* After the loops nothing is missing.
<1>4. ASSUME UNCHANGED <<recorded, samples, size>>, exp' \in {exp, 0}, Missing(e, p) = 0,
             phase' \in {"idle", "drop_user", "drop_date", "terminated"}
      PROVE  Balance(e, p)' = Balance(e, p)
  <2>1. Missing(e, p)' = 0
    BY <1>0, <1>4 DEF Missing
  <2> QED
    BY <1>1, <1>4, <2>1
<1>5. ASSUME UNCHANGED <<recorded, samples, size, exp, phase, pass, left>>
      PROVE  Balance(e, p)' = Balance(e, p)
  <2>1. Missing(e, p)' = Missing(e, p)
    BY <1>5, CountKeep DEF Missing
  <2> QED
    BY <1>1, <1>5, <2>1
\* The loop that begins is the first that is still missing.
<1>6. ASSUME NEW q \in 1 .. 3, StartPass(q), UNCHANGED <<recorded, samples, size>>,
             exp = e => \/ phase = "start" /\ q = 1
                        \/ phase = "pass" /\ left = {} /\ q = pass + 1
                        \/ phase = "compact" /\ q = 2
      PROVE  Balance(e, p)' = Balance(e, p)
  <2>1. exp' = exp /\ phase' = "pass" /\ pass' = q /\ left' = Iterations(exp, q)
    BY <1>6 DEF StartPass
  <2>2. CASE exp = e
    <3>1. Count(e, p)' = Count(e, p)
      BY <1>6, CountKeep
    <3>2. Cardinality(left') = Count(e, q)
      BY <1>0, <2>1, <2>2, AllLeft
    <3>3. Missing(e, p)' = IF p >= q THEN Count(e, p) ELSE 0
      BY <1>0, <2>1, <2>2, <3>1, <3>2 DEF Missing
    <3>4. Missing(e, p) = IF p >= q THEN Count(e, p) ELSE 0
      <4>1. CASE phase = "start" /\ q = 1
        BY <1>0, <2>2, <4>1 DEF Missing
      <4>2. CASE phase = "pass" /\ left = {} /\ q = pass + 1
        <5>1. pass \in 1 .. 3 /\ Cardinality(left) = 0
          BY <1>0, <4>2, FS_EmptySet DEF TypeOK
        <5> QED
          BY <1>0, <2>2, <4>2, <5>1 DEF Missing
      <4>3. CASE phase = "compact" /\ q = 2
        <5>1. p \in {1, 2}
          BY <1>0, <2>2, <4>3, PassesAre DEF ControlInv
        <5> QED
          BY <2>2, <4>3, <5>1 DEF Missing
      <4> QED
        BY <1>6, <2>2, <4>1, <4>2, <4>3
    <3> QED
      BY <1>1, <1>6, <3>3, <3>4
  <2>3. CASE exp # e
    BY <1>2, <1>6, <2>1, <2>3
  <2> QED
    BY <2>2, <2>3
\* An exception: the loops of its experiment are not looked at any more.
<1>7. ASSUME Leave, UNCHANGED <<recorded, samples, size>>
      PROVE  Balance(e, p)' = Balance(e, p)
  <2>1. exp # e /\ exp' # e
    BY <1>0, <1>7 DEF Leave, Return, Exp
  <2> QED
    BY <1>2, <1>7, <2>1
<1>8. CASE \E f \in Exp : Execute(f)
  <2>1. PICK f \in Exp : Execute(f)
    BY <1>8
  <2>2. exp = 0 /\ exp' = f /\ UNCHANGED <<recorded, samples, size>>
    BY <1>0, <2>1 DEF Execute, objects, ControlInv
  <2>3. CASE f = e
    <3>1. phase' = "sample"
      BY <2>1, <2>3 DEF Execute, Begins
    <3>2. Missing(e, p) = 0 /\ Missing(e, p)' = 0
      BY <1>0, <2>2, <3>1 DEF Missing, Exp
    <3> QED
      BY <1>1, <2>2, <3>2
  <2>4. CASE f # e
    BY <1>0, <1>2, <2>2, <2>4 DEF Exp
  <2> QED
    BY <2>3, <2>4
<1>9. CASE Skip \/ UNCHANGED vars
  BY <1>5, <1>9 DEF Skip, vars, control, objects
<1>10. CASE Clear \/ Sample
  <2>1. exp # e /\ exp' # e /\ recorded' = recorded
    BY <1>0, <1>10 DEF Clear, Sample, Begins, Proceed, objects, ControlInv
  <2>2. Missing(e, p) = 0 /\ Missing(e, p)' = 0
    BY <2>1 DEF Missing
  <2> QED
    BY <1>1, <2>1, <2>2
<1>11. CASE Flush \/ Connect \/ CreateUserIndex \/ CreateDateIndex
  BY <1>3, <1>11 DEF Flush, Connect, CreateUserIndex, CreateDateIndex, Proceed, objects
<1>12. CASE Start
  BY <1>6, <1>12 DEF Start, objects
<1>13. CASE NextPass
  <2>1. exp \in Exp /\ pass \in 1 .. Passes[exp] /\ pass # Passes[exp]
    BY <1>0, <1>13 DEF NextPass, LastPass, ControlInv, TypeOK
  <2>2. pass + 1 \in 1 .. 3
    BY <2>1, PassesAre
  <2> QED
    BY <1>6, <1>13, <2>2 DEF NextPass, objects
<1>14. CASE Compact
  BY <1>6, <1>14 DEF Compact
<1>15. CASE Insert \/ ReadById \/ ReadByUser \/ ReadRange
  BY <1>0, <1>15, DoneBalances DEF Insert, ReadById, ReadByUser, ReadRange, InPass
<1>16. CASE DivideTraps \/ EndRun
  <2>1. phase = "pass" /\ left = {} /\ UNCHANGED <<recorded, samples, size>>
    BY <1>16 DEF DivideTraps, EndRun, objects
  <2>2. phase' \in {"idle", "drop_user", "drop_date", "terminated"} /\ exp' \in {exp, 0}
    BY <1>16 DEF DivideTraps, EndRun, Proceed, Return
  <2>3. exp = e => ~(p > pass) \/ Count(e, p) = 0
    <3>1. CASE DivideTraps
      BY <3>1 DEF DivideTraps, Count, OverIds
    <3>2. CASE EndRun
      <4>1. pass = Passes[exp] /\ Passes[e] \in 1 .. 3
        BY <1>0, <3>2, PassesAre DEF EndRun, LastPass
      <4> QED
        BY <1>0, <4>1
    <3> QED
      BY <1>16, <3>1, <3>2
  <2>4. Missing(e, p) = 0
    BY <2>1, <2>3, FS_EmptySet DEF Missing
  <2> QED
    BY <1>4, <2>1, <2>2, <2>4
<1>17. CASE EndFirstPassOf6
  <2>1. /\ phase = "pass" /\ left = {} /\ exp = 6 /\ pass = 1
        /\ phase' = "compact" /\ exp' = exp /\ UNCHANGED <<recorded, samples, size>>
    BY <1>17 DEF EndFirstPassOf6, Proceed, objects
  <2>2. CASE e = 6
    <3>1. p \in {1, 2}
      BY <1>0, <2>2, PassesAre
    <3>2. Count(e, p)' = Count(e, p)
      BY <2>1, CountKeep
    <3>3. Missing(e, p)' = Missing(e, p)
      BY <2>1, <2>2, <3>1, <3>2, FS_EmptySet DEF Missing
    <3> QED
      BY <1>1, <2>1, <3>3
  <2> QED
    BY <1>2, <2>1, <2>2
<1>18. CASE DropUserIndex \/ DropDateIndex \/ DropFails
  <2>1. Missing(e, p) = 0
    BY <1>18 DEF DropUserIndex, DropDateIndex, DropFails, Missing
  <2> QED
    BY <1>4, <1>18, <2>1 DEF DropUserIndex, DropDateIndex, DropFails, Return, Proceed, objects
<1>19. CASE Fails /\ ~DropFails
  <2>1. Leave
    BY <1>19 DEF Fails, ClearThrows, FlushThrows, ConnectThrows, CreateThrows, CallThrows,
                 CompactThrows, Throw
  <2> QED
    BY <1>7, <2>1 DEF Leave
<1> QED
  BY <1>8, <1>9, <1>10, <1>11, <1>12, <1>13, <1>14, <1>15, <1>16, <1>17, <1>18, <1>19
     DEF Next, Step

LEMMA SampleGrows ==
  ASSUME Base, Sample, NEW e, exp = e, NEW p \in 1 .. 3
  PROVE  Balance(e, p)' = Balance(e, p) + Count(e, p)'
<1>1. e \in {3, 4, 6} /\ e \in Exp
  BY DEF Base, ControlInv, Sample, Exp
<1>2. exp' = e /\ recorded' = recorded
  BY DEF Sample, Proceed
<1>3. phase' \in {"flush", "index_user", "start"}
  BY DEF Sample, Proceed
<1>4. Missing(e, p)' = Count(e, p)'
  BY <1>2, <1>3 DEF Missing
<1>5. Missing(e, p) = 0
  BY DEF Sample, Missing
<1>6. recorded[e][p] \in Nat
  BY <1>1, BalanceType
<1> QED
  BY <1>2, <1>4, <1>5, <1>6 DEF Balance

LEMMA Experiment5Grows ==
  ASSUME Base, Execute(5), NEW p \in 1 .. 3
  PROVE  Balance(5, p)' = Balance(5, p) + size
<1>1. exp = 0 /\ exp' = 5 /\ phase' = "index_user" /\ UNCHANGED <<recorded, samples, size>>
  BY DEF Execute, objects, Base, ControlInv
<1>2. Count(5, p) = size /\ Count(5, p)' = Count(5, p)
  BY <1>1, CountKeep DEF Count, OverIds
<1>3. Missing(5, p) = 0 /\ Missing(5, p)' = size
  BY <1>1, <1>2 DEF Missing
<1>4. recorded[5][p] \in Nat
  BY BalanceType DEF Exp
<1> QED
  BY <1>1, <1>3, <1>4 DEF Balance

-----------------------------------------------------------------------------
(* How many that is *)

\* 1 + 2 + ... + k and k + 1 more.
LEMMA TriangleGrows ==
  \A k \in Nat : ((k + 1) * (k + 2)) \div 2 = ((k * (k + 1)) \div 2) + (k + 1)
<1>1. \A x \in Nat, y \in Nat : (x + 2 * y) \div 2 = (x \div 2) + y
  OBVIOUS
<1> SUFFICES ASSUME NEW k \in Nat
             PROVE  ((k + 1) * (k + 2)) \div 2 = ((k * (k + 1)) \div 2) + (k + 1)
  OBVIOUS
<1>2. (k + 1) * (k + 2) = k * (k + 1) + 2 * (k + 1)
  OBVIOUS
<1>3. k * (k + 1) \in Nat
  BY ProductNat
<1> QED
  BY <1>1, <1>2, <1>3

LEMMA Distributes == \A a, b, c \in Nat : a * (b + c) = a * b + c * a
OBVIOUS

LEMMA ReadsGrow ==
  ASSUME size \in SampleSizes, NEW k \in Nat
  PROVE  Reads(k + 1) = Reads(k) + (k + 1) * SampleLength
<1>1. SampleLength \in Nat
  BY Lengths
<1>2. k * (k + 1) \in Nat
  BY ProductNat
<1> DEFINE half == (k * (k + 1)) \div 2
<1>3. half \in Nat
  BY <1>2
<1>4. (k + 1) + 1 = k + 2
  OBVIOUS
<1>5. Reads(k + 1) = SampleLength * (half + (k + 1))
  BY <1>4, TriangleGrows DEF Reads
<1>6. Reads(k) = SampleLength * half
  BY DEF Reads
<1> HIDE DEF half
<1> QED
  BY <1>1, <1>3, <1>5, <1>6, Distributes

\* What a loop records in the executions that its object has sampled for.
Expected(e, p) ==
  IF OverIds(e, p) THEN Reads(samples[e]) ELSE size * samples[e]

CountInv ==
  /\ \A e \in {3, 4, 6} \ cut : \A p \in 1 .. Passes[e] : Balance(e, p) = Expected(e, p)
  /\ 5 \notin cut => Balance(5, 1) = Balance(5, 2) /\ Balance(5, 2) = Balance(5, 3)

LEMMA CutGrows == Base /\ [Next]_vars /\ ~NewProcess => cut \subseteq cut'
<1> SUFFICES ASSUME Base, [Next]_vars, ~NewProcess
             PROVE  cut \subseteq cut'
  OBVIOUS
<1>1. CASE UNCHANGED cut
  BY <1>1
<1>2. CASE Insert \/ ReadById \/ ReadByUser \/ ReadRange
  BY <1>2 DEF Insert, ReadById, ReadByUser, ReadRange, Done
<1>3. CASE Fails /\ ~DropFails
  BY <1>3 DEF Fails, ClearThrows, FlushThrows, ConnectThrows, CreateThrows, CallThrows,
              CompactThrows, Throw, Leave
<1>4. CASE \/ \E e \in Exp : Execute(e)
           \/ Skip \/ Clear \/ Sample \/ Flush \/ Connect \/ CreateUserIndex
           \/ CreateDateIndex \/ Start \/ DivideTraps \/ NextPass \/ EndFirstPassOf6
           \/ Compact \/ EndRun \/ DropUserIndex \/ DropDateIndex \/ DropFails
           \/ UNCHANGED vars
  BY <1>4 DEF Execute, Skip, Clear, Sample, Flush, Connect, CreateUserIndex, CreateDateIndex,
              Start, DivideTraps, NextPass, EndFirstPassOf6, Compact, EndRun, DropUserIndex,
              DropDateIndex, DropFails, objects, vars
<1> QED
  BY <1>2, <1>3, <1>4 DEF Next, Step

\* Only sampling and a new process change the number of samples.
LEMMA SamplesStep ==
  ASSUME Base, [Next]_vars, ~NewProcess, NEW e \in Exp, ~(Sample /\ exp = e)
  PROVE  samples'[e] = samples[e]
<1>0. samples \in [Exp -> Nat]
  BY DEF Base, TypeOK
<1>1. CASE Sample
  BY <1>0, <1>1 DEF Sample
<1>2. CASE Insert \/ ReadById \/ ReadByUser \/ ReadRange
  BY <1>2 DEF Insert, ReadById, ReadByUser, ReadRange, Done
<1>3. CASE Fails /\ ~DropFails
  BY <1>3 DEF Fails, ClearThrows, FlushThrows, ConnectThrows, CreateThrows, CallThrows,
              CompactThrows, Throw, Leave
<1>4. CASE \/ \E f \in Exp : Execute(f)
           \/ Skip \/ Clear \/ Flush \/ Connect \/ CreateUserIndex
           \/ CreateDateIndex \/ Start \/ DivideTraps \/ NextPass \/ EndFirstPassOf6
           \/ Compact \/ EndRun \/ DropUserIndex \/ DropDateIndex \/ DropFails
           \/ UNCHANGED vars
  BY <1>4 DEF Execute, Skip, Clear, Flush, Connect, CreateUserIndex, CreateDateIndex,
              Start, DivideTraps, NextPass, EndFirstPassOf6, Compact, EndRun, DropUserIndex,
              DropDateIndex, DropFails, objects, vars
<1> QED
  BY <1>1, <1>2, <1>3, <1>4 DEF Next, Step

LEMMA CountStarts == Init => CountInv
<1> SUFFICES ASSUME Init
             PROVE  CountInv
  OBVIOUS
<1>1. \A e \in Exp, p \in 1 .. 3 : Balance(e, p) = 0
  BY DEF Init, Balance, Missing, Exp
<1>2. size \in Nat /\ SampleLength \in Nat
  BY Lengths DEF Init
<1>3. \A e \in {3, 4, 6} : \A p \in 1 .. 3 : Expected(e, p) = 0
  <2>1. Reads(0) = SampleLength * 0
    BY DEF Reads
  <2>2. \A e \in {3, 4, 6} : samples[e] = 0
    BY DEF Init, Exp
  <2> QED
    BY <1>2, <2>1, <2>2 DEF Expected
<1> QED
  BY <1>1, <1>3, PassesAre DEF CountInv, Exp

LEMMA CountPreserved == Base /\ CountInv /\ [Next]_vars => CountInv'
<1> SUFFICES ASSUME Base, CountInv, [Next]_vars
             PROVE  CountInv'
  OBVIOUS
<1>0. /\ size' = size /\ size \in SampleSizes /\ size \in Nat /\ SampleLength \in Nat
      /\ SampleLength' = SampleLength /\ samples \in [Exp -> Nat]
  BY ObjectsStep, Lengths DEF Base, TypeOK, SampleLength
<1>1. CASE NewProcess
  <2>1. \A e \in Exp : exp' # e /\ samples'[e] = 0 /\ \A p \in 1 .. 3 : recorded'[e][p] = 0
    BY <1>1 DEF NewProcess, Return, Exp
  <2>2. \A e \in Exp, p \in 1 .. 3 : Balance(e, p)' = 0
    BY <2>1 DEF Balance, Missing
  <2>3. \A e \in {3, 4, 6} : \A p \in 1 .. 3 : Expected(e, p)' = 0
    <3>1. SampleLength * ((0 * (0 + 1)) \div 2) = 0 /\ size * 0 = 0
      BY <1>0
    <3> QED
      BY <1>0, <2>1, <3>1 DEF Expected, Reads, OverIds, Exp
  <2> QED
    BY <2>2, <2>3, PassesAre DEF CountInv, Exp
<1>2. CASE ~NewProcess
  <2>0. cut \subseteq cut'
    BY <1>2, CutGrows
  <2>1. ASSUME NEW e \in {3, 4, 6}, e \notin cut', NEW p \in 1 .. Passes[e]
        PROVE  Balance(e, p)' = Expected(e, p)'
    <3>0. p \in 1 .. 3 /\ p <= Passes[e] /\ e \in Exp /\ e \in {3, 4, 5, 6}
      BY PassesAre DEF Exp
    <3>1. Balance(e, p) = Expected(e, p)
      BY <2>0, <2>1 DEF CountInv
    <3>2. CASE Sample /\ exp = e
      <4>1. samples'[e] = samples[e] + 1 /\ samples[e] \in Nat
        BY <1>0, <3>0, <3>2 DEF Sample
      <4>2. Balance(e, p)' = Expected(e, p) + Count(e, p)'
        BY <3>0, <3>1, <3>2, SampleGrows
      <4>3. CASE OverIds(e, p)
        <5>1. Count(e, p)' = (samples[e] + 1) * SampleLength
          BY <1>0, <2>1, <4>1, <4>3 DEF Count, OverIds
        <5>2. Expected(e, p)' = Reads(samples[e] + 1)
          BY <1>0, <4>1, <4>3 DEF Expected, OverIds, Reads
        <5>3. Expected(e, p) = Reads(samples[e])
          BY <4>3 DEF Expected
        <5> QED
          BY <1>0, <4>1, <4>2, <5>1, <5>2, <5>3, ReadsGrow
      <4>4. CASE ~OverIds(e, p)
        <5>1. Count(e, p)' = size
          BY <1>0, <2>1, <4>4 DEF Count, OverIds
        <5>2. Expected(e, p)' = size * (samples[e] + 1) /\ Expected(e, p) = size * samples[e]
          BY <1>0, <4>1, <4>4 DEF Expected, OverIds
        <5>3. size * (samples[e] + 1) = size * samples[e] + size
          BY <1>0, <4>1
        <5> QED
          BY <4>2, <5>1, <5>2, <5>3
      <4> QED
        BY <4>3, <4>4
    <3>3. CASE ~(Sample /\ exp = e)
      <4>1. Balance(e, p)' = Balance(e, p)
        BY <1>2, <2>1, <3>0, <3>3, BalanceKeeps DEF Begins
      <4>2. samples'[e] = samples[e]
        BY <1>2, <3>0, <3>3, SamplesStep
      <4>3. Expected(e, p)' = Expected(e, p)
        BY <1>0, <4>2 DEF Expected, OverIds, Reads
      <4> QED
        BY <3>1, <4>1, <4>3
    <3> QED
      BY <3>2, <3>3
  <2>2. ASSUME 5 \notin cut'
        PROVE  (Balance(5, 1) = Balance(5, 2) /\ Balance(5, 2) = Balance(5, 3))'
    <3>1. Balance(5, 1) = Balance(5, 2) /\ Balance(5, 2) = Balance(5, 3)
      BY <2>0, <2>2 DEF CountInv
    <3>2. CASE Execute(5)
      BY <3>1, <3>2, Experiment5Grows
    <3>3. CASE ~Execute(5)
      <4>1. ~Begins(5)
        BY <3>3 DEF Begins, Sample, Base, ControlInv
      <4>2. \A p \in 1 .. 3 : Balance(5, p)' = Balance(5, p)
        BY <1>2, <2>2, <4>1, BalanceKeeps, PassesAre
      <4> QED
        BY <3>1, <4>2
    <3> QED
      BY <3>2, <3>3
  <2> QED
    BY <2>1, <2>2 DEF CountInv
<1> QED
  BY <1>1, <1>2

THEOREM CountInvariance == Spec => [](Base /\ CountInv)
BY CountStarts, BaseStarts, BasePreserved, CountPreserved, PTL DEF Spec

\* The results of the k-th execution of an object are over 1 + 2 + ... + k
\* samples, those of experiment 5 over as many scans for each window.
THEOREM RecordersCounted == Spec => []RecordersCount
<1>1. ASSUME Base, CountInv, NEW e \in Exp \ (cut \cup {exp})
      PROVE  /\ (e \in {3, 4, 6} => recorded[e][1] = Reads(samples[e]))
             /\ (e = 4 => recorded[e][2] = size * samples[e])
             /\ (e = 5 => recorded[e][1] = recorded[e][2] /\ recorded[e][2] = recorded[e][3])
  <2>1. \A p \in 1 .. 3 : Balance(e, p) = recorded[e][p]
    BY <1>1, BalanceType DEF Balance, Missing
  <2>2. e \in {3, 4, 6} => recorded[e][1] = Reads(samples[e])
    BY <1>1, <2>1, PassesAre DEF CountInv, Expected, OverIds
  <2>3. e = 4 => recorded[e][2] = size * samples[e]
    BY <1>1, <2>1, PassesAre DEF CountInv, Expected, OverIds
  <2> QED
    BY <1>1, <2>1, <2>2, <2>3 DEF CountInv
<1>2. Base /\ CountInv => RecordersCount
  BY <1>1 DEF RecordersCount
<1> QED
  BY CountInvariance, <1>2, PTL

-----------------------------------------------------------------------------
(* The two sides of experiment 6 *)

\* Both counts are of the last execution, unless nodetool failed.
TablesCounted ==
  6 \notin cut =>
    /\ exp # 6 => (before # 0 /\ after # 0 => before = after)
    /\ exp = 6 /\ phase # "sample" => before \in {0, executions}
    /\ exp = 6 /\ phase = "pass" /\ pass = 2 => after \in {0, executions}
    /\ exp = 6 => phase \in {"sample", "start", "pass", "compact"}

LEMMA TablesPreserved == Base /\ TablesCounted /\ [Next]_vars => TablesCounted'
<1> SUFFICES ASSUME Base, TablesCounted, [Next]_vars
             PROVE  TablesCounted'
  OBVIOUS
<1>0. TypeOK /\ ControlInv
  BY DEF Base
<1> USE DEF TablesCounted
<1>1. ASSUME UNCHANGED <<before, after, cut>>, exp' # 6, exp # 6
      PROVE  TablesCounted'
  BY <1>1
<1>2. ASSUME UNCHANGED <<before, after, cut, executions, exp, phase, pass>>
      PROVE  TablesCounted'
  BY <1>2
<1>3. CASE \E e \in Exp : Execute(e)
  BY <1>0, <1>3 DEF Execute, objects, ControlInv
<1>4. CASE Skip
  BY <1>0, <1>4 DEF Skip, objects, ControlInv
<1>5. CASE \/ Clear \/ Flush \/ Connect \/ CreateUserIndex \/ CreateDateIndex
           \/ DropUserIndex \/ DropDateIndex \/ DropFails \/ DivideTraps
  BY <1>0, <1>1, <1>5 DEF Clear, Flush, Connect, CreateUserIndex, CreateDateIndex, DropUserIndex,
                    DropDateIndex, DropFails, DivideTraps, Return, Proceed, objects, ControlInv
<1>6. CASE Sample
  BY <1>0, <1>6 DEF Sample, Counts, Proceed, ControlInv
<1>7. CASE Start
  BY <1>7 DEF Start, StartPass, objects
<1>8. CASE Insert \/ ReadById \/ ReadByUser \/ ReadRange
  BY <1>2, <1>8 DEF Insert, ReadById, ReadByUser, ReadRange, Done
<1>9. CASE NextPass
  BY <1>1, <1>9 DEF NextPass, StartPass, objects
<1>10. CASE EndFirstPassOf6
  BY <1>10 DEF EndFirstPassOf6, Proceed, objects
<1>11. CASE Compact
  BY <1>0, <1>11 DEF Compact, Counts, StartPass, ControlInv
<1>12. CASE EndRun
  BY <1>0, <1>1, <1>12, PassesAre DEF EndRun, LastPass, Return, Proceed, objects
<1>13. CASE Fails /\ ~DropFails
  <2>1. Leave
    BY <1>13 DEF Fails, ClearThrows, FlushThrows, ConnectThrows, CreateThrows, CallThrows,
                 CompactThrows, Throw
  <2> QED
    BY <2>1 DEF Leave, Return
<1>14. CASE NewProcess
  BY <1>14 DEF NewProcess, Return
<1>15. CASE UNCHANGED vars
  BY <1>2, <1>15 DEF vars, control, objects
<1> QED
  BY <1>3, <1>4, <1>5, <1>6, <1>7, <1>8, <1>9, <1>10, <1>11, <1>12, <1>13, <1>14, <1>15
     DEF Next, Step

\* What experiment 6 compares is over as many reads on both sides, and of one
\* compaction, unless an execution has thrown.
THEOREM ComparisonMatches == Spec => []BeforeAndAfterMatch
<1>1. Init => TablesCounted
  BY DEF Init, TablesCounted
<1>2. ASSUME Base, CountInv, exp # 6, 6 \notin cut
      PROVE  recorded[6][1] = recorded[6][2]
  <2>1. \A p \in 1 .. 3 : Balance(6, p) = recorded[6][p]
    BY <1>2, BalanceType DEF Balance, Missing, Exp
  <2>2. \A p \in 1 .. 2 : Balance(6, p) = Reads(samples[6])
    BY <1>2, PassesAre DEF CountInv, Expected, OverIds
  <2> QED
    BY <2>1, <2>2
<1>3. Base /\ CountInv /\ TablesCounted => BeforeAndAfterMatch
  BY <1>2 DEF TablesCounted, BeforeAndAfterMatch
<1> QED
  BY <1>1, <1>3, BaseInvariance, CountInvariance, TablesPreserved, PTL DEF Spec
=============================================================================
