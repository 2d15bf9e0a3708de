----------------------------- MODULE Experiments -----------------------------
(***************************************************************************)
(* The experiments that run on one thread through ExperimentBase::execute, *)
(* one object each, executed in any order on one client of Mongo or        *)
(* Cassandra: 1 (insert), 3 (cold read), 4 (primary and secondary key      *)
(* reads), 5 (range scans) and 6 (reads before and after a compaction).    *)
(* An exception leaves execute() where it is thrown, without teardown();   *)
(* the caller may catch it and execute this or another experiment.         *)
(***************************************************************************)
EXTENDS Engine, Sequences

CONSTANTS TotalRows,      \* config_.total_rows
          SampleSizes,    \* values of config_.read_sample_size
          MaxExecutions   \* bound: calls of execute(), of any object

\* main generates total_rows rows.
ASSUME ExperimentsAssumption ==
  /\ Db \in {"mongo", "cassandra"}
  /\ DatasetSize \in Nat \ {0}
  /\ TotalRows \in Nat /\ DatasetSize <= TotalRows
  /\ SampleSizes \subseteq Nat /\ SampleSizes # {}
  /\ MaxExecutions \in Nat \ {0}

VARIABLES exp,         \* the experiment being executed, 0 for none
          phase,       \* where its execute() is
          pass,        \* which of its loops run() is in
          left,        \* the iterations of that loop not done yet
          samples,     \* how many samples its sample_ids_ holds
          recorded,    \* what the recorder of each loop has recorded
          index,       \* the fields Mongo has a secondary index on
          size,        \* config_.read_sample_size
          drawn,       \* what sample_random_orders answers, whenever asked
          before,      \* before_sstable_count_ and after_sstable_count_: the
          after,       \* execution they were counted in, 0 if nodetool failed
          executions,  \* calls of execute()
          \* Not in the code:
          cut,         \* the objects an execution of which has thrown
          loaded,      \* experiment 1 has returned since it last began, and
                       \* the server has not been killed since
          failed       \* a call has failed since the table was cleared

control == <<exp, phase, pass, left, executions>>
objects == <<samples, recorded, size, drawn, before, after, cut>>
observed == <<loaded, failed>>

vars == <<engine, control, objects, index, observed>>

Exp == {1, 3, 4, 5, 6}

Field == {"user_id", "created_at"}

\* Dataset smaller than the sample: as many draws as it has rows.
SampleLength == IF size > DatasetSize THEN DatasetSize ELSE size

\* The loops of run().
Passes == [e \in Exp |-> CASE e \in {1, 3} -> 1 [] e \in {4, 6} -> 2 [] OTHER -> 3]

\* The ids that experiment e has collected: setup() appends a sample to the
\* ones of earlier executions.
Ids(e) == 1 .. samples[e] * SampleLength

IdAt(j) == drawn[1 + ((j - 1) % SampleLength)]

\* The rows that experiment 1 inserts.
n == IF DatasetSize < TotalRows THEN DatasetSize ELSE TotalRows

\* Mutant: the second loop of experiment 4 is over the ids of the first.
OverIdsOf4(e, p) == e \in {3, 4, 6}

\* The loops over ids that setup() has sampled, over user ids or windows, and
\* over the data set.
OverIds(e, p) == e \in {3, 6} \/ (e = 4 /\ p = 1)

\* Mutant: experiment 1 forgets the last row.
IterationsShort(e, p) ==
  IF e = 1 THEN 1 .. n - 1
  ELSE IF OverIds(e, p) THEN Ids(e) ELSE 1 .. size

Iterations(e, p) ==
  IF e = 1 THEN 1 .. n
  ELSE IF OverIds(e, p) THEN Ids(e) ELSE 1 .. size

TypeOK ==
  /\ EngineTypeOK
  /\ exp \in Exp \cup {0}
  /\ phase \in {"idle", "clear", "sample", "flush", "connect", "index_user",
                "index_date", "start", "pass", "compact", "drop_user",
                "drop_date", "terminated"}
  /\ pass \in 1 .. 3
  /\ left \subseteq Nat
  /\ samples \in [Exp -> Nat]
  /\ recorded \in [Exp -> [1 .. 3 -> Nat]]
  /\ index \subseteq Field
  /\ size \in SampleSizes
  /\ drawn \in [1 .. SampleLength -> Row]
  /\ {before, after} \subseteq 0 .. MaxExecutions
  /\ executions \in 0 .. MaxExecutions
  /\ cut \subseteq Exp
  /\ {loaded, failed} \subseteq BOOLEAN

Init ==
  /\ EmptyTables
  /\ warm = {}
  /\ exp = 0 /\ phase = "idle" /\ pass = 1 /\ left = {} /\ executions = 0
  /\ samples = [e \in Exp |-> 0]
  /\ recorded = [e \in Exp |-> [p \in 1 .. 3 |-> 0]]
  /\ index = {}
  /\ size \in SampleSizes
  /\ drawn \in [1 .. SampleLength -> Row]
  /\ before = 0 /\ after = 0 /\ cut = {}
  /\ loaded = FALSE /\ failed = FALSE

Proceed(to) ==
  /\ phase' = to
  /\ UNCHANGED <<exp, pass, left, executions>>

Return ==
  /\ exp' = 0 /\ phase' = "idle" /\ left' = {}
  /\ UNCHANGED <<pass, executions>>

Leave ==
  /\ Return
  /\ failed' = TRUE
  /\ cut' = cut \cup {exp}
  /\ UNCHANGED <<samples, recorded, size, drawn, before, after>>

Throw == Leave /\ UNCHANGED loaded

-----------------------------------------------------------------------------
(* setup() *)

\* Experiment 6 skips a database that is not Cassandra: neither setup() nor
\* run() does anything.
Skip ==
  /\ Db # "cassandra"
  /\ phase = "idle" /\ executions < MaxExecutions
  /\ executions' = executions + 1
  /\ UNCHANGED <<engine, exp, phase, pass, left, objects, index, observed>>

Execute(e) ==
  /\ e = 6 => Db = "cassandra"
  /\ phase = "idle" /\ executions < MaxExecutions
  /\ executions' = executions + 1
  /\ exp' = e /\ pass' = 1 /\ left' = {}
  /\ phase' = CASE e = 1 -> "clear" [] e = 5 -> "index_user" [] OTHER -> "sample"
  /\ loaded' = (loaded /\ e # 1)
  /\ UNCHANGED <<engine, objects, index, failed>>

\* Mutant: Mongo's clear_table deletes the documents and keeps the collection.
ClearKeepsIndex ==
  /\ phase = "clear"
  /\ ClearTable
  /\ failed' = FALSE
  /\ Proceed("start")
  /\ UNCHANGED <<objects, index, loaded>>

\* Mongo's clear_table drops the collection, and its indexes with it.
Clear ==
  /\ phase = "clear"
  /\ ClearTable
  /\ index' = {}
  /\ failed' = FALSE
  /\ Proceed("start")
  /\ UNCHANGED <<objects, loaded>>

ClearThrows ==
  /\ phase = "clear"
  /\ \/ UNCHANGED <<engine, index>>
     \/ ClearTable /\ index' = {}
     \/ DualTables /\ ClearTableThrows /\ UNCHANGED index
  /\ Throw

\* get_sstable_count(), whose command may fail.
Counts(number) == number' \in {0, executions}

\* Mutant: the count of the first execution is kept.
SampleCountsOnce ==
  /\ phase = "sample"
  /\ samples' = [samples EXCEPT ![exp] = @ + 1]
  /\ IF exp = 6 /\ before = 0 THEN Counts(before) ELSE UNCHANGED before
  /\ Proceed(CASE exp = 3 -> "flush" [] exp = 4 -> "index_user" [] OTHER -> "start")
  /\ UNCHANGED <<engine, recorded, size, drawn, after, cut, index, observed>>

Sample ==
  /\ phase = "sample"
  /\ samples' = [samples EXCEPT ![exp] = @ + 1]
  /\ IF exp = 6 THEN Counts(before) ELSE UNCHANGED before
  /\ Proceed(CASE exp = 3 -> "flush" [] exp = 4 -> "index_user" [] OTHER -> "start")
  /\ UNCHANGED <<engine, recorded, size, drawn, after, cut, index, observed>>

\* A clean restart shuts the server down, another kills it.
RestartServer(clean) ==
  /\ Restart(clean)
  /\ loaded' = (loaded /\ clean)

\* Mutant: the caches are not flushed.
FlushNothing ==
  /\ phase = "flush"
  /\ Proceed("connect")
  /\ UNCHANGED <<engine, objects, index, observed>>

Flush ==
  /\ phase = "flush"
  /\ \E clean \in BOOLEAN : RestartServer(clean)
  /\ Proceed("connect")
  /\ UNCHANGED <<objects, index, failed>>

FlushThrows ==
  /\ phase = "flush"
  /\ \/ UNCHANGED <<engine, loaded>>
     \/ \E clean \in BOOLEAN : RestartServer(clean)
  /\ Leave
  /\ UNCHANGED index

Connect ==
  /\ phase = "connect"
  /\ Proceed("start")
  /\ UNCHANGED <<engine, objects, index, observed>>

ConnectThrows ==
  /\ phase = "connect"
  /\ Throw
  /\ UNCHANGED <<engine, index>>

\* create_secondary_index: two statements on Mongo, nothing on Cassandra.
Creating(field) == IF Db = "mongo" THEN index \cup {field} ELSE index

CreateUserIndex ==
  /\ phase = "index_user"
  /\ index' = Creating("user_id")
  /\ Proceed("index_date")
  /\ UNCHANGED <<engine, objects, observed>>

CreateDateIndex ==
  /\ phase = "index_date"
  /\ index' = Creating("created_at")
  /\ Proceed("start")
  /\ UNCHANGED <<engine, objects, observed>>

CreateThrows ==
  /\ Db = "mongo"
  /\ \/ phase = "index_user" /\ index' \in {index, Creating("user_id")}
     \/ phase = "index_date" /\ index' \in {index, Creating("created_at")}
  /\ Throw
  /\ UNCHANGED engine

-----------------------------------------------------------------------------
(* run(): one step per iteration, with its call and its record *)

StartPass(p) ==
  /\ phase' = "pass"
  /\ pass' = p
  /\ left' = Iterations(exp, p)
  /\ UNCHANGED <<exp, executions>>

Start ==
  /\ phase = "start"
  /\ StartPass(1)
  /\ UNCHANGED <<engine, objects, index, observed>>

InPass == phase = "pass" /\ left # {}

Done(j) ==
  /\ left' = left \ {j}
  /\ recorded' = [recorded EXCEPT ![exp][pass] = @ + 1]
  /\ UNCHANGED <<exp, phase, pass, executions, samples, size, drawn, before, after,
                 cut, index, observed>>

\* The data set in its order.
Insert ==
  /\ InPass /\ exp = 1
  /\ \E j \in left :
       /\ \A other \in left : j <= other
       /\ InsertOne(j - 1)
       /\ Done(j)

\* The ids in the order of the shuffle.
ReadById ==
  /\ InPass /\ OverIds(exp, pass)
  /\ \E j \in left :
       /\ FindByPrimaryKey(IdAt(j))
       /\ Done(j)

\* find_by_secondary_key, of a user who has any of the rows.
ReadByUser ==
  /\ InPass
  /\ (exp = 4 /\ pass = 2) \/ (exp = 5 /\ DualTables)
  /\ \E j \in left : (\A other \in left : j <= other) /\ Done(j)
  /\ \E rows \in SUBSET orders : warm' = warm \cup rows
  /\ UNCHANGED tables

\* generate_date_range answers two empty strings: no row is in the range.
ReadRange ==
  /\ InPass /\ exp = 5 /\ ~DualTables
  /\ \E j \in left : (\A other \in left : j <= other) /\ Done(j)
  /\ UNCHANGED engine

CallThrows ==
  /\ InPass
  /\ IF exp = 1
       THEN \E j \in left : (\A other \in left : j <= other) /\ InsertOneThrows(j - 1)
       ELSE /\ \E rows \in SUBSET orders : warm' = warm \cup rows
            /\ UNCHANGED tables
  /\ Throw
  /\ UNCHANGED index

\* Experiment 5 divides the rows of each window by the sample size.  Dividing
\* by zero is undefined: it traps on some processors, and yields zero on others.
DivideTraps ==
  /\ phase = "pass" /\ left = {}
  /\ exp = 5 /\ size = 0
  /\ Proceed("terminated")
  /\ UNCHANGED <<engine, objects, index, observed>>

\* The process is started again: new objects, the same seed.
NewProcess ==
  /\ phase = "terminated"
  /\ Return
  /\ samples' = [e \in Exp |-> 0]
  /\ recorded' = [e \in Exp |-> [p \in 1 .. 3 |-> 0]]
  /\ before' = 0 /\ after' = 0 /\ cut' = {}
  /\ failed' = TRUE
  /\ UNCHANGED <<engine, size, drawn, index, loaded>>

LastPass == pass = Passes[exp]

\* Mutant: the loop is repeated.
NextPassSame ==
  /\ phase = "pass" /\ left = {} /\ ~LastPass /\ exp # 6
  /\ StartPass(pass)
  /\ UNCHANGED <<engine, objects, index, observed>>

NextPass ==
  /\ phase = "pass" /\ left = {} /\ ~LastPass /\ exp # 6
  /\ StartPass(pass + 1)
  /\ UNCHANGED <<engine, objects, index, observed>>

EndFirstPassOf6 ==
  /\ phase = "pass" /\ left = {} /\ exp = 6 /\ pass = 1
  /\ Proceed("compact")
  /\ UNCHANGED <<engine, objects, index, observed>>

\* The script rewrites the files of the table and deletes the old ones: what
\* was in memory may stay there or go with them, and what is rewritten, which
\* is every row, may be there after it.
Rewrite == warm' \in SUBSET (warm \cup orders) /\ UNCHANGED tables

Compact ==
  /\ phase = "compact"
  /\ Rewrite
  /\ Counts(after)
  /\ StartPass(2)
  /\ UNCHANGED <<samples, recorded, size, drawn, before, cut, index, observed>>

CompactThrows ==
  /\ phase = "compact"
  /\ Rewrite
  /\ Throw
  /\ UNCHANGED index

\* run() returns, and execute() calls teardown().
EndRun ==
  /\ phase = "pass" /\ left = {} /\ LastPass
  /\ IF exp \in {4, 5} THEN Proceed("drop_user") ELSE Return
  /\ loaded' = (loaded \/ exp = 1)
  /\ UNCHANGED <<engine, objects, index, failed>>

-----------------------------------------------------------------------------
(* teardown(): drop_secondary_index, which swallows what is thrown *)

DropUserIndex ==
  /\ phase = "drop_user"
  /\ index' = index \ {"user_id"}
  /\ Proceed("drop_date")
  /\ UNCHANGED <<engine, objects, observed>>

\* Mutant: teardown() is left to the base class, which does nothing.
DropNothing ==
  /\ phase = "drop_date"
  /\ Return
  /\ UNCHANGED <<engine, objects, index, observed>>

DropDateIndex ==
  /\ phase = "drop_date"
  /\ index' = index \ {"created_at"}
  /\ Return
  /\ UNCHANGED <<engine, objects, observed>>

DropFails ==
  /\ Db = "mongo"
  /\ \/ phase = "drop_user" /\ Proceed("drop_date")
     \/ phase = "drop_date" /\ Return
  /\ failed' = TRUE
  /\ UNCHANGED <<engine, objects, index, loaded>>

-----------------------------------------------------------------------------
Step ==
  \/ Clear \/ Sample \/ Flush \/ Connect \/ CreateUserIndex \/ CreateDateIndex
  \/ Start \/ Insert \/ ReadById \/ ReadByUser \/ ReadRange \/ DivideTraps
  \/ NextPass \/ EndFirstPassOf6 \/ Compact \/ EndRun
  \/ DropUserIndex \/ DropDateIndex

Fails ==
  \/ ClearThrows \/ FlushThrows \/ ConnectThrows \/ CreateThrows
  \/ CallThrows \/ CompactThrows \/ DropFails

Next ==
  \/ \E e \in Exp : Execute(e)
  \/ Skip
  \/ Step
  \/ Fails
  \/ NewProcess

\* One thread runs it, and every call, the scripts' included, returns or throws.
Spec == Init /\ [][Next]_vars /\ WF_vars(Step)

-----------------------------------------------------------------------------
(* Properties *)

\* Inserts are never timed with a secondary index to maintain, not even after
\* an experiment 4 or 5 that left its index behind; reads by user and range
\* scans always with both of theirs.
IndexedAsMeant ==
  phase = "pass" /\ Db = "mongo" =>
     /\ (exp = 1 => index = {})
     /\ (exp \in {4, 5} => index = Field)

\* Between executions no index is left, unless a call has failed since the
\* table was last cleared.
IndexLeaksOnlyByFailure == phase = "idle" /\ index # {} => failed

\* "these are already there in db as part of exp 1" (Experiment4.cpp:27): what
\* an experiment reads by id is in the table if experiment 1 has returned, as
\* no other experiment or failure removes a row but a server that is killed.
SampledRowsArePresent ==
  phase = "pass" /\ OverIds(exp, pass) /\ loaded =>
     \A j \in left : IdAt(j) \in orders

\* post6.md:92 on experiment 3: "Cache flushed before each run. Every read hits
\* disk."  A row it has still to read is not in memory.  (It may be: the sample
\* is drawn with replacement, and setup() appends it to the ones before.)
EveryReadHitsDisk ==
  phase = "pass" /\ exp = 3 => \A j \in left : IdAt(j) \notin warm \cap orders

\* What the flush does give experiment 3, whatever was inserted or read before
\* it: the rows in memory that it has still to read are rows it has read since
\* the restart, ids its sample repeats.
FirstReadsAreCold ==
  phase = "pass" /\ exp = 3 =>
     \A j \in left : IdAt(j) \in warm =>
        \E done \in Ids(3) \ left : IdAt(done) = IdAt(j)

Reads(k) == SampleLength * ((k * (k + 1)) \div 2)

\* What the results are computed from.  Nothing resets a recorder, and setup()
\* adds a sample to the ids of experiments 3, 4 and 6: after k executions that
\* returned, their loops over ids have recorded one sample for the first, two
\* for the second, and so on, the loop by user always the sample size, and the
\* three windows of experiment 5 as much as each other.
RecordersCount ==
  \A e \in Exp \ (cut \cup {exp}) :
     /\ (e \in {3, 4, 6} => recorded[e][1] = Reads(samples[e]))
     /\ (e = 4 => recorded[e][2] = size * samples[e])
     /\ (e = 5 => recorded[e][1] = recorded[e][2] /\ recorded[e][2] = recorded[e][3])

\* The improvement that experiment 6 reports is over as many reads before the
\* compaction as after it, and the SSTables it reports beside them, if they
\* could be counted, are those around one compaction: unless an execution has
\* thrown, whose reads before it stay in the recorder.
BeforeAndAfterMatch ==
  exp # 6 /\ 6 \notin cut =>
     /\ recorded[6][1] = recorded[6][2]
     /\ (before # 0 /\ after # 0 => before = after)

\* Every execution ends, by a return, an exception or a signal.
ExecuteEnds == (exp # 0) ~> (phase \in {"idle", "terminated"})
=============================================================================
