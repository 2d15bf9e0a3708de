------------------------------- MODULE Clients -------------------------------
(***************************************************************************)
(* The three clients behind DBInterface, one of them at a time: what each  *)
(* call does to the tables of its database, statement by statement, and    *)
(* what a lookup returns.  Postgres inserts a batch in one transaction,    *)
(* Mongo document by document in the order of the batch, Cassandra by two  *)
(* statements for each order, one for each of its two tables.              *)
(*                                                                         *)
(* A statement that throws may or may not have been executed.  The process *)
(* may also die there: the next one finds the same tables.                 *)
(***************************************************************************)
EXTENDS Integers, Sequences, FiniteSets

CONSTANTS Order,      \* the orders, one for each order_id
          UserOf,     \* their user_id
          CreatedAt,  \* their created_at, in seconds
          NoRow,      \* no row is stored under this key
          MaxBatch    \* bound: the orders of one batch

ASSUME ClientsAssumption ==
  /\ IsFiniteSet(Order)
  /\ CreatedAt \in [Order -> Int]
  /\ NoRow \notin Order
  /\ MaxBatch \in Nat \ {0}

VARIABLES db,       \* what get_db_name() answers
          orders,   \* the rows of orders, for Cassandra of orders_by_id
          by_user,  \* the row of orders_by_user under each key
          step,     \* the statement to be executed next
          todo,     \* the orders not inserted yet
          answer    \* what the last call has returned

tables == <<orders, by_user>>

vars == <<db, tables, step, todo, answer>>

User == {UserOf[o] : o \in Order}

Second == {CreatedAt[o] : o \in Order}

KeyOf == [o \in Order |-> <<UserOf[o], CreatedAt[o]>>]

Key == {KeyOf[o] : o \in Order}

\* insert_one is insert_batch of one: no client treats it differently.
Batch == UNION {[1 .. k -> Order] : k \in 1 .. MaxBatch}

-----------------------------------------------------------------------------
(***************************************************************************)
(* From a row to an Order.  Mongo takes a field by the name of a column;   *)
(* Postgres's row_to_order is declared only, and taken to be right.        *)
(* Cassandra's goes by the position of a column, and by a getter for the   *)
(* type it expects there.  What a field then holds is described by the     *)
(* column it was read from.  As the driver has it, the getter of a number  *)
(* leaves its result uninitialized at a column of another type, and the    *)
(* getter of a string answers the bytes of any column.  The last field is  *)
(* only read if there is a column in its place.                            *)
(***************************************************************************)
Fields == <<"order_id", "user_id", "product_id", "status", "amount",
            "quantity", "description", "created_at", "updated_at">>

SelectById == Fields

SelectByUser == <<"user_id", "created_at", "order_id", "product_id", "status",
                  "amount", "quantity", "description">>

TypeOf == [order_id |-> "uuid", user_id |-> "uuid", product_id |-> "uuid",
           status |-> "text", amount |-> "decimal", quantity |-> "smallint",
           description |-> "text", created_at |-> "timestamp",
           updated_at |-> "timestamp"]

Getter == <<"text", "text", "text", "text", "double", "int", "text", "text", "text">>

Column == {Fields[i] : i \in 1 .. 9} \cup {"bytes", "uninitialized", "empty"}

RowToOrder(columns) ==
  [i \in 1 .. 9 |->
     IF i > Len(columns) THEN "empty"
     ELSE IF TypeOf[columns[i]] = Getter[i] THEN columns[i]
     ELSE IF Getter[i] = "text" THEN "bytes" ELSE "uninitialized"]

Nothing == [rows |-> {}, holds |-> Fields]

-----------------------------------------------------------------------------
TypeOK ==
  /\ db \in {"postgres", "mongo", "cassandra"}
  /\ orders \subseteq Order
  /\ by_user \in [Key -> Order \cup {NoRow}]
  /\ step \in {"idle", "insert", "insert_by_user", "truncate_by_user"}
  /\ todo \in Seq(Order)
  /\ answer \in [rows : SUBSET Order, holds : [1 .. 9 -> Column]]

NoUserRows == [k \in Key |-> NoRow]

Init ==
  /\ db \in {"postgres", "mongo", "cassandra"}
  /\ orders = {} /\ by_user = NoUserRows
  /\ step = "idle" /\ todo = <<>>
  /\ answer = Nothing

Idle == step = "idle"

Is(database) == db = database

\* A call returns, or throws.
End ==
  /\ step' = "idle"
  /\ todo' = <<>>

-----------------------------------------------------------------------------
(* insert_one and insert_batch *)

Insert(batch) ==
  /\ Idle
  /\ step' = "insert"
  /\ todo' = batch
  /\ answer' = Nothing
  /\ UNCHANGED <<db, tables>>

Inserting(database) == Is(database) /\ step = "insert"

InsertsOf(batch) == {batch[i] : i \in 1 .. Len(batch)}

\* No order_id twice, and none that is there.
Unique(batch) ==
  /\ InsertsOf(batch) \cap orders = {}
  /\ \A i, j \in 1 .. Len(batch) : batch[i] = batch[j] => i = j

\* Mutant: every row in a transaction of its own.
CommitFirst ==
  /\ Inserting("postgres") /\ Unique(todo)
  /\ orders' = orders \cup {Head(todo)}
  /\ todo' = Tail(todo)
  /\ step' = IF todo' = <<>> THEN "idle" ELSE "insert"
  /\ UNCHANGED <<db, by_user, answer>>

Commit ==
  /\ Inserting("postgres") /\ Unique(todo)
  /\ orders' = orders \cup InsertsOf(todo)
  /\ End
  /\ UNCHANGED <<db, by_user, answer>>

CommitThrows ==
  /\ Inserting("postgres")
  /\ \/ UNCHANGED orders
     \/ Unique(todo) /\ orders' = orders \cup InsertsOf(todo)
  /\ End
  /\ UNCHANGED <<db, by_user, answer>>

Advance ==
  /\ todo' = Tail(todo)
  /\ step' = IF Tail(todo) = <<>> THEN "idle" ELSE "insert"

\* insert_many stops at the first order_id that is there already.
InsertDocument ==
  /\ Inserting("mongo") /\ Head(todo) \notin orders
  /\ orders' = orders \cup {Head(todo)}
  /\ Advance
  /\ UNCHANGED <<db, by_user, answer>>

InsertDocumentThrows ==
  /\ Inserting("mongo")
  /\ \/ UNCHANGED orders
     \/ orders' = orders \cup {Head(todo)}
  /\ End
  /\ UNCHANGED <<db, by_user, answer>>

InsertById ==
  /\ Inserting("cassandra")
  /\ orders' = orders \cup {Head(todo)}
  /\ step' = "insert_by_user"
  /\ UNCHANGED <<db, by_user, todo, answer>>

InsertByIdThrows ==
  /\ Inserting("cassandra")
  /\ \/ UNCHANGED orders
     \/ orders' = orders \cup {Head(todo)}
  /\ End
  /\ UNCHANGED <<db, by_user, answer>>

Overwrite(o) == by_user' = [by_user EXCEPT ![KeyOf[o]] = o]

InsertByUser ==
  /\ step = "insert_by_user"
  /\ Overwrite(Head(todo))
  /\ Advance
  /\ UNCHANGED <<db, orders, answer>>

InsertByUserThrows ==
  /\ step = "insert_by_user"
  /\ UNCHANGED by_user \/ Overwrite(Head(todo))
  /\ End
  /\ UNCHANGED <<db, orders, answer>>

-----------------------------------------------------------------------------
(* delete_by_primary_key and clear_table, which Postgres lacks *)

\* Cassandra deletes from orders_by_id only.
Delete(o) ==
  /\ Idle /\ ~Is("postgres")
  /\ orders' = orders \ {o}
  /\ answer' = Nothing
  /\ UNCHANGED <<db, by_user, step, todo>>

Clear ==
  /\ Idle /\ ~Is("postgres")
  /\ orders' = {}
  /\ step' = IF Is("cassandra") THEN "truncate_by_user" ELSE "idle"
  /\ answer' = Nothing
  /\ UNCHANGED <<db, by_user, todo>>

TruncateByUser ==
  /\ step = "truncate_by_user"
  /\ by_user' = NoUserRows
  /\ step' = "idle"
  /\ UNCHANGED <<db, orders, todo, answer>>

TruncateByUserThrows ==
  /\ step = "truncate_by_user"
  /\ UNCHANGED by_user \/ by_user' = NoUserRows
  /\ step' = "idle"
  /\ UNCHANGED <<db, orders, todo, answer>>

\* One statement, which did nothing or lost its answer after it was done.
CallThrows ==
  /\ Idle
  /\ \/ UNCHANGED orders
     \/ ~Is("postgres") /\ orders' \in {{}} \cup {orders \ {o} : o \in Order}
  /\ answer' = Nothing
  /\ UNCHANGED <<db, by_user, step, todo>>

-----------------------------------------------------------------------------
(* The lookups *)

Returns(rows, holds) ==
  /\ Idle
  /\ answer' = [rows |-> rows, holds |-> holds]
  /\ UNCHANGED <<db, tables, step, todo>>

\* What the orders of a SELECT hold.
Converted(columns) == IF Is("cassandra") THEN RowToOrder(columns) ELSE Fields

\* Mutant: the row is not looked at before it is converted.
FindUnchecked(o) ==
  Returns({IF o \in orders THEN o ELSE NoRow}, Converted(SelectById))

FindByPrimaryKey(o) == Returns({o} \cap orders, Converted(SelectById))

\* The rows of a partition of orders_by_user, or of the table.
RowsOf(u) ==
  IF Is("cassandra")
    THEN {by_user[k] : k \in {k \in Key : k[1] = u}} \ {NoRow}
    ELSE {o \in orders : UserOf[o] = u}

FindBySecondaryKey(u) == Returns(RowsOf(u), Converted(SelectByUser))

Between(from, to) == {o \in Order : from <= CreatedAt[o] /\ CreatedAt[o] <= to}

\* Cassandra's find_by_range is not written yet; nobody calls it.
FindByRange(from, to) ==
  /\ ~Is("cassandra")
  /\ Returns(orders \cap Between(from, to), Fields)

\* Experiment 5 filters by what the Order holds in its created_at.  Where that
\* is the description, its first letter comes after every digit of a date.
InWindow(o, from, to) ==
  RowToOrder(SelectByUser)[8] = "created_at" /\ o \in Between(from, to)

Scan(u, from, to) == {o \in RowsOf(u) : InWindow(o, from, to)}

ScanUser(u, from, to) ==
  /\ Is("cassandra")
  /\ Returns(Scan(u, from, to), Converted(SelectByUser))

-----------------------------------------------------------------------------
Next ==
  \/ \E batch \in Batch : Insert(batch)
  \/ Commit \/ CommitThrows
  \/ InsertDocument \/ InsertDocumentThrows
  \/ InsertById \/ InsertByIdThrows \/ InsertByUser \/ InsertByUserThrows
  \/ \E o \in Order : Delete(o) \/ FindByPrimaryKey(o)
  \/ Clear \/ TruncateByUser \/ TruncateByUserThrows
  \/ CallThrows
  \/ \E u \in User : FindBySecondaryKey(u)
  \/ \E from, to \in Second :
        FindByRange(from, to) \/ \E u \in User : ScanUser(u, from, to)

Spec == Init /\ [][Next]_vars

-----------------------------------------------------------------------------
(* Properties *)

\* The orders on which Cassandra's two tables disagree.
Apart ==
  IF Is("cassandra")
    THEN {o \in Order : (o \in orders) # (by_user[KeyOf[o]] = o)}
    ELSE {}

Interface == INSTANCE DBInterface WITH
               atomic <- Is("postgres"), stored <- orders, apart <- Apart,
               answer <- answer.rows

\* Every client keeps the promises of the interface, whatever fails: a batch
\* leaves a first part of it, on Postgres all or nothing; only on Cassandra do
\* lookups by user depart from the set, and there only on orders deleted, in a
\* failed call, or of a user and second that was inserted again.
ImplementsDBInterface == Interface!Spec

\* "Call find_by_secondary_key to get the user's partition, then filter by date
\* client-side" (Experiment5.cpp:58-59): whatever calls have left in the tables,
\* a scan keeps the rows of the partition that were created in the window.  (It
\* keeps none: the created_at it compares is not the column of that name.)
ScansFilterByDate ==
  Idle /\ Is("cassandra") =>
     \A u \in User : \A from, to \in Second :
        Scan(u, from, to) = RowsOf(u) \cap Between(from, to)
=============================================================================
