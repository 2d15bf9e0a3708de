------------------------------- MODULE Tables -------------------------------
(***************************************************************************)
(* The tables behind the three clients, at the granularity of the          *)
(* statements the clients send.  Postgres and Mongo keep one table         *)
(* `orders`, keyed by order_id.  Cassandra keeps every order twice: in     *)
(* orders_by_id, keyed by order_id, and in orders_by_user, keyed by the    *)
(* pair (user_id, created_at).                                             *)
(*                                                                         *)
(* A row is the index of an Order in the data set: generated order_ids are *)
(* random UUIDs, so rows and order_ids are one to one.  What the           *)
(* properties tell apart besides the identity of a row is its key in       *)
(* orders_by_user, KeyOf[row], which two rows may share: created_at is a   *)
(* timestamp of one-second resolution.                                     *)
(***************************************************************************)
EXTENDS Integers, FiniteSets

CONSTANTS Db,           \* what get_db_name() answers
          DatasetSize,  \* dataset_->size()
          UserKey,      \* the pairs (user_id, created_at)
          KeyOf,        \* the pair of every row
          NoRow         \* no row is stored under this key

Row == 0 .. DatasetSize - 1

ASSUME TablesAssumption ==
  /\ Db \in {"postgres", "mongo", "cassandra"}
  /\ DatasetSize \in Nat
  /\ KeyOf \in [Row -> UserKey]
  /\ NoRow \notin Row

VARIABLES orders,   \* the rows of orders (Cassandra: of orders_by_id)
          by_user   \* the row of orders_by_user under each key

tables == <<orders, by_user>>

\* Cassandra's insert_one and clear_table are two statements, one per table.
DualTables == Db = "cassandra"

TablesTypeOK ==
  /\ orders \subseteq Row
  /\ by_user \in [UserKey -> Row \cup {NoRow}]

NoUserRows == [k \in UserKey |-> NoRow]

EmptyTables ==
  /\ orders = {}
  /\ by_user = NoUserRows

(***************************************************************************)
(* Statements.  The SQL INSERT and Mongo's insert reject a duplicate       *)
(* order_id; a CQL INSERT overwrites whatever is stored under the key.     *)
(***************************************************************************)
Accepts(r) == DualTables \/ r \notin orders

InsertOrder(r) == orders' = orders \cup {r}

InsertByUser(r) == by_user' = [by_user EXCEPT ![KeyOf[r]] = r]

TruncateOrders == orders' = {}

TruncateByUser == by_user' = NoUserRows

(***************************************************************************)
(* A statement whose call throws may or may not have been executed: the    *)
(* error can be the server's, or the answer can have been lost.            *)
(***************************************************************************)
InsertOrderInDoubt(r) == UNCHANGED orders \/ InsertOrder(r)

InsertByUserInDoubt(r) == UNCHANGED by_user \/ InsertByUser(r)

TruncateOrdersInDoubt == UNCHANGED orders \/ TruncateOrders

TruncateByUserInDoubt == UNCHANGED by_user \/ TruncateByUser

\* The orders that find_by_primary_key returns and no lookup by user can.
Orphans == {r \in orders : by_user[KeyOf[r]] = NoRow}
=============================================================================
