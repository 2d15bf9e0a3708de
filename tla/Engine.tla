------------------------------- MODULE Engine -------------------------------
(***************************************************************************)
(* A database server as a single client sees it: its tables, and the rows  *)
(* it has been asked for since its caches were last dropped, which a read  *)
(* may find in memory.  (Rows of one page are cached together: that is not *)
(* modelled.)  A client call is one step here; one that throws has         *)
(* executed a prefix of its statements.                                    *)
(***************************************************************************)
EXTENDS Tables

VARIABLE warm   \* the rows accessed since the caches were last dropped

engine == <<tables, warm>>

EngineTypeOK ==
  /\ TablesTypeOK
  /\ warm \subseteq Row

-----------------------------------------------------------------------------
(* Client calls *)

ClearTable ==
  /\ TruncateOrders
  /\ IF DualTables THEN TruncateByUser ELSE UNCHANGED by_user
  /\ warm' = {}

ClearTableThrows ==
  /\ \/ TruncateOrdersInDoubt /\ UNCHANGED by_user
     \/ DualTables /\ TruncateOrders /\ TruncateByUserInDoubt
  /\ UNCHANGED warm

InsertOne(r) ==
  /\ Accepts(r)
  /\ InsertOrder(r)
  /\ IF DualTables THEN InsertByUser(r) ELSE UNCHANGED by_user
  /\ warm' = warm \cup {r}

\* A duplicate order_id is one reason to throw.
InsertOneThrows(r) ==
  /\ \/ UNCHANGED tables
     \/ Accepts(r) /\ InsertOrder(r) /\ UNCHANGED by_user
     \/ DualTables /\ InsertOrder(r) /\ InsertByUserInDoubt(r)
  /\ warm' = warm \cup {r}

\* A row that is not there is no error: the call returns an empty Order.
FindByPrimaryKey(r) ==
  /\ warm' = warm \cup (orders \cap {r})
  /\ UNCHANGED tables

-----------------------------------------------------------------------------
(***************************************************************************)
(* The container is restarted and the caches of the machine are dropped.   *)
(* All three databases acknowledge a write before it is on disk, so a      *)
(* server that is killed, not shut down, may come back without some rows.  *)
(***************************************************************************)
Restart(clean) ==
  /\ warm' = {}
  /\ IF clean
       THEN UNCHANGED tables
       ELSE /\ orders' \in SUBSET orders
            /\ \E lost \in SUBSET UserKey :
                 by_user' = [k \in UserKey |-> IF k \in lost THEN NoRow ELSE by_user[k]]
=============================================================================
