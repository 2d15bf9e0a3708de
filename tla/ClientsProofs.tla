---------------------------- MODULE ClientsProofs ----------------------------
(***************************************************************************)
(* The clients keep the promises of DBInterface for every set of orders,   *)
(* users and dates, and every size of a batch.  The step a client is in    *)
(* tells what is left to do; nothing more is needed to map each step of a  *)
(* client to one of the interface.                                         *)
(***************************************************************************)
EXTENDS Clients, TLAPS

\* Between its two statements a client is Cassandra's, and the first of the
\* two has been executed.
StepInv ==
  /\ step \in {"insert", "insert_by_user"} => todo # <<>>
  /\ step \in {"idle", "truncate_by_user"} => todo = <<>>
  /\ step = "insert_by_user" => db = "cassandra" /\ Head(todo) \in orders
  /\ step = "truncate_by_user" =>
       db = "cassandra" /\ orders = {} /\ answer.rows = {}

\* A row of orders_by_user is stored under its own key.
KeyInv == \A k \in Key : by_user[k] # NoRow => KeyOf[by_user[k]] = k

IInv == TypeOK /\ StepInv /\ KeyInv

-----------------------------------------------------------------------------
(* Batches and what a row becomes *)

LEMMA BatchIsSeq ==
  ASSUME NEW batch \in Batch
  PROVE  batch \in Seq(Order) /\ batch # <<>>
<1>1. PICK k \in 1 .. MaxBatch : batch \in [1 .. k -> Order]
  BY DEF Batch
<1>2. k \in Nat /\ k >= 1
  BY <1>1, ClientsAssumption
<1>3. batch \in Seq(Order)
  BY <1>1, <1>2
<1>4. Len(batch) = k
  BY <1>1, <1>2, <1>3
<1> QED
  BY <1>2, <1>3, <1>4

LEMMA HeadAndTail ==
  ASSUME NEW s \in Seq(Order), s # <<>>
  PROVE  Head(s) \in Order /\ Tail(s) \in Seq(Order)
OBVIOUS

LEMMA OrdersOfBatch ==
  ASSUME NEW s \in Seq(Order)
  PROVE  InsertsOf(s) \subseteq Order
BY DEF InsertsOf

LEMMA KeyType == \A o \in Order : KeyOf[o] \in Key
BY DEF Key, KeyOf

\* Nine names, a column for each of them.
LEMMA FieldType ==
  /\ Fields \in [1 .. 9 -> Column]
  /\ Fields = SelectById
  /\ Len(Fields) = 9 /\ Len(SelectByUser) = 8
<1>1. \A i \in 1 .. 9 : Fields[i] \in Column
  BY DEF Column
<1> QED
  BY <1>1 DEF Fields, SelectById, SelectByUser

LEMMA ColumnsAreNamed ==
  ASSUME NEW columns \in {SelectById, SelectByUser}, NEW i \in 1 .. Len(columns)
  PROVE  columns[i] \in Column
<1>1. \A j \in 1 .. 9 : Fields[j] \in Column
  BY DEF Column
<1>2. CASE columns = SelectById
  BY <1>1, <1>2, FieldType
<1>3. CASE columns = SelectByUser
  <2>1. {Fields[1], Fields[2], Fields[3], Fields[4], Fields[5], Fields[6],
         Fields[7], Fields[8]} \subseteq Column
    BY <1>1
  <2>2. /\ SelectByUser[1] = Fields[2] /\ SelectByUser[2] = Fields[8]
        /\ SelectByUser[3] = Fields[1] /\ SelectByUser[4] = Fields[3]
        /\ SelectByUser[5] = Fields[4] /\ SelectByUser[6] = Fields[5]
        /\ SelectByUser[7] = Fields[6] /\ SelectByUser[8] = Fields[7]
    BY DEF SelectByUser, Fields
  <2>3. i \in {1, 2, 3, 4, 5, 6, 7, 8}
    BY <1>3, FieldType
  <2> QED
    BY <1>3, <2>1, <2>2, <2>3
<1> QED
  BY <1>2, <1>3

\* Whatever the types of the columns, each field holds something.
LEMMA ConvertedType ==
  ASSUME NEW columns \in {SelectById, SelectByUser}
  PROVE  Converted(columns) \in [1 .. 9 -> Column]
<1>1. ASSUME NEW i \in 1 .. 9
      PROVE  RowToOrder(columns)[i] \in Column
  <2>1. i <= Len(columns) => columns[i] \in Column
    BY FieldType, ColumnsAreNamed
  <2>2. {"bytes", "uninitialized", "empty"} \subseteq Column
    BY DEF Column
  <2>3. Len(columns) \in Nat
    BY FieldType
  <2>4. RowToOrder(columns)[i] \in {columns[i], "bytes", "uninitialized", "empty"}
    BY DEF RowToOrder
  <2>5. i > Len(columns) => RowToOrder(columns)[i] = "empty"
    BY DEF RowToOrder
  <2> QED
    BY <2>1, <2>2, <2>3, <2>4, <2>5
<1>2. RowToOrder(columns) \in [1 .. 9 -> Column]
  BY <1>1 DEF RowToOrder
<1> QED
  BY <1>2, FieldType DEF Converted

-----------------------------------------------------------------------------
(* The inductive invariant *)

LEMMA EndClears ==
  ASSUME End
  PROVE  step' = "idle" /\ todo' = <<>> /\ todo' \in Seq(Order)
BY DEF End

LEMMA AdvanceKeeps ==
  ASSUME todo \in Seq(Order), todo # <<>>, Advance
  PROVE  /\ todo' \in Seq(Order)
         /\ step' \in {"idle", "insert"}
         /\ step' = "insert" => todo' # <<>>
         /\ step' = "idle" => todo' = <<>>
BY DEF Advance

LEMMA Starts == Init => IInv
<1> SUFFICES ASSUME Init
             PROVE  IInv
  OBVIOUS
<1>1. by_user \in [Key -> Order \cup {NoRow}]
  BY DEF Init, NoUserRows
<1>2. answer \in [rows : SUBSET Order, holds : [1 .. 9 -> Column]]
  BY FieldType DEF Init, Nothing
<1>3. KeyInv
  BY DEF Init, NoUserRows, KeyInv
<1> QED
  BY <1>1, <1>2, <1>3 DEF Init, IInv, TypeOK, StepInv

LEMMA RowsAreOrders ==
  ASSUME TypeOK, NEW u
  PROVE  RowsOf(u) \subseteq Order
BY DEF TypeOK, RowsOf

\* One step per action, but for those that only return or throw.
LEMMA StepPreserved ==
  IInv /\ [Next]_vars => TypeOK' /\ StepInv'
<1> SUFFICES ASSUME IInv, [Next]_vars
             PROVE  TypeOK' /\ StepInv'
  OBVIOUS
<1> USE DEF IInv
<1>c. Nothing.rows = {}
  BY DEF Nothing
<1>a. Nothing \in [rows : SUBSET Order, holds : [1 .. 9 -> Column]]
  BY FieldType DEF Nothing
<1>b. todo # <<>> => Head(todo) \in Order /\ KeyOf[Head(todo)] \in Key
  BY HeadAndTail, KeyType DEF TypeOK
<1>1. ASSUME NEW batch \in Batch, Insert(batch)
      PROVE  TypeOK' /\ StepInv'
  BY <1>1, <1>a, BatchIsSeq DEF Insert, TypeOK, StepInv, tables
<1>2. CASE Commit
  BY <1>2, EndClears, OrdersOfBatch DEF Commit, Inserting, Is, TypeOK, StepInv
<1>3. CASE CommitThrows
  BY <1>3, EndClears, OrdersOfBatch DEF CommitThrows, Inserting, Is, TypeOK, StepInv
<1>4. CASE InsertDocument
  <2>1. todo \in Seq(Order) /\ todo # <<>> /\ Advance
    BY <1>4 DEF InsertDocument, Inserting, TypeOK, StepInv
  <2> QED
    BY <1>4, <1>b, <2>1, AdvanceKeeps DEF InsertDocument, Inserting, Is, TypeOK, StepInv
<1>5. CASE InsertDocumentThrows
  BY <1>5, <1>b, EndClears DEF InsertDocumentThrows, Inserting, Is, TypeOK, StepInv
<1>6. CASE InsertById
  BY <1>6, <1>b DEF InsertById, Inserting, Is, TypeOK, StepInv
<1>7. CASE InsertByIdThrows
  BY <1>7, <1>b, EndClears DEF InsertByIdThrows, Inserting, Is, TypeOK, StepInv
<1>8. CASE InsertByUser
  <2>1. todo \in Seq(Order) /\ todo # <<>> /\ Advance
    BY <1>8 DEF InsertByUser, TypeOK, StepInv
  <2>2. by_user' \in [Key -> Order \cup {NoRow}]
    BY <1>8, <1>b, <2>1 DEF InsertByUser, Overwrite, TypeOK
  <2> QED
    BY <1>8, <2>1, <2>2, AdvanceKeeps DEF InsertByUser, TypeOK, StepInv
<1>9. CASE InsertByUserThrows
  <2>1. todo # <<>>
    BY <1>9 DEF InsertByUserThrows, StepInv
  <2>2. by_user' \in [Key -> Order \cup {NoRow}]
    BY <1>9, <1>b, <2>1 DEF InsertByUserThrows, Overwrite, TypeOK
  <2> QED
    BY <1>9, <2>2, EndClears DEF InsertByUserThrows, TypeOK, StepInv
<1>10. ASSUME NEW o \in Order, Delete(o)
       PROVE  TypeOK' /\ StepInv'
  BY <1>10, <1>a DEF Delete, Idle, TypeOK, StepInv
<1>11. CASE Clear
  BY <1>11, <1>a, <1>c DEF Clear, Idle, Is, TypeOK, StepInv
<1>12. CASE TruncateByUser
  BY <1>12 DEF TruncateByUser, NoUserRows, TypeOK, StepInv
<1>13. CASE TruncateByUserThrows
  BY <1>13 DEF TruncateByUserThrows, NoUserRows, TypeOK, StepInv
<1>14. CASE CallThrows
  BY <1>14, <1>a DEF CallThrows, Idle, Is, TypeOK, StepInv
<1>15. ASSUME NEW rows, NEW holds, rows \subseteq Order,
              holds \in [1 .. 9 -> Column], Returns(rows, holds)
       PROVE  TypeOK' /\ StepInv'
  BY <1>15 DEF Returns, Idle, tables, TypeOK, StepInv
<1>16. ASSUME NEW o \in Order, FindByPrimaryKey(o)
       PROVE  TypeOK' /\ StepInv'
  BY <1>15, <1>16, ConvertedType DEF FindByPrimaryKey
<1>17. ASSUME NEW u \in User, FindBySecondaryKey(u)
       PROVE  TypeOK' /\ StepInv'
  BY <1>15, <1>17, RowsAreOrders, ConvertedType DEF FindBySecondaryKey
<1>18. ASSUME NEW from, NEW to, FindByRange(from, to)
       PROVE  TypeOK' /\ StepInv'
  BY <1>15, <1>18, FieldType DEF FindByRange, Between
<1>19. ASSUME NEW u \in User, NEW from, NEW to, ScanUser(u, from, to)
       PROVE  TypeOK' /\ StepInv'
  BY <1>15, <1>19, RowsAreOrders, ConvertedType DEF ScanUser, Scan
<1>20. CASE UNCHANGED vars
  BY <1>20 DEF vars, tables, TypeOK, StepInv
<1> QED
  BY <1>1, <1>2, <1>3, <1>4, <1>5, <1>6, <1>7, <1>8, <1>9, <1>10, <1>11,
     <1>12, <1>13, <1>14, <1>16, <1>17, <1>18, <1>19, <1>20 DEF Next

LEMMA KeyPreserved == IInv /\ [Next]_vars => KeyInv'
<1> SUFFICES ASSUME IInv, [Next]_vars
             PROVE  KeyInv'
  OBVIOUS
<1>1. CASE UNCHANGED by_user
  BY <1>1 DEF IInv, KeyInv
<1>2. CASE by_user' = NoUserRows
  BY <1>2 DEF KeyInv, NoUserRows
<1>3. CASE todo # <<>> /\ Overwrite(Head(todo))
  <2>1. KeyOf[Head(todo)] \in Key /\ by_user \in [Key -> Order \cup {NoRow}]
    BY <1>3, HeadAndTail, KeyType DEF IInv, TypeOK
  <2>2. \A k \in Key :
          by_user'[k] = IF k = KeyOf[Head(todo)] THEN Head(todo) ELSE by_user[k]
    BY <1>3, <2>1 DEF Overwrite
  <2> QED
    BY <2>2 DEF IInv, KeyInv
<1>4. CASE InsertByUser \/ InsertByUserThrows
  <2>1. todo # <<>>
    BY <1>4 DEF InsertByUser, InsertByUserThrows, IInv, StepInv
  <2> QED
    BY <1>1, <1>3, <1>4, <2>1 DEF InsertByUser, InsertByUserThrows
<1>5. CASE TruncateByUser \/ TruncateByUserThrows
  BY <1>1, <1>2, <1>5 DEF TruncateByUser, TruncateByUserThrows
<1>6. CASE \/ \E batch \in Batch : Insert(batch)
           \/ Commit \/ CommitThrows
           \/ InsertDocument \/ InsertDocumentThrows
           \/ InsertById \/ InsertByIdThrows
           \/ Clear \/ CallThrows \/ UNCHANGED vars
  BY <1>1, <1>6
     DEF Insert, Commit, CommitThrows, InsertDocument, InsertDocumentThrows,
         InsertById, InsertByIdThrows, Clear, CallThrows, vars, tables
<1>7. CASE \E o \in Order : Delete(o) \/ FindByPrimaryKey(o)
  BY <1>1, <1>7 DEF Delete, FindByPrimaryKey, Returns, tables
<1>8. CASE \E u \in User : FindBySecondaryKey(u)
  BY <1>1, <1>8 DEF FindBySecondaryKey, Returns, tables
<1>9. CASE \E from, to \in Second :
             FindByRange(from, to) \/ \E u \in User : ScanUser(u, from, to)
  BY <1>1, <1>9 DEF FindByRange, ScanUser, Returns, tables
<1> QED
  BY <1>4, <1>5, <1>6, <1>7, <1>8, <1>9 DEF Next

LEMMA Preserved == IInv /\ [Next]_vars => IInv'
BY StepPreserved, KeyPreserved DEF IInv

THEOREM Invariance == Spec => []IInv
BY Starts, Preserved, PTL DEF Spec

\* Every variable keeps its type: no statement of any client stores or finds
\* what is not an order, whatever fails.
THEOREM TypeCorrect == Spec => []TypeOK
<1>1. IInv => TypeOK
  BY DEF IInv
<1> QED
  BY Invariance, <1>1, PTL

-----------------------------------------------------------------------------
(* The refinement *)

LEMMA ApartElsewhere ==
  /\ db # "cassandra" => Apart = {}
  /\ db' # "cassandra" => Apart' = {}
BY DEF Apart, Is

LEMMA ApartOnCassandra ==
  /\ db = "cassandra" =>
       \A o : o \in Apart <=> o \in Order /\ (o \in orders) # (by_user[KeyOf[o]] = o)
  /\ db' = "cassandra" =>
       \A o : o \in Apart' <=> o \in Order /\ (o \in orders') # (by_user'[KeyOf[o]] = o)
BY DEF Apart, Is

\* A statement on orders_by_id alone concerns the orders it adds or removes.
LEMMA ApartByOrders ==
  ASSUME db' = db, UNCHANGED by_user, NEW S, orders \ S = orders' \ S
  PROVE  Apart' \subseteq Apart \cup S
<1>1. \A o : o \notin S => (o \in orders <=> o \in orders')
  OBVIOUS
<1>2. CASE db = "cassandra"
  BY <1>1, <1>2, ApartOnCassandra
<1>3. CASE db # "cassandra"
  BY <1>3, ApartElsewhere
<1> QED
  BY <1>2, <1>3

LEMMA OverwriteRow ==
  ASSUME TypeOK, NEW h \in Order, Overwrite(h)
  PROVE  \A o \in Order :
           by_user'[KeyOf[o]] = IF KeyOf[o] = KeyOf[h] THEN h ELSE by_user[KeyOf[o]]
BY KeyType DEF TypeOK, Overwrite

\* Of the stored orders, those of the same user and second are set apart.
LEMMA ApartByUser ==
  ASSUME TypeOK, NEW h \in Order, h \in orders, Overwrite(h),
         db = "cassandra", UNCHANGED <<db, orders>>
  PROVE  Apart' \subseteq (Apart \cup Interface!Rivals(h)) \ {h}
<1>1. h \notin Apart'
  BY OverwriteRow, ApartOnCassandra
<1>2. ASSUME NEW o \in Apart'
      PROVE  o \in Apart \cup Interface!Rivals(h)
  <2>1. o \in Order /\ o # h
    BY <1>1, <1>2, ApartOnCassandra
  <2>2. CASE KeyOf[o] # KeyOf[h]
    BY <1>2, <2>1, <2>2, OverwriteRow, ApartOnCassandra
  <2>3. CASE KeyOf[o] = KeyOf[h]
    <3>1. by_user'[KeyOf[o]] = h
      BY <2>1, <2>3, OverwriteRow
    <3>2. o \in orders
      BY <1>2, <2>1, <3>1, ApartOnCassandra
    <3>3. UserOf[o] = UserOf[h] /\ CreatedAt[o] = CreatedAt[h]
      BY <2>1, <2>3 DEF KeyOf
    <3> QED
      BY <2>1, <3>2, <3>3 DEF Interface!Rivals
  <2> QED
    BY <2>2, <2>3
<1> QED
  BY <1>1, <1>2

LEMMA InterfaceStarts == Init => Interface!Init
<1> SUFFICES ASSUME Init
             PROVE  Interface!Init
  OBVIOUS
<1>1. Apart = {}
  <2>1. \A o \in Order : by_user[KeyOf[o]] = NoRow
    BY KeyType DEF Init, NoUserRows
  <2> QED
    BY <2>1, ClientsAssumption DEF Init, Apart
<1>2. Is("postgres") \in BOOLEAN
  BY DEF Is
<1> QED
  BY <1>1, <1>2 DEF Init, Interface!Init, Nothing

\* What an insert does next, on any database.
LEMMA InsertMaps ==
  ASSUME IInv
  PROVE  /\ \A batch \in Batch : Insert(batch) => Interface!Insert
         /\ Commit => Interface!PutAll
         /\ CommitThrows => Interface!InsertThrows
         /\ InsertDocument => Interface!Put
         /\ InsertDocumentThrows => Interface!InsertThrows
         /\ InsertById => Interface!PutHalf
         /\ InsertByIdThrows => Interface!InsertThrows
         /\ InsertByUser => Interface!Put
         /\ InsertByUserThrows => Interface!InsertThrows
<1> USE DEF IInv
<1>1. ASSUME NEW batch \in Batch, Insert(batch)
      PROVE  Interface!Insert
  <2>1. Apart' = Apart
    BY <1>1 DEF Insert, tables, Apart, Is
  <2> QED
    BY <1>1, <2>1, BatchIsSeq
       DEF Insert, Idle, Is, Nothing, tables, StepInv, Interface!Insert, Interface!Idle
<1>2. ASSUME Commit
      PROVE  Interface!PutAll
  BY <1>2, ApartElsewhere
     DEF Commit, Inserting, End, Is, StepInv, InsertsOf, Interface!PutAll, Interface!Orders
<1>3. ASSUME CommitThrows
      PROVE  Interface!InsertThrows
  BY <1>3, ApartElsewhere
     DEF CommitThrows, Inserting, End, Is, StepInv, InsertsOf,
         Interface!InsertThrows, Interface!Orders
<1>4. ASSUME InsertDocument
      PROVE  Interface!Put
  BY <1>4, ApartElsewhere
     DEF InsertDocument, Inserting, Advance, Is, StepInv, Interface!Put
<1>5. ASSUME InsertDocumentThrows
      PROVE  Interface!InsertThrows
  BY <1>5, ApartElsewhere
     DEF InsertDocumentThrows, Inserting, End, Is, StepInv, Interface!InsertThrows
<1>6. ASSUME InsertById
      PROVE  Interface!PutHalf
  <2>1. Apart' \subseteq Apart \cup {Head(todo)}
    BY <1>6, ApartByOrders DEF InsertById
  <2> QED
    BY <1>6, <2>1 DEF InsertById, Inserting, Is, StepInv, Interface!PutHalf
<1>7. ASSUME InsertByIdThrows
      PROVE  Interface!InsertThrows
  <2>1. Apart' \subseteq Apart \cup {Head(todo)}
    BY <1>7, ApartByOrders DEF InsertByIdThrows
  <2> QED
    BY <1>7, <2>1 DEF InsertByIdThrows, Inserting, End, Is, StepInv, Interface!InsertThrows
<1>8. step = "insert_by_user" =>
        /\ todo # <<>> /\ db = "cassandra"
        /\ Head(todo) \in Order /\ Head(todo) \in orders
  BY HeadAndTail DEF StepInv, TypeOK
<1>9. ASSUME InsertByUser
      PROVE  Interface!Put
  <2>1. Apart' \subseteq (Apart \cup Interface!Rivals(Head(todo))) \ {Head(todo)}
    BY <1>8, <1>9, ApartByUser DEF InsertByUser
  <2>2. orders \cup {Head(todo)} = orders
    BY <1>8, <1>9 DEF InsertByUser
  <2> QED
    BY <1>8, <1>9, <2>1, <2>2 DEF InsertByUser, Advance, Is, Interface!Put
<1>10. ASSUME InsertByUserThrows
       PROVE  Interface!InsertThrows
  <2>1. Apart' \subseteq Apart \cup {Head(todo)} \cup Interface!Rivals(Head(todo))
    <3>1. CASE UNCHANGED by_user
      BY <1>10, <3>1, ApartByOrders DEF InsertByUserThrows
    <3>2. CASE Overwrite(Head(todo))
      BY <1>8, <1>10, <3>2, ApartByUser DEF InsertByUserThrows
    <3> QED
      BY <1>10, <3>1, <3>2 DEF InsertByUserThrows
  <2> QED
    BY <1>8, <1>10, <2>1 DEF InsertByUserThrows, End, Is, Interface!InsertThrows
<1> QED
  BY <1>1, <1>2, <1>3, <1>4, <1>5, <1>6, <1>7, <1>9, <1>10

\* The statements that take orders away.
LEMMA RemovalMaps ==
  ASSUME IInv
  PROVE  /\ \A o \in Order : Delete(o) => Interface!Delete(o)
         /\ Clear => Interface!Clear \/ Interface!ClearHalf
         /\ TruncateByUser => Interface!Clear
         /\ TruncateByUserThrows => Interface!Clear \/ Interface!ClearHalf
         /\ CallThrows => \/ Interface!CallThrows \/ Interface!ClearHalf
                          \/ \E o \in Order : Interface!Delete(o)
<1> USE DEF IInv
<1>a. Nothing.rows = {}
  BY DEF Nothing
<1>1. ASSUME NEW o \in Order, Delete(o)
      PROVE  Interface!Delete(o)
  <2>1. Apart' \subseteq Apart \cup {o}
    BY <1>1, ApartByOrders DEF Delete
  <2> QED
    BY <1>1, <1>a, <2>1 DEF Delete, Idle, Is, StepInv, Interface!Delete, Interface!Idle
<1>2. ASSUME Clear
      PROVE  Interface!Clear \/ Interface!ClearHalf
  <2>1. Apart' \subseteq Apart \cup orders
    BY <1>2, ApartByOrders DEF Clear
  <2> QED
    BY <1>2, <1>a, <2>1 DEF Clear, Idle, Is, StepInv, Interface!ClearHalf, Interface!Idle
<1>3. ASSUME step = "truncate_by_user", by_user' = NoUserRows, db' = db,
             UNCHANGED <<orders, todo, answer>>
      PROVE  Interface!Clear
  <2>1. Apart' = {}
    <3>1. \A o \in Order : by_user'[KeyOf[o]] # o /\ o \notin orders'
      BY <1>3, KeyType, ClientsAssumption DEF NoUserRows, StepInv
    <3> QED
      BY <3>1, ApartOnCassandra, ApartElsewhere
  <2> QED
    BY <1>3, <2>1 DEF StepInv, Is, Interface!Clear, Interface!Idle
<1>4. ASSUME step = "truncate_by_user", by_user' = by_user, db' = db,
             UNCHANGED <<orders, todo, answer>>
      PROVE  Interface!ClearHalf
  <2>1. Apart' \subseteq Apart \cup orders
    BY <1>4, ApartByOrders
  <2> QED
    BY <1>4, <2>1 DEF StepInv, Is, Interface!ClearHalf, Interface!Idle
<1>5. ASSUME TruncateByUser
      PROVE  Interface!Clear
  BY <1>3, <1>5 DEF TruncateByUser
<1>6. ASSUME TruncateByUserThrows
      PROVE  Interface!Clear \/ Interface!ClearHalf
  BY <1>3, <1>4, <1>6 DEF TruncateByUserThrows
<1>7. ASSUME CallThrows
      PROVE  \/ Interface!CallThrows \/ Interface!ClearHalf
             \/ \E o \in Order : Interface!Delete(o)
  <2>1. db' = db /\ todo = <<>> /\ todo' = todo /\ UNCHANGED by_user /\ answer'.rows = {}
    BY <1>7, <1>a DEF CallThrows, Idle, StepInv
  <2>2. CASE UNCHANGED orders
    <3>1. Apart' = Apart
      BY <2>1, <2>2 DEF Apart, Is
    <3> QED
      BY <2>1, <2>2, <3>1 DEF Is, Interface!CallThrows, Interface!Idle
  <2>3. CASE orders' = {}
    <3>1. Apart' \subseteq Apart \cup orders
      BY <2>1, <2>3, ApartByOrders
    <3> QED
      BY <2>1, <2>3, <3>1 DEF Is, Interface!ClearHalf, Interface!Idle
  <2>4. ASSUME NEW o \in Order, orders' = orders \ {o}
        PROVE  Interface!Delete(o)
    <3>1. Apart' \subseteq Apart \cup {o}
      BY <2>1, <2>4, ApartByOrders
    <3> QED
      BY <2>1, <2>4, <3>1 DEF Is, Interface!Delete, Interface!Idle
  <2> QED
    BY <1>7, <2>2, <2>3, <2>4 DEF CallThrows
<1> QED
  BY <1>1, <1>2, <1>5, <1>6, <1>7

\* A lookup by user finds what the interface says, by whichever table.
LEMMA ByUserMaps ==
  ASSUME IInv, NEW u \in User
  PROVE  RowsOf(u) = Interface!ByUser(u)
<1> USE DEF IInv
<1>1. CASE db # "cassandra"
  BY <1>1, ApartElsewhere DEF RowsOf, Is, TypeOK, Interface!ByUser
<1>2. CASE db = "cassandra"
  <2>1. \A o : o \in Interface!ByUser(u) <=>
               o \in Order /\ UserOf[o] = u /\ by_user[KeyOf[o]] = o
    BY <1>2, ApartOnCassandra DEF TypeOK, Interface!ByUser
  <2>2. \A o : o \in RowsOf(u) <=> \E k \in Key : k[1] = u /\ by_user[k] = o /\ o # NoRow
    BY <1>2 DEF RowsOf, Is
  <2>3. ASSUME NEW o \in Interface!ByUser(u)
        PROVE  o \in RowsOf(u)
    <3>1. o \in Order /\ KeyOf[o] \in Key /\ KeyOf[o][1] = u /\ by_user[KeyOf[o]] = o
      BY <2>1, <2>3, KeyType DEF KeyOf
    <3>2. o # NoRow
      BY <3>1, ClientsAssumption
    <3> QED
      BY <2>2, <3>1, <3>2
  <2>4. ASSUME NEW o \in RowsOf(u)
        PROVE  o \in Interface!ByUser(u)
    <3>1. PICK k \in Key : k[1] = u /\ by_user[k] = o /\ o # NoRow
      BY <2>2, <2>4
    <3>2. o \in Order /\ KeyOf[o] = k
      BY <3>1 DEF TypeOK, KeyInv
    <3>3. UserOf[o] = u
      BY <3>1, <3>2 DEF KeyOf
    <3> QED
      BY <2>1, <3>1, <3>2, <3>3
  <2> QED
    BY <2>3, <2>4
<1> QED
  BY <1>1, <1>2

LEMMA ReturnsMaps ==
  ASSUME IInv, NEW rows, NEW holds, Returns(rows, holds)
  PROVE  Interface!Finds(rows)
<1>1. Apart' = Apart
  BY DEF Returns, tables, Apart, Is
<1> QED
  BY <1>1 DEF IInv, StepInv, Returns, Idle, Is, tables, Interface!Finds, Interface!Idle

LEMMA LookupMaps ==
  ASSUME IInv
  PROVE  /\ \A o \in Order : FindByPrimaryKey(o) => Interface!FindByPrimaryKey(o)
         /\ \A u \in User : FindBySecondaryKey(u) => Interface!FindBySecondaryKey(u)
         /\ \A from, to \in Second :
               /\ FindByRange(from, to) => Interface!FindByRange(from, to)
               /\ \A u \in User : ScanUser(u, from, to) => Interface!ScanUser(u, from, to)
<1>1. ASSUME NEW from, NEW to
      PROVE  Between(from, to) = Interface!Between(from, to)
  BY DEF Between, Interface!Between
<1>2. ASSUME NEW u \in User, NEW from \in Second, NEW to \in Second,
             ScanUser(u, from, to)
      PROVE  Interface!ScanUser(u, from, to)
  <2> DEFINE rows == {o \in RowsOf(u) : InWindow(o, from, to)}
  <2>1. Interface!Finds(rows)
    BY <1>2, ReturnsMaps DEF ScanUser, Scan
  <2>2. rows \in SUBSET (Interface!ByUser(u) \cap Interface!Between(from, to))
    BY <1>1, ByUserMaps DEF InWindow
  <2> QED
    BY <2>1, <2>2 DEF Interface!ScanUser
<1> QED
  BY <1>1, <1>2, ReturnsMaps, ByUserMaps
     DEF FindByPrimaryKey, FindBySecondaryKey, FindByRange,
         Interface!FindByPrimaryKey, Interface!FindBySecondaryKey, Interface!FindByRange

LEMMA StepMaps == IInv /\ [Next]_vars => [Interface!Next]_(Interface!vars)
<1> SUFFICES ASSUME IInv, [Next]_vars
             PROVE  Interface!Next \/ UNCHANGED Interface!vars
  OBVIOUS
<1>1. CASE UNCHANGED vars
  <2>1. Apart' = Apart
    BY <1>1 DEF vars, tables, Apart, Is
  <2> QED
    BY <1>1, <2>1 DEF vars, tables, Is, Interface!vars
<1>2. CASE \/ \E batch \in Batch : Insert(batch)
           \/ Commit \/ CommitThrows \/ InsertDocument \/ InsertDocumentThrows
           \/ InsertById \/ InsertByIdThrows \/ InsertByUser \/ InsertByUserThrows
  BY <1>2, InsertMaps DEF Interface!Next
<1>3. CASE \/ \E o \in Order : Delete(o)
           \/ Clear \/ TruncateByUser \/ TruncateByUserThrows \/ CallThrows
  BY <1>3, RemovalMaps DEF Interface!Next
<1>4. CASE \/ \E o \in Order : FindByPrimaryKey(o)
           \/ \E u \in User : FindBySecondaryKey(u)
           \/ \E from, to \in Second :
                 FindByRange(from, to) \/ \E u \in User : ScanUser(u, from, to)
  <2>1. User = Interface!User /\ Second = Interface!Second
    BY DEF User, Second, Interface!User, Interface!Second
  <2> QED
    BY <1>4, <2>1, LookupMaps DEF Interface!Next
<1> QED
  BY <1>1, <1>2, <1>3, <1>4 DEF Next

\* Every client implements the interface: each of its statements, failures and
\* lookups is one the interface allows, for any orders and any batches.
THEOREM Refinement == Spec => ImplementsDBInterface
<1>1. Init => Interface!Init
  BY InterfaceStarts
<1>2. IInv /\ [Next]_vars => [Interface!Next]_(Interface!vars)
  BY StepMaps
<1> QED
  BY <1>1, <1>2, Invariance, PTL DEF Spec, ImplementsDBInterface, Interface!Spec
=============================================================================
