----------------------------- MODULE DBInterface -----------------------------
(***************************************************************************)
(* What the caller of a client may rely on, whichever database it is for:  *)
(* a set of orders.  An insert adds its orders one after the other, or all *)
(* at once; one that throws has added some first part of them, or none.    *)
(* A lookup by id or by date answers from the set.  A lookup by user does, *)
(* but for the orders that are `apart`: a deletion, a call that throws, or *)
(* an insert of the same user and second may set an order apart, and       *)
(* nothing else ever does; inserting it again puts it back.                *)
(***************************************************************************)
EXTENDS Integers, Sequences

CONSTANTS Order, UserOf, CreatedAt

VARIABLES atomic,  \* an insert adds all of its orders at once
          stored,  \* the orders
          apart,   \* those found by user but not stored, or the reverse
          todo,    \* the orders that an insert has still to add
          answer   \* what the last call has found

vars == <<atomic, stored, apart, todo, answer>>

Init ==
  /\ atomic \in BOOLEAN
  /\ stored = {} /\ apart = {} /\ todo = <<>> /\ answer = {}

Orders(batch) == {batch[i] : i \in 1 .. Len(batch)}

Idle == todo = <<>>

\* The stored orders of the same user and second.
Rivals(o) ==
  {p \in stored \ {o} : UserOf[p] = UserOf[o] /\ CreatedAt[p] = CreatedAt[o]}

Insert ==
  /\ Idle
  /\ todo' \in Seq(Order) \ {<<>>}
  /\ answer' = {}
  /\ UNCHANGED <<atomic, stored, apart>>

\* Half of the first insert: the order is stored, lookups by user lag behind.
PutHalf ==
  /\ todo # <<>> /\ ~atomic
  /\ stored' = stored \cup {Head(todo)}
  /\ apart' \subseteq apart \cup {Head(todo)}
  /\ UNCHANGED <<atomic, todo, answer>>

Put ==
  /\ todo # <<>> /\ ~atomic
  /\ stored' = stored \cup {Head(todo)}
  /\ apart' \subseteq (apart \cup Rivals(Head(todo))) \ {Head(todo)}
  /\ todo' = Tail(todo)
  /\ UNCHANGED <<atomic, answer>>

PutAll ==
  /\ todo # <<>> /\ atomic
  /\ stored' = stored \cup Orders(todo)
  /\ apart' \subseteq apart
  /\ todo' = <<>>
  /\ UNCHANGED <<atomic, answer>>

InsertThrows ==
  /\ todo # <<>>
  /\ LET doubtful == IF atomic THEN Orders(todo) ELSE {Head(todo)}
     IN  stored' \in {stored, stored \cup doubtful}
  /\ apart' \subseteq apart \cup {Head(todo)} \cup Rivals(Head(todo))
  /\ todo' = <<>>
  /\ UNCHANGED <<atomic, answer>>

Delete(o) ==
  /\ Idle
  /\ stored' = stored \ {o}
  /\ apart' \subseteq apart \cup {o}
  /\ answer' = {}
  /\ UNCHANGED <<atomic, todo>>

Clear ==
  /\ Idle
  /\ stored' = {} /\ apart' = {} /\ answer' = {}
  /\ UNCHANGED <<atomic, todo>>

\* On its way, or given up.
ClearHalf ==
  /\ Idle
  /\ stored' = {}
  /\ apart' \subseteq apart \cup stored
  /\ answer' = {}
  /\ UNCHANGED <<atomic, todo>>

\* An exception before anything was done, or after a lookup.
CallThrows ==
  /\ Idle
  /\ answer' = {}
  /\ UNCHANGED <<atomic, stored, apart, todo>>

ByUser(u) == {o \in (stored \ apart) \cup (apart \ stored) : UserOf[o] = u}

Between(from, to) == {o \in Order : from <= CreatedAt[o] /\ CreatedAt[o] <= to}

Finds(rows) ==
  /\ Idle
  /\ answer' = rows
  /\ UNCHANGED <<atomic, stored, apart, todo>>

FindByPrimaryKey(o) == Finds({o} \cap stored)

FindBySecondaryKey(u) == Finds(ByUser(u))

FindByRange(from, to) == Finds(stored \cap Between(from, to))

\* A range scan within the orders of a user may miss any of them.
ScanUser(u, from, to) ==
  \E rows \in SUBSET (ByUser(u) \cap Between(from, to)) : Finds(rows)

User == {UserOf[o] : o \in Order}

Second == {CreatedAt[o] : o \in Order}

Next ==
  \/ Insert \/ PutHalf \/ Put \/ PutAll \/ InsertThrows
  \/ \E o \in Order : Delete(o) \/ FindByPrimaryKey(o)
  \/ Clear \/ ClearHalf \/ CallThrows
  \/ \E u \in User : FindBySecondaryKey(u)
  \/ \E from, to \in Second :
        FindByRange(from, to) \/ \E u \in User : ScanUser(u, from, to)

Spec == Init /\ [][Next]_vars
=============================================================================
