--------------------------- MODULE CassandraClient ---------------------------
(***************************************************************************)
(* The driver objects behind a CassandraClient: who points to them, and    *)
(* which of them are alive.  connect() makes a cluster, a session and five *)
(* prepared statements without looking at what the members hold, and may   *)
(* throw between any two of them; disconnect() frees the first two, the    *)
(* destructor all of them.                                                 *)
(*                                                                         *)
(* A driver object is named by its kind, for a statement its number, and   *)
(* the call of connect() it was made in: a pointer is the number of that   *)
(* call, 0 for nullptr.                                                    *)
(***************************************************************************)
EXTENDS Integers, FiniteSets

CONSTANT MaxConnects   \* bound: calls of connect()

ASSUME CassandraClientAssumption == MaxConnects \in Nat

\* insert_by_id, insert_by_user, select_by_id, select_by_user, delete_by_id.
Statement == 1 .. 5

VARIABLES cluster,      \* cluster_
          session,      \* session_
          prepared,     \* the five prepared statements
          live,         \* the driver objects that are not freed
          connects,     \* calls of connect()
          object,       \* the client itself
          \* Not in the code:
          connected,    \* the last connect() returned, no disconnect() since
          opened,       \* a connect() has returned, no disconnect() since
          overlapping,  \* calls of connect() with a session open
          failed        \* a future has reported an error

pointers == <<cluster, session, prepared>>
history == <<connected, opened, overlapping, failed>>

handles == <<pointers, live, connects, object, history>>

Call == 1 .. MaxConnects

\* The objects of one call: some kinds of them, some statements.
Objects(kinds, statements, call) ==
  (kinds \X {0} \X {call}) \cup ({"prepared"} \X statements \X {call})

Handle == UNION {Objects({"cluster", "session", "future"}, Statement, c) : c \in Call}

HandlesTypeOK ==
  /\ {cluster, session} \subseteq Call \cup {0}
  /\ prepared \in [Statement -> Call \cup {0}]
  /\ live \subseteq Handle
  /\ connects \in 0 .. MaxConnects
  /\ object \in {"alive", "destroyed", "crashed"}
  /\ {connected, opened, failed} \subseteq BOOLEAN
  /\ overlapping \in Nat

HandlesInit ==
  /\ cluster = 0 /\ session = 0 /\ prepared = [s \in Statement |-> 0]
  /\ live = {}
  /\ connects = 0
  /\ object = "alive"
  /\ connected = FALSE /\ opened = FALSE /\ overlapping = 0 /\ failed = FALSE

-----------------------------------------------------------------------------
(* connect() *)

\* Up to the future of cass_session_connect.
Open ==
  /\ object = "alive" /\ connects < MaxConnects
  /\ connects' = connects + 1
  /\ cluster' = connects' /\ session' = connects'
  /\ overlapping' = overlapping + (IF session # 0 THEN 1 ELSE 0)
  /\ UNCHANGED object

Made(statements) == Objects({"cluster", "session"}, statements, connects')

\* check_future throws: the future it was given is never freed.
LoseFuture ==
  /\ connected' = FALSE
  /\ failed' = TRUE
  /\ UNCHANGED opened

MadeAndLost(statements) ==
  Objects({"cluster", "session", "future"}, statements, connects')

\* Mutant: a statement that is there already is not prepared again.
ConnectPreparesOnce ==
  /\ Open
  /\ prepared' = [s \in Statement |-> IF prepared[s] = 0 THEN connects' ELSE prepared[s]]
  /\ live' = live \cup Made({s \in Statement : prepared[s] = 0})
  /\ connected' = TRUE /\ opened' = TRUE
  /\ UNCHANGED failed

Connect ==
  /\ Open
  /\ prepared' = [s \in Statement |-> connects']
  /\ live' = live \cup Made(Statement)
  /\ connected' = TRUE /\ opened' = TRUE
  /\ UNCHANGED failed

\* Mutant: the session that could not connect is freed at once.
ConnectThrowsCloses ==
  /\ object = "alive" /\ connects < MaxConnects
  /\ connects' = connects + 1
  /\ cluster' = 0 /\ session' = 0
  /\ overlapping' = overlapping + (IF session # 0 THEN 1 ELSE 0)
  /\ live' = live \cup Objects({"future"}, {}, connects')
  /\ LoseFuture
  /\ UNCHANGED <<prepared, object>>

ConnectThrows ==
  /\ Open
  /\ live' = live \cup MadeAndLost({})
  /\ LoseFuture
  /\ UNCHANGED prepared

PrepareThrows(statement) ==
  /\ Open
  /\ prepared' = [s \in Statement |-> IF s < statement THEN connects' ELSE prepared[s]]
  /\ live' = live \cup MadeAndLost(1 .. statement - 1)
  /\ LoseFuture

-----------------------------------------------------------------------------
(* The other operations *)

\* Mutant: a call on a session that was closed is taken for one that fails.
FutureFailsClosed(s) ==
  /\ object = "alive" /\ prepared[s] # 0
  /\ live' = live \cup Objects({"future"}, {}, session)
  /\ failed' = TRUE
  /\ UNCHANGED <<pointers, connects, object, connected, opened, overlapping>>

\* A statement is executed and reports an error.
FutureFails(s) ==
  /\ object = "alive" /\ session # 0 /\ prepared[s] # 0
  /\ live' = live \cup Objects({"future"}, {}, session)
  /\ failed' = TRUE
  /\ UNCHANGED <<pointers, connects, object, connected, opened, overlapping>>

\* Binding or executing through a null pointer: the process dies.
CallCrashes(s) ==
  /\ object = "alive" /\ (session = 0 \/ prepared[s] = 0)
  /\ object' = "crashed"
  /\ UNCHANGED <<pointers, live, connects, history>>

Freed == Objects({"session"}, {}, session) \cup Objects({"cluster"}, {}, cluster)

FreedStatements == UNION {Objects({}, {s}, prepared[s]) : s \in Statement}

\* Mutant: the pointers are not reset.
DisconnectKeepsPointers ==
  /\ object = "alive"
  /\ live' = live \ Freed
  /\ connected' = FALSE /\ opened' = FALSE
  /\ UNCHANGED <<pointers, connects, object, overlapping, failed>>

\* Mutant: the cluster is not freed.
DisconnectKeepsCluster ==
  /\ object = "alive"
  /\ live' = live \ Objects({"session"}, {}, session)
  /\ session' = 0 /\ cluster' = 0
  /\ connected' = FALSE /\ opened' = FALSE
  /\ UNCHANGED <<prepared, connects, object, overlapping, failed>>

Disconnect ==
  /\ object = "alive"
  /\ live' = live \ Freed
  /\ session' = 0 /\ cluster' = 0
  /\ connected' = FALSE /\ opened' = FALSE
  /\ UNCHANGED <<prepared, connects, object, overlapping, failed>>

\* Mutant: the destructor forgets the statement added last.
DestroyForgets ==
  /\ object = "alive"
  /\ live' = live \ (Freed \cup (FreedStatements \ Objects({}, {5}, prepared[5])))
  /\ session' = 0 /\ cluster' = 0 /\ prepared' = [s \in Statement |-> 0]
  /\ object' = "destroyed"
  /\ connected' = FALSE /\ opened' = FALSE
  /\ UNCHANGED <<connects, overlapping, failed>>

Destroy ==
  /\ object = "alive"
  /\ live' = live \ (Freed \cup FreedStatements)
  /\ session' = 0 /\ cluster' = 0 /\ prepared' = [s \in Statement |-> 0]
  /\ object' = "destroyed"
  /\ connected' = FALSE /\ opened' = FALSE
  /\ UNCHANGED <<connects, overlapping, failed>>

HandlesNext ==
  \/ Connect
  \/ ConnectThrows
  \/ \E s \in Statement : PrepareThrows(s) \/ FutureFails(s) \/ CallCrashes(s)
  \/ Disconnect
  \/ Destroy

HandlesSpec == HandlesInit /\ [][HandlesNext]_handles

-----------------------------------------------------------------------------
(* Properties *)

\* What the members point to.
Owned ==
  (Freed \cup FreedStatements) \ Objects({"cluster", "session"}, Statement, 0)

Leaked == live \ Owned

\* No sequence of calls, reconnections and failed ones included, leaves a
\* pointer to an object that is freed: none is used or freed afterwards.
NoDanglingPointer == Owned \subseteq live

\* Whatever calls of connect() have thrown before, one that returns leaves a
\* session whose statements are all its own, none of an earlier session.
ConnectedIsUsable ==
  connected => /\ session # 0
               /\ \A s \in Statement : prepared[s] = session

\* Once a connect() has returned, and until the next disconnect(), no call goes
\* through a null pointer, whatever later connect() throws and wherever: it
\* finds a session and a statement, if not of one connect(), and at worst
\* throws.  No call checks for either (CassandraClient.cpp:157).
CrashesOnlyUnopened == object = "crashed" => ~opened

\* Every session or cluster nothing points to is one that a connect() found
\* open and wrote over: disconnecting first, as nobody does, loses none.
OneSessionPerOverlap ==
  \A kind \in {"cluster", "session"} :
     Cardinality({h \in Leaked : h[1] = kind}) = overlapping

\* A client that is connected once and never told of an error leaves nothing
\* behind when it is destroyed.
CleanLifeLeaksNothing ==
  object = "destroyed" /\ connects <= 1 /\ ~failed => live = {}
=============================================================================
