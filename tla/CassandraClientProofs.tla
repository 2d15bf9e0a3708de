------------------------ MODULE CassandraClientProofs ------------------------
(***************************************************************************)
(* Theorems about CassandraClient, for every sequence of calls, of         *)
(* whatever length.                                                        *)
(***************************************************************************)
EXTENDS CassandraClient, FiniteSetTheorems, TLAPS

-----------------------------------------------------------------------------
(* The inductive invariant *)

\* What is made in the next connect() is different from all there is.
MadeBefore ==
  /\ {cluster, session} \subseteq 0 .. connects
  /\ \A s \in Statement : prepared[s] \in 0 .. connects
  /\ \A h \in live : h[3] \in 1 .. connects

\* The two are made and freed together.
ClusterWithSession == cluster = session

\* The sessions, or the clusters, that nothing points to: all but the present.
Lost(kind) == {h \in live : h[1] = kind /\ h # <<kind, 0, session>>}

LostCounted ==
  \A kind \in {"cluster", "session"} :
     IsFiniteSet(Lost(kind)) /\ Cardinality(Lost(kind)) = overlapping

\* Until something fails, one connect() makes nothing that is not pointed to.
FirstLifeOwned == connects <= 1 /\ ~failed => live \subseteq Owned

\* No failing connect() takes away what a call needs.
OpenedIsUsable ==
  opened => session # 0 /\ \A s \in Statement : prepared[s] # 0

IInv ==
  /\ HandlesTypeOK
  /\ MadeBefore
  /\ ClusterWithSession
  /\ NoDanglingPointer
  /\ ConnectedIsUsable
  /\ OpenedIsUsable
  /\ CrashesOnlyUnopened
  /\ LostCounted
  /\ FirstLifeOwned
  /\ CleanLifeLeaksNothing

-----------------------------------------------------------------------------
(* The objects *)

\* The members of a set of objects of one call.
LEMMA ObjectsMembers ==
  ASSUME NEW kinds, NEW statements, NEW call
  PROVE  Objects(kinds, statements, call) =
           {<<kind, 0, call>> : kind \in kinds} \cup {<<"prepared", s, call>> : s \in statements}
BY DEF Objects

\* The handles that HandlesTypeOK allows.
LEMMA HandleMembers ==
  /\ \A kind \in {"cluster", "session", "future"}, c \in Call : <<kind, 0, c>> \in Handle
  /\ \A s \in Statement, c \in Call : <<"prepared", s, c>> \in Handle
  /\ \A h \in Handle :
        \E c \in Call : \/ \E kind \in {"cluster", "session", "future"} : h = <<kind, 0, c>>
                        \/ \E s \in Statement : h = <<"prepared", s, c>>
BY DEF Handle, Objects

\* The objects that pointers of these values point to.
Pointed(c, s, p) ==
  {<<"session", 0, x>> : x \in {s} \ {0}}
    \cup {<<"cluster", 0, x>> : x \in {c} \ {0}}
    \cup {<<"prepared", x, p[x]>> : x \in {y \in Statement : p[y] # 0}}

\* What the members point to, before and after a step.
LEMMA OwnedMembers ==
  /\ Owned = Pointed(cluster, session, prepared)
  /\ Owned' = Pointed(cluster', session', prepared')
<1>1. ASSUME NEW c, NEW s, NEW p
      PROVE  (Objects({"session"}, {}, s) \cup Objects({"cluster"}, {}, c)
                \cup UNION {Objects({}, {x}, p[x]) : x \in Statement})
               \ Objects({"cluster", "session"}, Statement, 0) = Pointed(c, s, p)
  <2>1. UNION {Objects({}, {x}, p[x]) : x \in Statement} =
          {<<"prepared", x, p[x]>> : x \in Statement}
    BY DEF Objects
  <2>2. Objects({"session"}, {}, s) = {<<"session", 0, s>>}
    BY DEF Objects
  <2>3. Objects({"cluster"}, {}, c) = {<<"cluster", 0, c>>}
    BY DEF Objects
  <2>4. Objects({"cluster", "session"}, Statement, 0) =
          {<<"session", 0, 0>>, <<"cluster", 0, 0>>} \cup {<<"prepared", x, 0>> : x \in Statement}
    BY DEF Objects
  <2>5. <<"session", 0, s>> \in Pointed(c, s, p) <=> s # 0
    BY DEF Pointed
  <2>6. <<"cluster", 0, c>> \in Pointed(c, s, p) <=> c # 0
    BY DEF Pointed
  <2>7. \A x \in Statement : <<"prepared", x, p[x]>> \in Pointed(c, s, p) <=> p[x] # 0
    BY DEF Pointed
  <2>8. Pointed(c, s, p) \subseteq {<<"session", 0, s>>, <<"cluster", 0, c>>}
                                     \cup {<<"prepared", x, p[x]>> : x \in Statement}
    BY DEF Pointed
  <2> DEFINE Null == {<<"session", 0, 0>>, <<"cluster", 0, 0>>}
                       \cup {<<"prepared", x, 0>> : x \in Statement}
  <2>9. /\ <<"session", 0, s>> \in Null <=> s = 0
        /\ <<"cluster", 0, c>> \in Null <=> c = 0
        /\ \A x \in Statement : <<"prepared", x, p[x]>> \in Null <=> p[x] = 0
    OBVIOUS
  <2> DEFINE All == {<<"session", 0, s>>, <<"cluster", 0, c>>}
                      \cup {<<"prepared", x, p[x]>> : x \in Statement}
  <2>10. \A h \in All : h \in Null <=> h \notin Pointed(c, s, p)
    <3> HIDE DEF Null
    <3> QED
      BY <2>5, <2>6, <2>7, <2>9
  <2>11. All \ Null = Pointed(c, s, p)
    <3> HIDE DEF Null, All
    <3> QED
      BY <2>8, <2>10 DEF All
  <2> QED
    BY <2>1, <2>2, <2>3, <2>4, <2>11
<1> QED
  BY <1>1 DEF Owned, Freed, FreedStatements

\* connect() has a new number, and what it makes is new.
LEMMA OpenCalls ==
  ASSUME HandlesTypeOK, MadeBefore, Open
  PROVE  /\ connects \in Nat /\ connects' = connects + 1 /\ connects' \in Call
         /\ cluster' = connects' /\ session' = connects' /\ object' = object
         /\ overlapping' = overlapping + (IF session # 0 THEN 1 ELSE 0)
         /\ \A h \in live : h[3] # connects'
<1>1. connects \in Nat /\ connects' = connects + 1 /\ connects < MaxConnects
  BY CassandraClientAssumption DEF Open, HandlesTypeOK
<1>2. connects' \in Call
  BY <1>1, CassandraClientAssumption DEF Call
<1>3. \A h \in live : h[3] # connects'
  <2> SUFFICES ASSUME NEW h \in live PROVE h[3] # connects'
    OBVIOUS
  <2>1. h[3] \in 1 .. connects
    BY DEF MadeBefore
  <2> QED
    BY <1>1, <2>1
<1> QED
  BY <1>1, <1>2, <1>3 DEF Open

-----------------------------------------------------------------------------
(* One lemma for each part of the invariant *)

LEMMA TypeStep ==
  ASSUME HandlesTypeOK, MadeBefore, [HandlesNext]_handles
  PROVE  HandlesTypeOK'
\* Whatever connect() has come to, the new objects are handles.
<1>1. ASSUME Open, NEW kinds \in SUBSET {"cluster", "session", "future"},
             NEW statements \in SUBSET Statement
      PROVE  Objects(kinds, statements, connects') \subseteq Handle
  <2>1. connects' \in Call
    BY <1>1, OpenCalls
  <2>2. /\ \A kind \in kinds : <<kind, 0, connects'>> \in Handle
        /\ \A s \in statements : <<"prepared", s, connects'>> \in Handle
    BY <2>1, HandleMembers
  <2> QED
    BY <2>2, ObjectsMembers
<1>2. ASSUME Open
      PROVE  /\ {cluster', session'} \subseteq Call \cup {0}
             /\ connects' \in 0 .. MaxConnects
             /\ object' \in {"alive", "destroyed", "crashed"}
             /\ overlapping' \in Nat
  BY <1>2, OpenCalls DEF HandlesTypeOK, Open, Call
<1>3. {"cluster", "session"} \subseteq {"cluster", "session", "future"}
  OBVIOUS
<1>4. connected \in BOOLEAN /\ opened \in BOOLEAN /\ failed \in BOOLEAN
  BY DEF HandlesTypeOK
<1>5. CASE Connect
  <2>1. Made(Statement) \subseteq Handle
    BY <1>1, <1>3, <1>5 DEF Connect, Made
  <2>2. prepared' \in [Statement -> Call \cup {0}]
    BY <1>5, OpenCalls DEF Connect
  <2>3. connected' \in BOOLEAN /\ opened' \in BOOLEAN /\ failed' \in BOOLEAN
    BY <1>4, <1>5 DEF Connect
  <2>4. live' \subseteq Handle
    BY <1>5, <2>1 DEF Connect, HandlesTypeOK
  <2> QED
    BY <1>2, <1>5, <2>2, <2>3, <2>4 DEF Connect, HandlesTypeOK
<1>6. CASE ConnectThrows
  <2>1. MadeAndLost({}) \subseteq Handle
    BY <1>1, <1>6 DEF ConnectThrows, MadeAndLost
  <2>2. connected' \in BOOLEAN /\ opened' \in BOOLEAN /\ failed' \in BOOLEAN
    BY <1>4, <1>6 DEF ConnectThrows, LoseFuture
  <2>3. live' \subseteq Handle
    BY <1>6, <2>1 DEF ConnectThrows, HandlesTypeOK
  <2> QED
    BY <1>2, <1>6, <2>2, <2>3 DEF ConnectThrows, HandlesTypeOK
<1>7. CASE \E s \in Statement : PrepareThrows(s)
  <2>1. PICK s \in Statement : PrepareThrows(s)
    BY <1>7
  <2>2. 1 .. s - 1 \subseteq Statement
    BY DEF Statement
  <2>3. MadeAndLost(1 .. s - 1) \subseteq Handle
    BY <1>1, <2>1, <2>2 DEF PrepareThrows, MadeAndLost
  <2>4. prepared' \in [Statement -> Call \cup {0}]
    BY <2>1, OpenCalls DEF PrepareThrows, HandlesTypeOK
  <2>5. connected' \in BOOLEAN /\ opened' \in BOOLEAN /\ failed' \in BOOLEAN
    BY <1>4, <2>1 DEF PrepareThrows, LoseFuture
  <2>6. live' \subseteq Handle
    BY <2>1, <2>3 DEF PrepareThrows, HandlesTypeOK
  <2> QED
    BY <1>2, <2>1, <2>4, <2>5, <2>6 DEF PrepareThrows, HandlesTypeOK
<1>8. CASE \E s \in Statement : FutureFails(s)
  <2>1. PICK s \in Statement : FutureFails(s)
    BY <1>8
  <2>2. Objects({"future"}, {}, session) \subseteq Handle
    BY <2>1, HandleMembers, ObjectsMembers DEF FutureFails, HandlesTypeOK
  <2> QED
    BY <1>4, <2>1, <2>2 DEF FutureFails, HandlesTypeOK, pointers
<1>9. CASE \E s \in Statement : CallCrashes(s)
  BY <1>9 DEF CallCrashes, HandlesTypeOK, pointers, history
<1>10. CASE Disconnect \/ Destroy
  BY <1>4, <1>10 DEF Disconnect, Destroy, HandlesTypeOK
<1>11. CASE UNCHANGED handles
  BY <1>11 DEF handles, HandlesTypeOK, pointers, history
<1> QED
  BY <1>5, <1>6, <1>7, <1>8, <1>9, <1>10, <1>11 DEF HandlesNext

LEMMA MadeStep ==
  ASSUME HandlesTypeOK, MadeBefore, [HandlesNext]_handles
  PROVE  MadeBefore'
<1> USE DEF MadeBefore, pointers, history
<1>1. CASE Connect
  <2>1. \A h \in Made(Statement) : h[3] = connects'
    BY ObjectsMembers DEF Made
  <2> QED
    BY <1>1, <2>1, OpenCalls DEF Connect
<1>2. CASE ConnectThrows
  <2>1. \A h \in MadeAndLost({}) : h[3] = connects'
    BY ObjectsMembers DEF MadeAndLost
  <2> QED
    BY <1>2, <2>1, OpenCalls DEF ConnectThrows
<1>3. CASE \E s \in Statement : PrepareThrows(s)
  <2>1. PICK s \in Statement : PrepareThrows(s)
    BY <1>3
  <2>2. \A h \in MadeAndLost(1 .. s - 1) : h[3] = connects'
    BY ObjectsMembers DEF MadeAndLost
  <2> QED
    BY <2>1, <2>2, OpenCalls DEF PrepareThrows
<1>4. CASE \E s \in Statement : FutureFails(s)
  <2>1. \A h \in Objects({"future"}, {}, session) : h[3] = session
    BY ObjectsMembers
  <2> QED
    BY <1>4, <2>1 DEF FutureFails, HandlesTypeOK
<1>5. CASE \E s \in Statement : CallCrashes(s)
  BY <1>5 DEF CallCrashes
<1>6. CASE Disconnect \/ Destroy
  BY <1>6 DEF Disconnect, Destroy, HandlesTypeOK
<1>7. CASE UNCHANGED handles
  BY <1>7 DEF handles
<1> QED
  BY <1>1, <1>2, <1>3, <1>4, <1>5, <1>6, <1>7 DEF HandlesNext

LEMMA ClusterStep ==
  ASSUME HandlesTypeOK, MadeBefore, ClusterWithSession, [HandlesNext]_handles
  PROVE  ClusterWithSession'
BY OpenCalls DEF ClusterWithSession, HandlesNext, Connect, ConnectThrows, PrepareThrows, FutureFails,
                 CallCrashes, Disconnect, Destroy, handles, pointers

LEMMA UsableStep ==
  ASSUME HandlesTypeOK, MadeBefore, ConnectedIsUsable, [HandlesNext]_handles
  PROVE  ConnectedIsUsable'
<1> USE DEF ConnectedIsUsable
<1>1. CASE Connect
  BY <1>1, OpenCalls DEF Connect
<1>2. CASE \E s \in Statement : FutureFails(s) \/ CallCrashes(s)
  BY <1>2 DEF FutureFails, CallCrashes, pointers, history
<1>3. CASE UNCHANGED handles
  BY <1>3 DEF handles, pointers, history
<1>4. CASE \/ ConnectThrows \/ Disconnect \/ Destroy
           \/ \E s \in Statement : PrepareThrows(s)
  <2>1. connected' = FALSE
    BY <1>4 DEF ConnectThrows, PrepareThrows, LoseFuture, Disconnect, Destroy
  <2> QED
    BY <2>1
<1> QED
  BY <1>1, <1>2, <1>3, <1>4 DEF HandlesNext

LEMMA OpenedStep ==
  ASSUME HandlesTypeOK, MadeBefore, OpenedIsUsable, CrashesOnlyUnopened,
         [HandlesNext]_handles
  PROVE  OpenedIsUsable' /\ CrashesOnlyUnopened'
<1> USE DEF OpenedIsUsable, CrashesOnlyUnopened
<1>1. CASE Connect
  <2>1. connects' # 0 /\ session' = connects' /\ object' # "crashed"
    BY <1>1, OpenCalls DEF Connect, Open
  <2>2. \A s \in Statement : prepared'[s] = connects'
    BY <1>1 DEF Connect
  <2> QED
    BY <2>1, <2>2
<1>2. CASE ConnectThrows \/ \E s \in Statement : PrepareThrows(s)
  <2>1. /\ connects' # 0 /\ session' = connects' /\ object' # "crashed"
        /\ opened' = opened
    BY <1>2, OpenCalls DEF ConnectThrows, PrepareThrows, LoseFuture, Open
  <2>2. \A s \in Statement : prepared'[s] \in {prepared[s], connects'}
    BY <1>2 DEF ConnectThrows, PrepareThrows
  <2> QED
    BY <2>1, <2>2
<1>3. CASE \E s \in Statement : FutureFails(s)
  BY <1>3 DEF FutureFails, pointers
<1>4. CASE \E s \in Statement : CallCrashes(s)
  <2>1. ~opened /\ UNCHANGED <<pointers, history>>
    BY <1>4 DEF CallCrashes
  <2> QED
    BY <2>1 DEF pointers, history
<1>5. CASE Disconnect \/ Destroy
  BY <1>5 DEF Disconnect, Destroy
<1>6. CASE UNCHANGED handles
  BY <1>6 DEF handles, pointers, history
<1> QED
  BY <1>1, <1>2, <1>3, <1>4, <1>5, <1>6 DEF HandlesNext

\* What is freed is what is pointed to, and no pointer to it is kept.
LEMMA DanglingStep ==
  ASSUME HandlesTypeOK, MadeBefore, NoDanglingPointer, [HandlesNext]_handles
  PROVE  NoDanglingPointer'
<1> USE OwnedMembers DEF NoDanglingPointer, Pointed, pointers
<1>1. CASE Connect
  BY <1>1, OpenCalls, ObjectsMembers DEF Connect, Made
<1>2. CASE ConnectThrows
  BY <1>2, OpenCalls, ObjectsMembers DEF ConnectThrows, MadeAndLost
<1>3. CASE \E s \in Statement : PrepareThrows(s)
  <2>1. PICK s \in Statement : PrepareThrows(s)
    BY <1>3
  <2>2. MadeAndLost(1 .. s - 1) \subseteq live'
    BY <2>1 DEF PrepareThrows
  <2>3. \A x \in Statement : x < s => x \in 1 .. s - 1
    BY DEF Statement
  <2>4. \A x \in Statement : x < s => <<"prepared", x, connects'>> \in live'
    BY <2>2, <2>3, ObjectsMembers DEF MadeAndLost
  <2>5. {<<"session", 0, connects'>>, <<"cluster", 0, connects'>>} \subseteq live'
    BY <2>2, ObjectsMembers DEF MadeAndLost
  <2> QED
    BY <2>1, <2>4, <2>5, OpenCalls DEF PrepareThrows
<1>4. CASE \E s \in Statement : FutureFails(s) \/ CallCrashes(s)
  BY <1>4 DEF FutureFails, CallCrashes
<1>5. CASE Disconnect
  <2>1. Freed = {<<"session", 0, session>>, <<"cluster", 0, cluster>>}
    BY ObjectsMembers DEF Freed
  <2> QED
    BY <1>5, <2>1 DEF Disconnect
<1>6. CASE Destroy
  <2>1. Pointed(cluster', session', prepared') = {}
    BY <1>6 DEF Destroy
  <2> QED
    BY <2>1
<1>7. CASE UNCHANGED handles
  BY <1>7 DEF handles
<1> QED
  BY <1>1, <1>2, <1>3, <1>4, <1>5, <1>6, <1>7 DEF HandlesNext

-----------------------------------------------------------------------------
(* What is lost *)

\* A connect(), however it ends, loses the session and the cluster it finds.
LEMMA OpenLoses ==
  ASSUME HandlesTypeOK, MadeBefore, ClusterWithSession, NoDanglingPointer, LostCounted, Open,
         NEW statements, NEW extra \in SUBSET {"future"},
         live' = live \cup Objects({"cluster", "session"} \cup extra, statements, connects')
  PROVE  LostCounted'
<1> SUFFICES ASSUME NEW kind \in {"cluster", "session"}
             PROVE  IsFiniteSet(Lost(kind)') /\ Cardinality(Lost(kind)') = overlapping'
  BY DEF LostCounted
<1> DEFINE present == <<kind, 0, session>>
<1>1. IsFiniteSet(Lost(kind)) /\ Cardinality(Lost(kind)) = overlapping
  BY DEF LostCounted
<1>2. \A h \in Objects({"cluster", "session"} \cup extra, statements, connects') :
        h[1] = kind => h = <<kind, 0, session'>>
  BY ObjectsMembers, OpenCalls
<1>3. \A h \in live : h # <<kind, 0, session'>>
  BY OpenCalls
<1>4. Lost(kind)' = {h \in live : h[1] = kind}
  BY <1>2, <1>3 DEF Lost
<1>5. CASE session = 0
  <2>1. present \notin live
    BY <1>5 DEF MadeBefore
  <2>2. Lost(kind)' = Lost(kind)
    BY <1>4, <2>1 DEF Lost
  <2> QED
    BY <1>1, <1>5, <2>2, OpenCalls DEF HandlesTypeOK
<1>6. CASE session # 0
  <2>1. present \in live
    BY <1>6, OwnedMembers DEF NoDanglingPointer, ClusterWithSession, Pointed
  <2>2. Lost(kind)' = Lost(kind) \cup {present} /\ present \notin Lost(kind)
    BY <1>4, <2>1 DEF Lost
  <2>3. Cardinality(Lost(kind)') = overlapping + 1 /\ IsFiniteSet(Lost(kind)')
    BY <1>1, <2>2, FS_AddElement
  <2> QED
    BY <1>6, <2>3, OpenCalls DEF HandlesTypeOK
<1> QED
  BY <1>5, <1>6

LEMMA LostStep ==
  ASSUME HandlesTypeOK, MadeBefore, ClusterWithSession, NoDanglingPointer, LostCounted,
         [HandlesNext]_handles
  PROVE  LostCounted'
<1>1. CASE Connect
  <2>1. {"cluster", "session"} = {"cluster", "session"} \cup {} /\ {} \in SUBSET {"future"}
    OBVIOUS
  <2>2. live' = live \cup Objects({"cluster", "session"} \cup {}, Statement, connects')
    BY <1>1, <2>1 DEF Connect, Made
  <2> QED
    BY <1>1, <2>1, <2>2, OpenLoses DEF Connect
<1>2. CASE ConnectThrows \/ \E s \in Statement : PrepareThrows(s)
  <2>1. Open /\ \E statements : live' = live \cup MadeAndLost(statements)
    BY <1>2 DEF ConnectThrows, PrepareThrows
  <2>2. {"cluster", "session", "future"} = {"cluster", "session"} \cup {"future"}
    OBVIOUS
  <2> QED
    BY <2>1, <2>2, OpenLoses DEF MadeAndLost
\* The other steps neither make nor lose a session or a cluster.
<1>3. ASSUME overlapping' = overlapping,
             \A kind \in {"cluster", "session"} : Lost(kind)' = Lost(kind)
      PROVE  LostCounted'
  BY <1>3 DEF LostCounted
<1>4. CASE \E s \in Statement : FutureFails(s)
  <2>1. \A h \in Objects({"future"}, {}, session) : h[1] = "future"
    BY ObjectsMembers
  <2> QED
    BY <1>3, <1>4, <2>1 DEF FutureFails, Lost, pointers
<1>5. CASE Disconnect \/ Destroy
  <2>1. \A h \in live : h[3] # 0
    BY DEF MadeBefore
  <2>2. Freed = {<<"session", 0, session>>, <<"cluster", 0, session>>}
    BY ObjectsMembers DEF Freed, ClusterWithSession
  <2>3. \A h \in FreedStatements : h[1] = "prepared"
    BY DEF FreedStatements, Objects
  <2>4. /\ live' \subseteq live /\ live \ live' \subseteq Freed \cup FreedStatements
        /\ Freed \cap live' = {} /\ session' = 0 /\ overlapping' = overlapping
    BY <1>5 DEF Disconnect, Destroy
  <2>5. ASSUME NEW kind \in {"cluster", "session"} PROVE Lost(kind)' = Lost(kind)
    BY <2>1, <2>2, <2>3, <2>4 DEF Lost
  <2> QED
    BY <1>3, <2>4, <2>5
<1>6. CASE (\E s \in Statement : CallCrashes(s)) \/ UNCHANGED handles
  BY <1>3, <1>6 DEF CallCrashes, handles, Lost, pointers, history
<1> QED
  BY <1>1, <1>2, <1>4, <1>5, <1>6 DEF HandlesNext

\* The destructor frees all that is pointed to.
LEMMA FirstLifeStep ==
  ASSUME HandlesTypeOK, MadeBefore, FirstLifeOwned, CleanLifeLeaksNothing,
         [HandlesNext]_handles
  PROVE  FirstLifeOwned' /\ CleanLifeLeaksNothing'
<1> USE DEF FirstLifeOwned, CleanLifeLeaksNothing
<1>1. CASE Connect
  <2>1. object' # "destroyed"
    BY <1>1 DEF Connect, Open
  <2>2. SUFFICES ASSUME connects' <= 1 PROVE live' \subseteq Owned'
    BY <2>1
  <2>3. live = {}
    BY <1>1, <2>2, OpenCalls DEF Connect, MadeBefore
  <2>4. prepared' = [s \in Statement |-> connects'] /\ connects' # 0
    BY <1>1, OpenCalls DEF Connect
  <2>5. Made(Statement) = {<<"session", 0, connects'>>, <<"cluster", 0, connects'>>}
                            \cup {<<"prepared", s, connects'>> : s \in Statement}
    BY ObjectsMembers DEF Made
  <2> QED
    BY <1>1, <2>3, <2>4, <2>5, OpenCalls, OwnedMembers DEF Connect, Pointed
<1>2. CASE ConnectThrows \/ \E s \in Statement : PrepareThrows(s) \/ FutureFails(s)
  BY <1>2 DEF ConnectThrows, PrepareThrows, LoseFuture, FutureFails
<1>3. CASE \E s \in Statement : CallCrashes(s)
  BY <1>3, OwnedMembers DEF CallCrashes, pointers, history
<1>4. CASE Disconnect
  <2>1. Freed = {<<"session", 0, session>>, <<"cluster", 0, cluster>>}
    BY ObjectsMembers DEF Freed
  <2> QED
    BY <1>4, <2>1, OwnedMembers DEF Disconnect, Pointed
<1>5. CASE Destroy
  <2>1. Owned \subseteq Freed \cup FreedStatements
    BY DEF Owned
  <2> QED
    BY <1>5, <2>1 DEF Destroy
<1>6. CASE UNCHANGED handles
  BY <1>6, OwnedMembers DEF handles, pointers, history
<1> QED
  BY <1>1, <1>2, <1>3, <1>4, <1>5, <1>6 DEF HandlesNext

-----------------------------------------------------------------------------
(* Theorems *)

LEMMA InitIInv == HandlesInit => IInv
<1> SUFFICES ASSUME HandlesInit PROVE IInv
  OBVIOUS
<1> USE DEF HandlesInit
<1>1. HandlesTypeOK
  <2>1. 0 \in 0 .. MaxConnects
    BY CassandraClientAssumption
  <2>2. connected \in BOOLEAN /\ opened \in BOOLEAN /\ failed \in BOOLEAN
    OBVIOUS
  <2> QED
    BY <2>1, <2>2 DEF HandlesTypeOK
<1>2. NoDanglingPointer /\ FirstLifeOwned /\ CleanLifeLeaksNothing
  BY OwnedMembers DEF Pointed, NoDanglingPointer, FirstLifeOwned, CleanLifeLeaksNothing
<1>3. LostCounted
  <2>1. \A kind \in {"cluster", "session"} : Lost(kind) = {}
    BY DEF Lost
  <2> QED
    BY <2>1, FS_EmptySet DEF LostCounted
<1> QED
  BY <1>1, <1>2, <1>3 DEF IInv, MadeBefore, ClusterWithSession, ConnectedIsUsable,
                         OpenedIsUsable, CrashesOnlyUnopened

LEMMA StepIInv == IInv /\ [HandlesNext]_handles => IInv'
BY TypeStep, MadeStep, ClusterStep, DanglingStep, UsableStep, OpenedStep, LostStep, FirstLifeStep DEF IInv

\* The inductive invariant holds in every reachable state.
THEOREM Invariance == HandlesSpec => []IInv
BY InitIInv, StepIInv, PTL DEF HandlesSpec

\* The pointers, the objects and the counters keep their types.
THEOREM TypeCorrect == HandlesSpec => []HandlesTypeOK
<1>1. IInv => HandlesTypeOK
  BY DEF IInv
<1> QED
  BY Invariance, <1>1, PTL

\* No member ever points to an object that is freed.
THEOREM PointersValid == HandlesSpec => []NoDanglingPointer
<1>1. IInv => NoDanglingPointer
  BY DEF IInv
<1> QED
  BY Invariance, <1>1, PTL

\* A connect() that returns leaves one session with statements of its own.
THEOREM ConnectRecovers == HandlesSpec => []ConnectedIsUsable
<1>1. IInv => ConnectedIsUsable
  BY DEF IInv
<1> QED
  BY Invariance, <1>1, PTL

\* Between a connect() that returned and the next disconnect() no call goes
\* through a null pointer, whatever other connect() fails in between.
THEOREM CrashesAccounted == HandlesSpec => []CrashesOnlyUnopened
<1>1. IInv => CrashesOnlyUnopened
  BY DEF IInv
<1> QED
  BY Invariance, <1>1, PTL

\* A session or cluster is lost for each connect() that finds one open, and
\* never otherwise.
THEOREM LossesCounted == HandlesSpec => []OneSessionPerOverlap
<1>1. IInv => OneSessionPerOverlap
  <2> SUFFICES ASSUME IInv, NEW kind \in {"cluster", "session"}
               PROVE  Cardinality({h \in Leaked : h[1] = kind}) = overlapping
    BY DEF OneSessionPerOverlap
  <2>1. \A h \in live : h[3] # 0
    BY DEF IInv, MadeBefore
  <2>2. \A h \in live : h[1] = kind => (h \in Owned <=> h = <<kind, 0, session>>)
    BY <2>1, OwnedMembers DEF Pointed, IInv, ClusterWithSession
  <2>3. {h \in Leaked : h[1] = kind} = Lost(kind)
    BY <2>2 DEF Leaked, Lost
  <2> QED
    BY <2>3 DEF IInv, LostCounted
<1> QED
  BY Invariance, <1>1, PTL

\* A client connected once and never told of an error frees all it has made.
THEOREM CleanLifeIsClean == HandlesSpec => []CleanLifeLeaksNothing
<1>1. IInv => CleanLifeLeaksNothing
  BY DEF IInv
<1> QED
  BY Invariance, <1>1, PTL
=============================================================================
