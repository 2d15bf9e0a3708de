---------------------------- MODULE StartupProofs ----------------------------
(***************************************************************************)
(* What Startup promises of every process, whatever the file asks for: the *)
(* connection is made as configured, and the process ends in order.        *)
(***************************************************************************)
EXTENDS Startup, TLAPS

\* What is known at each place of main, the loaded configuration first.
Loaded == Loads /\ config = ParseDbConfig("postgres")

Progress ==
  /\ pc \notin {"load", "returned"} \/ conn # "none" => Loaded
  /\ pc \in {"load", "connect"} => conn = "none" /\ prepared = 0
  /\ pc \in {"load", "connect", "prepare", "construct"} => dataset = 0
  /\ pc = "prepare" => enabled /\ conn = "open"
  /\ pc \in {"construct", "generate", "leave", "terminated", "crashed"} =>
       IF enabled THEN conn = "open" /\ prepared = Statements ELSE conn = "none"
  /\ pc = "leave" => dataset = rows
  /\ pc # "returned" => status = -1

IInv == TypeOK /\ Progress /\ ExitsInOrder

\* What the items of a file are made of.
LEMMA PairOf ==
  ASSUME NEW A, NEW B, NEW i \in A \X B
  PROVE  i[1] \in A /\ i[2] \in B /\ i = <<i[1], i[2]>>
OBVIOUS

\* A configuration that parse_db_config has made has a value everywhere.
LEMMA ParsedType ==
  ParseDbConfig("postgres") \in [Parameter -> {"unset", "file", "default", "literal"}]
BY DEF ParseDbConfig

\* The process starts with nothing loaded, made or generated.
LEMMA InitEstablishes == Init => IInv
<1>1. ASSUME Init PROVE TypeOK
  <2>1. DOMAIN flaws \subseteq Item /\ \A i \in DOMAIN flaws : flaws[i] \in {"absent", "null", "bad"}
    <3>1. PICK S \in FlawSets :
            flaws \in {f \in [S -> {"absent", "null", "bad"}] : \A i \in S : f[i] \in FlawOf(i)}
      BY <1>1 DEF Init
    <3>2. PICK k \in 0 .. MaxFlaws : S \in {{f[i] : i \in 1 .. k} : f \in [1 .. k -> Item]}
      BY DEF FlawSets
    <3>3. S \subseteq Item
      BY <3>2
    <3> QED BY <3>1, <3>3
  <2>2. 0 \in 0 .. Statements /\ 0 \in 0 .. rows
    BY <1>1 DEF Init, Statements
  <2> QED BY <1>1, <2>1, <2>2 DEF Init, TypeOK, Running
<1>2. ASSUME Init PROVE Progress /\ ExitsInOrder
  BY <1>2 DEF Init, Progress, ExitsInOrder, Running
<1> QED BY <1>1, <1>2 DEF IInv

\* Every step keeps the invariant; a process that has ended takes none.
LEMMA NextPreserves == IInv /\ [Next]_vars => IInv'
<1> SUFFICES ASSUME IInv, [Next]_vars PROVE IInv'
  OBVIOUS
<1> USE DEF IInv
<1>1. CASE UNCHANGED vars
  <2>1. /\ UNCHANGED <<yaml, flaws, values, config, rows, enabled>>
        /\ UNCHANGED <<pc, conn, prepared, dataset, status>>
    BY <1>1 DEF vars, file, settings
  <2>2. TypeOK'
    BY <2>1 DEF TypeOK
  <2>3. Loaded => Loaded'
    BY <2>1 DEF Loaded, Loads, Has, Good, Converts, ParseDbConfig
  <2>4. Progress'
    BY <2>1, <2>3 DEF Progress
  <2>5. ExitsInOrder'
    BY <2>1 DEF ExitsInOrder
  <2> QED BY <2>2, <2>4, <2>5
<1>2. ASSUME NEW code \in {0, 1}, Return(code),
             code = (IF pc = "leave" THEN 0 ELSE 1),
             pc \in {"load", "connect", "prepare", "leave"}
      PROVE IInv'
  <2>1. TypeOK'
    BY <1>2 DEF Return, file, settings, TypeOK
  <2>2. ExitsInOrder'
    BY <1>2 DEF Return, file, settings, TypeOK, Progress, ExitsInOrder, Running
  <2>3. conn' # "none" => Loaded
    BY <1>2 DEF Return, Progress
  <2>4. Loaded => Loaded'
    BY <1>2 DEF Return, file, settings, Loaded, Loads, Has, Good, Converts, ParseDbConfig
  <2> QED BY <1>2, <2>1, <2>2, <2>3, <2>4 DEF Return, Progress
<1>3. CASE Load
  <2>1. TypeOK'
    <3>1. rows' \in FileRows \cup {0, DefaultRows} /\ rows' \in Nat
      BY <1>3, StartupAssumption DEF Load, TypeOK
    <3>2. dataset' = 0
      BY <1>3 DEF Load, Progress
    <3>3. dataset' \in 0 .. rows'
      BY <3>1, <3>2
    <3>4. enabled' \in BOOLEAN
      BY <1>3 DEF Load
    <3> QED BY <1>3, <3>1, <3>3, <3>4, ParsedType DEF Load, file, TypeOK, Running
  <2>2. Loaded'
    BY <1>3 DEF Load, file, Loaded, Loads, Has, Good, Converts, ParseDbConfig
  <2>3. /\ pc' = "connect" /\ conn' = "none" /\ prepared' = 0 /\ dataset' = 0
        /\ status' = -1
    BY <1>3 DEF Load, Progress
  <2>4. Progress'
    BY <2>2, <2>3 DEF Progress
  <2>5. ExitsInOrder'
    BY <2>3 DEF ExitsInOrder, Running
  <2> QED BY <2>1, <2>4, <2>5
<1>4. ASSUME UNCHANGED <<file, settings>>, Loaded PROVE Loaded'
  BY <1>4 DEF file, settings, Loaded, Loads, Has, Good, Converts, ParseDbConfig
<1>5. CASE NoClient \/ Connect \/ Prepare \/ Connected
  <2>1. Loaded'
    BY <1>4, <1>5 DEF NoClient, Connect, Prepare, Connected, Progress
  <2>2. TypeOK'
    BY <1>5 DEF NoClient, Connect, Prepare, Connected, file, settings, TypeOK, Running, Statements
  <2>3. UNCHANGED <<rows, enabled, dataset, status>> /\ enabled \in BOOLEAN /\ prepared \in Int
    BY <1>5 DEF NoClient, Connect, Prepare, Connected, settings, TypeOK
  <2>4. Progress'
    BY <1>5, <2>1, <2>3 DEF NoClient, Connect, Prepare, Connected, Progress, Statements
  <2>5. ExitsInOrder'
    BY <1>5, <2>3 DEF NoClient, Connect, Prepare, Connected, Progress, ExitsInOrder, Running
  <2> QED BY <2>2, <2>4, <2>5
<1>6. CASE Construct \/ GenerateOne \/ Generated \/ Terminate \/ Crash
  <2>1. Loaded'
    BY <1>4, <1>6 DEF Construct, GenerateOne, Generated, Terminate, Crash, Progress
  <2>2. TypeOK'
    <3>1. rows \in Nat
      BY StartupAssumption DEF TypeOK
    <3> QED BY <1>6, <3>1 DEF Construct, GenerateOne, Generated, Terminate, Crash, file, settings,
                              TypeOK, Running
  <2> QED BY <1>6, <2>1, <2>2 DEF Construct, GenerateOne, Generated, Terminate, Crash, file, settings,
                                  Progress, ExitsInOrder, Running
<1>7. CASE LoadThrows \/ ConnectThrows \/ PrepareThrows
  <2>1. Return(1) /\ pc \in {"load", "connect", "prepare"}
    BY <1>7 DEF LoadThrows, ConnectThrows, PrepareThrows
  <2>2. 1 = (IF pc = "leave" THEN 0 ELSE 1) /\ 1 \in {0, 1}
        /\ pc \in {"load", "connect", "prepare", "leave"}
    BY <2>1
  <2> QED BY <1>2, <2>1, <2>2, Zenon
<1>8. CASE ReturnZero
  <2>1. Return(0) /\ pc = "leave"
    BY <1>8 DEF ReturnZero
  <2>2. 0 = (IF pc = "leave" THEN 0 ELSE 1) /\ 0 \in {0, 1}
        /\ pc \in {"load", "connect", "prepare", "leave"}
    BY <2>1
  <2> QED BY <1>2, <2>1, <2>2, Zenon
<1> QED BY <1>1, <1>3, <1>5, <1>6, <1>7, <1>8 DEF Next

\* The invariant of the process.
THEOREM Invariance == Spec => []IInv
BY InitEstablishes, NextPreserves, PTL DEF Spec

\* However the process ends, it ends in order.
THEOREM EndsInOrder == Spec => []ExitsInOrder
BY Invariance, PTL DEF IInv

\* What a connection rests on follows from the configuration having been loaded.
LEMMA LoadedIsGood ==
  ASSUME TypeOK, Loaded
  PROVE  /\ \A i \in DOMAIN flaws : flaws[i] # "bad"
         /\ \A p \in Parameter :
              config[p] = "file" <=> {<<"postgres", "">>, <<"postgres", p>>} \cap DOMAIN flaws = {}
<1>1. ASSUME NEW i \in DOMAIN flaws PROVE flaws[i] # "bad"
  <2>1. i \in Item
    BY DEF TypeOK
  <2>2. CASE i \in SectionItem
    <3>1. i[1] \in Section /\ i[2] \in {""} /\ i = <<i[1], i[2]>>
      BY <2>2, PairOf, Zenon DEF SectionItem
    <3>2. i = <<i[1], "">>
      BY <3>1
    <3> QED BY <1>1, <3>1, <3>2 DEF Loaded, Loads, Has
  <2>3. CASE i \in {""} \X TopKey
    <3>1. i[1] \in {""} /\ i[2] \in TopKey /\ i = <<i[1], i[2]>>
      BY <2>3, PairOf, Zenon
    <3>2. i = <<"", i[2]>>
      BY <3>1
    <3> QED BY <1>1, <3>1, <3>2 DEF Loaded, Loads, Has
  <2>4. CASE i \in Section \X Parameter
    <3>1. i[1] \in Section /\ i[2] \in Parameter /\ i = <<i[1], i[2]>>
      BY <2>4, PairOf, Zenon
    <3> QED BY <1>1, <3>1 DEF Loaded, Loads, Converts, Has
  <2> QED BY <2>1, <2>2, <2>3, <2>4 DEF Item, Key
<1>2. ASSUME NEW p \in Parameter
      PROVE  config[p] = "file" <=> {<<"postgres", "">>, <<"postgres", p>>} \cap DOMAIN flaws = {}
  <2>1. config[p] = IF Has(<<"postgres", "">>, "absent") THEN "literal"
                    ELSE IF Good(<<"postgres", "">>) /\ Good(<<"postgres", p>>) THEN "file" ELSE "default"
    BY <1>2 DEF Loaded, ParseDbConfig
  <2>2. Good(<<"postgres", "">>) /\ Good(<<"postgres", p>>)
          <=> {<<"postgres", "">>, <<"postgres", p>>} \cap DOMAIN flaws = {}
    BY DEF Good
  <2>3. Has(<<"postgres", "">>, "absent") => ~Good(<<"postgres", "">>)
    BY DEF Has, Good
  <2> QED BY <2>1, <2>2, <2>3
<1> QED BY <1>1, <1>2

\* Nothing is connected with a file that is not good, or otherwise than the
\* file says.
THEOREM AsConfigured == Spec => []ConnectsAsConfigured
<1>1. IInv => ConnectsAsConfigured
  BY LoadedIsGood DEF IInv, Progress, ConnectsAsConfigured
<1> QED BY <1>1, Invariance, PTL
=============================================================================
