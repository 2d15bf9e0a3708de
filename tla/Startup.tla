------------------------------- MODULE Startup -------------------------------
(***************************************************************************)
(* One process of db_benchmark, from the configuration file to the end of  *)
(* main: ConfigLoader::load, the connection of the PostgresClient with its *)
(* four statements, and the data set.                                      *)
(*                                                                         *)
(* A file is what load() makes of it: which keys and sections are absent,  *)
(* null or not of the type they should have, and, of the values, the two   *)
(* that main goes by.  The configuration says of every parameter of        *)
(* Postgres where its value comes from.                                    *)
(*                                                                         *)
(* main and ConfigLoader call total_rows and range_window_small totalrows  *)
(* and range_window_samll, which the struct does not have: they are read   *)
(* as the fields they mean.  random_user_id and generate_timestamp return  *)
(* no value, so that the behaviour of generate_one is undefined: here it   *)
(* dies, or makes an order of garbage, which may kill the process when it  *)
(* is destroyed.                                                           *)
(***************************************************************************)
EXTENDS Integers, FiniteSets

CONSTANTS FileRows,     \* what total_rows may be in a file
          DefaultRows,  \* what it is if the file does not say
          MaxFlaws      \* bound: keys and sections that are not as they should be

ASSUME StartupAssumption ==
  /\ FileRows \cup {DefaultRows} \subseteq Nat
  /\ FileRows # {}
  /\ MaxFlaws \in Nat

Section == {"postgres", "mongo", "cassandra"}

Parameter == {"host", "port", "username", "password", "database_name", "enabled"}

TopKey == {"total_rows", "read_sample_size", "batch_size", "thread_count",
           "description_length", "rng_seed", "range_window_small",
           "range_window_medium", "range_window_large", "results_dir"}

\* What a file has: a section is called by its name and "", a key by its
\* section, "" for none, and its name.
SectionItem == Section \X {""}
Key == ({""} \X TopKey) \cup (Section \X Parameter)
Item == SectionItem \cup Key

Statements == 4   \* insert_order, find_by_pk, find_by_user, find_by_range

VARIABLES yaml,       \* the file: absent, malformed or a mapping
          flaws,      \* what is the matter with the items that are not good
          values,     \* total_rows and postgres.enabled, where they are good
          config,     \* where the parameters of config.postgres come from
          rows,       \* config.total_rows
          enabled,    \* config.postgres.enabled
          pc,         \* where main is
          conn,       \* pg_client's connection
          prepared,   \* statements prepared on it
          dataset,    \* orders generated
          status      \* what main has returned

file == <<yaml, flaws, values>>
settings == <<config, rows, enabled>>

vars == <<file, settings, pc, conn, prepared, dataset, status>>

Running == {"load", "connect", "prepare", "construct", "generate", "leave"}

TypeOK ==
  /\ yaml \in {"absent", "malformed", "map"}
  /\ DOMAIN flaws \subseteq Item
  /\ \A i \in DOMAIN flaws : flaws[i] \in {"absent", "null", "bad"}
  /\ values \in [rows : FileRows, enabled : BOOLEAN]
  /\ config \in [Parameter -> {"unset", "file", "default", "literal"}]
  /\ rows \in FileRows \cup {0, DefaultRows} /\ enabled \in BOOLEAN
  /\ pc \in Running \cup {"returned", "terminated", "crashed"}
  /\ conn \in {"none", "open", "closed"}
  /\ prepared \in 0 .. Statements
  /\ dataset \in 0 .. rows
  /\ status \in {-1, 0, 1}

\* Sets of at most MaxFlaws items, no key in a section that has a flaw itself.
FlawSets ==
  {S \in UNION {{{f[i] : i \in 1 .. k} : f \in [1 .. k -> Item]} : k \in 0 .. MaxFlaws} :
     \A i \in S \cap Key : <<i[1], "">> \notin S}

\* Under a key, what does not convert is bad; a section that is a scalar is.
FlawOf(i) ==
  IF i \in SectionItem THEN {"absent", "null", "bad"} ELSE {"absent", "bad"}

Init ==
  /\ yaml \in {"absent", "malformed", "map"}
  /\ \E S \in FlawSets :
       flaws \in {f \in [S -> {"absent", "null", "bad"}] : \A i \in S : f[i] \in FlawOf(i)}
  /\ yaml # "map" => flaws = <<>>
  /\ values \in [rows : FileRows, enabled : BOOLEAN]
  /\ config = [p \in Parameter |-> "unset"] /\ rows = 0 /\ enabled = FALSE
  /\ pc = "load"
  /\ conn = "none" /\ prepared = 0
  /\ dataset = 0
  /\ status = -1

-----------------------------------------------------------------------------
(* ConfigLoader *)

Has(i, flaw) == i \in DOMAIN flaws /\ flaws[i] = flaw

Good(i) == i \notin DOMAIN flaws

Converts(s) == \A p \in Parameter : ~Has(<<s, p>>, "bad")

\* Mutant: the sections of the clients that main does not have are not read.
LoadsPostgres ==
  /\ yaml = "map"
  /\ \A k \in TopKey : ~Has(<<"", k>>, "bad")
  /\ ~Has(<<"postgres", "">>, "bad") /\ Converts("postgres")

\* get_or converts whatever is under a key, and a section is indexed, which a
\* scalar does not allow.
Loads ==
  /\ yaml = "map"
  /\ \A k \in TopKey : ~Has(<<"", k>>, "bad")
  /\ \A s \in Section : ~Has(<<s, "">>, "bad") /\ Converts(s)

\* An absent section is not given the defaults the caller names: it gets those
\* written in parse_db_config.
ParseDbConfig(s) ==
  [p \in Parameter |->
     IF Has(<<s, "">>, "absent") THEN "literal"
     ELSE IF Good(<<s, "">>) /\ Good(<<s, p>>) THEN "file" ELSE "default"]

Load ==
  /\ pc = "load" /\ Loads
  /\ config' = ParseDbConfig("postgres")
  /\ rows' = IF Good(<<"", "total_rows">>) THEN values.rows ELSE DefaultRows
  /\ enabled' = (config'["enabled"] = "file" => values.enabled)
  /\ pc' = "connect"
  /\ UNCHANGED <<file, conn, prepared, dataset, status>>

\* Mutant: the connection is left to disconnect_all, which nobody calls.
ReturnOpen(code) ==
  /\ pc' = "returned"
  /\ status' = code
  /\ UNCHANGED <<file, settings, conn, prepared, dataset>>

\* main returns, and destroys what it holds: ~PostgresClient closes.
Return(code) ==
  /\ pc' = "returned"
  /\ status' = code
  /\ conn' = IF conn = "open" THEN "closed" ELSE conn
  /\ UNCHANGED <<file, settings, prepared, dataset>>

LoadThrows == pc = "load" /\ ~Loads /\ Return(1)

-----------------------------------------------------------------------------
(* verify_connections and PostgresClient *)

NoClient ==
  /\ pc = "connect" /\ ~enabled
  /\ pc' = "construct"
  /\ UNCHANGED <<file, settings, conn, prepared, dataset, status>>

Connect ==
  /\ pc = "connect" /\ enabled
  /\ conn' = "open"
  /\ pc' = "prepare"
  /\ UNCHANGED <<file, settings, prepared, dataset, status>>

ConnectThrows == pc = "connect" /\ enabled /\ Return(1)

Prepare ==
  /\ pc = "prepare" /\ prepared < Statements
  /\ prepared' = prepared + 1
  /\ UNCHANGED <<file, settings, pc, conn, dataset, status>>

\* Mutant: after a failure the statements are prepared again.
PrepareRetries ==
  /\ pc = "prepare" /\ prepared < Statements
  /\ prepared' = 0
  /\ UNCHANGED <<file, settings, pc, conn, dataset, status>>

\* The connection has been made: it is the destructor that closes it.
PrepareThrows == pc = "prepare" /\ prepared < Statements /\ Return(1)

Connected ==
  /\ pc = "prepare" /\ prepared = Statements
  /\ pc' = "construct"
  /\ UNCHANGED <<file, settings, conn, prepared, dataset, status>>

-----------------------------------------------------------------------------
(* DataGenerator *)

\* The generator and its pool of users, and the room for the data set.
Construct ==
  /\ pc = "construct"
  /\ pc' = "generate"
  /\ UNCHANGED <<file, settings, conn, prepared, dataset, status>>

\* There is no memory, or no vector is that long.  Nobody catches the
\* exception: the process ends without destroying anything.
Terminate ==
  /\ pc \in {"construct", "generate"}
  /\ pc = "generate" => dataset < rows
  /\ pc' = "terminated"
  /\ UNCHANGED <<file, settings, conn, prepared, dataset, status>>

GenerateOne ==
  /\ pc = "generate" /\ dataset < rows
  /\ dataset' = dataset + 1
  /\ UNCHANGED <<file, settings, pc, conn, prepared, status>>

Generated ==
  /\ pc = "generate" /\ dataset = rows
  /\ pc' = "leave"
  /\ UNCHANGED <<file, settings, conn, prepared, dataset, status>>

\* In generate_one, or in the destructor of the data set, which comes before
\* that of the client.
Crash ==
  /\ \/ pc = "generate" /\ dataset < rows
     \/ pc = "leave" /\ dataset > 0
  /\ pc' = "crashed"
  /\ UNCHANGED <<file, settings, conn, prepared, dataset, status>>

ReturnZero == pc = "leave" /\ Return(0)

Next ==
  \/ Load \/ LoadThrows
  \/ NoClient \/ Connect \/ ConnectThrows
  \/ Prepare \/ PrepareThrows \/ Connected
  \/ Construct \/ GenerateOne \/ Generated
  \/ Terminate \/ Crash \/ ReturnZero

Spec == Init /\ [][Next]_vars /\ WF_vars(Next)

-----------------------------------------------------------------------------
(* Properties *)

\* No connection is tried before the whole file is known to be good: a value
\* that does not convert ends the process even if it belongs to a database
\* that main does not use.  And what the file gives is what is connected with.
ConnectsAsConfigured ==
  conn # "none" =>
    /\ \A i \in DOMAIN flaws : flaws[i] # "bad"
    /\ \A p \in Parameter :
         config[p] = "file" <=> {<<"postgres", "">>, <<"postgres", p>>} \cap DOMAIN flaws = {}

\* However main returns, the connection it has made is closed, though nobody
\* disconnects; 0 means that all the orders are there and that the client, if
\* it is enabled, was complete; 1 means that none was generated.  The process
\* leaves a connection open only by an exception or a crash of the generator.
ExitsInOrder ==
  /\ pc = "returned" => conn # "open"
  /\ status = 0 => /\ dataset = rows
                   /\ conn = (IF enabled THEN "closed" ELSE "none")
                   /\ enabled => prepared = Statements
  /\ status = 1 => dataset = 0
  /\ pc \notin Running /\ conn = "open" => pc \in {"terminated", "crashed"} /\ prepared = Statements

\* Whatever is in the file and whatever the server does, as long as it answers
\* or refuses, the process ends.
ProcessEnds == <>(pc \notin Running)
=============================================================================
