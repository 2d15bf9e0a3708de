------------------------------ MODULE BulkLoad ------------------------------
(***************************************************************************)
(* What an insert phase promises to the experiments after it, whatever     *)
(* loops, threads and statements it is made of: it starts by emptying the  *)
(* table, then every target row goes in once, and it reports completion    *)
(* only when the table holds the target rows and nothing else.  It may     *)
(* fail at any moment, with at most one of its rows in doubt, and what it  *)
(* has reported can be lost by a server that dies.                         *)
(***************************************************************************)
CONSTANTS Target,   \* the rows to load, some of
          Storable  \* the rows the table can hold

VARIABLES status,   \* "stale": not begun, "loading", "complete", "failed"
          loaded    \* the rows of the table

vars == <<status, loaded>>

Init ==
  /\ status = "stale"
  /\ loaded \in SUBSET Storable

Clear ==
  /\ status = "stale"
  /\ status' = "loading"
  /\ loaded' = {}

Insert(r) ==
  /\ status = "loading"
  /\ r \notin loaded
  /\ loaded' = loaded \cup {r}
  /\ UNCHANGED status

Complete ==
  /\ status = "loading"
  /\ loaded = Target
  /\ status' = "complete"
  /\ UNCHANGED loaded

FailClearing ==
  /\ status = "stale"
  /\ status' = "failed"
  /\ loaded' \in {loaded, {}}

FailLoading ==
  /\ status = "loading"
  /\ status' = "failed"
  /\ \/ UNCHANGED loaded
     \/ \E r \in Target : loaded' = loaded \cup {r}

Restart ==
  /\ status \in {"complete", "failed"}
  /\ status' = "stale"
  /\ UNCHANGED loaded

Lose ==
  /\ status = "complete"
  /\ status' = "stale"
  /\ loaded' \in SUBSET loaded

Next ==
  \/ Clear
  \/ \E r \in Target : Insert(r)
  \/ Complete
  \/ FailClearing
  \/ FailLoading
  \/ Restart
  \/ Lose

Spec == Init /\ [][Next]_vars
=============================================================================
