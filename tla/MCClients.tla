----------------------------- MODULE MCClients -----------------------------
(***************************************************************************)
(* What a client does to its tables, the objects of the driver that the    *)
(* Cassandra client has, and the recorders of the latencies of its calls,  *)
(* with values for TLC: two orders of one user in one second, a third of   *)
(* that user later, and one of another user; a recorder of a hundred       *)
(* latencies beside one of a few.                                          *)
(***************************************************************************)
EXTENDS Clients, CassandraClient, SummaryPrinter

CONSTANTS o1, o2, o3, o4

MCOrder == {o1, o2, o3, o4}

MCUserOf == [o \in MCOrder |-> IF o = o4 THEN "u2" ELSE "u1"]

MCCreatedAt == [o \in MCOrder |-> IF o = o3 THEN 2 ELSE 1]

MCMaxCount ==
  [t \in Recorder |-> [v \in Latency |->
     IF t = 1 THEN CASE v = 1 -> 100 [] v = 2 -> 3 [] OTHER -> 2
              ELSE 1]]

MCNoCount == [t \in Recorder |-> [v \in Latency |-> 0]]

-----------------------------------------------------------------------------
(***************************************************************************)
(* The three have no variable in common: TLC takes one of them at a time,  *)
(* and leaves the others as they were in the beginning.                    *)
(***************************************************************************)
ClientInit == Init /\ HandlesInit /\ RecordersInit

ClientNext ==
  \/ HandlesInit /\ RecordersInit /\ Next /\ UNCHANGED <<handles, latencies_us>>
  \/ Init /\ RecordersInit /\ db = "cassandra" /\ HandlesNext
       /\ UNCHANGED <<vars, latencies_us>>
  \/ Init /\ HandlesInit /\ db = "cassandra" /\ RecordersNext
       /\ UNCHANGED <<vars, handles>>

ClientSpec == ClientInit /\ [][ClientNext]_<<vars, handles, latencies_us>>
=============================================================================
