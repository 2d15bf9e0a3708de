--------------------------- MODULE MCExperiments ---------------------------
(***************************************************************************)
(* Values for TLC.  Rows 0 and 2 share a key in orders_by_user.            *)
(***************************************************************************)
EXTENDS Experiments

CONSTANTS k1, k2

MCUserKey == {k1, k2}

MCKeyOf == [r \in 0 .. DatasetSize - 1 |-> IF r = 1 THEN k1 ELSE k2]
=============================================================================
