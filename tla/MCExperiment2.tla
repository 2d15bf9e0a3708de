--------------------------- MODULE MCExperiment2 ---------------------------
(***************************************************************************)
(* Values for TLC.  Rows 1 and 4, which different threads insert, share a  *)
(* user and a second of creation, and so their key in orders_by_user.      *)
(***************************************************************************)
EXTENDS Experiment2

CONSTANTS k1, k2, k3, k4

MCUserKey == {k1, k2, k3, k4}

MCKeyOf ==
  [r \in 0 .. DatasetSize - 1 |->
     CASE r = 0 -> k1 [] r = 2 -> k3 [] r = 3 -> k4 [] OTHER -> k2]
=============================================================================
