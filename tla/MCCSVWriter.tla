---------------------------- MODULE MCCSVWriter ----------------------------
(***************************************************************************)
(* Values for TLC: two columns, the second one of up to two characters     *)
(* that escape() tells apart.                                              *)
(***************************************************************************)
EXTENDS CSVWriter

MCField == {<<Return>>} \cup UNION {[1 .. k -> Char \ {Return}] : k \in 0 .. 2}

MCBenchmarkResult == {<< <<Other>>, field >> : field \in MCField}

MCHeader == << <<Other, Other>>, <<Other, Other>> >>
=============================================================================
