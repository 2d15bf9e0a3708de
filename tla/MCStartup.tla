------------------------------ MODULE MCStartup ------------------------------
(* The process by itself, with the values that its cfg gives. *)
EXTENDS Startup
=============================================================================
