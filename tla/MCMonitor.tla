------------------------------ MODULE MCMonitor ------------------------------
(***************************************************************************)
(* Instances of Monitor: constants are given in the .cfg files.            *)
(***************************************************************************)
EXTENDS Monitor
=============================================================================
