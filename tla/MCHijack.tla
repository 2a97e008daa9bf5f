------------------------------ MODULE MCHijack ------------------------------
(***************************************************************************)
(* Instances of Hijack: constants are given in the .cfg files.             *)
(***************************************************************************)
EXTENDS Hijack
=============================================================================
