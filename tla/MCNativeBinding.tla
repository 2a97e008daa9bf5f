--------------------------- MODULE MCNativeBinding ---------------------------
(***************************************************************************)
(* Instances of NativeBinding: constants are given in the .cfg files.      *)
(***************************************************************************)
EXTENDS NativeBinding
=============================================================================
