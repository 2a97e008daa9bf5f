-------------------------- MODULE MCIndirectRefTable --------------------------
(***************************************************************************)
(* Instances of IndirectRefTable: objects are interchangeable.             *)
(***************************************************************************)
EXTENDS IndirectRefTable, TLC

MCSymmetry == Permutations(Objects)
=============================================================================
