---------------------------- MODULE MCAtomicCache ----------------------------
(***************************************************************************)
(* Three lookups that share keys pairwise: an entry half a, half b has the *)
(* keys of c, whose result is another one.                                 *)
(***************************************************************************)
EXTENDS AtomicCache, TLC

MCLookups == {<<"A", "X">>, <<"B", "Y">>, <<"A", "Y">>}
MCCalc    == (<<"A", "X">> :> 0) @@ (<<"B", "Y">> :> 0) @@ (<<"A", "Y">> :> 1)
=============================================================================
