----------------------------- MODULE MCMarkSweep -----------------------------
(***************************************************************************)
(* An instance of MarkSweep: chunk a holds a plain object inherited from   *)
(* the zygote, chunk b whatever is allocated; they have their bits in      *)
(* different words and their addresses on different cards.                 *)
(***************************************************************************)
EXTENDS MarkSweep, TLC

CONSTANTS a, b, x, y

MCKinds  == (a :> {"plain"}) @@ (b :> {"plain", "soft", "weak", "finalizer", "phantom"})
MCWord   == (a :> 0) @@ (b :> 1)
MCCardOf == (a :> x) @@ (b :> y)
=============================================================================
