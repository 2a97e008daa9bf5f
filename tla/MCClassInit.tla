------------------------------ MODULE MCClassInit ------------------------------
(***************************************************************************)
(* Instances of ClassInit: class B extends A and loads library L; A's      *)
(* <clinit> and L's JNI_OnLoad() use B.                                    *)
(***************************************************************************)
EXTENDS ClassInit, TLC

CONSTANTS t1, t2, A, B, L

MCSuper   == (A :> NoClass) @@ (B :> A)
MCBody    == (A :> {B}) @@ (B :> {L}) @@ (L :> {B})
MCProgram == (t1 :> {B}) @@ (t2 :> {A, L})
=============================================================================
