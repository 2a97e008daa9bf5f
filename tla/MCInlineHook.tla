----------------------------- MODULE MCInlineHook -----------------------------
(***************************************************************************)
(* Instances of InlineHook for TLC.  A behaviour is that of one of two     *)
(* programs: that of the .cfg file, which is epoll.c with an event loop    *)
(* whose calls of epoll_wait() do not overlap, or, when `shared' is TRUE,  *)
(* that of mon.c and smsdispatch.c with threads that call it at any time.  *)
(***************************************************************************)
EXTENDS InlineHook

VARIABLE shared

Mon == INSTANCE InlineHook WITH Counted <- FALSE, Overlap <- TRUE

MCInit == Init /\ shared \in BOOLEAN
MCNext == /\ shared' = shared
          /\ IF shared THEN Mon!Next ELSE Next
MCSpec == /\ MCInit /\ [][MCNext]_<<vars, shared>>
          /\ WF_vars(~shared /\ ~Wild /\ \E t \in Threads : Call(t))
          /\ \A t \in Threads : WF_vars(~shared /\ ~Wild /\ ThreadStep(t))

(***************************************************************************)
(* What calls that do not overlap can rely on.                             *)
(***************************************************************************)

(* No call executes a mixture of patch and original code, or jumps to an   *)
(* address that is not the handler's.                                      *)
NeverWildSerial == shared \/ NeverWild

(* The instrumentation of epoll.c ends: after finitely many calls the      *)
(* original code is back for good, in memory and for instruction fetches.  *)
HookRemovedSerial == shared \/ HookRemoved
=============================================================================
