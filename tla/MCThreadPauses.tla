---------------------------- MODULE MCThreadPauses ----------------------------
(***************************************************************************)
(* Stops of the world for TLC: five threads, of which one of three takes   *)
(* no part but for its safe points, and a thread is created only if the    *)
(* daemon is that one.                                                     *)
(***************************************************************************)
EXTENDS MCThreadSuspend

VARIABLE idle  \* the thread that takes no part

PausesInit == MCInit /\ idle \in {daemon, worker, signal}
PausesNext ==
  /\ MCNext
  /\ idle' = idle
  /\ at'[idle] \in {"detached", "run", "check", "asleep"}
  /\ idle # daemon => \A t \in Threads : child'[t] = Nobody
PausesSpec == PausesInit /\ [][PausesNext]_<<vars, overlapped, idle>>
=============================================================================
