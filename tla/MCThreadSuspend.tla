--------------------------- MODULE MCThreadSuspend ---------------------------
(***************************************************************************)
(* Instances of ThreadSuspend: which thread may do what.                   *)
(***************************************************************************)
EXTENDS ThreadSuspend, TLC

CONSTANTS daemon, main, worker, signal, baby

\* the collector's daemon, a thread that allocates and uses the list, one that attaches,
\* creates another and reads stacks, SIGQUIT's
DoesPauses == (daemon :> {"attach", "collect"}) @@ (main :> {"allocate", "list"})
              @@ (worker :> {"attach", "create", "trace", "exit"})
              @@ (baby :> {"child"}) @@ (signal :> {"dump"})

\* a daemon that attaches and a thread that is created during collections, by one that
\* runs native code too
DoesThreads == (daemon :> {"attach", "collect"}) @@ (baby :> {"child"})
               @@ (main :> {"native", "allocate", "create", "exit"})

(***************************************************************************)
(* A resume-all takes one suspension from whoever is listed then, not from *)
(* those it suspended.  That goes wrong only once two threads have had the *)
(* world suspended at once: a thread that came back from                   *)
(* dvmLockThreadList() unchecked, and another.                             *)
(***************************************************************************)
VARIABLE overlapped  \* history: two threads have had the world suspended at once

\* t has counted all threads up and not down again
Suspends(t) ==
  \/ at[t] \in {"await", "stopped", "dumping", "resume", "resumeList"}
  \/ at[t] \in {"check", "asleep", "wantList"} /\ next[t] \in {"resume", "dumping"}
Overlap == \E s, t \in Threads : s # t /\ Suspends(s) /\ Suspends(t)

MCInit == Init /\ overlapped = FALSE
MCNext == Next /\ overlapped' = (overlapped \/ Overlap')
MCSpec == MCInit /\ [][MCNext]_<<vars, overlapped>>
MCFairSpec == MCSpec /\ Fairness

\* A thread of the list is suspended as many times as there are suspensions still to be
\* undone, though the list changes between dvmSuspendAllThreads() and
\* dvmResumeAllThreads(): never more, so that none outlives the one who ordered it; and
\* fewer, so that one is undone early, only once two stops have overlapped.
CountsBalanced ==
  \A t \in threadList :
    /\ suspendCount[t] <= Cardinality(Holders(t))
    /\ Robbed(t) => overlapped

\* While a collector has the world stopped, nobody else executes, not even a thread
\* attached or created meanwhile; the exceptions are a thread that came back from
\* dvmLockThreadList() (dvmSuspendAllThreads, dvmChangeStatus, dvmAttachCurrentThread),
\* one that another's dvmResumeAllThreads() has resumed early and, after such an
\* overlap, one that has joined since the collector counted.
WorldStopped ==
  \A s, t \in Threads :
    StoppedForGc(s) /\ t # s /\ Executing(t) =>
      escaped[t] \/ Robbed(t) \/ (overlapped /\ t \notin held[s])
=============================================================================
