---------------------------- MODULE ThreadSuspend ----------------------------
(***************************************************************************)
(* How the Dalvik VM stops the world: vm/Thread.cpp (thread list, suspend  *)
(* counts, attach, create, detach), vm/alloc/Heap.cpp (allocation and      *)
(* collection), vm/alloc/HeapSource.cpp (the collector's daemon),          *)
(* vm/SignalCatcher.cpp (SIGQUIT dump), VMThread's and VMStack's natives.  *)
(* Every JNI call of a hook, GetEnv() first, passes through it.            *)
(*                                                                         *)
(* Three mutexes are modelled: _threadSuspendLock, threadListLock and      *)
(* gcHeapLock.  What runs under threadSuspendCountLock is one step, since  *)
(* its sections contain no other lock.  A condition wait leaves its mutex  *)
(* and enters a set (sleepers, starters, gcWaiters) that a broadcast       *)
(* empties; a woken thread tests its condition again, so that spurious     *)
(* wake-ups would add nothing.  Reading or writing another thread's        *)
(* status needs threadListLock; so taking that lock, what is done under    *)
(* it without waiting, and releasing it, is one step.                      *)
(*                                                                         *)
(* Left out: the debugger's suspensions (SUSPEND_FOR_DEBUG, JDWP), aborts  *)
(* after several seconds of waiting, failures of pthread and malloc, the   *)
(* heap trim, thread exit by an uncaught exception, VM shutdown.           *)
(***************************************************************************)
EXTENDS Integers, FiniteSets

CONSTANTS
  Threads,  \* threads of the process
  Nobody,   \* no owner of a mutex, no child
  Does      \* the operations each thread may start

Operations == {"native", "list", "trace", "allocate", "dump", "collect",
               "attach", "create", "child", "exit"}

ASSUME ThreadsAssumption == IsFiniteSet(Threads)
ASSUME NobodyAssumption == Nobody \notin Threads
ASSUME DoesAssumption == Does \in [Threads -> SUBSET Operations]

VARIABLES
  status,           \* Thread.status
  suspendCount,     \* Thread.suspendCount
  sumSuspendCount,  \* gDvm.sumThreadSuspendCount
  threadList,       \* gDvm.threadList
  suspendLock,      \* owner of gDvm._threadSuspendLock
  listLock,         \* owner of gDvm.threadListLock
  heapLock,         \* owner of gDvm.gcHeapLock
  gcRunning,        \* gDvm.gcHeap->gcRunning
  sleepers,         \* waiting on threadSuspendCountCond
  starters,         \* waiting on threadStartCond
  gcWaiters,        \* waiting on gcHeapCond
  at,               \* where each thread is
  next,             \* where it goes on when a call it is in returns
  stop,             \* the kind of stop-the-world it is performing
  todo,             \* the threads waitForThreadSuspend() is still to see
  child,            \* the thread it is creating
  held,             \* history: the threads it has suspended and not resumed
  escaped           \* history: RUNNING again, though it was told to suspend

locks   == <<suspendLock, listLock, heapLock>>
waiting == <<sleepers, starters, gcWaiters>>
counts  == <<suspendCount, sumSuspendCount, held>>
work    == <<stop, todo, child>>
vars == <<status, counts, threadList, locks, gcRunning, waiting, at, next, work,
          escaped>>

Statuses == {"RUNNING", "NATIVE", "VMWAIT", "SUSPENDED", "INITIALIZING",
             "STARTING", "ZOMBIE"}

\* foreground, soft: gcForMalloc() the first and the second time;
\* roots, remark: the two pauses of the concurrent collector
CollectorStops == {"foreground", "soft", "roots", "remark"}
Stops == CollectorStops \cup {"dump"}

Starts(t, op) == op \in Does[t]
New(t) == Starts(t, "attach") \/ Starts(t, "child")

Init ==
  /\ status = [t \in Threads |-> IF New(t) THEN "INITIALIZING" ELSE "RUNNING"]
  /\ at = [t \in Threads |-> IF Starts(t, "attach") THEN "detached"
                             ELSE IF Starts(t, "child") THEN "unborn" ELSE "run"]
  /\ threadList = {t \in Threads : ~New(t)}
  /\ suspendCount = [t \in Threads |-> 0]
  /\ sumSuspendCount = 0
  /\ suspendLock = Nobody /\ listLock = Nobody /\ heapLock = Nobody
  /\ gcRunning = FALSE
  /\ sleepers = {} /\ starters = {} /\ gcWaiters = {}
  /\ next = [t \in Threads |-> "run"]
  /\ stop = [t \in Threads |-> "dump"]
  /\ todo = [t \in Threads |-> {}]
  /\ child = [t \in Threads |-> Nobody]
  /\ held = [t \in Threads |-> {}]
  /\ escaped = [t \in Threads |-> FALSE]

(***************************************************************************)
(* What the operations share.                                              *)
(***************************************************************************)
Goto(t, l)   == at' = [at EXCEPT ![t] = l]
Become(t, s) == status' = [status EXCEPT ![t] = s]
Return(t, l) == next' = [next EXCEPT ![t] = l]
Escape(t)    == escaped' = [escaped EXCEPT ![t] = suspendCount[t] # 0]

\* dvmChangeStatus(RUNNING): the status first, then a look at the count
Revive(t, l) == Become(t, "RUNNING") /\ Goto(t, "check") /\ Return(t, l)

\* fullSuspendCheck() up to the condition wait
FullSuspend(t, l) ==
  /\ suspendCount[t] # 0
  /\ Become(t, "SUSPENDED") /\ Goto(t, "asleep") /\ Return(t, l)
  /\ sleepers' = sleepers \cup {t}
  /\ escaped' = [escaped EXCEPT ![t] = FALSE]
  /\ UNCHANGED <<counts, threadList, locks, gcRunning, starters, gcWaiters, work>>

\* dvmLockThreadList() up to the mutex: VMWAIT without dvmChangeStatus()
WantList(t, l) == Become(t, "VMWAIT") /\ Goto(t, "wantList") /\ Return(t, l)

\* dvmLockHeap() up to the mutex
LockHeap(t, l) ==
  \/ /\ heapLock = Nobody
     /\ heapLock' = t /\ Goto(t, l)
     /\ UNCHANGED <<status, next>>
  \/ /\ heapLock # Nobody
     /\ Become(t, "VMWAIT") /\ Goto(t, "wantHeap") /\ Return(t, l)
     /\ UNCHANGED heapLock

\* dvmAddToSuspendCounts() by 1 or by -1 for each thread of ts, which s holds
AddToCounts(s, ts) ==
  /\ suspendCount' = [u \in Threads |-> IF u \in ts THEN suspendCount[u] + 1
                                        ELSE suspendCount[u]]
  /\ sumSuspendCount' = sumSuspendCount + Cardinality(ts)
  /\ held' = [held EXCEPT ![s] = ts]
\* Mutant: no test for a count of zero.
TakeFromCountsUntested(s, ts) ==
  /\ suspendCount' = [u \in Threads |-> IF u \in ts THEN suspendCount[u] - 1
                                        ELSE suspendCount[u]]
  /\ sumSuspendCount' = sumSuspendCount - Cardinality(ts)
  /\ held' = [held EXCEPT ![s] = {}]
TakeFromCounts(s, ts) ==
  LET Positive == {u \in ts : suspendCount[u] > 0} IN
  /\ suspendCount' = [u \in Threads |-> IF u \in Positive THEN suspendCount[u] - 1
                                        ELSE suspendCount[u]]
  /\ sumSuspendCount' = sumSuspendCount - Cardinality(Positive)
  /\ held' = [held EXCEPT ![s] = {}]

(***************************************************************************)
(* Suspension as the suspended thread sees it.                             *)
(***************************************************************************)
\* the interpreter reaches a safe point with a suspension pending
SafePoint(t) == at[t] = "run" /\ FullSuspend(t, "run")

\* the second half of dvmChangeStatus(RUNNING)
Checked(t) ==
  /\ at[t] = "check" /\ suspendCount[t] = 0
  /\ Goto(t, next[t])
  /\ escaped' = [escaped EXCEPT ![t] = FALSE]
  /\ UNCHANGED <<status, counts, threadList, locks, gcRunning, waiting, next, work>>
SuspendedAtCheck(t) == at[t] = "check" /\ FullSuspend(t, next[t])

\* a woken thread tests its count again
Resumed(t) ==
  /\ at[t] = "asleep" /\ t \notin sleepers /\ suspendCount[t] = 0
  /\ Become(t, "RUNNING") /\ Goto(t, next[t])
  /\ UNCHANGED <<counts, threadList, locks, gcRunning, waiting, next, work, escaped>>
SleepAgain(t) ==
  /\ at[t] = "asleep" /\ t \notin sleepers /\ suspendCount[t] # 0
  /\ sleepers' = sleepers \cup {t}
  /\ UNCHANGED <<status, counts, threadList, locks, gcRunning, starters, gcWaiters,
                 at, next, work, escaped>>

\* a native method is called, and returns or calls back through JNI
ToNative(t) ==
  /\ at[t] = "run" /\ Starts(t, "native")
  /\ Become(t, "NATIVE") /\ Goto(t, "native")
  /\ UNCHANGED <<counts, threadList, locks, gcRunning, waiting, next, work, escaped>>
FromNative(t) ==
  /\ at[t] = "native" /\ Revive(t, "run")
  /\ UNCHANGED <<counts, threadList, locks, gcRunning, waiting, work, escaped>>

(***************************************************************************)
(* Users of the thread list: VMThread.holdsLock(), interrupt() and the     *)
(* like; VMStack.getThreadStackTrace().                                    *)
(***************************************************************************)
UseList(t) ==
  /\ at[t] = "run"
  /\ \/ Starts(t, "list") /\ WantList(t, "listed")
     \/ Starts(t, "trace") /\ WantList(t, "trace")
  /\ UNCHANGED <<counts, threadList, locks, gcRunning, waiting, work, escaped>>

\* the end of dvmLockThreadList(): the old status comes back unchecked
AcquireList(t) ==
  /\ at[t] = "wantList" /\ listLock = Nobody
  /\ listLock' = t
  /\ Become(t, "RUNNING") /\ Goto(t, next[t]) /\ Escape(t)
  /\ UNCHANGED <<counts, threadList, suspendLock, heapLock, gcRunning, waiting,
                 next, work>>

\* the end of a native's use of the list, or of a trace of no other thread
LeaveList(t) ==
  /\ at[t] \in {"listed", "trace"}
  /\ listLock' = Nobody /\ Goto(t, "run")
  /\ UNCHANGED <<status, counts, threadList, suspendLock, heapLock, gcRunning,
                 waiting, next, work, escaped>>

\* Mutant: the list is unlocked once the target's count is up.
SuspendOneUnlocked(t, u) ==
  /\ at[t] = "trace" /\ u \in threadList \ {t}
  /\ AddToCounts(t, {u}) /\ Goto(t, "awaitOne")
  /\ listLock' = Nobody
  /\ UNCHANGED <<status, threadList, suspendLock, heapLock, gcRunning, waiting, next,
                 work, escaped>>

\* dvmSuspendThread() and waitForThreadSuspend()
SuspendOne(t, u) ==
  /\ at[t] = "trace" /\ u \in threadList \ {t}
  /\ AddToCounts(t, {u}) /\ Goto(t, "awaitOne")
  /\ UNCHANGED <<status, threadList, locks, gcRunning, waiting, next, work, escaped>>
AwaitOne(t) ==
  /\ at[t] = "awaitOne" /\ \A u \in held[t] : status[u] # "RUNNING"
  /\ Goto(t, "snapshot")
  /\ UNCHANGED <<status, counts, threadList, locks, gcRunning, waiting, next, work,
                 escaped>>

\* dvmResumeThread(), which broadcasts only when the count reaches zero
ResumeOne(t) ==
  /\ at[t] = "snapshot"
  /\ TakeFromCounts(t, held[t])
  /\ sleepers' = IF \A u \in held[t] : suspendCount'[u] = 0 THEN {} ELSE sleepers
  /\ listLock' = Nobody /\ Goto(t, "run")
  /\ UNCHANGED <<status, threadList, suspendLock, heapLock, gcRunning, starters,
                 gcWaiters, next, work, escaped>>

(***************************************************************************)
(* dvmSuspendAllThreads() and dvmResumeAllThreads().                       *)
(***************************************************************************)
\* lockThreadSuspend(): try, and give way to a suspension instead of waiting
TrySuspendLock(t) ==
  /\ at[t] \in {"stop", "resume"} /\ suspendLock = Nobody
  /\ suspendLock' = t /\ Become(t, "VMWAIT")
  /\ Goto(t, IF at[t] = "stop" THEN "stopList" ELSE "resumeList")
  /\ UNCHANGED <<counts, threadList, listLock, heapLock, gcRunning, waiting, next,
                 work, escaped>>
SuspendedAtLock(t) ==
  /\ at[t] \in {"stop", "resume"} /\ suspendLock # Nobody
  /\ FullSuspend(t, at[t])

CountAll(t) ==
  /\ at[t] = "stopList" /\ listLock = Nobody
  /\ listLock' = t
  /\ AddToCounts(t, threadList \ {t})
  /\ todo' = [todo EXCEPT ![t] = threadList \ {t}]
  /\ Become(t, "RUNNING") /\ Goto(t, "await") /\ Escape(t)
  /\ UNCHANGED <<threadList, suspendLock, heapLock, gcRunning, waiting, next, stop,
                 child>>

\* Mutant: a thread that has been counted is taken to be suspended.
AwaitStopUnseen(t, u) ==
  /\ at[t] = "await" /\ u \in todo[t]
  /\ todo' = [todo EXCEPT ![t] = todo[t] \ {u}]
  /\ UNCHANGED <<status, counts, threadList, locks, gcRunning, waiting, at, next,
                 stop, child, escaped>>

\* waitForThreadSuspend() of one thread
AwaitStop(t, u) ==
  /\ at[t] = "await" /\ u \in todo[t] /\ status[u] # "RUNNING"
  /\ todo' = [todo EXCEPT ![t] = todo[t] \ {u}]
  /\ UNCHANGED <<status, counts, threadList, locks, gcRunning, waiting, at, next,
                 stop, child, escaped>>
WorldStops(t) ==
  /\ at[t] = "await" /\ todo[t] = {}
  /\ listLock' = Nobody /\ suspendLock' = Nobody
  /\ Goto(t, "stopped")
  /\ UNCHANGED <<status, counts, threadList, heapLock, gcRunning, waiting, next,
                 work, escaped>>

UncountAll(t) ==
  /\ at[t] = "resumeList" /\ listLock = Nobody
  /\ TakeFromCounts(t, threadList \ {t})
  /\ Become(t, "RUNNING") /\ Goto(t, "uncounted") /\ Escape(t)
  /\ UNCHANGED <<threadList, locks, gcRunning, waiting, next, work>>
ReleaseSuspendLock(t) ==
  /\ at[t] = "uncounted"
  /\ suspendLock' = Nobody /\ Goto(t, "broadcast")
  /\ UNCHANGED <<status, counts, threadList, listLock, heapLock, gcRunning, waiting,
                 next, work, escaped>>

\* where each kind of stop goes on once the world is resumed
AfterResume ==
  [foreground |-> "retry", soft |-> "last", roots |-> "marking",
   remark |-> "sweeping", dump |-> "run"]
Broadcast(t) ==
  /\ at[t] = "broadcast"
  /\ sleepers' = {} /\ Goto(t, AfterResume[stop[t]])
  /\ UNCHANGED <<status, counts, threadList, locks, gcRunning, starters, gcWaiters,
                 next, work, escaped>>

(***************************************************************************)
(* Allocation and collection.                                              *)
(***************************************************************************)
\* dvmMalloc()
Allocate(t) ==
  /\ at[t] = "run" /\ Starts(t, "allocate")
  /\ LockHeap(t, "allocating")
  /\ UNCHANGED <<counts, threadList, suspendLock, listLock, gcRunning, waiting, work,
                 escaped>>

\* the end of dvmLockHeap(), which may sleep with the heap lock held
AcquireHeap(t) ==
  /\ at[t] = "wantHeap" /\ heapLock = Nobody
  /\ heapLock' = t
  /\ Revive(t, next[t])
  /\ UNCHANGED <<counts, threadList, suspendLock, listLock, gcRunning, waiting, work,
                 escaped>>

\* tryMalloc() found memory, or gave up after the second collection; memory may be so
\* short that the daemon is signalled, if it is waiting for that
Allocated(t) ==
  /\ at[t] \in {"allocating", "waited", "retry", "last"}
  /\ at[t] = "waited" => ~gcRunning
  /\ heapLock' = Nobody
  /\ \/ Goto(t, "run")
     \/ \E d \in Threads : /\ at[d] = "daemonWait"
                          /\ at' = [at EXCEPT ![t] = "run", ![d] = "asked"]
  /\ UNCHANGED <<status, counts, threadList, suspendLock, listLock, gcRunning, waiting,
                 next, work, escaped>>

\* Mutant: the heap lock is kept over the wait.
WaitForGcLocked(t) ==
  /\ at[t] \in {"allocating", "waited"} /\ gcRunning
  /\ Become(t, "VMWAIT") /\ Goto(t, "gcWait")
  /\ gcWaiters' = gcWaiters \cup {t}
  /\ UNCHANGED <<counts, threadList, locks, gcRunning, sleepers, starters, next, work,
                 escaped>>

\* dvmWaitForConcurrentGcToComplete()
WaitForGc(t) ==
  /\ at[t] \in {"allocating", "waited"} /\ gcRunning
  /\ Become(t, "VMWAIT") /\ Goto(t, "gcWait")
  /\ gcWaiters' = gcWaiters \cup {t}
  /\ heapLock' = Nobody
  /\ UNCHANGED <<counts, threadList, suspendLock, listLock, gcRunning, sleepers,
                 starters, next, work, escaped>>
GcOver(t) ==
  /\ at[t] = "gcWait" /\ t \notin gcWaiters /\ heapLock = Nobody
  /\ heapLock' = t
  /\ Revive(t, "waited")
  /\ UNCHANGED <<counts, threadList, suspendLock, listLock, gcRunning, waiting, work,
                 escaped>>

\* dvmCollectGarbageInternal() up to the suspension
StartGc(t, k) ==
  /\ ~gcRunning /\ gcRunning' = TRUE
  /\ stop' = [stop EXCEPT ![t] = k] /\ Goto(t, "stop")
  /\ UNCHANGED <<status, counts, threadList, locks, waiting, next, todo, child,
                 escaped>>
CollectForMalloc(t) ==
  \/ at[t] = "allocating" /\ StartGc(t, "foreground")
  \/ at[t] \in {"waited", "retry"} /\ StartGc(t, "soft")

\* gcDaemonThread(): it sleeps in VMWAIT until it is asked to collect
DaemonSleeps(t) ==
  /\ at[t] = "run" /\ Starts(t, "collect")
  /\ Become(t, "VMWAIT") /\ Goto(t, "daemonWait")
  /\ UNCHANGED <<counts, threadList, locks, gcRunning, waiting, next, work, escaped>>
DaemonWakes(t) ==
  /\ at[t] = "asked" /\ heapLock = Nobody /\ ~gcRunning
  /\ heapLock' = t
  /\ Revive(t, "collect")
  /\ UNCHANGED <<counts, threadList, suspendLock, listLock, gcRunning, waiting, work,
                 escaped>>
CollectConcurrently(t) == at[t] = "collect" /\ StartGc(t, "roots")

\* what the thread that stopped the world does with it: a whole collection,
\* marking from the roots or again, or a dump of all stacks
Collect(t) ==
  /\ at[t] = "stopped" /\ stop[t] \in {"foreground", "soft"}
  /\ gcRunning' = FALSE /\ Goto(t, "resume")
  /\ UNCHANGED <<status, counts, threadList, locks, waiting, next, work, escaped>>
MarkStopped(t) ==
  /\ at[t] = "stopped" /\ stop[t] \in {"roots", "remark"}
  /\ heapLock' = Nobody /\ Goto(t, "resume")
  /\ UNCHANGED <<status, counts, threadList, suspendLock, listLock, gcRunning, waiting,
                 next, work, escaped>>
DumpStopped(t) ==
  /\ at[t] = "stopped" /\ stop[t] = "dump"
  /\ WantList(t, "dumping")
  /\ UNCHANGED <<counts, threadList, locks, gcRunning, waiting, work, escaped>>
Dumped(t) ==
  /\ at[t] = "dumping"
  /\ listLock' = Nobody /\ Goto(t, "resume")
  /\ UNCHANGED <<status, counts, threadList, suspendLock, heapLock, gcRunning, waiting,
                 next, work, escaped>>

\* the concurrent phases: marking, then the second pause; sweeping, then the end
MarkConcurrently(t) ==
  /\ at[t] = "marking"
  /\ LockHeap(t, "stop") /\ stop' = [stop EXCEPT ![t] = "remark"]
  /\ UNCHANGED <<counts, threadList, suspendLock, listLock, gcRunning, waiting, todo,
                 child, escaped>>
Sweep(t) ==
  /\ at[t] = "sweeping" /\ LockHeap(t, "finish")
  /\ UNCHANGED <<counts, threadList, suspendLock, listLock, gcRunning, waiting, work,
                 escaped>>
FinishGc(t) ==
  /\ at[t] = "finish"
  /\ gcRunning' = FALSE /\ gcWaiters' = {}
  /\ heapLock' = Nobody
  /\ Become(t, "VMWAIT") /\ Goto(t, "daemonWait")
  /\ UNCHANGED <<counts, threadList, suspendLock, listLock, sleepers, starters, next,
                 work, escaped>>

\* handleSigQuit()
Dump(t) ==
  /\ at[t] = "run" /\ Starts(t, "dump")
  /\ stop' = [stop EXCEPT ![t] = "dump"] /\ Goto(t, "stop")
  /\ UNCHANGED <<status, counts, threadList, locks, gcRunning, waiting, next, todo,
                 child, escaped>>

(***************************************************************************)
(* Threads that come and go.                                               *)
(***************************************************************************)
\* dvmAttachCurrentThread(): listed first, then a pulse of the heap lock
Attach(t) ==
  /\ at[t] = "detached" /\ listLock = Nobody
  /\ threadList' = threadList \cup {t}
  /\ Become(t, "VMWAIT") /\ Goto(t, "pulse")
  /\ UNCHANGED <<counts, locks, gcRunning, waiting, next, work, escaped>>
PulseHeapLock(t) ==
  /\ at[t] = "pulse" /\ heapLock = Nobody
  /\ Revive(t, "run")
  /\ UNCHANGED <<counts, threadList, locks, gcRunning, waiting, work, escaped>>

\* dvmDetachCurrentThread(): VMWAIT, then the thread unlinks itself
Detach(t) ==
  /\ at[t] = "run" /\ Starts(t, "exit")
  /\ Become(t, "VMWAIT") /\ Goto(t, "dying")
  /\ UNCHANGED <<counts, threadList, locks, gcRunning, waiting, next, work, escaped>>
Unlink(t) ==
  /\ at[t] = "dying" /\ listLock = Nobody
  /\ threadList' = threadList \ {t}
  /\ Become(t, "ZOMBIE") /\ Goto(t, "gone")
  /\ UNCHANGED <<counts, locks, gcRunning, waiting, next, work, escaped>>

\* dvmCreateInterpThread() and, in the new thread, interpThreadStart()
Create(t) ==
  /\ at[t] = "run" /\ Starts(t, "create")
  /\ WantList(t, "mark")
  /\ UNCHANGED <<counts, threadList, locks, gcRunning, waiting, work, escaped>>
MarkStarted(t, c) ==
  /\ at[t] = "mark" /\ at[c] = "unborn"
  /\ child' = [child EXCEPT ![t] = c]
  /\ at' = [at EXCEPT ![t] = "spawn", ![c] = "started"]
  /\ listLock' = Nobody
  /\ UNCHANGED <<status, counts, threadList, suspendLock, heapLock, gcRunning, waiting,
                 next, stop, todo, escaped>>
AlreadyStarted(t) ==
  /\ at[t] = "mark"
  /\ listLock' = Nobody /\ Goto(t, "run")
  /\ UNCHANGED <<status, counts, threadList, suspendLock, heapLock, gcRunning, waiting,
                 next, work, escaped>>
Spawn(t) ==
  /\ at[t] = "spawn"
  /\ Become(t, "VMWAIT")
  /\ at' = [at EXCEPT ![t] = "spawned", ![child[t]] = "prepare"]
  /\ UNCHANGED <<counts, threadList, locks, gcRunning, waiting, next, work, escaped>>
Spawned(t) ==
  /\ at[t] = "spawned" /\ Revive(t, "join")
  /\ UNCHANGED <<counts, threadList, locks, gcRunning, waiting, work, escaped>>
\* Mutant: the parent waits for its child in RUNNING.
JoinRunning(t) ==
  /\ at[t] = "join" /\ Goto(t, "joining")
  /\ UNCHANGED <<status, counts, threadList, locks, gcRunning, waiting, next, work,
                 escaped>>
Join(t) ==
  /\ at[t] = "join"
  /\ Become(t, "VMWAIT") /\ Goto(t, "joining")
  /\ UNCHANGED <<counts, threadList, locks, gcRunning, waiting, next, work, escaped>>

\* threadStartCond: the parent waits for STARTING, the child for VMWAIT
AwaitStatus(t, u, s) ==
  /\ at[t] \in {"joining", "starting"} /\ listLock = Nobody /\ t \notin starters
  /\ status[u] # s
  /\ starters' = starters \cup {t}
  /\ UNCHANGED <<status, counts, threadList, locks, gcRunning, sleepers, gcWaiters, at,
                 next, work, escaped>>
WaitForChild(t)  == at[t] = "joining" /\ AwaitStatus(t, child[t], "STARTING")
WaitForParent(t) == at[t] = "starting" /\ AwaitStatus(t, t, "VMWAIT")
LinkChild(t) ==
  /\ at[t] = "joining" /\ listLock = Nobody /\ t \notin starters
  /\ status[child[t]] = "STARTING"
  /\ threadList' = threadList \cup {child[t]}
  /\ Revive(t, "linked")
  /\ UNCHANGED <<counts, locks, gcRunning, waiting, work, escaped>>
Linked(t) ==
  /\ at[t] = "linked" /\ WantList(t, "release")
  /\ UNCHANGED <<counts, threadList, locks, gcRunning, waiting, work, escaped>>
ReleaseChild(t) ==
  /\ at[t] = "release"
  /\ Become(child[t], "VMWAIT") /\ starters' = {}
  /\ child' = [child EXCEPT ![t] = Nobody]
  /\ listLock' = Nobody /\ Goto(t, "run")
  /\ UNCHANGED <<counts, threadList, suspendLock, heapLock, gcRunning, sleepers,
                 gcWaiters, next, stop, todo, escaped>>

\* threadStartCond is one for all: internalThreadStart() broadcasts it too
OthersStart ==
  /\ starters # {} /\ starters' = {}
  /\ UNCHANGED <<status, counts, threadList, locks, gcRunning, sleepers, gcWaiters, at,
                 next, work, escaped>>

\* Mutant: the child does not signal that it is STARTING.
PrepareSilently(c) ==
  /\ at[c] = "prepare" /\ listLock = Nobody
  /\ Become(c, "STARTING") /\ Goto(c, "starting")
  /\ starters' = starters \cup {c}
  /\ UNCHANGED <<counts, threadList, locks, gcRunning, sleepers, gcWaiters, next, work,
                 escaped>>
Prepare(c) ==
  /\ at[c] = "prepare" /\ listLock = Nobody
  /\ Become(c, "STARTING") /\ Goto(c, "starting")
  /\ starters' = {c}
  /\ UNCHANGED <<counts, threadList, locks, gcRunning, sleepers, gcWaiters, next, work,
                 escaped>>
Released(c) ==
  /\ at[c] = "starting" /\ listLock = Nobody /\ c \notin starters
  /\ status[c] = "VMWAIT"
  /\ Revive(c, "run")
  /\ UNCHANGED <<counts, threadList, locks, gcRunning, waiting, work, escaped>>

(***************************************************************************)
(* The specification.  A thread is free to start operations and to stay in *)
(* native code; what it has started goes on, and a running thread reaches  *)
(* safe points.  Fairness is strong because a mutex may be free only from  *)
(* time to time; the code relies on the mutexes letting every waiter in.   *)
(***************************************************************************)
Suspension(t) ==
  \/ Checked(t) \/ SuspendedAtCheck(t) \/ SuspendedAtLock(t) \/ Resumed(t) \/ SleepAgain(t)
ListUse(t) ==
  \/ AcquireList(t) \/ LeaveList(t) \/ (\E u \in Threads : SuspendOne(t, u))
  \/ AwaitOne(t) \/ ResumeOne(t)
StopTheWorld(t) ==
  \/ TrySuspendLock(t) \/ CountAll(t) \/ (\E u \in Threads : AwaitStop(t, u))
  \/ WorldStops(t) \/ UncountAll(t) \/ ReleaseSuspendLock(t) \/ Broadcast(t)
HeapUse(t) ==
  \/ AcquireHeap(t) \/ Allocated(t) \/ WaitForGc(t) \/ GcOver(t) \/ CollectForMalloc(t)
  \/ DaemonWakes(t) \/ CollectConcurrently(t) \/ Collect(t) \/ MarkStopped(t) \/ DumpStopped(t)
  \/ Dumped(t) \/ MarkConcurrently(t) \/ Sweep(t) \/ FinishGc(t)
Lifetime(t) ==
  \/ PulseHeapLock(t) \/ Unlink(t) \/ (\E c \in Threads : MarkStarted(t, c))
  \/ AlreadyStarted(t) \/ Spawn(t) \/ Spawned(t) \/ Join(t) \/ WaitForChild(t)
  \/ LinkChild(t) \/ Linked(t) \/ ReleaseChild(t)
  \/ Prepare(t) \/ WaitForParent(t) \/ Released(t)

Begin(t) ==
  \/ ToNative(t) \/ FromNative(t) \/ UseList(t) \/ Allocate(t) \/ DaemonSleeps(t)
  \/ Dump(t) \/ Attach(t) \/ Detach(t) \/ Create(t)
Continue(t) ==
  Suspension(t) \/ ListUse(t) \/ StopTheWorld(t) \/ HeapUse(t) \/ Lifetime(t)

Next ==
  \/ \E t \in Threads : SafePoint(t) \/ Begin(t) \/ Continue(t)
  \/ OthersStart

Fairness == \A t \in Threads : SF_vars(SafePoint(t)) /\ SF_vars(Continue(t))
Spec == Init /\ [][Next]_vars /\ Fairness

(***************************************************************************)
(* Properties.                                                             *)
(***************************************************************************)
Labels == {"run", "native", "check", "asleep", "wantList", "listed", "trace",
           "awaitOne", "snapshot", "stop", "stopList", "await", "stopped", "resume",
           "resumeList", "uncounted", "broadcast", "wantHeap", "allocating", "gcWait",
           "waited", "retry", "last", "daemonWait", "asked", "collect", "marking", "sweeping",
           "finish", "dumping", "detached", "pulse", "dying", "gone", "mark", "spawn",
           "spawned", "join", "joining", "linked", "release", "unborn", "started",
           "prepare", "starting"}

\* Type invariant: statuses, counts, lists, locks and positions of the threads.
TypeOK ==
  /\ status \in [Threads -> Statuses]
  /\ suspendCount \in [Threads -> Nat] /\ sumSuspendCount \in Int
  /\ threadList \subseteq Threads
  /\ {suspendLock, listLock, heapLock} \subseteq Threads \cup {Nobody}
  /\ gcRunning \in BOOLEAN
  /\ sleepers \subseteq Threads /\ starters \subseteq Threads
  /\ gcWaiters \subseteq Threads
  /\ at \in [Threads -> Labels] /\ next \in [Threads -> Labels]
  /\ stop \in [Threads -> Stops]
  /\ todo \in [Threads -> SUBSET Threads]
  /\ child \in [Threads -> Threads \cup {Nobody}]
  /\ held \in [Threads -> SUBSET Threads]
  /\ escaped \in [Threads -> BOOLEAN]

\* a thread that may touch the heap or its stack
Executing(t) == status[t] = "RUNNING" /\ at[t] # "check"
StoppedForGc(t) == at[t] = "stopped" /\ stop[t] \in CollectorStops

\* the threads that have suspended t and not resumed it
Holders(t) == {s \in Threads : t \in held[s]}
\* somebody else's dvmResumeAllThreads() has undone a suspension t is still under
Robbed(t) == suspendCount[t] < Cardinality(Holders(t))

\* The thread whose stack VMStack copies does not execute meanwhile: unlike a whole
\* stop, dvmSuspendThread() keeps the list lock, so that its target cannot come back
\* unchecked.
SnapshotStill ==
  \A t, u \in Threads : at[t] = "snapshot" /\ u \in held[t] => ~Executing(u)

\* A stop of the world succeeds: whoever runs gets to a safe point or out of RUNNING,
\* whatever locks it waits for, and nobody goes to sleep with a lock the stop needs.
StopCompletes ==
  \A t \in Threads : at[t] = "await" ~> at[t] = "stopped"

\* A collection ends, unless dumps and traces keep interrupting it: the collector is
\* not shut out by those it suspended, one of which may sleep with the heap lock
\* (the comment of dvmWaitForConcurrentGcToComplete).
Interrupted ==
  \E t \in Threads : at[t] = "snapshot" \/ (at[t] = "stopped" /\ stop[t] = "dump")
GcEnds == <>[]~Interrupted => (gcRunning ~> ~gcRunning)

\* A thread that is created gets to run, unless the world is stopped over and over:
\* parent and child do not miss each other on threadStartCond, and neither waits for
\* the other while a suspension keeps that one asleep.
Still == \A t \in Threads : at[t] \notin {"stopped", "snapshot"}
ChildRuns ==
  <>[]Still => \A t \in Threads : at[t] = "prepare" ~> at[t] = "run"

\* dvmLockThreadList(), Thread.cpp:360: "Nobody can suspend all threads without
\* holding the thread list lock while they do it, so by definition there isn't a GC in
\* progress" when another thread gets the lock.
NoGcUnderListLock ==
  \A s, t \in Threads : at[t] \in {"listed", "trace", "mark"} => ~StoppedForGc(s)
=============================================================================
