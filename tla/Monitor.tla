------------------------------- MODULE Monitor -------------------------------
(***************************************************************************)
(* Java monitors as the VM implements them, vm/Sync.cpp: the lock word of  *)
(* one object, thin at first and fat from the first contention, the first  *)
(* wait() or the deepest thin recursion on; the Monitor it then points to, *)
(* with its pthread mutex and wait set; and of each thread the flag, the   *)
(* condition and the saved depth that wait(), notify() and interrupt() use.*)
(*                                                                         *)
(* A step is what runs under one hold of a thread's waitMutex, one atomic  *)
(* access to the lock word, or what the owner of the monitor's mutex does  *)
(* up to the next such access: nobody else reads lockCount, prevLockCount  *)
(* and the wait set, and of mon->owner others only compare with themselves.*)
(* A thread's waitMonitor is not NULL exactly while it waits on waitCond.  *)
(*                                                                         *)
(* Left out: what a suspension adds (dvmChangeStatus(), module             *)
(* ThreadSuspend), lock sampling, the hash state of the lock word (copying *)
(* collector only), calls that end with IllegalMonitorStateException or    *)
(* IllegalArgumentException, which change nothing, and the end of a        *)
(* monitor when its object is swept.                                       *)
(***************************************************************************)
EXTENDS Naturals, Sequences

CONSTANTS
  Threads,   \* threads of the process
  Nobody,    \* thread id 0, no owner
  CountMask, \* LW_LOCK_COUNT_MASK: the largest recursion count of a thin lock
  MaxDepth,  \* bound: how deep a thread enters
  Targets    \* bound: the threads that are interrupted, or ask whether they are

ASSUME NobodyAssumption == Nobody \notin Threads
ASSUME CountAssumption == CountMask \in Nat \ {0} /\ MaxDepth \in Nat

VARIABLES
  fat,          \* LW_SHAPE of the lock word
  thinOwner,    \* LW_LOCK_OWNER, while it is thin
  thinCount,    \* LW_LOCK_COUNT, while it is thin
  monOwner,     \* Monitor.owner
  lockCount,    \* Monitor.lockCount
  mutex,        \* who holds Monitor.lock
  waitSet,      \* Monitor.waitSet
  at,           \* where each thread is
  prev,         \* prevLockCount of its wait()
  signalled,    \* its waitCond was signalled since it waits
  interrupted,  \* Thread.interrupted
  wasInterrupted, \* the local variable of its wait()
  answer        \* what its VMThread.interrupted() is to return

word    == <<fat, thinOwner, thinCount>>
monitor == <<monOwner, lockCount, mutex>>
local   == <<prev, wasInterrupted, answer>>
vars == <<word, monitor, waitSet, at, signalled, interrupted, local>>

Init ==
  /\ fat = FALSE /\ thinOwner = Nobody /\ thinCount = 0
  /\ monOwner = Nobody /\ lockCount = 0 /\ mutex = Nobody
  /\ waitSet = <<>>
  /\ at = [t \in Threads |-> "run"]
  /\ prev = [t \in Threads |-> 0]
  /\ signalled = [t \in Threads |-> FALSE]
  /\ interrupted = [t \in Threads |-> FALSE]
  /\ wasInterrupted = [t \in Threads |-> FALSE]
  /\ answer = [t \in Threads |-> FALSE]

Goto(t, l) == at' = [at EXCEPT ![t] = l]
Thin(t) == ~fat /\ thinOwner = t
Fat(t)  == fat /\ monOwner = t

(***************************************************************************)
(* Shared by the operations.                                               *)
(***************************************************************************)
\* inflateMonitor(), by the owner of the thin lock
Inflate(t, count) ==
  /\ fat' = TRUE /\ thinOwner' = Nobody /\ thinCount' = 0
  /\ monOwner' = t /\ mutex' = t /\ lockCount' = count

WaitSetAppend(t) == waitSet' = Append(waitSet, t)

\* waitSetRemove(): a notifier may have taken it out before
WaitSetRemove(t) ==
  \/ /\ \A i \in 1..Len(waitSet) : waitSet[i] # t
     /\ UNCHANGED waitSet
  \/ \E i \in 1..Len(waitSet) :
       /\ waitSet[i] = t
       /\ waitSet' = [j \in 1..(Len(waitSet) - 1) |->
                        IF j < i THEN waitSet[j] ELSE waitSet[j + 1]]

Signal(t) == signalled' = [signalled EXCEPT ![t] = TRUE]

(***************************************************************************)
(* dvmLockObject() and dvmUnlockObject().                                  *)
(***************************************************************************)
Request(t) ==
  /\ at[t] = "run" /\ Goto(t, "lock")
  /\ Thin(t) => thinCount < MaxDepth
  /\ Fat(t) => lockCount < MaxDepth
  /\ UNCHANGED <<word, monitor, waitSet, signalled, interrupted, local>>

\* Mutant: the lock is inflated one recursion too late.
LockAgainThinLate(t) ==
  /\ at[t] = "lock" /\ Thin(t)
  /\ \/ /\ thinCount < CountMask
        /\ thinCount' = thinCount + 1
        /\ UNCHANGED <<fat, thinOwner, monitor>>
     \/ /\ thinCount = CountMask
        /\ Inflate(t, 0)
  /\ Goto(t, "run")
  /\ UNCHANGED <<waitSet, signalled, interrupted, local>>

\* again by the owner of a thin lock: at the limit the lock is made fat
LockAgainThin(t) ==
  /\ at[t] = "lock" /\ Thin(t)
  /\ \/ /\ thinCount + 1 < CountMask
        /\ thinCount' = thinCount + 1
        /\ UNCHANGED <<fat, thinOwner, monitor>>
     \/ /\ thinCount + 1 = CountMask
        /\ Inflate(t, CountMask)
  /\ Goto(t, "run")
  /\ UNCHANGED <<waitSet, signalled, interrupted, local>>

\* the compare-and-swap that installs the thread id
LockThin(t) ==
  /\ at[t] \in {"lock", "spin"} /\ Thin(Nobody)
  /\ thinOwner' = t
  /\ Goto(t, IF at[t] = "lock" THEN "run" ELSE "fatten")
  /\ UNCHANGED <<fat, thinCount, monitor, waitSet, signalled, interrupted, local>>

\* another thread has it: sleep and look again, until it is free or was made fat
Spin(t) ==
  /\ at[t] = "lock" /\ ~fat /\ thinOwner \notin {t, Nobody}
  /\ Goto(t, "spin")
  /\ UNCHANGED <<word, monitor, waitSet, signalled, interrupted, local>>
\* Mutant: a spinning thread looks at the owner only.
ShapeUnseen(t) ==
  /\ at[t] = "spin" /\ fat
  /\ UNCHANGED vars
SurpriseFattened(t) ==
  /\ at[t] = "spin" /\ fat
  /\ Goto(t, "lock")
  /\ UNCHANGED <<word, monitor, waitSet, signalled, interrupted, local>>

\* who got it by spinning makes it fat, so that the next one need not spin
Fatten(t) ==
  /\ at[t] = "fatten"
  /\ Inflate(t, thinCount) /\ Goto(t, "run")
  /\ UNCHANGED <<waitSet, signalled, interrupted, local>>

\* lockMonitor(), by the owner and by another thread
LockAgainFat(t) ==
  /\ at[t] = "lock" /\ Fat(t)
  /\ lockCount' = lockCount + 1 /\ Goto(t, "run")
  /\ UNCHANGED <<word, monOwner, mutex, waitSet, signalled, interrupted, local>>
LockFat(t) ==
  /\ at[t] = "lock" /\ fat /\ monOwner # t /\ mutex = Nobody
  /\ mutex' = t /\ monOwner' = t /\ Goto(t, "run")
  /\ UNCHANGED <<word, lockCount, waitSet, signalled, interrupted, local>>

Unlock(t) ==
  /\ at[t] = "run"
  /\ \/ /\ Thin(t) /\ thinCount = 0
        /\ thinOwner' = Nobody
        /\ UNCHANGED <<fat, thinCount, monitor>>
     \/ /\ Thin(t) /\ thinCount # 0
        /\ thinCount' = thinCount - 1
        /\ UNCHANGED <<fat, thinOwner, monitor>>
     \/ /\ Fat(t) /\ lockCount = 0
        /\ monOwner' = Nobody /\ mutex' = Nobody
        /\ UNCHANGED <<word, lockCount>>
     \/ /\ Fat(t) /\ lockCount # 0
        /\ lockCount' = lockCount - 1
        /\ UNCHANGED <<word, monOwner, mutex>>
  /\ UNCHANGED <<waitSet, at, signalled, interrupted, local>>

(***************************************************************************)
(* dvmObjectWait() and waitMonitor().                                      *)
(***************************************************************************)
\* it fattens a thin lock, joins the wait set and gives the monitor up, but not
\* yet the mutex
StartWait(t) ==
  /\ at[t] = "run"
  /\ Thin(t) \/ Fat(t)
  /\ WaitSetAppend(t)
  /\ prev' = [prev EXCEPT ![t] = IF fat THEN lockCount ELSE thinCount]
  /\ fat' = TRUE /\ thinOwner' = Nobody /\ thinCount' = 0
  /\ monOwner' = Nobody /\ mutex' = t /\ lockCount' = 0
  /\ Goto(t, "leaving")
  /\ UNCHANGED <<signalled, interrupted, wasInterrupted, answer>>

\* Mutant: the flag is not looked at before the wait.
SleepUnseen(t) ==
  /\ at[t] = "leaving"
  /\ mutex' = Nobody /\ Goto(t, "waiting")
  /\ UNCHANGED <<word, monOwner, lockCount, waitSet, signalled, interrupted, local>>
\* under waitMutex: interrupted before, or asleep on waitCond
Sleep(t) ==
  /\ at[t] = "leaving" /\ ~interrupted[t]
  /\ mutex' = Nobody /\ Goto(t, "waiting")
  /\ UNCHANGED <<word, monOwner, lockCount, waitSet, signalled, interrupted, local>>
InterruptedBefore(t) ==
  /\ at[t] = "leaving" /\ interrupted[t]
  /\ wasInterrupted' = [wasInterrupted EXCEPT ![t] = TRUE]
  /\ monOwner' = t /\ lockCount' = prev[t]
  /\ WaitSetRemove(t)
  /\ prev' = [prev EXCEPT ![t] = 0]
  /\ Goto(t, "clear")
  /\ UNCHANGED <<word, mutex, signalled, interrupted, answer>>

Wake(t) ==
  /\ at[t] = "waiting" /\ Goto(t, "relock")
  /\ wasInterrupted' = [wasInterrupted EXCEPT ![t] = interrupted[t]]
  /\ interrupted' = [interrupted EXCEPT ![t] = FALSE]
  /\ signalled' = [signalled EXCEPT ![t] = FALSE]
  /\ UNCHANGED <<word, monitor, waitSet, prev, answer>>
WakeSignalled(t) == signalled[t] /\ Wake(t)
\* a timeout, or a spurious wake-up
WakeAnyway(t) == ~signalled[t] /\ Wake(t)

\* Mutant: a thread that timed out is left in the wait set.
RelockListed(t) ==
  /\ at[t] = "relock" /\ mutex = Nobody
  /\ mutex' = t /\ monOwner' = t /\ lockCount' = prev[t]
  /\ prev' = [prev EXCEPT ![t] = 0]
  /\ Goto(t, "clear")
  /\ UNCHANGED <<word, waitSet, signalled, interrupted, wasInterrupted, answer>>
\* Mutant: the monitor comes back entered once.
RelockOnce(t) ==
  /\ at[t] = "relock" /\ mutex = Nobody
  /\ mutex' = t /\ monOwner' = t /\ lockCount' = 0
  /\ WaitSetRemove(t)
  /\ prev' = [prev EXCEPT ![t] = 0]
  /\ Goto(t, "clear")
  /\ UNCHANGED <<word, signalled, interrupted, wasInterrupted, answer>>
\* the monitor comes back as deep as it was
Relock(t) ==
  /\ at[t] = "relock" /\ mutex = Nobody
  /\ mutex' = t /\ monOwner' = t /\ lockCount' = prev[t]
  /\ WaitSetRemove(t)
  /\ prev' = [prev EXCEPT ![t] = 0]
  /\ Goto(t, "clear")
  /\ UNCHANGED <<word, signalled, interrupted, wasInterrupted, answer>>

\* the end of wait(): the flag is cleared once more, without waitMutex
Clear(t) ==
  /\ at[t] = "clear"
  /\ interrupted' = [interrupted EXCEPT ![t] = ~wasInterrupted[t] /\ @]
  /\ wasInterrupted' = [wasInterrupted EXCEPT ![t] = FALSE]
  /\ Goto(t, "run")
  /\ UNCHANGED <<word, monitor, waitSet, signalled, prev, answer>>

(***************************************************************************)
(* dvmObjectNotify() and dvmObjectNotifyAll(); nobody waits on a thin lock.*)
(***************************************************************************)
StartNotify(t, l) ==
  /\ at[t] = "run" /\ Fat(t) /\ Goto(t, l)
  /\ UNCHANGED <<word, monitor, waitSet, signalled, interrupted, local>>
StartNotifyOne(t) == StartNotify(t, "notify")
StartNotifyAll(t) == StartNotify(t, "notifyAll")

\* Mutant: the head of the set is taken to be waiting still.
NotifyHeadUntested(t) ==
  /\ at[t] \in {"notify", "notifyAll"} /\ waitSet # <<>>
  /\ waitSet' = Tail(waitSet)
  /\ IF at[Head(waitSet)] = "waiting"
       THEN Signal(Head(waitSet)) ELSE UNCHANGED signalled
  /\ Goto(t, IF at[t] = "notify" THEN "run" ELSE "notifyAll")
  /\ UNCHANGED <<word, monitor, interrupted, local>>
\* one round of the loop: the head of the set, which may be awake already
NotifyHead(t) ==
  /\ at[t] \in {"notify", "notifyAll"} /\ waitSet # <<>>
  /\ waitSet' = Tail(waitSet)
  /\ \/ /\ at[Head(waitSet)] = "waiting" /\ Signal(Head(waitSet))
        /\ Goto(t, IF at[t] = "notify" THEN "run" ELSE "notifyAll")
     \/ /\ at[Head(waitSet)] # "waiting"
        /\ UNCHANGED <<signalled, at>>
  /\ UNCHANGED <<word, monitor, interrupted, local>>
NotifyNobody(t) ==
  /\ at[t] \in {"notify", "notifyAll"} /\ waitSet = <<>>
  /\ Goto(t, "run")
  /\ UNCHANGED <<word, monitor, waitSet, signalled, interrupted, local>>

(***************************************************************************)
(* dvmThreadInterrupt(), by any thread, and VMThread.interrupted(), which  *)
(* reads the flag and then clears it.                                      *)
(***************************************************************************)
\* Mutant: a thread that waits is not signalled.
InterruptUnsignalled(t) ==
  /\ t \in Targets /\ ~interrupted[t]
  /\ interrupted' = [interrupted EXCEPT ![t] = TRUE]
  /\ UNCHANGED <<word, monitor, waitSet, at, signalled, local>>
Interrupt(t) ==
  /\ t \in Targets /\ ~interrupted[t]
  /\ interrupted' = [interrupted EXCEPT ![t] = TRUE]
  /\ IF at[t] = "waiting" THEN Signal(t) ELSE UNCHANGED signalled
  /\ UNCHANGED <<word, monitor, waitSet, at, local>>

ReadFlag(t) ==
  /\ t \in Targets
  /\ at[t] = "run" /\ Goto(t, "asked")
  /\ answer' = [answer EXCEPT ![t] = interrupted[t]]
  /\ UNCHANGED <<word, monitor, waitSet, signalled, interrupted, prev, wasInterrupted>>
ClearFlag(t) ==
  /\ at[t] = "asked" /\ Goto(t, "run")
  /\ interrupted' = [interrupted EXCEPT ![t] = FALSE]
  /\ answer' = [answer EXCEPT ![t] = FALSE]
  /\ UNCHANGED <<word, monitor, waitSet, signalled, prev, wasInterrupted>>

(***************************************************************************)
(* The specification.  A thread calls what it likes; a call it is in goes  *)
(* on while it can, a signalled thread wakes, and a mutex that stays free  *)
(* is taken.  Only weak fairness: neither pthread mutexes nor the polling  *)
(* of a thin lock promise each thread its turn.                            *)
(***************************************************************************)
Lock(t) ==
  \/ LockAgainThin(t) \/ LockThin(t) \/ Spin(t) \/ SurpriseFattened(t) \/ Fatten(t)
  \/ LockAgainFat(t) \/ LockFat(t)
InWait(t) ==
  \/ Sleep(t) \/ InterruptedBefore(t) \/ WakeSignalled(t) \/ Relock(t) \/ Clear(t)
Notifying(t) == NotifyHead(t) \/ NotifyNobody(t)

Begin(t) ==
  \/ Request(t) \/ Unlock(t) \/ StartWait(t) \/ WakeAnyway(t)
  \/ StartNotifyOne(t) \/ StartNotifyAll(t) \/ Interrupt(t) \/ ReadFlag(t)
Continue(t) == Lock(t) \/ InWait(t) \/ Notifying(t) \/ ClearFlag(t)

Next == \E t \in Threads : Begin(t) \/ Continue(t)
Fairness == \A t \in Threads : WF_vars(Continue(t))
Spec == Init /\ [][Next]_vars /\ Fairness

(***************************************************************************)
(* Properties.                                                             *)
(***************************************************************************)
Labels == {"run", "lock", "spin", "fatten", "leaving", "waiting", "relock", "clear",
           "notify", "notifyAll", "asked"}

\* Type invariant: the thin count fits its field and never reaches the limit at which
\* the next recursion would overflow it (inflateMonitor's call in dvmLockObject).
TypeOK ==
  /\ fat \in BOOLEAN
  /\ {thinOwner, monOwner, mutex} \subseteq Threads \cup {Nobody}
  /\ thinCount \in 0..(CountMask - 1) /\ lockCount \in Nat
  /\ waitSet \in Seq(Threads)
  /\ at \in [Threads -> Labels] /\ prev \in [Threads -> Nat]
  /\ signalled \in [Threads -> BOOLEAN] /\ interrupted \in [Threads -> BOOLEAN]
  /\ wasInterrupted \in [Threads -> BOOLEAN] /\ answer \in [Threads -> BOOLEAN]

Queued == {waitSet[i] : i \in 1..Len(waitSet)}

\* What the asserts of Sync.cpp say: the mutex belongs to the one thread that owns the
\* monitor or is leaving it; the count of a free monitor is 0 (lockMonitor); only the
\* owner fattens a lock (inflateMonitor); the wait set is no cycle (waitSetCheck).
AssertsHold ==
  /\ \A t \in Threads : mutex = t <=> monOwner = t \/ at[t] = "leaving"
  /\ monOwner = Nobody => lockCount = 0
  /\ \A t \in Threads : at[t] = "fatten" => Thin(t) /\ thinCount = 0
  /\ \A i, j \in 1..Len(waitSet) : waitSet[i] = waitSet[j] => i = j

\* No wake-up is missed: a thread that waits was signalled exactly if it was taken out
\* of the wait set or is interrupted, though wait(), notify() and interrupt() hold
\* different mutexes when they look.
SignalReaches ==
  \A t \in Threads :
    at[t] = "waiting" => (signalled[t] <=> t \notin Queued \/ interrupted[t])

Notified   == {t \in Threads : at[t] = "waiting" /\ t \notin Queued}
Unnotified == {t \in Threads : at[t] = "waiting" /\ t \in Queued}

\* notify() ends only when it has notified a thread that still waits or nobody does,
\* notifyAll() when nobody waits unnotified, whoever times out meanwhile.
NotifyReaches ==
  [][\A t \in Threads :
       /\ at[t] = "notify" /\ at'[t] = "run" => Notified' # Notified \/ Unnotified = {}
       /\ at[t] = "notifyAll" /\ at'[t] = "run" => Unnotified = {}]_vars

\* A waiter that is notified or interrupted wakes up.
WaiterWakes ==
  \A t \in Threads : t \in Notified \/ (at[t] = "waiting" /\ interrupted[t])
                       ~> at[t] # "waiting"

\* A free monitor does not stay free while a thread wants it, whether that thread
\* spins, meets a lock that was fattened meanwhile or comes back from wait().
Owner == IF fat THEN mutex ELSE thinOwner
HandedOver ==
  (Owner = Nobody /\ \E t \in Threads : at[t] \in {"lock", "spin", "relock"})
    ~> Owner # Nobody

\* The monitor of the object, as its users see it.
Depth ==
  IF Owner = Nobody THEN 0
  ELSE IF ~fat THEN thinCount + 1
  ELSE IF at[mutex] = "leaving" THEN prev[mutex] + 1 ELSE lockCount + 1
Waiting   == {t \in Threads : at[t] = "waiting"}
Returning == {t \in Threads : at[t] = "relock"}
Saved     == [t \in Threads |-> IF t \in Waiting \cup Returning THEN prev[t] + 1 ELSE 0]
Raised    == {t \in Threads : interrupted[t] /\ ~wasInterrupted[t]}
Throwing  == {t \in Threads : wasInterrupted[t]}

Abstract == INSTANCE ObjectMonitor WITH
  owner <- Owner, depth <- Depth, waiting <- Waiting, notified <- Notified,
  returning <- Returning, saved <- Saved, interrupted <- Raised, throwing <- Throwing

\* Sync.cpp keeps the promises of a monitor (module ObjectMonitor).
Promises == Abstract!Spec

\* Thread.h:260: the "interrupted" status "stays raised until queried or thrown".
InterruptStaysRaised ==
  [][\A t \in Threads : interrupted[t] /\ ~interrupted'[t]
       => wasInterrupted[t] \/ wasInterrupted'[t] \/ answer[t]]_vars
=============================================================================
