---------------------------- MODULE ObjectMonitor ----------------------------
(***************************************************************************)
(* What the monitor of an object promises: what the callers of             *)
(* dvmLockObject(), dvmUnlockObject(), dvmObjectWait(), dvmObjectNotify(), *)
(* dvmObjectNotifyAll() and dvmThreadInterrupt() (vm/Sync.cpp) may rely    *)
(* on, whatever shape the lock word has and however threads contend.       *)
(* Module Monitor is shown to implement it.                                *)
(***************************************************************************)
EXTENDS Naturals

CONSTANTS Threads, Nobody

VARIABLES
  owner,        \* who is inside
  depth,        \* how often it has entered
  waiting,      \* threads in wait(), not woken yet
  notified,     \* those of them that were notified
  returning,    \* threads that were woken and must get the monitor back
  saved,        \* the depth each thread in wait() must get back
  interrupted,  \* threads with an interrupt pending
  throwing      \* threads whose wait() was ended by an interrupt

vars == <<owner, depth, waiting, notified, returning, saved, interrupted, throwing>>

Init ==
  /\ owner = Nobody /\ depth = 0
  /\ waiting = {} /\ notified = {} /\ returning = {}
  /\ saved = [t \in Threads |-> 0]
  /\ interrupted = {} /\ throwing = {}

Free(t) == t \notin waiting \cup returning \cup throwing

Enter(t) ==
  /\ Free(t)
  /\ \/ owner = Nobody /\ owner' = t /\ depth' = 1
     \/ owner = t /\ owner' = t /\ depth' = depth + 1
  /\ UNCHANGED <<waiting, notified, returning, saved, interrupted, throwing>>

Exit(t) ==
  /\ Free(t) /\ owner = t
  /\ depth' = depth - 1
  /\ owner' = IF depth = 1 THEN Nobody ELSE t
  /\ UNCHANGED <<waiting, notified, returning, saved, interrupted, throwing>>

\* wait() lets the monitor go, however deep, and joins the waiters in one step,
\* unless an interrupt is pending
Wait(t) ==
  /\ Free(t) /\ owner = t /\ t \notin interrupted
  /\ saved' = [saved EXCEPT ![t] = depth]
  /\ owner' = Nobody /\ depth' = 0
  /\ waiting' = waiting \cup {t}
  /\ UNCHANGED <<notified, returning, interrupted, throwing>>
WaitInterrupted(t) ==
  /\ Free(t) /\ owner = t /\ t \in interrupted
  /\ interrupted' = interrupted \ {t} /\ throwing' = throwing \cup {t}
  /\ UNCHANGED <<owner, depth, waiting, notified, returning, saved>>

\* a notification goes to a thread that still waits and has none, if there is one
Notify(t) ==
  /\ Free(t) /\ owner = t
  /\ \E w \in waiting \ notified : notified' = notified \cup {w}
  /\ UNCHANGED <<owner, depth, waiting, returning, saved, interrupted, throwing>>

\* a waiter wakes up: notified, interrupted, after its timeout or without a reason
Wake(t) ==
  /\ t \in waiting
  /\ waiting' = waiting \ {t} /\ notified' = notified \ {t}
  /\ returning' = returning \cup {t}
  /\ throwing' = IF t \in interrupted THEN throwing \cup {t} ELSE throwing
  /\ interrupted' = interrupted \ {t}
  /\ UNCHANGED <<owner, depth, saved>>

\* it comes back with the monitor, as deep as it was
Return(t) ==
  /\ t \in returning /\ owner = Nobody
  /\ owner' = t /\ depth' = saved[t]
  /\ saved' = [saved EXCEPT ![t] = 0]
  /\ returning' = returning \ {t}
  /\ UNCHANGED <<waiting, notified, interrupted, throwing>>
Throw(t) ==
  /\ t \in throwing \ returning /\ owner = t
  /\ throwing' = throwing \ {t}
  /\ UNCHANGED <<owner, depth, waiting, notified, returning, saved, interrupted>>

\* an interrupt is kept for the next wait(), or until the thread asks for it;
\* one that finds its target with an exception on the way is part of that
Interrupt(t) ==
  /\ t \notin throwing
  /\ interrupted' = interrupted \cup {t}
  /\ UNCHANGED <<owner, depth, waiting, notified, returning, saved, throwing>>
Ask(t) ==
  /\ Free(t)
  /\ interrupted' = interrupted \ {t}
  /\ UNCHANGED <<owner, depth, waiting, notified, returning, saved, throwing>>

Step(t) ==
  \/ Enter(t) \/ Exit(t) \/ Wait(t) \/ WaitInterrupted(t) \/ Notify(t)
  \/ Wake(t) \/ Return(t) \/ Throw(t) \/ Interrupt(t) \/ Ask(t)
Next == \E t \in Threads : Step(t)

Spec == Init /\ [][Next]_vars
=============================================================================
