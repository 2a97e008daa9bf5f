---------------------------- MODULE Monitor_proofs ----------------------------
(***************************************************************************)
(* Theorems about Monitor for any number of threads and any CountMask: its *)
(* inductive invariant, the invariants and the action property that the    *)
(* runs check, and that it implements ObjectMonitor.                       *)
(***************************************************************************)
EXTENDS Monitor, TLAPS

(***************************************************************************)
(* The inductive invariant.                                                *)
(***************************************************************************)
\* thin and fat exclude each other
ShapeOK ==
  /\ fat => thinOwner = Nobody
  /\ thinOwner = Nobody => thinCount = 0
  /\ ~fat => monOwner = Nobody /\ mutex = Nobody /\ waitSet = <<>>

\* the monitor belongs to its owner or to the thread that is leaving it
MutexOK ==
  /\ \A t \in Threads : mutex = t <=> monOwner = t \/ at[t] = "leaving"
  /\ monOwner = Nobody => lockCount = 0

\* what is known of a thread by its place
PlaceOK(t) ==
  /\ at[t] = "fatten" => Thin(t) /\ thinCount = 0
  /\ at[t] \in {"clear", "notify", "notifyAll"} => Fat(t)
  /\ at[t] \in {"leaving", "waiting", "relock"} => fat /\ monOwner # t
  /\ at[t] = "spin" => thinOwner # t /\ monOwner # t
  /\ at[t] = "leaving" => t \in Queued
  /\ t \in Queued => at[t] \in {"leaving", "waiting", "relock"}
  /\ signalled[t] => at[t] = "waiting"
  /\ wasInterrupted[t] => at[t] \in {"relock", "clear"}

QueueOK == \A i, j \in 1..Len(waitSet) : waitSet[i] = waitSet[j] => i = j

IInv ==
  TypeOK /\ ShapeOK /\ MutexOK /\ QueueOK /\ SignalReaches
  /\ \A t \in Threads : PlaceOK(t)
(***************************************************************************)
(* What the wait set does.                                                 *)
(***************************************************************************)
\* A thread that is appended joins the queue, once if it was not in it (waitSetAppend).
LEMMA AppendQueue ==
  ASSUME NEW t \in Threads, waitSet \in Seq(Threads), t \notin Queued, QueueOK,
         WaitSetAppend(t)
  PROVE  waitSet' \in Seq(Threads) /\ Queued' = Queued \cup {t} /\ QueueOK'
<1>1. /\ waitSet' \in Seq(Threads) /\ Len(waitSet') = Len(waitSet) + 1
      /\ Len(waitSet) \in Nat
      /\ waitSet'[Len(waitSet) + 1] = t
      /\ \A j \in 1..Len(waitSet) : waitSet'[j] = waitSet[j]
  BY DEF WaitSetAppend
<1>2. Queued' = Queued \cup {t}
  BY <1>1 DEF Queued
<1>3. QueueOK'
  BY <1>1 DEF Queued, QueueOK
<1> QED BY <1>1, <1>2, <1>3

\* The head that a notifier takes out leaves the queue (notifyMonitor).
LEMMA TailQueue ==
  ASSUME waitSet \in Seq(Threads), waitSet # <<>>, QueueOK, waitSet' = Tail(waitSet)
  PROVE  /\ waitSet' \in Seq(Threads)
         /\ Head(waitSet) \in Threads /\ Head(waitSet) \in Queued
         /\ Queued' = Queued \ {Head(waitSet)} /\ QueueOK'
<1>1. /\ waitSet' \in Seq(Threads) /\ Len(waitSet') = Len(waitSet) - 1
      /\ Len(waitSet) \in Nat /\ Len(waitSet) >= 1
      /\ Head(waitSet) = waitSet[1]
      /\ \A j \in 1..(Len(waitSet) - 1) : waitSet'[j] = waitSet[j + 1]
  OBVIOUS
<1>2. \A i \in 1..Len(waitSet) : waitSet[i] \in Threads
  OBVIOUS
<1>3. Queued' \subseteq Queued \ {Head(waitSet)}
  BY <1>1 DEF Queued, QueueOK
<1>4. ASSUME NEW i \in 1..Len(waitSet), waitSet[i] # waitSet[1]
      PROVE  waitSet[i] \in Queued'
  <2>1. i - 1 \in 1..Len(waitSet') /\ waitSet'[i - 1] = waitSet[i]
    BY <1>1, <1>4
  <2> QED BY <2>1 DEF Queued
<1>5. ASSUME NEW x \in Queued, x # Head(waitSet)
      PROVE  x \in Queued'
  <2>1. PICK i \in 1..Len(waitSet) : waitSet[i] = x
    BY DEF Queued
  <2> QED BY <1>1, <1>4, <1>5, <2>1
<1>7. Head(waitSet) \in Threads /\ Head(waitSet) \in Queued
  <2>1. 1 \in 1..Len(waitSet)
    BY <1>1
  <2> QED BY <1>1, <1>2, <2>1 DEF Queued
<1>6. QueueOK'
  BY <1>1 DEF QueueOK
<1> QED BY <1>1, <1>3, <1>5, <1>6, <1>7

\* A thread that removes itself is in the queue no more (waitSetRemove).
LEMMA RemoveQueue ==
  ASSUME NEW t \in Threads, waitSet \in Seq(Threads), QueueOK, WaitSetRemove(t)
  PROVE  waitSet' \in Seq(Threads) /\ Queued' = Queued \ {t} /\ QueueOK'
<1>1. CASE /\ \A i \in 1..Len(waitSet) : waitSet[i] # t
           /\ UNCHANGED waitSet
  BY <1>1 DEF Queued, QueueOK
<1>2. ASSUME NEW i \in 1..Len(waitSet), waitSet[i] = t,
             waitSet' = [j \in 1..(Len(waitSet) - 1) |->
                           IF j < i THEN waitSet[j] ELSE waitSet[j + 1]]
      PROVE  waitSet' \in Seq(Threads) /\ Queued' = Queued \ {t} /\ QueueOK'
  <2>1. Len(waitSet) \in Nat /\ Len(waitSet) - 1 \in Nat
    OBVIOUS
  <2>2. \A j \in 1..(Len(waitSet) - 1) :
           waitSet'[j] = IF j < i THEN waitSet[j] ELSE waitSet[j + 1]
    BY <1>2
  <2>3. \A j \in 1..Len(waitSet) : waitSet[j] \in Threads
    OBVIOUS
  <2>4. \A j \in 1..(Len(waitSet) - 1) : waitSet'[j] \in Threads
    BY <2>1, <2>2, <2>3
  <2>5. waitSet' \in [1..(Len(waitSet) - 1) -> Threads]
    BY <1>2, <2>4
  <2>6. waitSet' \in Seq(Threads) /\ Len(waitSet') = Len(waitSet) - 1
    BY <2>1, <2>5
  <2>7. Queued' \subseteq Queued \ {t}
    BY <1>2, <2>1, <2>2, <2>6 DEF Queued, QueueOK
  <2>8. ASSUME NEW k \in 1..Len(waitSet), waitSet[k] # t
        PROVE  waitSet[k] \in Queued'
    <3>1. CASE k < i
      <4>1. k \in 1..Len(waitSet') /\ waitSet'[k] = waitSet[k]
        BY <2>1, <2>2, <2>6, <3>1
      <4> QED BY <4>1 DEF Queued
    <3>2. CASE k > i
      <4>1. k - 1 \in 1..Len(waitSet') /\ waitSet'[k - 1] = waitSet[k]
        BY <2>1, <2>2, <2>6, <3>2
      <4> QED BY <4>1 DEF Queued
    <3> QED BY <1>2, <2>8, <3>1, <3>2
  <2>9. Queued' = Queued \ {t}
    BY <2>7, <2>8 DEF Queued
  <2>10. QueueOK'
    BY <2>1, <2>2, <2>6 DEF QueueOK
  <2> QED BY <2>6, <2>9, <2>10
<1> QED BY <1>1, <1>2 DEF WaitSetRemove

(***************************************************************************)
(* Every step keeps the invariant.                                         *)
(***************************************************************************)
\* The invariant is kept when dvmLockObject is called.
LEMMA RequestInv ==
  ASSUME IInv, NEW t \in Threads, Request(t)
  PROVE  IInv'
<1> USE NobodyAssumption, CountAssumption
<1>1. TypeOK /\ ShapeOK /\ MutexOK /\ QueueOK /\ SignalReaches
      /\ (\A u \in Threads : PlaceOK(u)) /\ waitSet \in Seq(Threads)
  BY DEF IInv, TypeOK
<1>2. Queued' = Queued /\ QueueOK' /\ waitSet' \in Seq(Threads) /\ waitSet' = waitSet
  BY <1>1 DEF Queued, QueueOK, Request, Goto, Thin, Fat, word, monitor, local
<1>3. TypeOK'
  BY <1>1, <1>2 DEF TypeOK, Labels, PlaceOK, ShapeOK, Request, Goto, Thin, Fat, word, monitor, local
<1>4. ShapeOK'
  BY <1>1, <1>2 DEF TypeOK, ShapeOK, PlaceOK, Request, Goto, Thin, Fat, word, monitor, local
<1>5. MutexOK'
  BY <1>1, <1>2 DEF TypeOK, MutexOK, ShapeOK, PlaceOK, Request, Goto, Thin, Fat, word, monitor, local
<1>6. SignalReaches'
  BY <1>1, <1>2 DEF TypeOK, SignalReaches, PlaceOK, MutexOK, Request, Goto, Thin, Fat, word, monitor, local
<1>7. ASSUME NEW u \in Threads PROVE PlaceOK(u)'
  <2>1. PlaceOK(u) /\ PlaceOK(t)
    BY <1>1
  <2> QED BY <1>1, <1>2, <2>1 DEF TypeOK, ShapeOK, MutexOK, PlaceOK, Request, Goto, Thin, Fat, word, monitor, local
<1> QED BY <1>2, <1>3, <1>4, <1>5, <1>6, <1>7 DEF IInv

\* The invariant is kept when the owner of the thin lock enters again.
LEMMA LockAgainThinInv ==
  ASSUME IInv, NEW t \in Threads, LockAgainThin(t)
  PROVE  IInv'
<1> USE NobodyAssumption, CountAssumption
<1>1. TypeOK /\ ShapeOK /\ MutexOK /\ QueueOK /\ SignalReaches
      /\ (\A u \in Threads : PlaceOK(u)) /\ waitSet \in Seq(Threads)
  BY DEF IInv, TypeOK
<1>2. Queued' = Queued /\ QueueOK' /\ waitSet' \in Seq(Threads) /\ waitSet' = waitSet
  BY <1>1 DEF Queued, QueueOK, LockAgainThin, Inflate, Goto, Thin, Fat, word, monitor, local
<1>a. thinCount' \in 0..(CountMask - 1) /\ lockCount' \in Nat
  <2>1. thinCount \in 0..(CountMask - 1) /\ lockCount \in Nat
    BY <1>1 DEF TypeOK
  <2>2. CASE thinCount + 1 < CountMask /\ thinCount' = thinCount + 1 /\ lockCount' = lockCount
    BY <2>1, <2>2
  <2>3. CASE thinCount' = 0 /\ lockCount' = CountMask
    BY <2>1, <2>3
  <2> QED BY <2>2, <2>3 DEF LockAgainThin, Inflate, monitor
<1>3. TypeOK'
  BY <1>1, <1>2, <1>a DEF TypeOK, Labels, LockAgainThin, Inflate, Goto, Thin, Fat, word, monitor, local
<1>4. ShapeOK'
  BY <1>1, <1>2 DEF TypeOK, ShapeOK, PlaceOK, LockAgainThin, Inflate, Goto, Thin, Fat, word, monitor, local
<1>5. MutexOK'
  BY <1>1, <1>2 DEF TypeOK, MutexOK, ShapeOK, PlaceOK, LockAgainThin, Inflate, Goto, Thin, Fat, word, monitor, local
<1>6. SignalReaches'
  BY <1>1, <1>2 DEF TypeOK, SignalReaches, PlaceOK, MutexOK, LockAgainThin, Inflate, Goto, Thin, Fat, word, monitor, local
<1>7. ASSUME NEW u \in Threads PROVE PlaceOK(u)'
  <2>1. PlaceOK(u) /\ PlaceOK(t)
    BY <1>1
  <2> QED BY <1>1, <1>2, <2>1 DEF TypeOK, ShapeOK, MutexOK, PlaceOK, LockAgainThin, Inflate, Goto, Thin, Fat, word, monitor, local
<1> QED BY <1>2, <1>3, <1>4, <1>5, <1>6, <1>7 DEF IInv

\* The invariant is kept when the thin lock is taken.
LEMMA LockThinInv ==
  ASSUME IInv, NEW t \in Threads, LockThin(t)
  PROVE  IInv'
<1> USE NobodyAssumption, CountAssumption
<1>1. TypeOK /\ ShapeOK /\ MutexOK /\ QueueOK /\ SignalReaches
      /\ (\A u \in Threads : PlaceOK(u)) /\ waitSet \in Seq(Threads)
  BY DEF IInv, TypeOK
<1>2. Queued' = Queued /\ QueueOK' /\ waitSet' \in Seq(Threads) /\ waitSet' = waitSet
  BY <1>1 DEF Queued, QueueOK, LockThin, Goto, Thin, Fat, word, monitor, local
<1>3. TypeOK'
  BY <1>1, <1>2 DEF TypeOK, Labels, PlaceOK, ShapeOK, LockThin, Goto, Thin, Fat, word, monitor, local
<1>4. ShapeOK'
  BY <1>1, <1>2 DEF TypeOK, ShapeOK, PlaceOK, LockThin, Goto, Thin, Fat, word, monitor, local
<1>5. MutexOK'
  BY <1>1, <1>2 DEF TypeOK, MutexOK, ShapeOK, PlaceOK, LockThin, Goto, Thin, Fat, word, monitor, local
<1>6. SignalReaches'
  BY <1>1, <1>2 DEF TypeOK, SignalReaches, PlaceOK, MutexOK, LockThin, Goto, Thin, Fat, word, monitor, local
<1>7. ASSUME NEW u \in Threads PROVE PlaceOK(u)'
  <2>1. PlaceOK(u) /\ PlaceOK(t)
    BY <1>1
  <2> QED BY <1>1, <1>2, <2>1 DEF TypeOK, ShapeOK, MutexOK, PlaceOK, LockThin, Goto, Thin, Fat, word, monitor, local
<1> QED BY <1>2, <1>3, <1>4, <1>5, <1>6, <1>7 DEF IInv

\* The invariant is kept when a thread starts to spin.
LEMMA SpinInv ==
  ASSUME IInv, NEW t \in Threads, Spin(t)
  PROVE  IInv'
<1> USE NobodyAssumption, CountAssumption
<1>1. TypeOK /\ ShapeOK /\ MutexOK /\ QueueOK /\ SignalReaches
      /\ (\A u \in Threads : PlaceOK(u)) /\ waitSet \in Seq(Threads)
  BY DEF IInv, TypeOK
<1>2. Queued' = Queued /\ QueueOK' /\ waitSet' \in Seq(Threads) /\ waitSet' = waitSet
  BY <1>1 DEF Queued, QueueOK, Spin, Goto, Thin, Fat, word, monitor, local
<1>3. TypeOK'
  BY <1>1, <1>2 DEF TypeOK, Labels, PlaceOK, ShapeOK, Spin, Goto, Thin, Fat, word, monitor, local
<1>4. ShapeOK'
  BY <1>1, <1>2 DEF TypeOK, ShapeOK, PlaceOK, Spin, Goto, Thin, Fat, word, monitor, local
<1>5. MutexOK'
  BY <1>1, <1>2 DEF TypeOK, MutexOK, ShapeOK, PlaceOK, Spin, Goto, Thin, Fat, word, monitor, local
<1>6. SignalReaches'
  BY <1>1, <1>2 DEF TypeOK, SignalReaches, PlaceOK, MutexOK, Spin, Goto, Thin, Fat, word, monitor, local
<1>7. ASSUME NEW u \in Threads PROVE PlaceOK(u)'
  <2>1. PlaceOK(u) /\ PlaceOK(t)
    BY <1>1
  <2> QED BY <1>1, <1>2, <2>1 DEF TypeOK, ShapeOK, MutexOK, PlaceOK, Spin, Goto, Thin, Fat, word, monitor, local
<1> QED BY <1>2, <1>3, <1>4, <1>5, <1>6, <1>7 DEF IInv

\* The invariant is kept when a spinning thread meets a fat lock.
LEMMA SurpriseFattenedInv ==
  ASSUME IInv, NEW t \in Threads, SurpriseFattened(t)
  PROVE  IInv'
<1> USE NobodyAssumption, CountAssumption
<1>1. TypeOK /\ ShapeOK /\ MutexOK /\ QueueOK /\ SignalReaches
      /\ (\A u \in Threads : PlaceOK(u)) /\ waitSet \in Seq(Threads)
  BY DEF IInv, TypeOK
<1>2. Queued' = Queued /\ QueueOK' /\ waitSet' \in Seq(Threads) /\ waitSet' = waitSet
  BY <1>1 DEF Queued, QueueOK, SurpriseFattened, Goto, Thin, Fat, word, monitor, local
<1>3. TypeOK'
  BY <1>1, <1>2 DEF TypeOK, Labels, PlaceOK, ShapeOK, SurpriseFattened, Goto, Thin, Fat, word, monitor, local
<1>4. ShapeOK'
  BY <1>1, <1>2 DEF TypeOK, ShapeOK, PlaceOK, SurpriseFattened, Goto, Thin, Fat, word, monitor, local
<1>5. MutexOK'
  BY <1>1, <1>2 DEF TypeOK, MutexOK, ShapeOK, PlaceOK, SurpriseFattened, Goto, Thin, Fat, word, monitor, local
<1>6. SignalReaches'
  BY <1>1, <1>2 DEF TypeOK, SignalReaches, PlaceOK, MutexOK, SurpriseFattened, Goto, Thin, Fat, word, monitor, local
<1>7. ASSUME NEW u \in Threads PROVE PlaceOK(u)'
  <2>1. PlaceOK(u) /\ PlaceOK(t)
    BY <1>1
  <2> QED BY <1>1, <1>2, <2>1 DEF TypeOK, ShapeOK, MutexOK, PlaceOK, SurpriseFattened, Goto, Thin, Fat, word, monitor, local
<1> QED BY <1>2, <1>3, <1>4, <1>5, <1>6, <1>7 DEF IInv

\* The invariant is kept when the lock is fattened after spinning.
LEMMA FattenInv ==
  ASSUME IInv, NEW t \in Threads, Fatten(t)
  PROVE  IInv'
<1> USE NobodyAssumption, CountAssumption
<1>1. TypeOK /\ ShapeOK /\ MutexOK /\ QueueOK /\ SignalReaches
      /\ (\A u \in Threads : PlaceOK(u)) /\ waitSet \in Seq(Threads)
  BY DEF IInv, TypeOK
<1>2. Queued' = Queued /\ QueueOK' /\ waitSet' \in Seq(Threads) /\ waitSet' = waitSet
  BY <1>1 DEF Queued, QueueOK, Fatten, Inflate, Goto, Thin, Fat, word, monitor, local
<1>3. TypeOK'
  BY <1>1, <1>2 DEF TypeOK, Labels, PlaceOK, ShapeOK, Fatten, Inflate, Goto, Thin, Fat, word, monitor, local
<1>4. ShapeOK'
  BY <1>1, <1>2 DEF TypeOK, ShapeOK, PlaceOK, Fatten, Inflate, Goto, Thin, Fat, word, monitor, local
<1>5. MutexOK'
  BY <1>1, <1>2 DEF TypeOK, MutexOK, ShapeOK, PlaceOK, Fatten, Inflate, Goto, Thin, Fat, word, monitor, local
<1>6. SignalReaches'
  BY <1>1, <1>2 DEF TypeOK, SignalReaches, PlaceOK, MutexOK, Fatten, Inflate, Goto, Thin, Fat, word, monitor, local
<1>7. ASSUME NEW u \in Threads PROVE PlaceOK(u)'
  <2>1. PlaceOK(u) /\ PlaceOK(t)
    BY <1>1
  <2> QED BY <1>1, <1>2, <2>1 DEF TypeOK, ShapeOK, MutexOK, PlaceOK, Fatten, Inflate, Goto, Thin, Fat, word, monitor, local
<1> QED BY <1>2, <1>3, <1>4, <1>5, <1>6, <1>7 DEF IInv

\* The invariant is kept when the owner of the monitor enters again.
LEMMA LockAgainFatInv ==
  ASSUME IInv, NEW t \in Threads, LockAgainFat(t)
  PROVE  IInv'
<1> USE NobodyAssumption, CountAssumption
<1>1. TypeOK /\ ShapeOK /\ MutexOK /\ QueueOK /\ SignalReaches
      /\ (\A u \in Threads : PlaceOK(u)) /\ waitSet \in Seq(Threads)
  BY DEF IInv, TypeOK
<1>2. Queued' = Queued /\ QueueOK' /\ waitSet' \in Seq(Threads) /\ waitSet' = waitSet
  BY <1>1 DEF Queued, QueueOK, LockAgainFat, Goto, Thin, Fat, word, monitor, local
<1>3. TypeOK'
  BY <1>1, <1>2 DEF TypeOK, Labels, PlaceOK, ShapeOK, LockAgainFat, Goto, Thin, Fat, word, monitor, local
<1>4. ShapeOK'
  BY <1>1, <1>2 DEF TypeOK, ShapeOK, PlaceOK, LockAgainFat, Goto, Thin, Fat, word, monitor, local
<1>5. MutexOK'
  BY <1>1, <1>2 DEF TypeOK, MutexOK, ShapeOK, PlaceOK, LockAgainFat, Goto, Thin, Fat, word, monitor, local
<1>6. SignalReaches'
  BY <1>1, <1>2 DEF TypeOK, SignalReaches, PlaceOK, MutexOK, LockAgainFat, Goto, Thin, Fat, word, monitor, local
<1>7. ASSUME NEW u \in Threads PROVE PlaceOK(u)'
  <2>1. PlaceOK(u) /\ PlaceOK(t)
    BY <1>1
  <2> QED BY <1>1, <1>2, <2>1 DEF TypeOK, ShapeOK, MutexOK, PlaceOK, LockAgainFat, Goto, Thin, Fat, word, monitor, local
<1> QED BY <1>2, <1>3, <1>4, <1>5, <1>6, <1>7 DEF IInv

\* The invariant is kept when the mutex is taken.
LEMMA LockFatInv ==
  ASSUME IInv, NEW t \in Threads, LockFat(t)
  PROVE  IInv'
<1> USE NobodyAssumption, CountAssumption
<1>1. TypeOK /\ ShapeOK /\ MutexOK /\ QueueOK /\ SignalReaches
      /\ (\A u \in Threads : PlaceOK(u)) /\ waitSet \in Seq(Threads)
  BY DEF IInv, TypeOK
<1>2. Queued' = Queued /\ QueueOK' /\ waitSet' \in Seq(Threads) /\ waitSet' = waitSet
  BY <1>1 DEF Queued, QueueOK, LockFat, Goto, Thin, Fat, word, monitor, local
<1>3. TypeOK'
  BY <1>1, <1>2 DEF TypeOK, Labels, PlaceOK, ShapeOK, LockFat, Goto, Thin, Fat, word, monitor, local
<1>4. ShapeOK'
  BY <1>1, <1>2 DEF TypeOK, ShapeOK, PlaceOK, LockFat, Goto, Thin, Fat, word, monitor, local
<1>5. MutexOK'
  BY <1>1, <1>2 DEF TypeOK, MutexOK, ShapeOK, PlaceOK, LockFat, Goto, Thin, Fat, word, monitor, local
<1>6. SignalReaches'
  BY <1>1, <1>2 DEF TypeOK, SignalReaches, PlaceOK, MutexOK, LockFat, Goto, Thin, Fat, word, monitor, local
<1>7. ASSUME NEW u \in Threads PROVE PlaceOK(u)'
  <2>1. PlaceOK(u) /\ PlaceOK(t)
    BY <1>1
  <2> QED BY <1>1, <1>2, <2>1 DEF TypeOK, ShapeOK, MutexOK, PlaceOK, LockFat, Goto, Thin, Fat, word, monitor, local
<1> QED BY <1>2, <1>3, <1>4, <1>5, <1>6, <1>7 DEF IInv

\* The invariant is kept when the owner leaves.
LEMMA UnlockInv ==
  ASSUME IInv, NEW t \in Threads, Unlock(t)
  PROVE  IInv'
<1> USE NobodyAssumption, CountAssumption
<1>1. TypeOK /\ ShapeOK /\ MutexOK /\ QueueOK /\ SignalReaches
      /\ (\A u \in Threads : PlaceOK(u)) /\ waitSet \in Seq(Threads)
  BY DEF IInv, TypeOK
<1>2. Queued' = Queued /\ QueueOK' /\ waitSet' \in Seq(Threads) /\ waitSet' = waitSet
  BY <1>1 DEF Queued, QueueOK, Unlock, Goto, Thin, Fat, word, monitor, local
<1>3. TypeOK'
  BY <1>1, <1>2 DEF TypeOK, Labels, PlaceOK, ShapeOK, Unlock, Goto, Thin, Fat, word, monitor, local
<1>4. ShapeOK'
  BY <1>1, <1>2 DEF TypeOK, ShapeOK, PlaceOK, Unlock, Goto, Thin, Fat, word, monitor, local
<1>5. MutexOK'
  BY <1>1, <1>2 DEF TypeOK, MutexOK, ShapeOK, PlaceOK, Unlock, Goto, Thin, Fat, word, monitor, local
<1>6. SignalReaches'
  BY <1>1, <1>2 DEF TypeOK, SignalReaches, PlaceOK, MutexOK, Unlock, Goto, Thin, Fat, word, monitor, local
<1>7. ASSUME NEW u \in Threads PROVE PlaceOK(u)'
  <2>1. PlaceOK(u) /\ PlaceOK(t)
    BY <1>1
  <2> QED BY <1>1, <1>2, <2>1 DEF TypeOK, ShapeOK, MutexOK, PlaceOK, Unlock, Goto, Thin, Fat, word, monitor, local
<1> QED BY <1>2, <1>3, <1>4, <1>5, <1>6, <1>7 DEF IInv

\* The invariant is kept when wait() begins.
LEMMA StartWaitInv ==
  ASSUME IInv, NEW t \in Threads, StartWait(t)
  PROVE  IInv'
<1> USE NobodyAssumption, CountAssumption
<1>1. TypeOK /\ ShapeOK /\ MutexOK /\ QueueOK /\ SignalReaches
      /\ (\A u \in Threads : PlaceOK(u)) /\ waitSet \in Seq(Threads)
  BY DEF IInv, TypeOK
<1>a. t \notin Queued
  BY <1>1 DEF PlaceOK, StartWait, Goto, Thin, Fat, word, monitor, local
<1>2. Queued' = Queued \cup {t} /\ QueueOK' /\ waitSet' \in Seq(Threads)
  BY <1>1, <1>a, AppendQueue DEF StartWait
<1>3. TypeOK'
  BY <1>1, <1>2 DEF TypeOK, Labels, PlaceOK, ShapeOK, StartWait, Goto, Thin, Fat, word, monitor, local
<1>4. ShapeOK'
  BY <1>1, <1>2 DEF TypeOK, ShapeOK, PlaceOK, StartWait, Goto, Thin, Fat, word, monitor, local
<1>5. MutexOK'
  BY <1>1, <1>2 DEF TypeOK, MutexOK, ShapeOK, PlaceOK, StartWait, Goto, Thin, Fat, word, monitor, local
<1>6. SignalReaches'
  BY <1>1, <1>2 DEF TypeOK, SignalReaches, PlaceOK, MutexOK, StartWait, Goto, Thin, Fat, word, monitor, local
<1>7. ASSUME NEW u \in Threads PROVE PlaceOK(u)'
  <2>1. PlaceOK(u) /\ PlaceOK(t)
    BY <1>1
  <2> QED BY <1>1, <1>2, <2>1 DEF TypeOK, ShapeOK, MutexOK, PlaceOK, StartWait, Goto, Thin, Fat, word, monitor, local
<1> QED BY <1>2, <1>3, <1>4, <1>5, <1>6, <1>7 DEF IInv

\* The invariant is kept when a thread sleeps on its waitCond.
LEMMA SleepInv ==
  ASSUME IInv, NEW t \in Threads, Sleep(t)
  PROVE  IInv'
<1> USE NobodyAssumption, CountAssumption
<1>1. TypeOK /\ ShapeOK /\ MutexOK /\ QueueOK /\ SignalReaches
      /\ (\A u \in Threads : PlaceOK(u)) /\ waitSet \in Seq(Threads)
  BY DEF IInv, TypeOK
<1>2. Queued' = Queued /\ QueueOK' /\ waitSet' \in Seq(Threads) /\ waitSet' = waitSet
  BY <1>1 DEF Queued, QueueOK, Sleep, Goto, Thin, Fat, word, monitor, local
<1>3. TypeOK'
  BY <1>1, <1>2 DEF TypeOK, Labels, PlaceOK, ShapeOK, Sleep, Goto, Thin, Fat, word, monitor, local
<1>4. ShapeOK'
  BY <1>1, <1>2 DEF TypeOK, ShapeOK, PlaceOK, Sleep, Goto, Thin, Fat, word, monitor, local
<1>5. MutexOK'
  BY <1>1, <1>2 DEF TypeOK, MutexOK, ShapeOK, PlaceOK, Sleep, Goto, Thin, Fat, word, monitor, local
<1>6. SignalReaches'
  BY <1>1, <1>2 DEF TypeOK, SignalReaches, PlaceOK, MutexOK, Sleep, Goto, Thin, Fat, word, monitor, local
<1>7. ASSUME NEW u \in Threads PROVE PlaceOK(u)'
  <2>1. PlaceOK(u) /\ PlaceOK(t)
    BY <1>1
  <2> QED BY <1>1, <1>2, <2>1 DEF TypeOK, ShapeOK, MutexOK, PlaceOK, Sleep, Goto, Thin, Fat, word, monitor, local
<1> QED BY <1>2, <1>3, <1>4, <1>5, <1>6, <1>7 DEF IInv

\* The invariant is kept when wait() finds an interrupt pending.
LEMMA InterruptedBeforeInv ==
  ASSUME IInv, NEW t \in Threads, InterruptedBefore(t)
  PROVE  IInv'
<1> USE NobodyAssumption, CountAssumption
<1>1. TypeOK /\ ShapeOK /\ MutexOK /\ QueueOK /\ SignalReaches
      /\ (\A u \in Threads : PlaceOK(u)) /\ waitSet \in Seq(Threads)
  BY DEF IInv, TypeOK
<1>2. Queued' = Queued \ {t} /\ QueueOK' /\ waitSet' \in Seq(Threads)
  BY <1>1, RemoveQueue DEF InterruptedBefore
<1>3. TypeOK'
  BY <1>1, <1>2 DEF TypeOK, Labels, PlaceOK, ShapeOK, InterruptedBefore, Goto, Thin, Fat, word, monitor, local
<1>4. ShapeOK'
  BY <1>1, <1>2 DEF TypeOK, ShapeOK, PlaceOK, InterruptedBefore, Goto, Thin, Fat, word, monitor, local
<1>5. MutexOK'
  BY <1>1, <1>2 DEF TypeOK, MutexOK, ShapeOK, PlaceOK, InterruptedBefore, Goto, Thin, Fat, word, monitor, local
<1>6. SignalReaches'
  BY <1>1, <1>2 DEF TypeOK, SignalReaches, PlaceOK, MutexOK, InterruptedBefore, Goto, Thin, Fat, word, monitor, local
<1>7. ASSUME NEW u \in Threads PROVE PlaceOK(u)'
  <2>1. PlaceOK(u) /\ PlaceOK(t)
    BY <1>1
  <2> QED BY <1>1, <1>2, <2>1 DEF TypeOK, ShapeOK, MutexOK, PlaceOK, InterruptedBefore, Goto, Thin, Fat, word, monitor, local
<1> QED BY <1>2, <1>3, <1>4, <1>5, <1>6, <1>7 DEF IInv

\* The invariant is kept when a waiter wakes up.
LEMMA WakeInv ==
  ASSUME IInv, NEW t \in Threads, Wake(t)
  PROVE  IInv'
<1> USE NobodyAssumption, CountAssumption
<1>1. TypeOK /\ ShapeOK /\ MutexOK /\ QueueOK /\ SignalReaches
      /\ (\A u \in Threads : PlaceOK(u)) /\ waitSet \in Seq(Threads)
  BY DEF IInv, TypeOK
<1>2. Queued' = Queued /\ QueueOK' /\ waitSet' \in Seq(Threads) /\ waitSet' = waitSet
  BY <1>1 DEF Queued, QueueOK, Wake, Goto, Thin, Fat, word, monitor, local
<1>3. TypeOK'
  BY <1>1, <1>2 DEF TypeOK, Labels, PlaceOK, ShapeOK, Wake, Goto, Thin, Fat, word, monitor, local
<1>4. ShapeOK'
  BY <1>1, <1>2 DEF TypeOK, ShapeOK, PlaceOK, Wake, Goto, Thin, Fat, word, monitor, local
<1>5. MutexOK'
  BY <1>1, <1>2 DEF TypeOK, MutexOK, ShapeOK, PlaceOK, Wake, Goto, Thin, Fat, word, monitor, local
<1>6. SignalReaches'
  BY <1>1, <1>2 DEF TypeOK, SignalReaches, PlaceOK, MutexOK, Wake, Goto, Thin, Fat, word, monitor, local
<1>7. ASSUME NEW u \in Threads PROVE PlaceOK(u)'
  <2>1. PlaceOK(u) /\ PlaceOK(t)
    BY <1>1
  <2> QED BY <1>1, <1>2, <2>1 DEF TypeOK, ShapeOK, MutexOK, PlaceOK, Wake, Goto, Thin, Fat, word, monitor, local
<1> QED BY <1>2, <1>3, <1>4, <1>5, <1>6, <1>7 DEF IInv

\* The invariant is kept when a waiter gets the monitor back.
LEMMA RelockInv ==
  ASSUME IInv, NEW t \in Threads, Relock(t)
  PROVE  IInv'
<1> USE NobodyAssumption, CountAssumption
<1>1. TypeOK /\ ShapeOK /\ MutexOK /\ QueueOK /\ SignalReaches
      /\ (\A u \in Threads : PlaceOK(u)) /\ waitSet \in Seq(Threads)
  BY DEF IInv, TypeOK
<1>2. Queued' = Queued \ {t} /\ QueueOK' /\ waitSet' \in Seq(Threads)
  BY <1>1, RemoveQueue DEF Relock
<1>3. TypeOK'
  BY <1>1, <1>2 DEF TypeOK, Labels, PlaceOK, ShapeOK, Relock, Goto, Thin, Fat, word, monitor, local
<1>4. ShapeOK'
  BY <1>1, <1>2 DEF TypeOK, ShapeOK, PlaceOK, Relock, Goto, Thin, Fat, word, monitor, local
<1>5. MutexOK'
  BY <1>1, <1>2 DEF TypeOK, MutexOK, ShapeOK, PlaceOK, Relock, Goto, Thin, Fat, word, monitor, local
<1>6. SignalReaches'
  BY <1>1, <1>2 DEF TypeOK, SignalReaches, PlaceOK, MutexOK, Relock, Goto, Thin, Fat, word, monitor, local
<1>7. ASSUME NEW u \in Threads PROVE PlaceOK(u)'
  <2>1. PlaceOK(u) /\ PlaceOK(t)
    BY <1>1
  <2> QED BY <1>1, <1>2, <2>1 DEF TypeOK, ShapeOK, MutexOK, PlaceOK, Relock, Goto, Thin, Fat, word, monitor, local
<1> QED BY <1>2, <1>3, <1>4, <1>5, <1>6, <1>7 DEF IInv

\* The invariant is kept when wait() returns.
LEMMA ClearInv ==
  ASSUME IInv, NEW t \in Threads, Clear(t)
  PROVE  IInv'
<1> USE NobodyAssumption, CountAssumption
<1>1. TypeOK /\ ShapeOK /\ MutexOK /\ QueueOK /\ SignalReaches
      /\ (\A u \in Threads : PlaceOK(u)) /\ waitSet \in Seq(Threads)
  BY DEF IInv, TypeOK
<1>2. Queued' = Queued /\ QueueOK' /\ waitSet' \in Seq(Threads) /\ waitSet' = waitSet
  BY <1>1 DEF Queued, QueueOK, Clear, Goto, Thin, Fat, word, monitor, local
<1>3. TypeOK'
  BY <1>1, <1>2 DEF TypeOK, Labels, PlaceOK, ShapeOK, Clear, Goto, Thin, Fat, word, monitor, local
<1>4. ShapeOK'
  BY <1>1, <1>2 DEF TypeOK, ShapeOK, PlaceOK, Clear, Goto, Thin, Fat, word, monitor, local
<1>5. MutexOK'
  BY <1>1, <1>2 DEF TypeOK, MutexOK, ShapeOK, PlaceOK, Clear, Goto, Thin, Fat, word, monitor, local
<1>6. SignalReaches'
  BY <1>1, <1>2 DEF TypeOK, SignalReaches, PlaceOK, MutexOK, Clear, Goto, Thin, Fat, word, monitor, local
<1>7. ASSUME NEW u \in Threads PROVE PlaceOK(u)'
  <2>1. PlaceOK(u) /\ PlaceOK(t)
    BY <1>1
  <2> QED BY <1>1, <1>2, <2>1 DEF TypeOK, ShapeOK, MutexOK, PlaceOK, Clear, Goto, Thin, Fat, word, monitor, local
<1> QED BY <1>2, <1>3, <1>4, <1>5, <1>6, <1>7 DEF IInv

\* The invariant is kept when notify() begins.
LEMMA StartNotifyOneInv ==
  ASSUME IInv, NEW t \in Threads, StartNotifyOne(t)
  PROVE  IInv'
<1> USE NobodyAssumption, CountAssumption
<1>1. TypeOK /\ ShapeOK /\ MutexOK /\ QueueOK /\ SignalReaches
      /\ (\A u \in Threads : PlaceOK(u)) /\ waitSet \in Seq(Threads)
  BY DEF IInv, TypeOK
<1>2. Queued' = Queued /\ QueueOK' /\ waitSet' \in Seq(Threads) /\ waitSet' = waitSet
  BY <1>1 DEF Queued, QueueOK, StartNotifyOne, StartNotify, Goto, Thin, Fat, word, monitor, local
<1>3. TypeOK'
  BY <1>1, <1>2 DEF TypeOK, Labels, PlaceOK, ShapeOK, StartNotifyOne, StartNotify, Goto, Thin, Fat, word, monitor, local
<1>4. ShapeOK'
  BY <1>1, <1>2 DEF TypeOK, ShapeOK, PlaceOK, StartNotifyOne, StartNotify, Goto, Thin, Fat, word, monitor, local
<1>5. MutexOK'
  BY <1>1, <1>2 DEF TypeOK, MutexOK, ShapeOK, PlaceOK, StartNotifyOne, StartNotify, Goto, Thin, Fat, word, monitor, local
<1>6. SignalReaches'
  BY <1>1, <1>2 DEF TypeOK, SignalReaches, PlaceOK, MutexOK, StartNotifyOne, StartNotify, Goto, Thin, Fat, word, monitor, local
<1>7. ASSUME NEW u \in Threads PROVE PlaceOK(u)'
  <2>1. PlaceOK(u) /\ PlaceOK(t)
    BY <1>1
  <2> QED BY <1>1, <1>2, <2>1 DEF TypeOK, ShapeOK, MutexOK, PlaceOK, StartNotifyOne, StartNotify, Goto, Thin, Fat, word, monitor, local
<1> QED BY <1>2, <1>3, <1>4, <1>5, <1>6, <1>7 DEF IInv

\* The invariant is kept when notifyAll() begins.
LEMMA StartNotifyAllInv ==
  ASSUME IInv, NEW t \in Threads, StartNotifyAll(t)
  PROVE  IInv'
<1> USE NobodyAssumption, CountAssumption
<1>1. TypeOK /\ ShapeOK /\ MutexOK /\ QueueOK /\ SignalReaches
      /\ (\A u \in Threads : PlaceOK(u)) /\ waitSet \in Seq(Threads)
  BY DEF IInv, TypeOK
<1>2. Queued' = Queued /\ QueueOK' /\ waitSet' \in Seq(Threads) /\ waitSet' = waitSet
  BY <1>1 DEF Queued, QueueOK, StartNotifyAll, StartNotify, Goto, Thin, Fat, word, monitor, local
<1>3. TypeOK'
  BY <1>1, <1>2 DEF TypeOK, Labels, PlaceOK, ShapeOK, StartNotifyAll, StartNotify, Goto, Thin, Fat, word, monitor, local
<1>4. ShapeOK'
  BY <1>1, <1>2 DEF TypeOK, ShapeOK, PlaceOK, StartNotifyAll, StartNotify, Goto, Thin, Fat, word, monitor, local
<1>5. MutexOK'
  BY <1>1, <1>2 DEF TypeOK, MutexOK, ShapeOK, PlaceOK, StartNotifyAll, StartNotify, Goto, Thin, Fat, word, monitor, local
<1>6. SignalReaches'
  BY <1>1, <1>2 DEF TypeOK, SignalReaches, PlaceOK, MutexOK, StartNotifyAll, StartNotify, Goto, Thin, Fat, word, monitor, local
<1>7. ASSUME NEW u \in Threads PROVE PlaceOK(u)'
  <2>1. PlaceOK(u) /\ PlaceOK(t)
    BY <1>1
  <2> QED BY <1>1, <1>2, <2>1 DEF TypeOK, ShapeOK, MutexOK, PlaceOK, StartNotifyAll, StartNotify, Goto, Thin, Fat, word, monitor, local
<1> QED BY <1>2, <1>3, <1>4, <1>5, <1>6, <1>7 DEF IInv

\* The invariant is kept when the head of the queue is taken out.
LEMMA NotifyHeadInv ==
  ASSUME IInv, NEW t \in Threads, NotifyHead(t)
  PROVE  IInv'
<1> USE NobodyAssumption, CountAssumption
<1>1. TypeOK /\ ShapeOK /\ MutexOK /\ QueueOK /\ SignalReaches
      /\ (\A u \in Threads : PlaceOK(u)) /\ waitSet \in Seq(Threads)
  BY DEF IInv, TypeOK
<1> DEFINE w == Head(waitSet)
<1>2. /\ Queued' = Queued \ {w} /\ QueueOK' /\ waitSet' \in Seq(Threads)
      /\ w \in Threads /\ w \in Queued
  BY <1>1, TailQueue DEF NotifyHead
<1> HIDE DEF w
<1>3. TypeOK'
  BY <1>1, <1>2 DEF TypeOK, Labels, PlaceOK, ShapeOK, NotifyHead, Signal, Goto, Thin, Fat, word, monitor, local, w
<1>4. ShapeOK'
  BY <1>1, <1>2 DEF TypeOK, ShapeOK, PlaceOK, NotifyHead, Signal, Goto, Thin, Fat, word, monitor, local, w
<1>5. MutexOK'
  BY <1>1, <1>2 DEF TypeOK, MutexOK, ShapeOK, PlaceOK, NotifyHead, Signal, Goto, Thin, Fat, word, monitor, local, w
<1>6. SignalReaches'
  BY <1>1, <1>2 DEF TypeOK, SignalReaches, PlaceOK, MutexOK, NotifyHead, Signal, Goto, Thin, Fat, word, monitor, local, w
<1>7. ASSUME NEW u \in Threads PROVE PlaceOK(u)'
  <2>1. PlaceOK(u) /\ PlaceOK(t)
    BY <1>1
  <2> QED BY <1>1, <1>2, <2>1 DEF TypeOK, ShapeOK, MutexOK, PlaceOK, NotifyHead, Signal, Goto, Thin, Fat, word, monitor, local, w
<1> QED BY <1>2, <1>3, <1>4, <1>5, <1>6, <1>7 DEF IInv

\* The invariant is kept when the queue is empty.
LEMMA NotifyNobodyInv ==
  ASSUME IInv, NEW t \in Threads, NotifyNobody(t)
  PROVE  IInv'
<1> USE NobodyAssumption, CountAssumption
<1>1. TypeOK /\ ShapeOK /\ MutexOK /\ QueueOK /\ SignalReaches
      /\ (\A u \in Threads : PlaceOK(u)) /\ waitSet \in Seq(Threads)
  BY DEF IInv, TypeOK
<1>2. Queued' = Queued /\ QueueOK' /\ waitSet' \in Seq(Threads) /\ waitSet' = waitSet
  BY <1>1 DEF Queued, QueueOK, NotifyNobody, Goto, Thin, Fat, word, monitor, local
<1>3. TypeOK'
  BY <1>1, <1>2 DEF TypeOK, Labels, PlaceOK, ShapeOK, NotifyNobody, Goto, Thin, Fat, word, monitor, local
<1>4. ShapeOK'
  BY <1>1, <1>2 DEF TypeOK, ShapeOK, PlaceOK, NotifyNobody, Goto, Thin, Fat, word, monitor, local
<1>5. MutexOK'
  BY <1>1, <1>2 DEF TypeOK, MutexOK, ShapeOK, PlaceOK, NotifyNobody, Goto, Thin, Fat, word, monitor, local
<1>6. SignalReaches'
  BY <1>1, <1>2 DEF TypeOK, SignalReaches, PlaceOK, MutexOK, NotifyNobody, Goto, Thin, Fat, word, monitor, local
<1>7. ASSUME NEW u \in Threads PROVE PlaceOK(u)'
  <2>1. PlaceOK(u) /\ PlaceOK(t)
    BY <1>1
  <2> QED BY <1>1, <1>2, <2>1 DEF TypeOK, ShapeOK, MutexOK, PlaceOK, NotifyNobody, Goto, Thin, Fat, word, monitor, local
<1> QED BY <1>2, <1>3, <1>4, <1>5, <1>6, <1>7 DEF IInv

\* The invariant is kept when a thread is interrupted.
LEMMA InterruptInv ==
  ASSUME IInv, NEW t \in Threads, Interrupt(t)
  PROVE  IInv'
<1> USE NobodyAssumption, CountAssumption
<1>1. TypeOK /\ ShapeOK /\ MutexOK /\ QueueOK /\ SignalReaches
      /\ (\A u \in Threads : PlaceOK(u)) /\ waitSet \in Seq(Threads)
  BY DEF IInv, TypeOK
<1>2. Queued' = Queued /\ QueueOK' /\ waitSet' \in Seq(Threads) /\ waitSet' = waitSet
  BY <1>1 DEF Queued, QueueOK, Interrupt, Signal, Goto, Thin, Fat, word, monitor, local
<1>3. TypeOK'
  BY <1>1, <1>2 DEF TypeOK, Labels, PlaceOK, ShapeOK, Interrupt, Signal, Goto, Thin, Fat, word, monitor, local
<1>4. ShapeOK'
  BY <1>1, <1>2 DEF TypeOK, ShapeOK, PlaceOK, Interrupt, Signal, Goto, Thin, Fat, word, monitor, local
<1>5. MutexOK'
  BY <1>1, <1>2 DEF TypeOK, MutexOK, ShapeOK, PlaceOK, Interrupt, Signal, Goto, Thin, Fat, word, monitor, local
<1>6. SignalReaches'
  BY <1>1, <1>2 DEF TypeOK, SignalReaches, PlaceOK, MutexOK, Interrupt, Signal, Goto, Thin, Fat, word, monitor, local
<1>7. ASSUME NEW u \in Threads PROVE PlaceOK(u)'
  <2>1. PlaceOK(u) /\ PlaceOK(t)
    BY <1>1
  <2> QED BY <1>1, <1>2, <2>1 DEF TypeOK, ShapeOK, MutexOK, PlaceOK, Interrupt, Signal, Goto, Thin, Fat, word, monitor, local
<1> QED BY <1>2, <1>3, <1>4, <1>5, <1>6, <1>7 DEF IInv

\* The invariant is kept when a thread asks whether it was interrupted.
LEMMA ReadFlagInv ==
  ASSUME IInv, NEW t \in Threads, ReadFlag(t)
  PROVE  IInv'
<1> USE NobodyAssumption, CountAssumption
<1>1. TypeOK /\ ShapeOK /\ MutexOK /\ QueueOK /\ SignalReaches
      /\ (\A u \in Threads : PlaceOK(u)) /\ waitSet \in Seq(Threads)
  BY DEF IInv, TypeOK
<1>2. Queued' = Queued /\ QueueOK' /\ waitSet' \in Seq(Threads) /\ waitSet' = waitSet
  BY <1>1 DEF Queued, QueueOK, ReadFlag, Goto, Thin, Fat, word, monitor, local
<1>3. TypeOK'
  BY <1>1, <1>2 DEF TypeOK, Labels, PlaceOK, ShapeOK, ReadFlag, Goto, Thin, Fat, word, monitor, local
<1>4. ShapeOK'
  BY <1>1, <1>2 DEF TypeOK, ShapeOK, PlaceOK, ReadFlag, Goto, Thin, Fat, word, monitor, local
<1>5. MutexOK'
  BY <1>1, <1>2 DEF TypeOK, MutexOK, ShapeOK, PlaceOK, ReadFlag, Goto, Thin, Fat, word, monitor, local
<1>6. SignalReaches'
  BY <1>1, <1>2 DEF TypeOK, SignalReaches, PlaceOK, MutexOK, ReadFlag, Goto, Thin, Fat, word, monitor, local
<1>7. ASSUME NEW u \in Threads PROVE PlaceOK(u)'
  <2>1. PlaceOK(u) /\ PlaceOK(t)
    BY <1>1
  <2> QED BY <1>1, <1>2, <2>1 DEF TypeOK, ShapeOK, MutexOK, PlaceOK, ReadFlag, Goto, Thin, Fat, word, monitor, local
<1> QED BY <1>2, <1>3, <1>4, <1>5, <1>6, <1>7 DEF IInv

\* The invariant is kept when it clears its flag.
LEMMA ClearFlagInv ==
  ASSUME IInv, NEW t \in Threads, ClearFlag(t)
  PROVE  IInv'
<1> USE NobodyAssumption, CountAssumption
<1>1. TypeOK /\ ShapeOK /\ MutexOK /\ QueueOK /\ SignalReaches
      /\ (\A u \in Threads : PlaceOK(u)) /\ waitSet \in Seq(Threads)
  BY DEF IInv, TypeOK
<1>2. Queued' = Queued /\ QueueOK' /\ waitSet' \in Seq(Threads) /\ waitSet' = waitSet
  BY <1>1 DEF Queued, QueueOK, ClearFlag, Goto, Thin, Fat, word, monitor, local
<1>3. TypeOK'
  BY <1>1, <1>2 DEF TypeOK, Labels, PlaceOK, ShapeOK, ClearFlag, Goto, Thin, Fat, word, monitor, local
<1>4. ShapeOK'
  BY <1>1, <1>2 DEF TypeOK, ShapeOK, PlaceOK, ClearFlag, Goto, Thin, Fat, word, monitor, local
<1>5. MutexOK'
  BY <1>1, <1>2 DEF TypeOK, MutexOK, ShapeOK, PlaceOK, ClearFlag, Goto, Thin, Fat, word, monitor, local
<1>6. SignalReaches'
  BY <1>1, <1>2 DEF TypeOK, SignalReaches, PlaceOK, MutexOK, ClearFlag, Goto, Thin, Fat, word, monitor, local
<1>7. ASSUME NEW u \in Threads PROVE PlaceOK(u)'
  <2>1. PlaceOK(u) /\ PlaceOK(t)
    BY <1>1
  <2> QED BY <1>1, <1>2, <2>1 DEF TypeOK, ShapeOK, MutexOK, PlaceOK, ClearFlag, Goto, Thin, Fat, word, monitor, local
<1> QED BY <1>2, <1>3, <1>4, <1>5, <1>6, <1>7 DEF IInv

(***************************************************************************)
(* Every step is a step of ObjectMonitor, or is not seen.                  *)
(***************************************************************************)
\* What happens when dvmLockObject is called is not seen.
LEMMA RequestRefines ==
  ASSUME IInv, IInv', NEW t \in Threads, Request(t)
  PROVE  UNCHANGED Abstract!vars
<1> USE NobodyAssumption, CountAssumption
<1>1. TypeOK /\ ShapeOK /\ MutexOK /\ QueueOK /\ SignalReaches /\ PlaceOK(t)
      /\ (\A u \in Threads : PlaceOK(u)) /\ waitSet \in Seq(Threads)
  BY DEF IInv, TypeOK
<1>2. Queued' = Queued
  BY DEF Queued, Request, Goto, Thin, Fat, word, monitor, local
<1>3. Waiting' = Waiting
  BY <1>1, <1>2 DEF Waiting, TypeOK, Labels, ShapeOK, MutexOK, PlaceOK, Request, Goto, Thin, Fat, word, monitor, local
<1>4. Notified' = Notified
  BY <1>1, <1>2 DEF Notified, TypeOK, Labels, ShapeOK, MutexOK, PlaceOK, Request, Goto, Thin, Fat, word, monitor, local
<1>5. Returning' = Returning
  BY <1>1, <1>2 DEF Returning, TypeOK, Labels, ShapeOK, MutexOK, PlaceOK, Request, Goto, Thin, Fat, word, monitor, local
<1>6. Saved' = Saved
  BY <1>1, <1>2 DEF Saved, Waiting, Returning, TypeOK, Labels, ShapeOK, MutexOK, PlaceOK, Request, Goto, Thin, Fat, word, monitor, local
<1>7. Raised' = Raised
  BY <1>1, <1>2 DEF Raised, TypeOK, Labels, ShapeOK, MutexOK, PlaceOK, Request, Goto, Thin, Fat, word, monitor, local
<1>8. Throwing' = Throwing
  BY <1>1, <1>2 DEF Throwing, TypeOK, Labels, ShapeOK, MutexOK, PlaceOK, Request, Goto, Thin, Fat, word, monitor, local
<1>9. Owner' = Owner
  BY <1>1, <1>2 DEF Owner, TypeOK, Labels, ShapeOK, MutexOK, PlaceOK, Request, Goto, Thin, Fat, word, monitor, local
<1>10. Depth' = Depth
  BY <1>1, <1>2 DEF Owner, Depth, TypeOK, Labels, ShapeOK, MutexOK, PlaceOK, Request, Goto, Thin, Fat, word, monitor, local
<1> QED BY <1>2, <1>3, <1>4, <1>5, <1>6, <1>7, <1>8, <1>9, <1>10 DEF Abstract!vars

\* What happens when the owner of the thin lock enters again maps to Enter.
LEMMA LockAgainThinRefines ==
  ASSUME IInv, IInv', NEW t \in Threads, LockAgainThin(t)
  PROVE  Abstract!Enter(t)
<1> USE NobodyAssumption, CountAssumption
<1>1. TypeOK /\ ShapeOK /\ MutexOK /\ QueueOK /\ SignalReaches /\ PlaceOK(t)
      /\ (\A u \in Threads : PlaceOK(u)) /\ waitSet \in Seq(Threads)
  BY DEF IInv, TypeOK
<1>2. Queued' = Queued
  BY DEF Queued, LockAgainThin, Inflate, Goto, Thin, Fat, word, monitor, local
<1>3. Waiting' = Waiting
  BY <1>1, <1>2 DEF Waiting, TypeOK, Labels, ShapeOK, MutexOK, PlaceOK, LockAgainThin, Inflate, Goto, Thin, Fat, word, monitor, local
<1>4. Notified' = Notified
  BY <1>1, <1>2 DEF Notified, TypeOK, Labels, ShapeOK, MutexOK, PlaceOK, LockAgainThin, Inflate, Goto, Thin, Fat, word, monitor, local
<1>5. Returning' = Returning
  BY <1>1, <1>2 DEF Returning, TypeOK, Labels, ShapeOK, MutexOK, PlaceOK, LockAgainThin, Inflate, Goto, Thin, Fat, word, monitor, local
<1>6. Saved' = Saved
  BY <1>1, <1>2 DEF Saved, Waiting, Returning, TypeOK, Labels, ShapeOK, MutexOK, PlaceOK, LockAgainThin, Inflate, Goto, Thin, Fat, word, monitor, local
<1>7. Raised' = Raised
  BY <1>1, <1>2 DEF Raised, TypeOK, Labels, ShapeOK, MutexOK, PlaceOK, LockAgainThin, Inflate, Goto, Thin, Fat, word, monitor, local
<1>8. Throwing' = Throwing
  BY <1>1, <1>2 DEF Throwing, TypeOK, Labels, ShapeOK, MutexOK, PlaceOK, LockAgainThin, Inflate, Goto, Thin, Fat, word, monitor, local
<1>9. Owner' = Owner
  BY <1>1, <1>2 DEF Owner, TypeOK, Labels, ShapeOK, MutexOK, PlaceOK, LockAgainThin, Inflate, Goto, Thin, Fat, word, monitor, local
<1>10. Depth' = Depth + 1
  BY <1>1, <1>2 DEF Owner, Depth, TypeOK, Labels, ShapeOK, MutexOK, PlaceOK, LockAgainThin, Inflate, Goto, Thin, Fat, word, monitor, local
<1>11. Owner = t /\ Abstract!Free(t)
  BY <1>1, <1>2 DEF Abstract!Free, Waiting, Returning, Throwing, Raised, Notified, Owner, TypeOK, ShapeOK, MutexOK, PlaceOK, SignalReaches, LockAgainThin, Inflate, Goto, Thin, Fat, word, monitor, local
<1> QED BY <1>2, <1>3, <1>4, <1>5, <1>6, <1>7, <1>8, <1>9, <1>10, <1>11 DEF Abstract!Enter

\* What happens when the thin lock is taken maps to Enter.
LEMMA LockThinRefines ==
  ASSUME IInv, IInv', NEW t \in Threads, LockThin(t)
  PROVE  Abstract!Enter(t)
<1> USE NobodyAssumption, CountAssumption
<1>1. TypeOK /\ ShapeOK /\ MutexOK /\ QueueOK /\ SignalReaches /\ PlaceOK(t)
      /\ (\A u \in Threads : PlaceOK(u)) /\ waitSet \in Seq(Threads)
  BY DEF IInv, TypeOK
<1>2. Queued' = Queued
  BY DEF Queued, LockThin, Goto, Thin, Fat, word, monitor, local
<1>3. Waiting' = Waiting
  BY <1>1, <1>2 DEF Waiting, TypeOK, Labels, ShapeOK, MutexOK, PlaceOK, LockThin, Goto, Thin, Fat, word, monitor, local
<1>4. Notified' = Notified
  BY <1>1, <1>2 DEF Notified, TypeOK, Labels, ShapeOK, MutexOK, PlaceOK, LockThin, Goto, Thin, Fat, word, monitor, local
<1>5. Returning' = Returning
  BY <1>1, <1>2 DEF Returning, TypeOK, Labels, ShapeOK, MutexOK, PlaceOK, LockThin, Goto, Thin, Fat, word, monitor, local
<1>6. Saved' = Saved
  BY <1>1, <1>2 DEF Saved, Waiting, Returning, TypeOK, Labels, ShapeOK, MutexOK, PlaceOK, LockThin, Goto, Thin, Fat, word, monitor, local
<1>7. Raised' = Raised
  BY <1>1, <1>2 DEF Raised, TypeOK, Labels, ShapeOK, MutexOK, PlaceOK, LockThin, Goto, Thin, Fat, word, monitor, local
<1>8. Throwing' = Throwing
  BY <1>1, <1>2 DEF Throwing, TypeOK, Labels, ShapeOK, MutexOK, PlaceOK, LockThin, Goto, Thin, Fat, word, monitor, local
<1>9. Owner' = t
  BY <1>1, <1>2 DEF Owner, TypeOK, Labels, ShapeOK, MutexOK, PlaceOK, LockThin, Goto, Thin, Fat, word, monitor, local
<1>10. Depth' = 1
  BY <1>1, <1>2 DEF Owner, Depth, TypeOK, Labels, ShapeOK, MutexOK, PlaceOK, LockThin, Goto, Thin, Fat, word, monitor, local
<1>11. Owner = Nobody /\ Abstract!Free(t)
  BY <1>1, <1>2 DEF Abstract!Free, Waiting, Returning, Throwing, Raised, Notified, Owner, TypeOK, ShapeOK, MutexOK, PlaceOK, SignalReaches, LockThin, Goto, Thin, Fat, word, monitor, local
<1> QED BY <1>2, <1>3, <1>4, <1>5, <1>6, <1>7, <1>8, <1>9, <1>10, <1>11 DEF Abstract!Enter

\* What happens when a thread starts to spin is not seen.
LEMMA SpinRefines ==
  ASSUME IInv, IInv', NEW t \in Threads, Spin(t)
  PROVE  UNCHANGED Abstract!vars
<1> USE NobodyAssumption, CountAssumption
<1>1. TypeOK /\ ShapeOK /\ MutexOK /\ QueueOK /\ SignalReaches /\ PlaceOK(t)
      /\ (\A u \in Threads : PlaceOK(u)) /\ waitSet \in Seq(Threads)
  BY DEF IInv, TypeOK
<1>2. Queued' = Queued
  BY DEF Queued, Spin, Goto, Thin, Fat, word, monitor, local
<1>3. Waiting' = Waiting
  BY <1>1, <1>2 DEF Waiting, TypeOK, Labels, ShapeOK, MutexOK, PlaceOK, Spin, Goto, Thin, Fat, word, monitor, local
<1>4. Notified' = Notified
  BY <1>1, <1>2 DEF Notified, TypeOK, Labels, ShapeOK, MutexOK, PlaceOK, Spin, Goto, Thin, Fat, word, monitor, local
<1>5. Returning' = Returning
  BY <1>1, <1>2 DEF Returning, TypeOK, Labels, ShapeOK, MutexOK, PlaceOK, Spin, Goto, Thin, Fat, word, monitor, local
<1>6. Saved' = Saved
  BY <1>1, <1>2 DEF Saved, Waiting, Returning, TypeOK, Labels, ShapeOK, MutexOK, PlaceOK, Spin, Goto, Thin, Fat, word, monitor, local
<1>7. Raised' = Raised
  BY <1>1, <1>2 DEF Raised, TypeOK, Labels, ShapeOK, MutexOK, PlaceOK, Spin, Goto, Thin, Fat, word, monitor, local
<1>8. Throwing' = Throwing
  BY <1>1, <1>2 DEF Throwing, TypeOK, Labels, ShapeOK, MutexOK, PlaceOK, Spin, Goto, Thin, Fat, word, monitor, local
<1>9. Owner' = Owner
  BY <1>1, <1>2 DEF Owner, TypeOK, Labels, ShapeOK, MutexOK, PlaceOK, Spin, Goto, Thin, Fat, word, monitor, local
<1>10. Depth' = Depth
  BY <1>1, <1>2 DEF Owner, Depth, TypeOK, Labels, ShapeOK, MutexOK, PlaceOK, Spin, Goto, Thin, Fat, word, monitor, local
<1> QED BY <1>2, <1>3, <1>4, <1>5, <1>6, <1>7, <1>8, <1>9, <1>10 DEF Abstract!vars

\* What happens when a spinning thread meets a fat lock is not seen.
LEMMA SurpriseFattenedRefines ==
  ASSUME IInv, IInv', NEW t \in Threads, SurpriseFattened(t)
  PROVE  UNCHANGED Abstract!vars
<1> USE NobodyAssumption, CountAssumption
<1>1. TypeOK /\ ShapeOK /\ MutexOK /\ QueueOK /\ SignalReaches /\ PlaceOK(t)
      /\ (\A u \in Threads : PlaceOK(u)) /\ waitSet \in Seq(Threads)
  BY DEF IInv, TypeOK
<1>2. Queued' = Queued
  BY DEF Queued, SurpriseFattened, Goto, Thin, Fat, word, monitor, local
<1>3. Waiting' = Waiting
  BY <1>1, <1>2 DEF Waiting, TypeOK, Labels, ShapeOK, MutexOK, PlaceOK, SurpriseFattened, Goto, Thin, Fat, word, monitor, local
<1>4. Notified' = Notified
  BY <1>1, <1>2 DEF Notified, TypeOK, Labels, ShapeOK, MutexOK, PlaceOK, SurpriseFattened, Goto, Thin, Fat, word, monitor, local
<1>5. Returning' = Returning
  BY <1>1, <1>2 DEF Returning, TypeOK, Labels, ShapeOK, MutexOK, PlaceOK, SurpriseFattened, Goto, Thin, Fat, word, monitor, local
<1>6. Saved' = Saved
  BY <1>1, <1>2 DEF Saved, Waiting, Returning, TypeOK, Labels, ShapeOK, MutexOK, PlaceOK, SurpriseFattened, Goto, Thin, Fat, word, monitor, local
<1>7. Raised' = Raised
  BY <1>1, <1>2 DEF Raised, TypeOK, Labels, ShapeOK, MutexOK, PlaceOK, SurpriseFattened, Goto, Thin, Fat, word, monitor, local
<1>8. Throwing' = Throwing
  BY <1>1, <1>2 DEF Throwing, TypeOK, Labels, ShapeOK, MutexOK, PlaceOK, SurpriseFattened, Goto, Thin, Fat, word, monitor, local
<1>9. Owner' = Owner
  BY <1>1, <1>2 DEF Owner, TypeOK, Labels, ShapeOK, MutexOK, PlaceOK, SurpriseFattened, Goto, Thin, Fat, word, monitor, local
<1>10. Depth' = Depth
  BY <1>1, <1>2 DEF Owner, Depth, TypeOK, Labels, ShapeOK, MutexOK, PlaceOK, SurpriseFattened, Goto, Thin, Fat, word, monitor, local
<1> QED BY <1>2, <1>3, <1>4, <1>5, <1>6, <1>7, <1>8, <1>9, <1>10 DEF Abstract!vars

\* What happens when the lock is fattened after spinning is not seen.
LEMMA FattenRefines ==
  ASSUME IInv, IInv', NEW t \in Threads, Fatten(t)
  PROVE  UNCHANGED Abstract!vars
<1> USE NobodyAssumption, CountAssumption
<1>1. TypeOK /\ ShapeOK /\ MutexOK /\ QueueOK /\ SignalReaches /\ PlaceOK(t)
      /\ (\A u \in Threads : PlaceOK(u)) /\ waitSet \in Seq(Threads)
  BY DEF IInv, TypeOK
<1>2. Queued' = Queued
  BY DEF Queued, Fatten, Inflate, Goto, Thin, Fat, word, monitor, local
<1>3. Waiting' = Waiting
  BY <1>1, <1>2 DEF Waiting, TypeOK, Labels, ShapeOK, MutexOK, PlaceOK, Fatten, Inflate, Goto, Thin, Fat, word, monitor, local
<1>4. Notified' = Notified
  BY <1>1, <1>2 DEF Notified, TypeOK, Labels, ShapeOK, MutexOK, PlaceOK, Fatten, Inflate, Goto, Thin, Fat, word, monitor, local
<1>5. Returning' = Returning
  BY <1>1, <1>2 DEF Returning, TypeOK, Labels, ShapeOK, MutexOK, PlaceOK, Fatten, Inflate, Goto, Thin, Fat, word, monitor, local
<1>6. Saved' = Saved
  BY <1>1, <1>2 DEF Saved, Waiting, Returning, TypeOK, Labels, ShapeOK, MutexOK, PlaceOK, Fatten, Inflate, Goto, Thin, Fat, word, monitor, local
<1>7. Raised' = Raised
  BY <1>1, <1>2 DEF Raised, TypeOK, Labels, ShapeOK, MutexOK, PlaceOK, Fatten, Inflate, Goto, Thin, Fat, word, monitor, local
<1>8. Throwing' = Throwing
  BY <1>1, <1>2 DEF Throwing, TypeOK, Labels, ShapeOK, MutexOK, PlaceOK, Fatten, Inflate, Goto, Thin, Fat, word, monitor, local
<1>9. Owner' = Owner
  BY <1>1, <1>2 DEF Owner, TypeOK, Labels, ShapeOK, MutexOK, PlaceOK, Fatten, Inflate, Goto, Thin, Fat, word, monitor, local
<1>10. Depth' = Depth
  BY <1>1, <1>2 DEF Owner, Depth, TypeOK, Labels, ShapeOK, MutexOK, PlaceOK, Fatten, Inflate, Goto, Thin, Fat, word, monitor, local
<1> QED BY <1>2, <1>3, <1>4, <1>5, <1>6, <1>7, <1>8, <1>9, <1>10 DEF Abstract!vars

\* What happens when the owner of the monitor enters again maps to Enter.
LEMMA LockAgainFatRefines ==
  ASSUME IInv, IInv', NEW t \in Threads, LockAgainFat(t)
  PROVE  Abstract!Enter(t)
<1> USE NobodyAssumption, CountAssumption
<1>1. TypeOK /\ ShapeOK /\ MutexOK /\ QueueOK /\ SignalReaches /\ PlaceOK(t)
      /\ (\A u \in Threads : PlaceOK(u)) /\ waitSet \in Seq(Threads)
  BY DEF IInv, TypeOK
<1>2. Queued' = Queued
  BY DEF Queued, LockAgainFat, Goto, Thin, Fat, word, monitor, local
<1>3. Waiting' = Waiting
  BY <1>1, <1>2 DEF Waiting, TypeOK, Labels, ShapeOK, MutexOK, PlaceOK, LockAgainFat, Goto, Thin, Fat, word, monitor, local
<1>4. Notified' = Notified
  BY <1>1, <1>2 DEF Notified, TypeOK, Labels, ShapeOK, MutexOK, PlaceOK, LockAgainFat, Goto, Thin, Fat, word, monitor, local
<1>5. Returning' = Returning
  BY <1>1, <1>2 DEF Returning, TypeOK, Labels, ShapeOK, MutexOK, PlaceOK, LockAgainFat, Goto, Thin, Fat, word, monitor, local
<1>6. Saved' = Saved
  BY <1>1, <1>2 DEF Saved, Waiting, Returning, TypeOK, Labels, ShapeOK, MutexOK, PlaceOK, LockAgainFat, Goto, Thin, Fat, word, monitor, local
<1>7. Raised' = Raised
  BY <1>1, <1>2 DEF Raised, TypeOK, Labels, ShapeOK, MutexOK, PlaceOK, LockAgainFat, Goto, Thin, Fat, word, monitor, local
<1>8. Throwing' = Throwing
  BY <1>1, <1>2 DEF Throwing, TypeOK, Labels, ShapeOK, MutexOK, PlaceOK, LockAgainFat, Goto, Thin, Fat, word, monitor, local
<1>9. Owner' = Owner
  BY <1>1, <1>2 DEF Owner, TypeOK, Labels, ShapeOK, MutexOK, PlaceOK, LockAgainFat, Goto, Thin, Fat, word, monitor, local
<1>10. Depth' = Depth + 1
  BY <1>1, <1>2 DEF Owner, Depth, TypeOK, Labels, ShapeOK, MutexOK, PlaceOK, LockAgainFat, Goto, Thin, Fat, word, monitor, local
<1>11. Owner = t /\ Abstract!Free(t)
  BY <1>1, <1>2 DEF Abstract!Free, Waiting, Returning, Throwing, Raised, Notified, Owner, TypeOK, ShapeOK, MutexOK, PlaceOK, SignalReaches, LockAgainFat, Goto, Thin, Fat, word, monitor, local
<1> QED BY <1>2, <1>3, <1>4, <1>5, <1>6, <1>7, <1>8, <1>9, <1>10, <1>11 DEF Abstract!Enter

\* What happens when the mutex is taken maps to Enter.
LEMMA LockFatRefines ==
  ASSUME IInv, IInv', NEW t \in Threads, LockFat(t)
  PROVE  Abstract!Enter(t)
<1> USE NobodyAssumption, CountAssumption
<1>1. TypeOK /\ ShapeOK /\ MutexOK /\ QueueOK /\ SignalReaches /\ PlaceOK(t)
      /\ (\A u \in Threads : PlaceOK(u)) /\ waitSet \in Seq(Threads)
  BY DEF IInv, TypeOK
<1>2. Queued' = Queued
  BY DEF Queued, LockFat, Goto, Thin, Fat, word, monitor, local
<1>3. Waiting' = Waiting
  BY <1>1, <1>2 DEF Waiting, TypeOK, Labels, ShapeOK, MutexOK, PlaceOK, LockFat, Goto, Thin, Fat, word, monitor, local
<1>4. Notified' = Notified
  BY <1>1, <1>2 DEF Notified, TypeOK, Labels, ShapeOK, MutexOK, PlaceOK, LockFat, Goto, Thin, Fat, word, monitor, local
<1>5. Returning' = Returning
  BY <1>1, <1>2 DEF Returning, TypeOK, Labels, ShapeOK, MutexOK, PlaceOK, LockFat, Goto, Thin, Fat, word, monitor, local
<1>6. Saved' = Saved
  BY <1>1, <1>2 DEF Saved, Waiting, Returning, TypeOK, Labels, ShapeOK, MutexOK, PlaceOK, LockFat, Goto, Thin, Fat, word, monitor, local
<1>7. Raised' = Raised
  BY <1>1, <1>2 DEF Raised, TypeOK, Labels, ShapeOK, MutexOK, PlaceOK, LockFat, Goto, Thin, Fat, word, monitor, local
<1>8. Throwing' = Throwing
  BY <1>1, <1>2 DEF Throwing, TypeOK, Labels, ShapeOK, MutexOK, PlaceOK, LockFat, Goto, Thin, Fat, word, monitor, local
<1>9. Owner' = t
  BY <1>1, <1>2 DEF Owner, TypeOK, Labels, ShapeOK, MutexOK, PlaceOK, LockFat, Goto, Thin, Fat, word, monitor, local
<1>10. Depth' = 1
  BY <1>1, <1>2 DEF Owner, Depth, TypeOK, Labels, ShapeOK, MutexOK, PlaceOK, LockFat, Goto, Thin, Fat, word, monitor, local
<1>11. Owner = Nobody /\ Abstract!Free(t)
  BY <1>1, <1>2 DEF Abstract!Free, Waiting, Returning, Throwing, Raised, Notified, Owner, TypeOK, ShapeOK, MutexOK, PlaceOK, SignalReaches, LockFat, Goto, Thin, Fat, word, monitor, local
<1> QED BY <1>2, <1>3, <1>4, <1>5, <1>6, <1>7, <1>8, <1>9, <1>10, <1>11 DEF Abstract!Enter

\* What happens when the owner leaves maps to Exit.
LEMMA UnlockRefines ==
  ASSUME IInv, IInv', NEW t \in Threads, Unlock(t)
  PROVE  Abstract!Exit(t)
<1> USE NobodyAssumption, CountAssumption
<1>1. TypeOK /\ ShapeOK /\ MutexOK /\ QueueOK /\ SignalReaches /\ PlaceOK(t)
      /\ (\A u \in Threads : PlaceOK(u)) /\ waitSet \in Seq(Threads)
  BY DEF IInv, TypeOK
<1>2. Queued' = Queued
  BY DEF Queued, Unlock, Goto, Thin, Fat, word, monitor, local
<1>3. Waiting' = Waiting
  BY <1>1, <1>2 DEF Waiting, TypeOK, Labels, ShapeOK, MutexOK, PlaceOK, Unlock, Goto, Thin, Fat, word, monitor, local
<1>4. Notified' = Notified
  BY <1>1, <1>2 DEF Notified, TypeOK, Labels, ShapeOK, MutexOK, PlaceOK, Unlock, Goto, Thin, Fat, word, monitor, local
<1>5. Returning' = Returning
  BY <1>1, <1>2 DEF Returning, TypeOK, Labels, ShapeOK, MutexOK, PlaceOK, Unlock, Goto, Thin, Fat, word, monitor, local
<1>6. Saved' = Saved
  BY <1>1, <1>2 DEF Saved, Waiting, Returning, TypeOK, Labels, ShapeOK, MutexOK, PlaceOK, Unlock, Goto, Thin, Fat, word, monitor, local
<1>7. Raised' = Raised
  BY <1>1, <1>2 DEF Raised, TypeOK, Labels, ShapeOK, MutexOK, PlaceOK, Unlock, Goto, Thin, Fat, word, monitor, local
<1>8. Throwing' = Throwing
  BY <1>1, <1>2 DEF Throwing, TypeOK, Labels, ShapeOK, MutexOK, PlaceOK, Unlock, Goto, Thin, Fat, word, monitor, local
<1>9. Owner' = (IF Depth = 1 THEN Nobody ELSE t)
  BY <1>1, <1>2 DEF Owner, Depth, TypeOK, Labels, ShapeOK, MutexOK, PlaceOK, Unlock, Goto, Thin, Fat, word, monitor, local
<1>10. Depth' = Depth - 1
  BY <1>1, <1>2 DEF Owner, Depth, TypeOK, Labels, ShapeOK, MutexOK, PlaceOK, Unlock, Goto, Thin, Fat, word, monitor, local
<1>11. Owner = t /\ Abstract!Free(t)
  BY <1>1, <1>2 DEF Abstract!Free, Waiting, Returning, Throwing, Raised, Notified, Owner, TypeOK, ShapeOK, MutexOK, PlaceOK, SignalReaches, Unlock, Goto, Thin, Fat, word, monitor, local
<1> QED BY <1>2, <1>3, <1>4, <1>5, <1>6, <1>7, <1>8, <1>9, <1>10, <1>11 DEF Abstract!Exit

\* What happens when wait() begins is not seen.
LEMMA StartWaitRefines ==
  ASSUME IInv, IInv', NEW t \in Threads, StartWait(t)
  PROVE  UNCHANGED Abstract!vars
<1> USE NobodyAssumption, CountAssumption
<1>1. TypeOK /\ ShapeOK /\ MutexOK /\ QueueOK /\ SignalReaches /\ PlaceOK(t)
      /\ (\A u \in Threads : PlaceOK(u)) /\ waitSet \in Seq(Threads)
  BY DEF IInv, TypeOK
<1>a. t \notin Queued
  BY <1>1 DEF PlaceOK, StartWait, Goto, Thin, Fat, word, monitor, local
<1>2. Queued' = Queued \cup {t}
  BY <1>1, <1>a, AppendQueue DEF StartWait
<1>3. Waiting' = Waiting
  BY <1>1, <1>2 DEF Waiting, TypeOK, Labels, ShapeOK, MutexOK, PlaceOK, StartWait, Goto, Thin, Fat, word, monitor, local
<1>4. Notified' = Notified
  BY <1>1, <1>2 DEF Notified, TypeOK, Labels, ShapeOK, MutexOK, PlaceOK, StartWait, Goto, Thin, Fat, word, monitor, local
<1>5. Returning' = Returning
  BY <1>1, <1>2 DEF Returning, TypeOK, Labels, ShapeOK, MutexOK, PlaceOK, StartWait, Goto, Thin, Fat, word, monitor, local
<1>6. Saved' = Saved
  BY <1>1, <1>2 DEF Saved, Waiting, Returning, TypeOK, Labels, ShapeOK, MutexOK, PlaceOK, StartWait, Goto, Thin, Fat, word, monitor, local
<1>7. Raised' = Raised
  BY <1>1, <1>2 DEF Raised, TypeOK, Labels, ShapeOK, MutexOK, PlaceOK, StartWait, Goto, Thin, Fat, word, monitor, local
<1>8. Throwing' = Throwing
  BY <1>1, <1>2 DEF Throwing, TypeOK, Labels, ShapeOK, MutexOK, PlaceOK, StartWait, Goto, Thin, Fat, word, monitor, local
<1>9. Owner' = Owner
  BY <1>1, <1>2 DEF Owner, TypeOK, Labels, ShapeOK, MutexOK, PlaceOK, StartWait, Goto, Thin, Fat, word, monitor, local
<1>10. Depth' = Depth
  BY <1>1, <1>2 DEF Owner, Depth, TypeOK, Labels, ShapeOK, MutexOK, PlaceOK, StartWait, Goto, Thin, Fat, word, monitor, local
<1> QED BY <1>2, <1>3, <1>4, <1>5, <1>6, <1>7, <1>8, <1>9, <1>10 DEF Abstract!vars

\* What happens when a thread sleeps on its waitCond maps to Wait.
LEMMA SleepRefines ==
  ASSUME IInv, IInv', NEW t \in Threads, Sleep(t)
  PROVE  Abstract!Wait(t)
<1> USE NobodyAssumption, CountAssumption
<1>1. TypeOK /\ ShapeOK /\ MutexOK /\ QueueOK /\ SignalReaches /\ PlaceOK(t)
      /\ (\A u \in Threads : PlaceOK(u)) /\ waitSet \in Seq(Threads)
  BY DEF IInv, TypeOK
<1>2. Queued' = Queued
  BY DEF Queued, Sleep, Goto, Thin, Fat, word, monitor, local
<1>3. Waiting' = Waiting \cup {t}
  BY <1>1, <1>2 DEF Waiting, TypeOK, Labels, ShapeOK, MutexOK, PlaceOK, Sleep, Goto, Thin, Fat, word, monitor, local
<1>4. Notified' = Notified
  BY <1>1, <1>2 DEF Notified, TypeOK, Labels, ShapeOK, MutexOK, PlaceOK, Sleep, Goto, Thin, Fat, word, monitor, local
<1>5. Returning' = Returning
  BY <1>1, <1>2 DEF Returning, TypeOK, Labels, ShapeOK, MutexOK, PlaceOK, Sleep, Goto, Thin, Fat, word, monitor, local
<1>6. Saved' = [Saved EXCEPT ![t] = Depth]
  BY <1>1, <1>2 DEF Saved, Waiting, Returning, Owner, Depth, TypeOK, Labels, ShapeOK, MutexOK, PlaceOK, Sleep, Goto, Thin, Fat, word, monitor, local
<1>7. Raised' = Raised
  BY <1>1, <1>2 DEF Raised, TypeOK, Labels, ShapeOK, MutexOK, PlaceOK, Sleep, Goto, Thin, Fat, word, monitor, local
<1>8. Throwing' = Throwing
  BY <1>1, <1>2 DEF Throwing, TypeOK, Labels, ShapeOK, MutexOK, PlaceOK, Sleep, Goto, Thin, Fat, word, monitor, local
<1>9. Owner' = Nobody
  BY <1>1, <1>2 DEF Owner, TypeOK, Labels, ShapeOK, MutexOK, PlaceOK, Sleep, Goto, Thin, Fat, word, monitor, local
<1>10. Depth' = 0
  BY <1>1, <1>2 DEF Owner, Depth, TypeOK, Labels, ShapeOK, MutexOK, PlaceOK, Sleep, Goto, Thin, Fat, word, monitor, local
<1>11. Owner = t /\ t \notin Raised /\ Abstract!Free(t)
  BY <1>1, <1>2 DEF Abstract!Free, Waiting, Returning, Throwing, Raised, Notified, Owner, TypeOK, ShapeOK, MutexOK, PlaceOK, SignalReaches, Sleep, Goto, Thin, Fat, word, monitor, local
<1> QED BY <1>2, <1>3, <1>4, <1>5, <1>6, <1>7, <1>8, <1>9, <1>10, <1>11 DEF Abstract!Wait

\* What happens when wait() finds an interrupt pending maps to WaitInterrupted.
LEMMA InterruptedBeforeRefines ==
  ASSUME IInv, IInv', NEW t \in Threads, InterruptedBefore(t)
  PROVE  Abstract!WaitInterrupted(t)
<1> USE NobodyAssumption, CountAssumption
<1>1. TypeOK /\ ShapeOK /\ MutexOK /\ QueueOK /\ SignalReaches /\ PlaceOK(t)
      /\ (\A u \in Threads : PlaceOK(u)) /\ waitSet \in Seq(Threads)
  BY DEF IInv, TypeOK
<1>2. Queued' = Queued \ {t}
  BY <1>1, RemoveQueue DEF InterruptedBefore
<1>3. Waiting' = Waiting
  BY <1>1, <1>2 DEF Waiting, TypeOK, Labels, ShapeOK, MutexOK, PlaceOK, InterruptedBefore, Goto, Thin, Fat, word, monitor, local
<1>4. Notified' = Notified
  BY <1>1, <1>2 DEF Notified, TypeOK, Labels, ShapeOK, MutexOK, PlaceOK, InterruptedBefore, Goto, Thin, Fat, word, monitor, local
<1>5. Returning' = Returning
  BY <1>1, <1>2 DEF Returning, TypeOK, Labels, ShapeOK, MutexOK, PlaceOK, InterruptedBefore, Goto, Thin, Fat, word, monitor, local
<1>6. Saved' = Saved
  BY <1>1, <1>2 DEF Saved, Waiting, Returning, TypeOK, Labels, ShapeOK, MutexOK, PlaceOK, InterruptedBefore, Goto, Thin, Fat, word, monitor, local
<1>7. Raised' = Raised \ {t}
  BY <1>1, <1>2 DEF Raised, TypeOK, Labels, ShapeOK, MutexOK, PlaceOK, InterruptedBefore, Goto, Thin, Fat, word, monitor, local
<1>8. Throwing' = Throwing \cup {t}
  BY <1>1, <1>2 DEF Throwing, TypeOK, Labels, ShapeOK, MutexOK, PlaceOK, InterruptedBefore, Goto, Thin, Fat, word, monitor, local
<1>9. Owner' = Owner
  BY <1>1, <1>2 DEF Owner, TypeOK, Labels, ShapeOK, MutexOK, PlaceOK, InterruptedBefore, Goto, Thin, Fat, word, monitor, local
<1>10. Depth' = Depth
  BY <1>1, <1>2 DEF Owner, Depth, TypeOK, Labels, ShapeOK, MutexOK, PlaceOK, InterruptedBefore, Goto, Thin, Fat, word, monitor, local
<1>11. Owner = t /\ t \in Raised /\ Abstract!Free(t)
  BY <1>1, <1>2 DEF Abstract!Free, Waiting, Returning, Throwing, Raised, Notified, Owner, TypeOK, ShapeOK, MutexOK, PlaceOK, SignalReaches, InterruptedBefore, Goto, Thin, Fat, word, monitor, local
<1> QED BY <1>2, <1>3, <1>4, <1>5, <1>6, <1>7, <1>8, <1>9, <1>10, <1>11 DEF Abstract!WaitInterrupted

\* What happens when a waiter wakes up maps to Wake.
LEMMA WakeRefines ==
  ASSUME IInv, IInv', NEW t \in Threads, Wake(t)
  PROVE  Abstract!Wake(t)
<1> USE NobodyAssumption, CountAssumption
<1>1. TypeOK /\ ShapeOK /\ MutexOK /\ QueueOK /\ SignalReaches /\ PlaceOK(t)
      /\ (\A u \in Threads : PlaceOK(u)) /\ waitSet \in Seq(Threads)
  BY DEF IInv, TypeOK
<1>2. Queued' = Queued
  BY DEF Queued, Wake, Goto, Thin, Fat, word, monitor, local
<1>3. Waiting' = Waiting \ {t}
  BY <1>1, <1>2 DEF Waiting, TypeOK, Labels, ShapeOK, MutexOK, PlaceOK, Wake, Goto, Thin, Fat, word, monitor, local
<1>4. Notified' = Notified \ {t}
  BY <1>1, <1>2 DEF Notified, TypeOK, Labels, ShapeOK, MutexOK, PlaceOK, Wake, Goto, Thin, Fat, word, monitor, local
<1>5. Returning' = Returning \cup {t}
  BY <1>1, <1>2 DEF Returning, TypeOK, Labels, ShapeOK, MutexOK, PlaceOK, Wake, Goto, Thin, Fat, word, monitor, local
<1>6. Saved' = Saved
  BY <1>1, <1>2 DEF Saved, Waiting, Returning, TypeOK, Labels, ShapeOK, MutexOK, PlaceOK, Wake, Goto, Thin, Fat, word, monitor, local
<1>7. Raised' = Raised \ {t}
  BY <1>1, <1>2 DEF Raised, TypeOK, Labels, ShapeOK, MutexOK, PlaceOK, Wake, Goto, Thin, Fat, word, monitor, local
<1>8. Throwing' = (IF t \in Raised THEN Throwing \cup {t} ELSE Throwing)
  BY <1>1, <1>2 DEF Throwing, Raised, TypeOK, Labels, ShapeOK, MutexOK, PlaceOK, Wake, Goto, Thin, Fat, word, monitor, local
<1>9. Owner' = Owner
  BY <1>1, <1>2 DEF Owner, TypeOK, Labels, ShapeOK, MutexOK, PlaceOK, Wake, Goto, Thin, Fat, word, monitor, local
<1>10. Depth' = Depth
  BY <1>1, <1>2 DEF Owner, Depth, TypeOK, Labels, ShapeOK, MutexOK, PlaceOK, Wake, Goto, Thin, Fat, word, monitor, local
<1>11. t \in Waiting
  BY <1>1, <1>2 DEF Abstract!Free, Waiting, Returning, Throwing, Raised, Notified, Owner, TypeOK, ShapeOK, MutexOK, PlaceOK, SignalReaches, Wake, Goto, Thin, Fat, word, monitor, local
<1> QED BY <1>2, <1>3, <1>4, <1>5, <1>6, <1>7, <1>8, <1>9, <1>10, <1>11 DEF Abstract!Wake

\* What happens when a waiter gets the monitor back maps to Return.
LEMMA RelockRefines ==
  ASSUME IInv, IInv', NEW t \in Threads, Relock(t)
  PROVE  Abstract!Return(t)
<1> USE NobodyAssumption, CountAssumption
<1>1. TypeOK /\ ShapeOK /\ MutexOK /\ QueueOK /\ SignalReaches /\ PlaceOK(t)
      /\ (\A u \in Threads : PlaceOK(u)) /\ waitSet \in Seq(Threads)
  BY DEF IInv, TypeOK
<1>2. Queued' = Queued \ {t}
  BY <1>1, RemoveQueue DEF Relock
<1>3. Waiting' = Waiting
  BY <1>1, <1>2 DEF Waiting, TypeOK, Labels, ShapeOK, MutexOK, PlaceOK, Relock, Goto, Thin, Fat, word, monitor, local
<1>4. Notified' = Notified
  BY <1>1, <1>2 DEF Notified, TypeOK, Labels, ShapeOK, MutexOK, PlaceOK, Relock, Goto, Thin, Fat, word, monitor, local
<1>5. Returning' = Returning \ {t}
  BY <1>1, <1>2 DEF Returning, TypeOK, Labels, ShapeOK, MutexOK, PlaceOK, Relock, Goto, Thin, Fat, word, monitor, local
<1>6. Saved' = [Saved EXCEPT ![t] = 0]
  BY <1>1, <1>2 DEF Saved, Waiting, Returning, TypeOK, Labels, ShapeOK, MutexOK, PlaceOK, Relock, Goto, Thin, Fat, word, monitor, local
<1>7. Raised' = Raised
  BY <1>1, <1>2 DEF Raised, TypeOK, Labels, ShapeOK, MutexOK, PlaceOK, Relock, Goto, Thin, Fat, word, monitor, local
<1>8. Throwing' = Throwing
  BY <1>1, <1>2 DEF Throwing, TypeOK, Labels, ShapeOK, MutexOK, PlaceOK, Relock, Goto, Thin, Fat, word, monitor, local
<1>9. Owner' = t
  BY <1>1, <1>2 DEF Owner, TypeOK, Labels, ShapeOK, MutexOK, PlaceOK, Relock, Goto, Thin, Fat, word, monitor, local
<1>10. Depth' = Saved[t]
  BY <1>1, <1>2 DEF Owner, Depth, Saved, Waiting, Returning, TypeOK, Labels, ShapeOK, MutexOK, PlaceOK, Relock, Goto, Thin, Fat, word, monitor, local
<1>11. Owner = Nobody /\ t \in Returning
  BY <1>1, <1>2 DEF Abstract!Free, Waiting, Returning, Throwing, Raised, Notified, Owner, TypeOK, ShapeOK, MutexOK, PlaceOK, SignalReaches, Relock, Goto, Thin, Fat, word, monitor, local
<1> QED BY <1>2, <1>3, <1>4, <1>5, <1>6, <1>7, <1>8, <1>9, <1>10, <1>11 DEF Abstract!Return

\* What happens when wait() returns (interrupted) maps to Throw.
LEMMA ClearThrowsRefines ==
  ASSUME IInv, IInv', NEW t \in Threads, Clear(t), wasInterrupted[t]
  PROVE  Abstract!Throw(t)
<1> USE NobodyAssumption, CountAssumption
<1>1. TypeOK /\ ShapeOK /\ MutexOK /\ QueueOK /\ SignalReaches /\ PlaceOK(t)
      /\ (\A u \in Threads : PlaceOK(u)) /\ waitSet \in Seq(Threads)
  BY DEF IInv, TypeOK
<1>2. Queued' = Queued
  BY DEF Queued, Clear, Goto, Thin, Fat, word, monitor, local
<1>3. Waiting' = Waiting
  BY <1>1, <1>2 DEF Waiting, TypeOK, Labels, ShapeOK, MutexOK, PlaceOK, Clear, Goto, Thin, Fat, word, monitor, local
<1>4. Notified' = Notified
  BY <1>1, <1>2 DEF Notified, TypeOK, Labels, ShapeOK, MutexOK, PlaceOK, Clear, Goto, Thin, Fat, word, monitor, local
<1>5. Returning' = Returning
  BY <1>1, <1>2 DEF Returning, TypeOK, Labels, ShapeOK, MutexOK, PlaceOK, Clear, Goto, Thin, Fat, word, monitor, local
<1>6. Saved' = Saved
  BY <1>1, <1>2 DEF Saved, Waiting, Returning, TypeOK, Labels, ShapeOK, MutexOK, PlaceOK, Clear, Goto, Thin, Fat, word, monitor, local
<1>7. Raised' = Raised
  BY <1>1, <1>2 DEF Raised, TypeOK, Labels, ShapeOK, MutexOK, PlaceOK, Clear, Goto, Thin, Fat, word, monitor, local
<1>8. Throwing' = Throwing \ {t}
  BY <1>1, <1>2 DEF Throwing, TypeOK, Labels, ShapeOK, MutexOK, PlaceOK, Clear, Goto, Thin, Fat, word, monitor, local
<1>9. Owner' = Owner
  BY <1>1, <1>2 DEF Owner, TypeOK, Labels, ShapeOK, MutexOK, PlaceOK, Clear, Goto, Thin, Fat, word, monitor, local
<1>10. Depth' = Depth
  BY <1>1, <1>2 DEF Owner, Depth, TypeOK, Labels, ShapeOK, MutexOK, PlaceOK, Clear, Goto, Thin, Fat, word, monitor, local
<1>11. Owner = t /\ t \in Throwing \ Returning
  BY <1>1, <1>2 DEF Abstract!Free, Waiting, Returning, Throwing, Raised, Notified, Owner, TypeOK, ShapeOK, MutexOK, PlaceOK, SignalReaches, Clear, Goto, Thin, Fat, word, monitor, local
<1> QED BY <1>2, <1>3, <1>4, <1>5, <1>6, <1>7, <1>8, <1>9, <1>10, <1>11 DEF Abstract!Throw

\* What happens when wait() returns (not interrupted) is not seen.
LEMMA ClearReturnsRefines ==
  ASSUME IInv, IInv', NEW t \in Threads, Clear(t), ~wasInterrupted[t]
  PROVE  UNCHANGED Abstract!vars
<1> USE NobodyAssumption, CountAssumption
<1>1. TypeOK /\ ShapeOK /\ MutexOK /\ QueueOK /\ SignalReaches /\ PlaceOK(t)
      /\ (\A u \in Threads : PlaceOK(u)) /\ waitSet \in Seq(Threads)
  BY DEF IInv, TypeOK
<1>2. Queued' = Queued
  BY DEF Queued, Clear, Goto, Thin, Fat, word, monitor, local
<1>3. Waiting' = Waiting
  BY <1>1, <1>2 DEF Waiting, TypeOK, Labels, ShapeOK, MutexOK, PlaceOK, Clear, Goto, Thin, Fat, word, monitor, local
<1>4. Notified' = Notified
  BY <1>1, <1>2 DEF Notified, TypeOK, Labels, ShapeOK, MutexOK, PlaceOK, Clear, Goto, Thin, Fat, word, monitor, local
<1>5. Returning' = Returning
  BY <1>1, <1>2 DEF Returning, TypeOK, Labels, ShapeOK, MutexOK, PlaceOK, Clear, Goto, Thin, Fat, word, monitor, local
<1>6. Saved' = Saved
  BY <1>1, <1>2 DEF Saved, Waiting, Returning, TypeOK, Labels, ShapeOK, MutexOK, PlaceOK, Clear, Goto, Thin, Fat, word, monitor, local
<1>7. Raised' = Raised
  BY <1>1, <1>2 DEF Raised, TypeOK, Labels, ShapeOK, MutexOK, PlaceOK, Clear, Goto, Thin, Fat, word, monitor, local
<1>8. Throwing' = Throwing
  BY <1>1, <1>2 DEF Throwing, TypeOK, Labels, ShapeOK, MutexOK, PlaceOK, Clear, Goto, Thin, Fat, word, monitor, local
<1>9. Owner' = Owner
  BY <1>1, <1>2 DEF Owner, TypeOK, Labels, ShapeOK, MutexOK, PlaceOK, Clear, Goto, Thin, Fat, word, monitor, local
<1>10. Depth' = Depth
  BY <1>1, <1>2 DEF Owner, Depth, TypeOK, Labels, ShapeOK, MutexOK, PlaceOK, Clear, Goto, Thin, Fat, word, monitor, local
<1> QED BY <1>2, <1>3, <1>4, <1>5, <1>6, <1>7, <1>8, <1>9, <1>10 DEF Abstract!vars

\* What happens when notify() begins is not seen.
LEMMA StartNotifyOneRefines ==
  ASSUME IInv, IInv', NEW t \in Threads, StartNotifyOne(t)
  PROVE  UNCHANGED Abstract!vars
<1> USE NobodyAssumption, CountAssumption
<1>1. TypeOK /\ ShapeOK /\ MutexOK /\ QueueOK /\ SignalReaches /\ PlaceOK(t)
      /\ (\A u \in Threads : PlaceOK(u)) /\ waitSet \in Seq(Threads)
  BY DEF IInv, TypeOK
<1>2. Queued' = Queued
  BY DEF Queued, StartNotifyOne, StartNotify, Goto, Thin, Fat, word, monitor, local
<1>3. Waiting' = Waiting
  BY <1>1, <1>2 DEF Waiting, TypeOK, Labels, ShapeOK, MutexOK, PlaceOK, StartNotifyOne, StartNotify, Goto, Thin, Fat, word, monitor, local
<1>4. Notified' = Notified
  BY <1>1, <1>2 DEF Notified, TypeOK, Labels, ShapeOK, MutexOK, PlaceOK, StartNotifyOne, StartNotify, Goto, Thin, Fat, word, monitor, local
<1>5. Returning' = Returning
  BY <1>1, <1>2 DEF Returning, TypeOK, Labels, ShapeOK, MutexOK, PlaceOK, StartNotifyOne, StartNotify, Goto, Thin, Fat, word, monitor, local
<1>6. Saved' = Saved
  BY <1>1, <1>2 DEF Saved, Waiting, Returning, TypeOK, Labels, ShapeOK, MutexOK, PlaceOK, StartNotifyOne, StartNotify, Goto, Thin, Fat, word, monitor, local
<1>7. Raised' = Raised
  BY <1>1, <1>2 DEF Raised, TypeOK, Labels, ShapeOK, MutexOK, PlaceOK, StartNotifyOne, StartNotify, Goto, Thin, Fat, word, monitor, local
<1>8. Throwing' = Throwing
  BY <1>1, <1>2 DEF Throwing, TypeOK, Labels, ShapeOK, MutexOK, PlaceOK, StartNotifyOne, StartNotify, Goto, Thin, Fat, word, monitor, local
<1>9. Owner' = Owner
  BY <1>1, <1>2 DEF Owner, TypeOK, Labels, ShapeOK, MutexOK, PlaceOK, StartNotifyOne, StartNotify, Goto, Thin, Fat, word, monitor, local
<1>10. Depth' = Depth
  BY <1>1, <1>2 DEF Owner, Depth, TypeOK, Labels, ShapeOK, MutexOK, PlaceOK, StartNotifyOne, StartNotify, Goto, Thin, Fat, word, monitor, local
<1> QED BY <1>2, <1>3, <1>4, <1>5, <1>6, <1>7, <1>8, <1>9, <1>10 DEF Abstract!vars

\* What happens when notifyAll() begins is not seen.
LEMMA StartNotifyAllRefines ==
  ASSUME IInv, IInv', NEW t \in Threads, StartNotifyAll(t)
  PROVE  UNCHANGED Abstract!vars
<1> USE NobodyAssumption, CountAssumption
<1>1. TypeOK /\ ShapeOK /\ MutexOK /\ QueueOK /\ SignalReaches /\ PlaceOK(t)
      /\ (\A u \in Threads : PlaceOK(u)) /\ waitSet \in Seq(Threads)
  BY DEF IInv, TypeOK
<1>2. Queued' = Queued
  BY DEF Queued, StartNotifyAll, StartNotify, Goto, Thin, Fat, word, monitor, local
<1>3. Waiting' = Waiting
  BY <1>1, <1>2 DEF Waiting, TypeOK, Labels, ShapeOK, MutexOK, PlaceOK, StartNotifyAll, StartNotify, Goto, Thin, Fat, word, monitor, local
<1>4. Notified' = Notified
  BY <1>1, <1>2 DEF Notified, TypeOK, Labels, ShapeOK, MutexOK, PlaceOK, StartNotifyAll, StartNotify, Goto, Thin, Fat, word, monitor, local
<1>5. Returning' = Returning
  BY <1>1, <1>2 DEF Returning, TypeOK, Labels, ShapeOK, MutexOK, PlaceOK, StartNotifyAll, StartNotify, Goto, Thin, Fat, word, monitor, local
<1>6. Saved' = Saved
  BY <1>1, <1>2 DEF Saved, Waiting, Returning, TypeOK, Labels, ShapeOK, MutexOK, PlaceOK, StartNotifyAll, StartNotify, Goto, Thin, Fat, word, monitor, local
<1>7. Raised' = Raised
  BY <1>1, <1>2 DEF Raised, TypeOK, Labels, ShapeOK, MutexOK, PlaceOK, StartNotifyAll, StartNotify, Goto, Thin, Fat, word, monitor, local
<1>8. Throwing' = Throwing
  BY <1>1, <1>2 DEF Throwing, TypeOK, Labels, ShapeOK, MutexOK, PlaceOK, StartNotifyAll, StartNotify, Goto, Thin, Fat, word, monitor, local
<1>9. Owner' = Owner
  BY <1>1, <1>2 DEF Owner, TypeOK, Labels, ShapeOK, MutexOK, PlaceOK, StartNotifyAll, StartNotify, Goto, Thin, Fat, word, monitor, local
<1>10. Depth' = Depth
  BY <1>1, <1>2 DEF Owner, Depth, TypeOK, Labels, ShapeOK, MutexOK, PlaceOK, StartNotifyAll, StartNotify, Goto, Thin, Fat, word, monitor, local
<1> QED BY <1>2, <1>3, <1>4, <1>5, <1>6, <1>7, <1>8, <1>9, <1>10 DEF Abstract!vars

\* What happens when the head of the queue is taken out (it waits) maps to Notify.
LEMMA NotifyHeadWaitingRefines ==
  ASSUME IInv, IInv', NEW t \in Threads, NotifyHead(t), at[Head(waitSet)] = "waiting"
  PROVE  Abstract!Notify(t)
<1> USE NobodyAssumption, CountAssumption
<1>1. TypeOK /\ ShapeOK /\ MutexOK /\ QueueOK /\ SignalReaches /\ PlaceOK(t)
      /\ (\A u \in Threads : PlaceOK(u)) /\ waitSet \in Seq(Threads)
  BY DEF IInv, TypeOK
<1>2. Queued' = Queued \ {Head(waitSet)} /\ Head(waitSet) \in Threads /\ Head(waitSet) \in Queued
  BY <1>1, TailQueue DEF NotifyHead
<1>3. Waiting' = Waiting
  BY <1>1, <1>2 DEF Waiting, TypeOK, Labels, ShapeOK, MutexOK, PlaceOK, NotifyHead, Signal, Goto, Thin, Fat, word, monitor, local
<1>4. Notified' = Notified \cup {Head(waitSet)}
  BY <1>1, <1>2 DEF Notified, TypeOK, Labels, ShapeOK, MutexOK, PlaceOK, NotifyHead, Signal, Goto, Thin, Fat, word, monitor, local
<1>5. Returning' = Returning
  BY <1>1, <1>2 DEF Returning, TypeOK, Labels, ShapeOK, MutexOK, PlaceOK, NotifyHead, Signal, Goto, Thin, Fat, word, monitor, local
<1>6. Saved' = Saved
  BY <1>1, <1>2 DEF Saved, Waiting, Returning, TypeOK, Labels, ShapeOK, MutexOK, PlaceOK, NotifyHead, Signal, Goto, Thin, Fat, word, monitor, local
<1>7. Raised' = Raised
  BY <1>1, <1>2 DEF Raised, TypeOK, Labels, ShapeOK, MutexOK, PlaceOK, NotifyHead, Signal, Goto, Thin, Fat, word, monitor, local
<1>8. Throwing' = Throwing
  BY <1>1, <1>2 DEF Throwing, TypeOK, Labels, ShapeOK, MutexOK, PlaceOK, NotifyHead, Signal, Goto, Thin, Fat, word, monitor, local
<1>9. Owner' = Owner
  BY <1>1, <1>2 DEF Owner, TypeOK, Labels, ShapeOK, MutexOK, PlaceOK, NotifyHead, Signal, Goto, Thin, Fat, word, monitor, local
<1>10. Depth' = Depth
  BY <1>1, <1>2 DEF Owner, Depth, TypeOK, Labels, ShapeOK, MutexOK, PlaceOK, NotifyHead, Signal, Goto, Thin, Fat, word, monitor, local
<1>11. Owner = t /\ Head(waitSet) \in Waiting \ Notified /\ Abstract!Free(t)
  BY <1>1, <1>2 DEF Abstract!Free, Waiting, Returning, Throwing, Raised, Notified, Owner, TypeOK, ShapeOK, MutexOK, PlaceOK, SignalReaches, NotifyHead, Signal, Goto, Thin, Fat, word, monitor, local
<1> QED BY <1>2, <1>3, <1>4, <1>5, <1>6, <1>7, <1>8, <1>9, <1>10, <1>11 DEF Abstract!Notify

\* What happens when the head of the queue is taken out (it is awake) is not seen.
LEMMA NotifyHeadAwakeRefines ==
  ASSUME IInv, IInv', NEW t \in Threads, NotifyHead(t), at[Head(waitSet)] # "waiting"
  PROVE  UNCHANGED Abstract!vars
<1> USE NobodyAssumption, CountAssumption
<1>1. TypeOK /\ ShapeOK /\ MutexOK /\ QueueOK /\ SignalReaches /\ PlaceOK(t)
      /\ (\A u \in Threads : PlaceOK(u)) /\ waitSet \in Seq(Threads)
  BY DEF IInv, TypeOK
<1>2. Queued' = Queued \ {Head(waitSet)} /\ Head(waitSet) \in Threads /\ Head(waitSet) \in Queued
  BY <1>1, TailQueue DEF NotifyHead
<1>3. Waiting' = Waiting
  BY <1>1, <1>2 DEF Waiting, TypeOK, Labels, ShapeOK, MutexOK, PlaceOK, NotifyHead, Signal, Goto, Thin, Fat, word, monitor, local
<1>4. Notified' = Notified
  BY <1>1, <1>2 DEF Notified, TypeOK, Labels, ShapeOK, MutexOK, PlaceOK, NotifyHead, Signal, Goto, Thin, Fat, word, monitor, local
<1>5. Returning' = Returning
  BY <1>1, <1>2 DEF Returning, TypeOK, Labels, ShapeOK, MutexOK, PlaceOK, NotifyHead, Signal, Goto, Thin, Fat, word, monitor, local
<1>6. Saved' = Saved
  BY <1>1, <1>2 DEF Saved, Waiting, Returning, TypeOK, Labels, ShapeOK, MutexOK, PlaceOK, NotifyHead, Signal, Goto, Thin, Fat, word, monitor, local
<1>7. Raised' = Raised
  BY <1>1, <1>2 DEF Raised, TypeOK, Labels, ShapeOK, MutexOK, PlaceOK, NotifyHead, Signal, Goto, Thin, Fat, word, monitor, local
<1>8. Throwing' = Throwing
  BY <1>1, <1>2 DEF Throwing, TypeOK, Labels, ShapeOK, MutexOK, PlaceOK, NotifyHead, Signal, Goto, Thin, Fat, word, monitor, local
<1>9. Owner' = Owner
  BY <1>1, <1>2 DEF Owner, TypeOK, Labels, ShapeOK, MutexOK, PlaceOK, NotifyHead, Signal, Goto, Thin, Fat, word, monitor, local
<1>10. Depth' = Depth
  BY <1>1, <1>2 DEF Owner, Depth, TypeOK, Labels, ShapeOK, MutexOK, PlaceOK, NotifyHead, Signal, Goto, Thin, Fat, word, monitor, local
<1> QED BY <1>2, <1>3, <1>4, <1>5, <1>6, <1>7, <1>8, <1>9, <1>10 DEF Abstract!vars

\* What happens when the queue is empty is not seen.
LEMMA NotifyNobodyRefines ==
  ASSUME IInv, IInv', NEW t \in Threads, NotifyNobody(t)
  PROVE  UNCHANGED Abstract!vars
<1> USE NobodyAssumption, CountAssumption
<1>1. TypeOK /\ ShapeOK /\ MutexOK /\ QueueOK /\ SignalReaches /\ PlaceOK(t)
      /\ (\A u \in Threads : PlaceOK(u)) /\ waitSet \in Seq(Threads)
  BY DEF IInv, TypeOK
<1>2. Queued' = Queued
  BY DEF Queued, NotifyNobody, Goto, Thin, Fat, word, monitor, local
<1>3. Waiting' = Waiting
  BY <1>1, <1>2 DEF Waiting, TypeOK, Labels, ShapeOK, MutexOK, PlaceOK, NotifyNobody, Goto, Thin, Fat, word, monitor, local
<1>4. Notified' = Notified
  BY <1>1, <1>2 DEF Notified, TypeOK, Labels, ShapeOK, MutexOK, PlaceOK, NotifyNobody, Goto, Thin, Fat, word, monitor, local
<1>5. Returning' = Returning
  BY <1>1, <1>2 DEF Returning, TypeOK, Labels, ShapeOK, MutexOK, PlaceOK, NotifyNobody, Goto, Thin, Fat, word, monitor, local
<1>6. Saved' = Saved
  BY <1>1, <1>2 DEF Saved, Waiting, Returning, TypeOK, Labels, ShapeOK, MutexOK, PlaceOK, NotifyNobody, Goto, Thin, Fat, word, monitor, local
<1>7. Raised' = Raised
  BY <1>1, <1>2 DEF Raised, TypeOK, Labels, ShapeOK, MutexOK, PlaceOK, NotifyNobody, Goto, Thin, Fat, word, monitor, local
<1>8. Throwing' = Throwing
  BY <1>1, <1>2 DEF Throwing, TypeOK, Labels, ShapeOK, MutexOK, PlaceOK, NotifyNobody, Goto, Thin, Fat, word, monitor, local
<1>9. Owner' = Owner
  BY <1>1, <1>2 DEF Owner, TypeOK, Labels, ShapeOK, MutexOK, PlaceOK, NotifyNobody, Goto, Thin, Fat, word, monitor, local
<1>10. Depth' = Depth
  BY <1>1, <1>2 DEF Owner, Depth, TypeOK, Labels, ShapeOK, MutexOK, PlaceOK, NotifyNobody, Goto, Thin, Fat, word, monitor, local
<1> QED BY <1>2, <1>3, <1>4, <1>5, <1>6, <1>7, <1>8, <1>9, <1>10 DEF Abstract!vars

\* What happens when a thread is interrupted (not interrupted) maps to Interrupt.
LEMMA InterruptRaisesRefines ==
  ASSUME IInv, IInv', NEW t \in Threads, Interrupt(t), ~wasInterrupted[t]
  PROVE  Abstract!Interrupt(t)
<1> USE NobodyAssumption, CountAssumption
<1>1. TypeOK /\ ShapeOK /\ MutexOK /\ QueueOK /\ SignalReaches /\ PlaceOK(t)
      /\ (\A u \in Threads : PlaceOK(u)) /\ waitSet \in Seq(Threads)
  BY DEF IInv, TypeOK
<1>2. Queued' = Queued
  BY DEF Queued, Interrupt, Signal, Goto, Thin, Fat, word, monitor, local
<1>3. Waiting' = Waiting
  BY <1>1, <1>2 DEF Waiting, TypeOK, Labels, ShapeOK, MutexOK, PlaceOK, Interrupt, Signal, Goto, Thin, Fat, word, monitor, local
<1>4. Notified' = Notified
  BY <1>1, <1>2 DEF Notified, TypeOK, Labels, ShapeOK, MutexOK, PlaceOK, Interrupt, Signal, Goto, Thin, Fat, word, monitor, local
<1>5. Returning' = Returning
  BY <1>1, <1>2 DEF Returning, TypeOK, Labels, ShapeOK, MutexOK, PlaceOK, Interrupt, Signal, Goto, Thin, Fat, word, monitor, local
<1>6. Saved' = Saved
  BY <1>1, <1>2 DEF Saved, Waiting, Returning, TypeOK, Labels, ShapeOK, MutexOK, PlaceOK, Interrupt, Signal, Goto, Thin, Fat, word, monitor, local
<1>7. Raised' = Raised \cup {t}
  BY <1>1, <1>2 DEF Raised, TypeOK, Labels, ShapeOK, MutexOK, PlaceOK, Interrupt, Signal, Goto, Thin, Fat, word, monitor, local
<1>8. Throwing' = Throwing
  BY <1>1, <1>2 DEF Throwing, TypeOK, Labels, ShapeOK, MutexOK, PlaceOK, Interrupt, Signal, Goto, Thin, Fat, word, monitor, local
<1>9. Owner' = Owner
  BY <1>1, <1>2 DEF Owner, TypeOK, Labels, ShapeOK, MutexOK, PlaceOK, Interrupt, Signal, Goto, Thin, Fat, word, monitor, local
<1>10. Depth' = Depth
  BY <1>1, <1>2 DEF Owner, Depth, TypeOK, Labels, ShapeOK, MutexOK, PlaceOK, Interrupt, Signal, Goto, Thin, Fat, word, monitor, local
<1>11. t \notin Throwing
  BY <1>1, <1>2 DEF Abstract!Free, Waiting, Returning, Throwing, Raised, Notified, Owner, TypeOK, ShapeOK, MutexOK, PlaceOK, SignalReaches, Interrupt, Signal, Goto, Thin, Fat, word, monitor, local
<1> QED BY <1>2, <1>3, <1>4, <1>5, <1>6, <1>7, <1>8, <1>9, <1>10, <1>11 DEF Abstract!Interrupt

\* What happens when a thread is interrupted (interrupted) is not seen.
LEMMA InterruptMergedRefines ==
  ASSUME IInv, IInv', NEW t \in Threads, Interrupt(t), wasInterrupted[t]
  PROVE  UNCHANGED Abstract!vars
<1> USE NobodyAssumption, CountAssumption
<1>1. TypeOK /\ ShapeOK /\ MutexOK /\ QueueOK /\ SignalReaches /\ PlaceOK(t)
      /\ (\A u \in Threads : PlaceOK(u)) /\ waitSet \in Seq(Threads)
  BY DEF IInv, TypeOK
<1>2. Queued' = Queued
  BY DEF Queued, Interrupt, Signal, Goto, Thin, Fat, word, monitor, local
<1>3. Waiting' = Waiting
  BY <1>1, <1>2 DEF Waiting, TypeOK, Labels, ShapeOK, MutexOK, PlaceOK, Interrupt, Signal, Goto, Thin, Fat, word, monitor, local
<1>4. Notified' = Notified
  BY <1>1, <1>2 DEF Notified, TypeOK, Labels, ShapeOK, MutexOK, PlaceOK, Interrupt, Signal, Goto, Thin, Fat, word, monitor, local
<1>5. Returning' = Returning
  BY <1>1, <1>2 DEF Returning, TypeOK, Labels, ShapeOK, MutexOK, PlaceOK, Interrupt, Signal, Goto, Thin, Fat, word, monitor, local
<1>6. Saved' = Saved
  BY <1>1, <1>2 DEF Saved, Waiting, Returning, TypeOK, Labels, ShapeOK, MutexOK, PlaceOK, Interrupt, Signal, Goto, Thin, Fat, word, monitor, local
<1>7. Raised' = Raised
  BY <1>1, <1>2 DEF Raised, TypeOK, Labels, ShapeOK, MutexOK, PlaceOK, Interrupt, Signal, Goto, Thin, Fat, word, monitor, local
<1>8. Throwing' = Throwing
  BY <1>1, <1>2 DEF Throwing, TypeOK, Labels, ShapeOK, MutexOK, PlaceOK, Interrupt, Signal, Goto, Thin, Fat, word, monitor, local
<1>9. Owner' = Owner
  BY <1>1, <1>2 DEF Owner, TypeOK, Labels, ShapeOK, MutexOK, PlaceOK, Interrupt, Signal, Goto, Thin, Fat, word, monitor, local
<1>10. Depth' = Depth
  BY <1>1, <1>2 DEF Owner, Depth, TypeOK, Labels, ShapeOK, MutexOK, PlaceOK, Interrupt, Signal, Goto, Thin, Fat, word, monitor, local
<1> QED BY <1>2, <1>3, <1>4, <1>5, <1>6, <1>7, <1>8, <1>9, <1>10 DEF Abstract!vars

\* What happens when a thread asks whether it was interrupted is not seen.
LEMMA ReadFlagRefines ==
  ASSUME IInv, IInv', NEW t \in Threads, ReadFlag(t)
  PROVE  UNCHANGED Abstract!vars
<1> USE NobodyAssumption, CountAssumption
<1>1. TypeOK /\ ShapeOK /\ MutexOK /\ QueueOK /\ SignalReaches /\ PlaceOK(t)
      /\ (\A u \in Threads : PlaceOK(u)) /\ waitSet \in Seq(Threads)
  BY DEF IInv, TypeOK
<1>2. Queued' = Queued
  BY DEF Queued, ReadFlag, Goto, Thin, Fat, word, monitor, local
<1>3. Waiting' = Waiting
  BY <1>1, <1>2 DEF Waiting, TypeOK, Labels, ShapeOK, MutexOK, PlaceOK, ReadFlag, Goto, Thin, Fat, word, monitor, local
<1>4. Notified' = Notified
  BY <1>1, <1>2 DEF Notified, TypeOK, Labels, ShapeOK, MutexOK, PlaceOK, ReadFlag, Goto, Thin, Fat, word, monitor, local
<1>5. Returning' = Returning
  BY <1>1, <1>2 DEF Returning, TypeOK, Labels, ShapeOK, MutexOK, PlaceOK, ReadFlag, Goto, Thin, Fat, word, monitor, local
<1>6. Saved' = Saved
  BY <1>1, <1>2 DEF Saved, Waiting, Returning, TypeOK, Labels, ShapeOK, MutexOK, PlaceOK, ReadFlag, Goto, Thin, Fat, word, monitor, local
<1>7. Raised' = Raised
  BY <1>1, <1>2 DEF Raised, TypeOK, Labels, ShapeOK, MutexOK, PlaceOK, ReadFlag, Goto, Thin, Fat, word, monitor, local
<1>8. Throwing' = Throwing
  BY <1>1, <1>2 DEF Throwing, TypeOK, Labels, ShapeOK, MutexOK, PlaceOK, ReadFlag, Goto, Thin, Fat, word, monitor, local
<1>9. Owner' = Owner
  BY <1>1, <1>2 DEF Owner, TypeOK, Labels, ShapeOK, MutexOK, PlaceOK, ReadFlag, Goto, Thin, Fat, word, monitor, local
<1>10. Depth' = Depth
  BY <1>1, <1>2 DEF Owner, Depth, TypeOK, Labels, ShapeOK, MutexOK, PlaceOK, ReadFlag, Goto, Thin, Fat, word, monitor, local
<1> QED BY <1>2, <1>3, <1>4, <1>5, <1>6, <1>7, <1>8, <1>9, <1>10 DEF Abstract!vars

\* What happens when it clears its flag maps to Ask.
LEMMA ClearFlagRefines ==
  ASSUME IInv, IInv', NEW t \in Threads, ClearFlag(t)
  PROVE  Abstract!Ask(t)
<1> USE NobodyAssumption, CountAssumption
<1>1. TypeOK /\ ShapeOK /\ MutexOK /\ QueueOK /\ SignalReaches /\ PlaceOK(t)
      /\ (\A u \in Threads : PlaceOK(u)) /\ waitSet \in Seq(Threads)
  BY DEF IInv, TypeOK
<1>2. Queued' = Queued
  BY DEF Queued, ClearFlag, Goto, Thin, Fat, word, monitor, local
<1>3. Waiting' = Waiting
  BY <1>1, <1>2 DEF Waiting, TypeOK, Labels, ShapeOK, MutexOK, PlaceOK, ClearFlag, Goto, Thin, Fat, word, monitor, local
<1>4. Notified' = Notified
  BY <1>1, <1>2 DEF Notified, TypeOK, Labels, ShapeOK, MutexOK, PlaceOK, ClearFlag, Goto, Thin, Fat, word, monitor, local
<1>5. Returning' = Returning
  BY <1>1, <1>2 DEF Returning, TypeOK, Labels, ShapeOK, MutexOK, PlaceOK, ClearFlag, Goto, Thin, Fat, word, monitor, local
<1>6. Saved' = Saved
  BY <1>1, <1>2 DEF Saved, Waiting, Returning, TypeOK, Labels, ShapeOK, MutexOK, PlaceOK, ClearFlag, Goto, Thin, Fat, word, monitor, local
<1>7. Raised' = Raised \ {t}
  BY <1>1, <1>2 DEF Raised, TypeOK, Labels, ShapeOK, MutexOK, PlaceOK, ClearFlag, Goto, Thin, Fat, word, monitor, local
<1>8. Throwing' = Throwing
  BY <1>1, <1>2 DEF Throwing, TypeOK, Labels, ShapeOK, MutexOK, PlaceOK, ClearFlag, Goto, Thin, Fat, word, monitor, local
<1>9. Owner' = Owner
  BY <1>1, <1>2 DEF Owner, TypeOK, Labels, ShapeOK, MutexOK, PlaceOK, ClearFlag, Goto, Thin, Fat, word, monitor, local
<1>10. Depth' = Depth
  BY <1>1, <1>2 DEF Owner, Depth, TypeOK, Labels, ShapeOK, MutexOK, PlaceOK, ClearFlag, Goto, Thin, Fat, word, monitor, local
<1>11. Abstract!Free(t)
  BY <1>1, <1>2 DEF Abstract!Free, Waiting, Returning, Throwing, Raised, Notified, Owner, TypeOK, ShapeOK, MutexOK, PlaceOK, SignalReaches, ClearFlag, Goto, Thin, Fat, word, monitor, local
<1> QED BY <1>2, <1>3, <1>4, <1>5, <1>6, <1>7, <1>8, <1>9, <1>10, <1>11 DEF Abstract!Ask

(***************************************************************************)
(* The theorems.                                                           *)
(***************************************************************************)
\* The inductive invariant: which thread the monitor and its mutex belong to, who is in
\* the wait set, who was signalled, at every place of every call of Sync.cpp.
THEOREM Invariance == Spec => []IInv
<1> USE NobodyAssumption, CountAssumption
<1>1. Init => IInv
  <2> SUFFICES ASSUME Init PROVE IInv
    OBVIOUS
  <2>1. waitSet = <<>> /\ Len(waitSet) = 0 /\ Queued = {}
    BY DEF Init, Queued
  <2>a. 0 \in 0..(CountMask - 1)
    OBVIOUS
  <2>b. waitSet \in Seq(Threads)
    BY <2>1
  <2>2. TypeOK
    BY <2>a, <2>b DEF Init, TypeOK, Labels
  <2>3. QueueOK
    BY <2>1 DEF QueueOK
  <2> QED BY <2>1, <2>2, <2>3
       DEF Init, IInv, ShapeOK, MutexOK, SignalReaches, PlaceOK, Thin, Fat
<1>2. ASSUME IInv, [Next]_vars PROVE IInv'
  <2>1. ASSUME NEW t \in Threads, Request(t) PROVE IInv'
    BY <1>2, <2>1, RequestInv
  <2>2. ASSUME NEW t \in Threads, Unlock(t) PROVE IInv'
    BY <1>2, <2>2, UnlockInv
  <2>3. ASSUME NEW t \in Threads, StartWait(t) PROVE IInv'
    BY <1>2, <2>3, StartWaitInv
  <2>4. ASSUME NEW t \in Threads, WakeAnyway(t) PROVE IInv'
    BY <1>2, <2>4, WakeInv DEF WakeAnyway
  <2>5. ASSUME NEW t \in Threads, StartNotifyOne(t) PROVE IInv'
    BY <1>2, <2>5, StartNotifyOneInv
  <2>6. ASSUME NEW t \in Threads, StartNotifyAll(t) PROVE IInv'
    BY <1>2, <2>6, StartNotifyAllInv
  <2>7. ASSUME NEW t \in Threads, Interrupt(t) PROVE IInv'
    BY <1>2, <2>7, InterruptInv
  <2>8. ASSUME NEW t \in Threads, ReadFlag(t) PROVE IInv'
    BY <1>2, <2>8, ReadFlagInv
  <2>9. ASSUME NEW t \in Threads, LockAgainThin(t) PROVE IInv'
    BY <1>2, <2>9, LockAgainThinInv
  <2>10. ASSUME NEW t \in Threads, LockThin(t) PROVE IInv'
    BY <1>2, <2>10, LockThinInv
  <2>11. ASSUME NEW t \in Threads, Spin(t) PROVE IInv'
    BY <1>2, <2>11, SpinInv
  <2>12. ASSUME NEW t \in Threads, SurpriseFattened(t) PROVE IInv'
    BY <1>2, <2>12, SurpriseFattenedInv
  <2>13. ASSUME NEW t \in Threads, Fatten(t) PROVE IInv'
    BY <1>2, <2>13, FattenInv
  <2>14. ASSUME NEW t \in Threads, LockAgainFat(t) PROVE IInv'
    BY <1>2, <2>14, LockAgainFatInv
  <2>15. ASSUME NEW t \in Threads, LockFat(t) PROVE IInv'
    BY <1>2, <2>15, LockFatInv
  <2>16. ASSUME NEW t \in Threads, Sleep(t) PROVE IInv'
    BY <1>2, <2>16, SleepInv
  <2>17. ASSUME NEW t \in Threads, InterruptedBefore(t) PROVE IInv'
    BY <1>2, <2>17, InterruptedBeforeInv
  <2>18. ASSUME NEW t \in Threads, WakeSignalled(t) PROVE IInv'
    BY <1>2, <2>18, WakeInv DEF WakeSignalled
  <2>19. ASSUME NEW t \in Threads, Relock(t) PROVE IInv'
    BY <1>2, <2>19, RelockInv
  <2>20. ASSUME NEW t \in Threads, Clear(t) PROVE IInv'
    BY <1>2, <2>20, ClearInv
  <2>21. ASSUME NEW t \in Threads, NotifyHead(t) PROVE IInv'
    BY <1>2, <2>21, NotifyHeadInv
  <2>22. ASSUME NEW t \in Threads, NotifyNobody(t) PROVE IInv'
    BY <1>2, <2>22, NotifyNobodyInv
  <2>23. ASSUME NEW t \in Threads, ClearFlag(t) PROVE IInv'
    BY <1>2, <2>23, ClearFlagInv
  <2>24. CASE UNCHANGED vars
    BY <1>2, <2>24 DEF vars, word, monitor, local, IInv, TypeOK, ShapeOK, MutexOK,
       QueueOK, SignalReaches, PlaceOK, Queued, Thin, Fat
  <2> QED BY <1>2, <2>1, <2>2, <2>3, <2>4, <2>5, <2>6, <2>7, <2>8, <2>9, <2>10, <2>11, <2>12, <2>13, <2>14, <2>15, <2>16, <2>17, <2>18, <2>19, <2>20, <2>21, <2>22, <2>23, <2>24
       DEF Next, Begin, Continue, Lock, InWait, Notifying
<1> QED BY <1>1, <1>2, PTL DEF Spec

\* Types, and the thin recursion count, which is never at its limit (dvmLockObject).
THEOREM TypeCorrect == Spec => []TypeOK
<1>1. IInv => TypeOK
  BY DEF IInv
<1> QED BY <1>1, Invariance, PTL

\* No assertion of Sync.cpp about owner, count, shape and wait set fails.
THEOREM AssertsNeverFail == Spec => []AssertsHold
<1>1. IInv => AssertsHold
  BY DEF IInv, AssertsHold, MutexOK, QueueOK, PlaceOK
<1> QED BY <1>1, Invariance, PTL

\* No wake-up is missed between wait(), notify() and interrupt().
THEOREM NoMissedSignal == Spec => []SignalReaches
<1>1. IInv => SignalReaches
  BY DEF IInv
<1> QED BY <1>1, Invariance, PTL

\* notify() does not end, and notifyAll() leaves nobody, while a waiter is unnotified.
THEOREM NotifyNeverSkips == Spec => NotifyReaches
<1> DEFINE Ends(t) ==
      /\ at[t] = "notify" /\ at'[t] = "run" => Notified' # Notified \/ Unnotified = {}
      /\ at[t] = "notifyAll" /\ at'[t] = "run" => Unnotified = {}
<1>1. ASSUME IInv, [Next]_vars, NEW t \in Threads PROVE Ends(t)
  <2>1. ASSUME NEW u \in Threads, NotifyHead(u) PROVE Ends(t)
    <3>1. CASE t = u /\ at[t] = "notify" /\ at'[t] = "run"
      <4>1. /\ Head(waitSet) \in Threads /\ Head(waitSet) \in Queued
            /\ Queued' = Queued \ {Head(waitSet)}
        BY <1>1, <2>1, TailQueue DEF IInv, TypeOK, NotifyHead
      <4>2. at[Head(waitSet)] = "waiting" /\ Head(waitSet) # t
        BY <2>1, <3>1 DEF NotifyHead
      <4>3. at'[Head(waitSet)] = "waiting"
        BY <1>1, <2>1, <4>1, <4>2 DEF IInv, TypeOK, NotifyHead, Goto
      <4>4. Head(waitSet) \in Notified' /\ Head(waitSet) \notin Notified
        BY <4>1, <4>3 DEF Notified
      <4> QED BY <4>4, <3>1
    <3>2. CASE ~(t = u /\ at[t] = "notify" /\ at'[t] = "run")
      BY <1>1, <2>1, <3>2 DEF IInv, TypeOK, NotifyHead, Goto
    <3> QED BY <3>1, <3>2
  <2>2. ASSUME NEW u \in Threads, NotifyNobody(u) PROVE Ends(t)
    <3>1. Len(waitSet) = 0
      BY <2>2 DEF NotifyNobody
    <3> QED BY <3>1 DEF Unnotified, Queued
  <2>3. ASSUME NEW u \in Threads,
               Begin(u) \/ Lock(u) \/ InWait(u) \/ ClearFlag(u)
        PROVE  at[t] \in {"notify", "notifyAll"} => at'[t] = at[t]
    BY <1>1, <2>3 DEF IInv, TypeOK, Begin, Lock, InWait, Goto, Request, Unlock, StartWait,
       WakeAnyway, Wake, StartNotifyOne, StartNotifyAll, StartNotify, Interrupt, ReadFlag,
       LockAgainThin, LockThin, Spin, SurpriseFattened, Fatten, LockAgainFat, LockFat,
       Sleep, InterruptedBefore, WakeSignalled, Relock, Clear, ClearFlag
  <2>4. CASE UNCHANGED vars
    BY <2>4 DEF vars
  <2> QED BY <1>1, <2>1, <2>2, <2>3, <2>4 DEF Next, Continue, Notifying
<1>2. IInv /\ [Next]_vars => [\A t \in Threads : Ends(t)]_vars
  BY <1>1
<1> QED BY <1>2, Invariance, PTL DEF Spec, NotifyReaches

\* Sync.cpp implements the monitor of ObjectMonitor, for any number of threads.
THEOREM Implements == Spec => Promises
<1> USE NobodyAssumption, CountAssumption
<1>1. Init => Abstract!Init
  BY DEF Init, Abstract!Init, Owner, Depth, Waiting, Notified, Returning, Saved, Raised,
     Throwing, Queued
<1>2. ASSUME IInv, IInv', [Next]_vars PROVE [Abstract!Next]_(Abstract!vars)
  <2>1. ASSUME NEW t \in Threads, Request(t) PROVE [Abstract!Next]_(Abstract!vars)
    BY <1>2, <2>1, RequestRefines
  <2>2. ASSUME NEW t \in Threads, Unlock(t) PROVE [Abstract!Next]_(Abstract!vars)
    BY <1>2, <2>2, UnlockRefines DEF Abstract!Next, Abstract!Step
  <2>3. ASSUME NEW t \in Threads, StartWait(t) PROVE [Abstract!Next]_(Abstract!vars)
    BY <1>2, <2>3, StartWaitRefines
  <2>4. ASSUME NEW t \in Threads, WakeAnyway(t) PROVE [Abstract!Next]_(Abstract!vars)
    BY <1>2, <2>4, WakeRefines DEF Abstract!Next, Abstract!Step, WakeAnyway
  <2>5. ASSUME NEW t \in Threads, StartNotifyOne(t) PROVE [Abstract!Next]_(Abstract!vars)
    BY <1>2, <2>5, StartNotifyOneRefines
  <2>6. ASSUME NEW t \in Threads, StartNotifyAll(t) PROVE [Abstract!Next]_(Abstract!vars)
    BY <1>2, <2>6, StartNotifyAllRefines
  <2>7. ASSUME NEW t \in Threads, Interrupt(t) PROVE [Abstract!Next]_(Abstract!vars)
    BY <1>2, <2>7, InterruptRaisesRefines, InterruptMergedRefines DEF Abstract!Next, Abstract!Step
  <2>8. ASSUME NEW t \in Threads, ReadFlag(t) PROVE [Abstract!Next]_(Abstract!vars)
    BY <1>2, <2>8, ReadFlagRefines
  <2>9. ASSUME NEW t \in Threads, LockAgainThin(t) PROVE [Abstract!Next]_(Abstract!vars)
    BY <1>2, <2>9, LockAgainThinRefines DEF Abstract!Next, Abstract!Step
  <2>10. ASSUME NEW t \in Threads, LockThin(t) PROVE [Abstract!Next]_(Abstract!vars)
    BY <1>2, <2>10, LockThinRefines DEF Abstract!Next, Abstract!Step
  <2>11. ASSUME NEW t \in Threads, Spin(t) PROVE [Abstract!Next]_(Abstract!vars)
    BY <1>2, <2>11, SpinRefines
  <2>12. ASSUME NEW t \in Threads, SurpriseFattened(t) PROVE [Abstract!Next]_(Abstract!vars)
    BY <1>2, <2>12, SurpriseFattenedRefines
  <2>13. ASSUME NEW t \in Threads, Fatten(t) PROVE [Abstract!Next]_(Abstract!vars)
    BY <1>2, <2>13, FattenRefines
  <2>14. ASSUME NEW t \in Threads, LockAgainFat(t) PROVE [Abstract!Next]_(Abstract!vars)
    BY <1>2, <2>14, LockAgainFatRefines DEF Abstract!Next, Abstract!Step
  <2>15. ASSUME NEW t \in Threads, LockFat(t) PROVE [Abstract!Next]_(Abstract!vars)
    BY <1>2, <2>15, LockFatRefines DEF Abstract!Next, Abstract!Step
  <2>16. ASSUME NEW t \in Threads, Sleep(t) PROVE [Abstract!Next]_(Abstract!vars)
    BY <1>2, <2>16, SleepRefines DEF Abstract!Next, Abstract!Step
  <2>17. ASSUME NEW t \in Threads, InterruptedBefore(t) PROVE [Abstract!Next]_(Abstract!vars)
    BY <1>2, <2>17, InterruptedBeforeRefines DEF Abstract!Next, Abstract!Step
  <2>18. ASSUME NEW t \in Threads, WakeSignalled(t) PROVE [Abstract!Next]_(Abstract!vars)
    BY <1>2, <2>18, WakeRefines DEF Abstract!Next, Abstract!Step, WakeSignalled
  <2>19. ASSUME NEW t \in Threads, Relock(t) PROVE [Abstract!Next]_(Abstract!vars)
    BY <1>2, <2>19, RelockRefines DEF Abstract!Next, Abstract!Step
  <2>20. ASSUME NEW t \in Threads, Clear(t) PROVE [Abstract!Next]_(Abstract!vars)
    BY <1>2, <2>20, ClearThrowsRefines, ClearReturnsRefines DEF Abstract!Next, Abstract!Step
  <2>21. ASSUME NEW t \in Threads, NotifyHead(t) PROVE [Abstract!Next]_(Abstract!vars)
    BY <1>2, <2>21, NotifyHeadWaitingRefines, NotifyHeadAwakeRefines DEF Abstract!Next, Abstract!Step
  <2>22. ASSUME NEW t \in Threads, NotifyNobody(t) PROVE [Abstract!Next]_(Abstract!vars)
    BY <1>2, <2>22, NotifyNobodyRefines
  <2>23. ASSUME NEW t \in Threads, ClearFlag(t) PROVE [Abstract!Next]_(Abstract!vars)
    BY <1>2, <2>23, ClearFlagRefines DEF Abstract!Next, Abstract!Step
  <2>24. CASE UNCHANGED vars
    BY <2>24 DEF vars, word, monitor, local, Abstract!vars, Owner, Depth, Waiting, Notified,
       Returning, Saved, Raised, Throwing, Queued
  <2> QED BY <1>2, <2>1, <2>2, <2>3, <2>4, <2>5, <2>6, <2>7, <2>8, <2>9, <2>10, <2>11, <2>12, <2>13, <2>14, <2>15, <2>16, <2>17, <2>18, <2>19, <2>20, <2>21, <2>22, <2>23, <2>24
       DEF Next, Begin, Continue, Lock, InWait, Notifying
<1>3. Spec => []IInv
  BY Invariance
<1> QED BY <1>1, <1>2, <1>3, PTL DEF Spec, Promises, Abstract!Spec
=============================================================================
