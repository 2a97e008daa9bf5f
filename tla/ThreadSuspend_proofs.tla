------------------------- MODULE ThreadSuspend_proofs -------------------------
(***************************************************************************)
(* Theorems about ThreadSuspend for any finite set of threads, whatever    *)
(* they do: allocate, collect, trace, dump, use the thread list, attach,   *)
(* create threads and exit.                                                *)
(***************************************************************************)
EXTENDS MCThreadSuspend, FiniteSetTheorems, TLAPS

(***************************************************************************)
(* The inductive invariant.                                                *)
(***************************************************************************)
\* where a thread is, or goes on once it may run again
Place(t) == IF at[t] \in {"check", "asleep"} THEN next[t] ELSE at[t]

StopPlaces   == {"stop", "stopList", "await", "stopped"}
ResumePlaces == {"resume", "resumeList", "uncounted", "broadcast"}
HeapPlaces   == {"allocating", "waited", "retry", "last", "collect", "finish"}
Wholes == {"foreground", "soft"}
Pauses == {"roots", "remark"}

\* where a thread may go on from a check, a sleep or a lock
NextOK(t) ==
  /\ at[t] \in {"check", "asleep"} =>
       next[t] \in {"run", "allocating", "waited", "stop", "finish", "collect", "join",
                    "linked", "resume"}
  /\ at[t] = "wantHeap" => next[t] \in {"allocating", "stop", "finish"}
  /\ at[t] = "wantList" => next[t] \in {"listed", "trace", "mark", "release", "dumping"}

\* who holds which lock
HeapOK(t) ==
  /\ Place(t) \in HeapPlaces => heapLock = t
  /\ Place(t) \in StopPlaces /\ stop[t] # "dump" => heapLock = t
  /\ Place(t) \in ResumePlaces /\ stop[t] \in Wholes => heapLock = t /\ ~gcRunning
ListOK(t) ==
  at[t] \in {"listed", "trace", "awaitOne", "snapshot", "mark", "release", "await",
             "dumping"}
    => listLock = t

\* a collection that is under way
InGc(t) ==
  \/ Place(t) \in StopPlaces /\ stop[t] # "dump"
  \/ Place(t) \in {"marking", "sweeping", "finish"}
  \/ at[t] = "wantHeap" /\ next[t] \in {"stop", "finish"}
  \/ Place(t) \in ResumePlaces /\ stop[t] \in Pauses
GcOK(t) ==
  /\ Place(t) \in {"marking", "sweeping", "finish"} => stop[t] \in Pauses
  /\ at[t] = "wantHeap" /\ next[t] \in {"stop", "finish"} => stop[t] \in Pauses
  /\ at[t] = "dumping" \/ (at[t] = "wantList" /\ next[t] = "dumping")
       => stop[t] = "dump"
  /\ InGc(t) => gcRunning
OneGc(s, t) == InGc(s) /\ InGc(t) => s = t

\* who has suspended others
HeldOK(t) ==
  /\ held[t] # {} => at[t] \in {"awaitOne", "snapshot"} \/ Suspends(t)
  /\ t \notin held[t]
  /\ at[t] \in {"awaitOne", "snapshot"} => held[t] \subseteq threadList
  /\ at[t] = "stopped" => todo[t] = {}

\* threads that are not in the list yet, or no more
NewPlaces == {"detached", "unborn", "started", "prepare", "gone"}
NewOK(t) ==
  /\ t \notin threadList => /\ at[t] \in NewPlaces \cup {"starting"}
                            /\ status[t] \notin {"RUNNING", "VMWAIT"}
  /\ t \notin threadList /\ at[t] # "gone" => /\ suspendCount[t] = 0
                                       /\ \A s \in Threads : t \notin held[s]
  /\ at[t] \in NewPlaces => t \notin threadList
  /\ at[t] = "starting" => status[t] \in {"STARTING", "VMWAIT"}
  /\ status[t] = "STARTING" => at[t] = "starting"
  /\ at[t] = "pulse" => status[t] = "VMWAIT"

\* parents and children
ParentPlaces == {"spawn", "spawned", "join", "joining", "linked", "release"}
ChildOK(t) ==
  /\ Place(t) \in ParentPlaces => child[t] # Nobody
  /\ at[t] = "wantList" /\ next[t] = "release" => child[t] # Nobody
  /\ Place(t) \in {"linked", "release"} \/ (at[t] = "wantList" /\ next[t] = "release")
       => at[child[t]] = "starting" /\ child[t] \in threadList
  /\ child[t] # Nobody => /\ at[child[t]] \in {"started", "prepare", "starting"}
                          /\ at[child[t]] = "starting" => status[child[t]] = "STARTING"
  /\ at[t] = "spawn" => at[child[t]] = "started"
OneParent(s, t) == child[s] = child[t] /\ child[s] # Nobody => s = t

\* a thread that is being linked by a suspended parent
Linking(s, t) ==
  /\ at[t] = "starting" /\ status[t] = "STARTING"
  /\ \E p \in held[s] : /\ child[p] = t /\ at[p] \in {"check", "asleep"}
                        /\ next[p] = "linked"
\* what the others do while a collector s stops the world, or has stopped it
StopOK(s, t) ==
  at[s] \in {"await", "stopped"} /\ stop[s] # "dump" /\ t # s /\ t \in threadList =>
    IF t \in held[s]
      THEN \/ t \in todo[s] \/ status[t] # "RUNNING" \/ at[t] = "check"
           \/ escaped[t] \/ Robbed(t)
      ELSE at[t] = "pulse" \/ Linking(s, t) \/ overlapped
\* what the thread does whose stack s copies; its count cannot be taken from it
SnapOK(s, t) ==
  t \in held[s] =>
    /\ at[s] \in {"awaitOne", "snapshot"} => suspendCount[t] # 0
    /\ at[s] = "snapshot" => status[t] # "RUNNING" \/ at[t] = "check"

Balanced(t) ==
  t \in threadList => /\ suspendCount[t] <= Cardinality(Holders(t))
                      /\ Robbed(t) => overlapped

InvOK ==
  /\ \A t \in Threads : NextOK(t)
  /\ \A t \in Threads : HeapOK(t)
  /\ \A t \in Threads : ListOK(t)
  /\ \A t \in Threads : GcOK(t)
  /\ \A s, t \in Threads : OneGc(s, t)
  /\ \A t \in Threads : HeldOK(t)
  /\ \A t \in Threads : NewOK(t)
  /\ \A t \in Threads : ChildOK(t)
  /\ \A s, t \in Threads : OneParent(s, t)
  /\ \A s, t \in Threads : StopOK(s, t)
  /\ \A s, t \in Threads : SnapOK(s, t)
  /\ \A t \in Threads : Balanced(t)
OverlapOK == overlapped \in BOOLEAN /\ (Overlap => overlapped)
IInv == TypeOK /\ InvOK /\ OverlapOK

(***************************************************************************)
(* Counting, and overlapping stops.                                        *)
(***************************************************************************)
\* the history records an overlap as soon as there is one
Recorded == overlapped' = (overlapped \/ Overlap')

\* a listed thread that somebody has suspended has a count, or has been robbed of it
CountPos ==
  \A s, t \in Threads :
    t \in held[s] /\ t \in threadList /\ suspendCount[t] = 0 => Robbed(t) /\ overlapped

\* What the history says stays right, and an overlap is not forgotten.
LEMMA RecordedKept ==
  ASSUME IInv, Recorded
  PROVE  OverlapOK' /\ (overlapped => overlapped')
<1>1. overlapped \in BOOLEAN
  BY DEF IInv, OverlapOK
<1>2. overlapped' \in BOOLEAN /\ (Overlap' => overlapped') /\ (overlapped => overlapped')
  BY <1>1 DEF Recorded
<1> QED BY <1>2 DEF OverlapOK

\* The holders of a thread are finitely many.
LEMMA HoldersFinite ==
  ASSUME NEW t \in Threads
  PROVE  IsFiniteSet(Holders(t)) /\ Cardinality(Holders(t)) \in Nat
<1>1. IsFiniteSet(Holders(t))
  BY ThreadsAssumption, FS_Subset DEF Holders
<1> QED BY <1>1, FS_CardinalityType

\* A listed thread that somebody has suspended has a count, unless another's
\* dvmResumeAllThreads() has taken it (dvmAddToSuspendCounts).
LEMMA CountsPositive == IInv => CountPos
<1> SUFFICES ASSUME IInv, NEW s \in Threads, NEW t \in Threads,
                    t \in held[s], t \in threadList, suspendCount[t] = 0
             PROVE  Robbed(t) /\ overlapped
  BY DEF CountPos
<1>1. IsFiniteSet(Holders(t)) /\ Cardinality(Holders(t)) \in Nat /\ s \in Holders(t)
  BY HoldersFinite DEF Holders
<1>2. Cardinality(Holders(t)) # 0
  BY <1>1, FS_EmptySet
<1>3. Robbed(t)
  BY <1>1, <1>2 DEF Robbed
<1> QED BY <1>3 DEF IInv, InvOK, Balanced

\* When nobody has the list lock, whoever has suspended a thread besides the one about
\* to resume the world has the world suspended too.
LEMMA OthersStop ==
  ASSUME IInv, NEW t \in Threads, at[t] = "resumeList", listLock = Nobody,
         NEW s \in Threads, s # t, NEW x \in held[s]
  PROVE  overlapped
<1>1. HeldOK(s) /\ ListOK(s)
  BY DEF IInv, InvOK
<1>2. at[s] \notin {"awaitOne", "snapshot"}
  BY <1>1, NobodyAssumption DEF ListOK
<1>3. Suspends(s) /\ Suspends(t)
  BY <1>1, <1>2 DEF HeldOK, Suspends
<1> QED BY <1>3 DEF Overlap, IInv, OverlapOK

\* A thread that x has suspended and somebody has robbed stays robbed when the
\* suspensions of all threads are taken back once more.
LEMMA UncountRobbed ==
  ASSUME IInv, NEW t \in Threads, UncountAll(t), NEW x \in Threads, x # t,
         NEW y \in Threads, y \in held[x], y \in threadList, Robbed(y)
  PROVE  Robbed(y)'
<1>1. TypeOK /\ HeldOK(t)
  BY DEF IInv, InvOK
<1>2. IsFiniteSet(Holders(y)) /\ Cardinality(Holders(y)) \in Nat
  BY HoldersFinite
<1>3. IsFiniteSet(Holders(y)') /\ Cardinality(Holders(y)') \in Nat
  BY ThreadsAssumption, FS_Subset, FS_CardinalityType DEF Holders
<1>4. /\ Holders(y)' = Holders(y) \ {t} /\ x \in Holders(y)'
      /\ suspendCount'[y] = IF y # t /\ suspendCount[y] > 0
                            THEN suspendCount[y] - 1 ELSE suspendCount[y]
      /\ suspendCount[y] \in Nat
  BY <1>1 DEF Holders, UncountAll, TakeFromCounts, TypeOK
<1>5. Cardinality(Holders(y)') > 0
  <2>1. Cardinality(Holders(y)') # 0
    BY <1>3, <1>4, FS_EmptySet
  <2> QED BY <1>3, <2>1
<1>6. suspendCount[y] < Cardinality(Holders(y))
  BY DEF Robbed
<1>7. suspendCount'[y] < Cardinality(Holders(y)')
  <2>1. CASE t \in Holders(y)
    <3>1. Cardinality(Holders(y)') = Cardinality(Holders(y)) - 1
      BY <1>2, <1>4, <2>1, FS_RemoveElement
    <3>2. y # t
      BY <1>1, <2>1 DEF HeldOK, Holders
    <3> QED BY <1>2, <1>3, <1>4, <1>5, <1>6, <3>1, <3>2
  <2>2. CASE t \notin Holders(y)
    <3>1. Cardinality(Holders(y)') = Cardinality(Holders(y))
      BY <1>4, <2>2
    <3>2. suspendCount'[y] <= suspendCount[y] /\ suspendCount'[y] \in Nat
      BY <1>4
    <3> QED BY <1>2, <1>4, <1>6, <3>1, <3>2
  <2> QED BY <2>1, <2>2
<1> QED BY <1>7 DEF Robbed

\* A thread that suspends or resumes one thread holds the list lock, leaves a stopped
\* world alone, and robs nobody.
LEMMA Undisturbed ==
  ASSUME TypeOK, NEW t \in Threads, NEW x \in Threads, NEW y \in Threads,
         StopOK(x, y), ListOK(x), ListOK(t), at[t] \in {"trace", "snapshot"},
         NEW l \in {"awaitOne", "run"}, at' = [at EXCEPT ![t] = l],
         NEW h, held' = [held EXCEPT ![t] = h],
         UNCHANGED <<status, threadList, stop, todo, child, next, escaped>>,
         Robbed(y)' <=> Robbed(y), overlapped => overlapped'
  PROVE  StopOK(x, y)'
<1> SUFFICES ASSUME at'[x] \in {"await", "stopped"}, stop[x] # "dump", y # x,
                    y \in threadList
             PROVE  IF y \in held'[x]
                      THEN \/ y \in todo[x] \/ status[y] # "RUNNING"
                           \/ at'[y] = "check" \/ escaped[y] \/ Robbed(y)'
                      ELSE at'[y] = "pulse" \/ Linking(x, y)' \/ overlapped'
  BY DEF StopOK
<1>1. x # t /\ at[x] = at'[x] /\ held'[x] = held[x]
  BY DEF TypeOK
<1>2. (at[y] = "check" => at'[y] = "check") /\ (at[y] = "pulse" => at'[y] = "pulse")
  BY DEF TypeOK
<1>3. Linking(x, y) => Linking(x, y)'
  <2> SUFFICES ASSUME Linking(x, y) PROVE Linking(x, y)'
    OBVIOUS
  <2>1. PICK p \in held[x] : /\ child[p] = y /\ at[p] \in {"check", "asleep"}
                             /\ next[p] = "linked"
    BY DEF Linking
  <2>2. p \in Threads /\ at'[p] = at[p] /\ at'[y] = at[y]
    BY <2>1 DEF TypeOK, Linking
  <2> QED BY <1>1, <2>1, <2>2 DEF Linking
<1> QED BY <1>1, <1>2, <1>3 DEF StopOK

\* A thread that neither waits for others nor is waited for by them leaves a stopped
\* world alone unless it starts running.
LEMMA Aside ==
  ASSUME TypeOK, CountPos, NEW t \in Threads, NEW x \in Threads, NEW y \in Threads,
         StopOK(x, y), at[t] \notin {"pulse", "starting", "check", "asleep"},
         NEW l, l \notin {"await", "stopped"}, at' = [at EXCEPT ![t] = l],
         NEW s, s = status[t] \/ s # "RUNNING", status' = [status EXCEPT ![t] = s],
         NEW n, next' = [next EXCEPT ![t] = n],
         UNCHANGED <<threadList, stop, todo, child, held, escaped>>,
         Robbed(y)' <=> Robbed(y), overlapped => overlapped'
  PROVE  StopOK(x, y)'
<1> SUFFICES ASSUME at'[x] \in {"await", "stopped"}, stop[x] # "dump", y # x,
                    y \in threadList
             PROVE  IF y \in held[x]
                      THEN \/ y \in todo[x] \/ status'[y] # "RUNNING"
                           \/ at'[y] = "check" \/ escaped[y] \/ Robbed(y)'
                      ELSE at'[y] = "pulse" \/ Linking(x, y)' \/ overlapped'
  BY DEF StopOK
<1>1. x # t /\ at[x] = at'[x]
  BY DEF TypeOK
<1>2. /\ at[y] = "check" => at'[y] = "check"
      /\ at[y] = "pulse" => at'[y] = "pulse"
      /\ status[y] # "RUNNING" => status'[y] # "RUNNING"
  BY DEF TypeOK
<1>3. Linking(x, y) => Linking(x, y)'
  <2> SUFFICES ASSUME Linking(x, y) PROVE Linking(x, y)'
    OBVIOUS
  <2>1. PICK p \in held[x] : /\ child[p] = y /\ at[p] \in {"check", "asleep"}
                             /\ next[p] = "linked"
    BY DEF Linking
  <2>2. /\ p \in Threads /\ at'[p] = at[p] /\ at'[y] = at[y] /\ next'[p] = next[p]
        /\ status'[y] = status[y]
    BY <2>1 DEF TypeOK, Linking
  <2> QED BY <2>1, <2>2 DEF Linking
<1> QED BY <1>1, <1>2, <1>3 DEF StopOK

\* The invariant is kept when a running thread reaches a safe point.
LEMMA SafePointInv ==
  ASSUME IInv, Recorded, NEW t \in Threads, SafePoint(t)
  PROVE  IInv'
<1> USE NobodyAssumption
<1>1. TypeOK /\ InvOK
  BY DEF IInv
<1>2. CountPos
  BY CountsPositive
<1>0. OverlapOK' /\ (overlapped => overlapped')
  BY RecordedKept
<1>3. TypeOK'
  BY <1>1 DEF TypeOK, Labels, Statuses, Stops, CollectorStops, InvOK, NextOK,
     SafePoint, FullSuspend, Goto, Become, Return, locks, counts, work
<1>4. ASSUME NEW x \in Threads PROVE NextOK(x)'
  <2>1. NextOK(x) /\ NextOK(t)
    BY <1>1 DEF InvOK
  <2>2. TypeOK
    BY <1>1
  <2> QED
    BY <2>1, <2>2 DEF NextOK, TypeOK, SafePoint, FullSuspend, Goto, Become, Return,
       locks, counts, work
<1>5. ASSUME NEW x \in Threads PROVE HeapOK(x)'
  <2>1. HeapOK(x) /\ HeapOK(t) /\ GcOK(t) /\ NextOK(t)
    BY <1>1 DEF InvOK
  <2>2. TypeOK
    BY <1>1
  <2> QED
    BY <2>1, <2>2 DEF HeapOK, GcOK, InGc, NextOK, Place, StopPlaces, ResumePlaces,
       HeapPlaces, Wholes, Pauses, CollectorStops, TypeOK, SafePoint, FullSuspend,
       Goto, Become, Return, locks, counts, work
<1>6. ASSUME NEW x \in Threads PROVE ListOK(x)'
  <2>1. ListOK(x) /\ ListOK(t) /\ NextOK(t)
    BY <1>1 DEF InvOK
  <2>2. TypeOK
    BY <1>1
  <2> QED
    BY <2>1, <2>2 DEF ListOK, NextOK, TypeOK, SafePoint, FullSuspend, Goto, Become,
       Return, locks, counts, work
<1>7. ASSUME NEW x \in Threads PROVE GcOK(x)'
  <2>1. /\ GcOK(x) /\ GcOK(t) /\ OneGc(x, t) /\ HeapOK(t) /\ HeapOK(x)
        /\ NextOK(t)
    BY <1>1 DEF InvOK
  <2>2. TypeOK
    BY <1>1
  <2> QED
    BY <2>1, <2>2 DEF GcOK, InGc, OneGc, HeapOK, NextOK, Place, StopPlaces,
       ResumePlaces, HeapPlaces, Wholes, Pauses, CollectorStops, TypeOK, SafePoint,
       FullSuspend, Goto, Become, Return, locks, counts, work
<1>8. ASSUME NEW x \in Threads, NEW y \in Threads PROVE OneGc(x, y)'
  <2>1. /\ OneGc(x, y) /\ OneGc(x, t) /\ OneGc(t, y) /\ GcOK(x) /\ GcOK(y)
        /\ GcOK(t) /\ NextOK(t)
    BY <1>1 DEF InvOK
  <2>2. TypeOK
    BY <1>1
  <2> QED
    BY <2>1, <2>2 DEF OneGc, GcOK, InGc, NextOK, Place, StopPlaces, ResumePlaces,
       HeapPlaces, Wholes, Pauses, CollectorStops, TypeOK, SafePoint, FullSuspend,
       Goto, Become, Return, locks, counts, work
<1>9. ASSUME NEW x \in Threads PROVE HeldOK(x)'
  <2>1. HeldOK(x) /\ HeldOK(t) /\ ListOK(x) /\ NextOK(t)
    BY <1>1 DEF InvOK
  <2>2. TypeOK
    BY <1>1
  <2> QED
    BY <2>1, <2>2 DEF HeldOK, Suspends, ListOK, NextOK, Place, TypeOK, SafePoint, FullSuspend,
       Goto, Become, Return, locks, counts, work
<1>10. ASSUME NEW x \in Threads PROVE NewOK(x)'
  <2>1. NewOK(x) /\ NewOK(t) /\ ChildOK(t) /\ HeldOK(t) /\ NextOK(t)
    BY <1>1 DEF InvOK
  <2>2. TypeOK
    BY <1>1
  <2> QED
    BY <2>1, <2>2 DEF NewOK, NewPlaces, ChildOK, ParentPlaces, NextOK, Place, TypeOK,
       SafePoint, FullSuspend, Goto, Become, Return, locks, counts, work
<1>11. ASSUME NEW x \in Threads PROVE ChildOK(x)'
  <2>1. /\ ChildOK(x) /\ ChildOK(t) /\ OneParent(x, t) /\ NewOK(t) /\ NewOK(x)
        /\ NextOK(t)
    BY <1>1 DEF InvOK
  <2>2. TypeOK
    BY <1>1
  <2> QED
    BY <2>1, <2>2, <1>1 DEF ChildOK, OneParent, ParentPlaces, NewOK, NewPlaces, NextOK,
       Place, TypeOK, SafePoint, FullSuspend, Goto, Become, Return, locks, counts, work
<1>12. ASSUME NEW x \in Threads, NEW y \in Threads PROVE OneParent(x, y)'
  <2>1. OneParent(x, y) /\ ChildOK(x) /\ ChildOK(y)
    BY <1>1 DEF InvOK
  <2>2. TypeOK
    BY <1>1
  <2> QED
    BY <2>1, <2>2 DEF OneParent, ChildOK, NextOK, TypeOK, SafePoint, FullSuspend, Goto,
       Become, Return, locks, counts, work
<1>13. ASSUME NEW x \in Threads, NEW y \in Threads PROVE StopOK(x, y)'
  <2>1. /\ StopOK(x, y) /\ StopOK(x, t) /\ NewOK(y) /\ NewOK(t) /\ HeapOK(x)
        /\ HeapOK(t) /\ GcOK(x) /\ ListOK(x) /\ ListOK(t) /\ ChildOK(t)
        /\ NextOK(t) /\ HeldOK(x) /\ OneGc(x, t)
    BY <1>1 DEF InvOK
  <2>2. TypeOK
    BY <1>1
  <2>3. Robbed(y)' <=> Robbed(y)
    BY DEF Robbed, Holders, SafePoint, FullSuspend, Goto, Become, Return, locks,
       counts, work
  <2>4. /\ y \in held[x] /\ y \in threadList /\ suspendCount[y] = 0 => Robbed(y)
        /\ t \in held[x] /\ t \in threadList /\ suspendCount[t] = 0 => overlapped
    BY <1>2 DEF CountPos
  <2> QED
    BY <2>1, <2>2, <2>3, <2>4, <1>0, <1>1 DEF StopOK, Linking, NewOK, NewPlaces,
       HeapOK, ListOK, ChildOK, ParentPlaces, NextOK, HeldOK, OneParent, Place,
       StopPlaces, ResumePlaces, HeapPlaces, Wholes, Pauses, CollectorStops, InvOK,
       TypeOK, SafePoint, FullSuspend, Goto, Become, Return, locks, counts, work
<1>14. ASSUME NEW x \in Threads, NEW y \in Threads PROVE SnapOK(x, y)'
  <2>1. /\ SnapOK(x, y) /\ HeldOK(x) /\ ListOK(x) /\ ListOK(t) /\ NewOK(y)
        /\ NextOK(t)
    BY <1>1 DEF InvOK
  <2>2. TypeOK
    BY <1>1
  <2> QED
    BY <2>1, <2>2 DEF SnapOK, HeldOK, ListOK, NewOK, NewPlaces, NextOK,
       TypeOK, SafePoint, FullSuspend, Goto, Become, Return, locks, counts, work
<1>15. ASSUME NEW x \in Threads PROVE Balanced(x)'
  <2>1. Balanced(x)
    BY <1>1 DEF InvOK
  <2>2. UNCHANGED <<suspendCount, held>> /\ threadList' \subseteq threadList
    BY DEF SafePoint, FullSuspend, Goto, Become, Return, locks, counts, work
  <2>3. Holders(x)' = Holders(x)
    BY <2>2 DEF Holders
  <2> QED BY <2>1, <2>2, <2>3, <1>0 DEF Balanced, Robbed
<1> QED
  BY <1>0, <1>3, <1>4, <1>5, <1>6, <1>7, <1>8, <1>9, <1>10, <1>11, <1>12, <1>13, <1>14, <1>15
     DEF IInv, InvOK

\* The invariant is kept when a thread passes the check.
LEMMA CheckedInv ==
  ASSUME IInv, Recorded, NEW t \in Threads, Checked(t)
  PROVE  IInv'
<1> USE NobodyAssumption
<1>1. TypeOK /\ InvOK
  BY DEF IInv
<1>2. CountPos
  BY CountsPositive
<1>0. OverlapOK' /\ (overlapped => overlapped')
  BY RecordedKept
<1>3. TypeOK'
  BY <1>1 DEF TypeOK, Labels, Statuses, Stops, CollectorStops, InvOK, NextOK, Checked,
     Goto, locks, waiting, counts, work
<1>4. ASSUME NEW x \in Threads PROVE NextOK(x)'
  <2>1. NextOK(x) /\ NextOK(t)
    BY <1>1 DEF InvOK
  <2>2. TypeOK
    BY <1>1
  <2> QED
    BY <2>1, <2>2 DEF NextOK, TypeOK, Checked, Goto, locks, waiting, counts, work
<1>5. ASSUME NEW x \in Threads PROVE HeapOK(x)'
  <2>1. HeapOK(x) /\ HeapOK(t) /\ GcOK(t) /\ NextOK(t)
    BY <1>1 DEF InvOK
  <2>2. TypeOK
    BY <1>1
  <2> QED
    BY <2>1, <2>2 DEF HeapOK, GcOK, InGc, NextOK, Place, StopPlaces, ResumePlaces,
       HeapPlaces, Wholes, Pauses, CollectorStops, TypeOK, Checked, Goto, locks,
       waiting, counts, work
<1>6. ASSUME NEW x \in Threads PROVE ListOK(x)'
  <2>1. ListOK(x) /\ ListOK(t) /\ NextOK(t)
    BY <1>1 DEF InvOK
  <2>2. TypeOK
    BY <1>1
  <2> QED
    BY <2>1, <2>2 DEF ListOK, NextOK, TypeOK, Checked, Goto, locks, waiting, counts,
       work
<1>7. ASSUME NEW x \in Threads PROVE GcOK(x)'
  <2>1. /\ GcOK(x) /\ GcOK(t) /\ OneGc(x, t) /\ HeapOK(t) /\ HeapOK(x)
        /\ NextOK(t)
    BY <1>1 DEF InvOK
  <2>2. TypeOK
    BY <1>1
  <2> QED
    BY <2>1, <2>2 DEF GcOK, InGc, OneGc, HeapOK, NextOK, Place, StopPlaces,
       ResumePlaces, HeapPlaces, Wholes, Pauses, CollectorStops, TypeOK, Checked, Goto,
       locks, waiting, counts, work
<1>8. ASSUME NEW x \in Threads, NEW y \in Threads PROVE OneGc(x, y)'
  <2>1. /\ OneGc(x, y) /\ OneGc(x, t) /\ OneGc(t, y) /\ GcOK(x) /\ GcOK(y)
        /\ GcOK(t) /\ NextOK(t)
    BY <1>1 DEF InvOK
  <2>2. TypeOK
    BY <1>1
  <2> QED
    BY <2>1, <2>2 DEF OneGc, GcOK, InGc, NextOK, Place, StopPlaces, ResumePlaces,
       HeapPlaces, Wholes, Pauses, CollectorStops, TypeOK, Checked, Goto, locks,
       waiting, counts, work
<1>9. ASSUME NEW x \in Threads PROVE HeldOK(x)'
  <2>1. HeldOK(x) /\ HeldOK(t) /\ ListOK(x) /\ NextOK(t)
    BY <1>1 DEF InvOK
  <2>2. TypeOK
    BY <1>1
  <2> QED
    BY <2>1, <2>2 DEF HeldOK, Suspends, ListOK, NextOK, Place, TypeOK, Checked, Goto, locks,
       waiting, counts, work
<1>10. ASSUME NEW x \in Threads PROVE NewOK(x)'
  <2>1. NewOK(x) /\ NewOK(t) /\ ChildOK(t) /\ HeldOK(t) /\ NextOK(t)
    BY <1>1 DEF InvOK
  <2>2. TypeOK
    BY <1>1
  <2> QED
    BY <2>1, <2>2 DEF NewOK, NewPlaces, ChildOK, ParentPlaces, NextOK, Place, TypeOK,
       Checked, Goto, locks, waiting, counts, work
<1>11. ASSUME NEW x \in Threads PROVE ChildOK(x)'
  <2>1. /\ ChildOK(x) /\ ChildOK(t) /\ OneParent(x, t) /\ NewOK(t) /\ NewOK(x)
        /\ NextOK(t)
    BY <1>1 DEF InvOK
  <2>2. TypeOK
    BY <1>1
  <2> QED
    BY <2>1, <2>2, <1>1 DEF ChildOK, OneParent, ParentPlaces, NewOK, NewPlaces, NextOK,
       Place, TypeOK, Checked, Goto, locks, waiting, counts, work
<1>12. ASSUME NEW x \in Threads, NEW y \in Threads PROVE OneParent(x, y)'
  <2>1. OneParent(x, y) /\ ChildOK(x) /\ ChildOK(y)
    BY <1>1 DEF InvOK
  <2>2. TypeOK
    BY <1>1
  <2> QED
    BY <2>1, <2>2 DEF OneParent, ChildOK, NextOK, TypeOK, Checked, Goto, locks,
       waiting, counts, work
<1>13. ASSUME NEW x \in Threads, NEW y \in Threads PROVE StopOK(x, y)'
  <2>1. /\ StopOK(x, y) /\ StopOK(x, t) /\ NewOK(y) /\ NewOK(t) /\ HeapOK(x)
        /\ HeapOK(t) /\ GcOK(x) /\ ListOK(x) /\ ListOK(t) /\ ChildOK(t)
        /\ NextOK(t) /\ HeldOK(x) /\ OneGc(x, t)
    BY <1>1 DEF InvOK
  <2>2. TypeOK
    BY <1>1
  <2>3. Robbed(y)' <=> Robbed(y)
    BY DEF Robbed, Holders, Checked, Goto, locks, waiting, counts, work
  <2>4. /\ y \in held[x] /\ y \in threadList /\ suspendCount[y] = 0 => Robbed(y)
        /\ t \in held[x] /\ t \in threadList /\ suspendCount[t] = 0 => overlapped
    BY <1>2 DEF CountPos
  <2> QED
    BY <2>1, <2>2, <2>3, <2>4, <1>0, <1>1 DEF StopOK, Linking, NewOK, NewPlaces,
       HeapOK, ListOK, ChildOK, ParentPlaces, NextOK, HeldOK, OneParent, Place,
       StopPlaces, ResumePlaces, HeapPlaces, Wholes, Pauses, CollectorStops, InvOK,
       TypeOK, Checked, Goto, locks, waiting, counts, work
<1>14. ASSUME NEW x \in Threads, NEW y \in Threads PROVE SnapOK(x, y)'
  <2>1. /\ SnapOK(x, y) /\ HeldOK(x) /\ ListOK(x) /\ ListOK(t) /\ NewOK(y)
        /\ NextOK(t)
    BY <1>1 DEF InvOK
  <2>2. TypeOK
    BY <1>1
  <2> QED
    BY <2>1, <2>2 DEF SnapOK, HeldOK, ListOK, NewOK, NewPlaces, NextOK,
       TypeOK, Checked, Goto, locks, waiting, counts, work
<1>15. ASSUME NEW x \in Threads PROVE Balanced(x)'
  <2>1. Balanced(x)
    BY <1>1 DEF InvOK
  <2>2. UNCHANGED <<suspendCount, held>> /\ threadList' \subseteq threadList
    BY DEF Checked, Goto, locks, waiting, counts, work
  <2>3. Holders(x)' = Holders(x)
    BY <2>2 DEF Holders
  <2> QED BY <2>1, <2>2, <2>3, <1>0 DEF Balanced, Robbed
<1> QED
  BY <1>0, <1>3, <1>4, <1>5, <1>6, <1>7, <1>8, <1>9, <1>10, <1>11, <1>12, <1>13, <1>14, <1>15
     DEF IInv, InvOK

\* The invariant is kept when a thread is suspended at the check.
LEMMA SuspendedAtCheckInv ==
  ASSUME IInv, Recorded, NEW t \in Threads, SuspendedAtCheck(t)
  PROVE  IInv'
<1> USE NobodyAssumption
<1>1. TypeOK /\ InvOK
  BY DEF IInv
<1>2. CountPos
  BY CountsPositive
<1>0. OverlapOK' /\ (overlapped => overlapped')
  BY RecordedKept
<1>3. TypeOK'
  BY <1>1 DEF TypeOK, Labels, Statuses, Stops, CollectorStops, InvOK, NextOK,
     SuspendedAtCheck, FullSuspend, Goto, Become, Return, locks, counts, work
<1>4. ASSUME NEW x \in Threads PROVE NextOK(x)'
  <2>1. NextOK(x) /\ NextOK(t)
    BY <1>1 DEF InvOK
  <2>2. TypeOK
    BY <1>1
  <2> QED
    BY <2>1, <2>2 DEF NextOK, TypeOK, SuspendedAtCheck, FullSuspend, Goto, Become,
       Return, locks, counts, work
<1>5. ASSUME NEW x \in Threads PROVE HeapOK(x)'
  <2>1. HeapOK(x) /\ HeapOK(t) /\ GcOK(t) /\ NextOK(t)
    BY <1>1 DEF InvOK
  <2>2. TypeOK
    BY <1>1
  <2> QED
    BY <2>1, <2>2 DEF HeapOK, GcOK, InGc, NextOK, Place, StopPlaces, ResumePlaces,
       HeapPlaces, Wholes, Pauses, CollectorStops, TypeOK, SuspendedAtCheck,
       FullSuspend, Goto, Become, Return, locks, counts, work
<1>6. ASSUME NEW x \in Threads PROVE ListOK(x)'
  <2>1. ListOK(x) /\ ListOK(t) /\ NextOK(t)
    BY <1>1 DEF InvOK
  <2>2. TypeOK
    BY <1>1
  <2> QED
    BY <2>1, <2>2 DEF ListOK, NextOK, TypeOK, SuspendedAtCheck, FullSuspend, Goto,
       Become, Return, locks, counts, work
<1>7. ASSUME NEW x \in Threads PROVE GcOK(x)'
  <2>1. /\ GcOK(x) /\ GcOK(t) /\ OneGc(x, t) /\ HeapOK(t) /\ HeapOK(x)
        /\ NextOK(t)
    BY <1>1 DEF InvOK
  <2>2. TypeOK
    BY <1>1
  <2> QED
    BY <2>1, <2>2 DEF GcOK, InGc, OneGc, HeapOK, NextOK, Place, StopPlaces,
       ResumePlaces, HeapPlaces, Wholes, Pauses, CollectorStops, TypeOK,
       SuspendedAtCheck, FullSuspend, Goto, Become, Return, locks, counts, work
<1>8. ASSUME NEW x \in Threads, NEW y \in Threads PROVE OneGc(x, y)'
  <2>1. /\ OneGc(x, y) /\ OneGc(x, t) /\ OneGc(t, y) /\ GcOK(x) /\ GcOK(y)
        /\ GcOK(t) /\ NextOK(t)
    BY <1>1 DEF InvOK
  <2>2. TypeOK
    BY <1>1
  <2> QED
    BY <2>1, <2>2 DEF OneGc, GcOK, InGc, NextOK, Place, StopPlaces, ResumePlaces,
       HeapPlaces, Wholes, Pauses, CollectorStops, TypeOK, SuspendedAtCheck,
       FullSuspend, Goto, Become, Return, locks, counts, work
<1>9. ASSUME NEW x \in Threads PROVE HeldOK(x)'
  <2>1. HeldOK(x) /\ HeldOK(t) /\ ListOK(x) /\ NextOK(t)
    BY <1>1 DEF InvOK
  <2>2. TypeOK
    BY <1>1
  <2> QED
    BY <2>1, <2>2 DEF HeldOK, Suspends, ListOK, NextOK, Place, TypeOK, SuspendedAtCheck,
       FullSuspend, Goto, Become, Return, locks, counts, work
<1>10. ASSUME NEW x \in Threads PROVE NewOK(x)'
  <2>1. NewOK(x) /\ NewOK(t) /\ ChildOK(t) /\ HeldOK(t) /\ NextOK(t)
    BY <1>1 DEF InvOK
  <2>2. TypeOK
    BY <1>1
  <2> QED
    BY <2>1, <2>2 DEF NewOK, NewPlaces, ChildOK, ParentPlaces, NextOK, Place, TypeOK,
       SuspendedAtCheck, FullSuspend, Goto, Become, Return, locks, counts, work
<1>11. ASSUME NEW x \in Threads PROVE ChildOK(x)'
  <2>1. /\ ChildOK(x) /\ ChildOK(t) /\ OneParent(x, t) /\ NewOK(t) /\ NewOK(x)
        /\ NextOK(t)
    BY <1>1 DEF InvOK
  <2>2. TypeOK
    BY <1>1
  <2> QED
    BY <2>1, <2>2, <1>1 DEF ChildOK, OneParent, ParentPlaces, NewOK, NewPlaces, NextOK,
       Place, TypeOK, SuspendedAtCheck, FullSuspend, Goto, Become, Return, locks,
       counts, work
<1>12. ASSUME NEW x \in Threads, NEW y \in Threads PROVE OneParent(x, y)'
  <2>1. OneParent(x, y) /\ ChildOK(x) /\ ChildOK(y)
    BY <1>1 DEF InvOK
  <2>2. TypeOK
    BY <1>1
  <2> QED
    BY <2>1, <2>2 DEF OneParent, ChildOK, NextOK, TypeOK, SuspendedAtCheck,
       FullSuspend, Goto, Become, Return, locks, counts, work
<1>13. ASSUME NEW x \in Threads, NEW y \in Threads PROVE StopOK(x, y)'
  <2>1. /\ StopOK(x, y) /\ StopOK(x, t) /\ NewOK(y) /\ NewOK(t) /\ HeapOK(x)
        /\ HeapOK(t) /\ GcOK(x) /\ ListOK(x) /\ ListOK(t) /\ ChildOK(t)
        /\ NextOK(t) /\ HeldOK(x) /\ OneGc(x, t)
    BY <1>1 DEF InvOK
  <2>2. TypeOK
    BY <1>1
  <2>3. Robbed(y)' <=> Robbed(y)
    BY DEF Robbed, Holders, SuspendedAtCheck, FullSuspend, Goto, Become, Return, locks,
       counts, work
  <2>4. /\ y \in held[x] /\ y \in threadList /\ suspendCount[y] = 0 => Robbed(y)
        /\ t \in held[x] /\ t \in threadList /\ suspendCount[t] = 0 => overlapped
    BY <1>2 DEF CountPos
  <2> QED
    BY <2>1, <2>2, <2>3, <2>4, <1>0, <1>1 DEF StopOK, Linking, NewOK, NewPlaces,
       HeapOK, ListOK, ChildOK, ParentPlaces, NextOK, HeldOK, OneParent, Place,
       StopPlaces, ResumePlaces, HeapPlaces, Wholes, Pauses, CollectorStops, InvOK,
       TypeOK, SuspendedAtCheck, FullSuspend, Goto, Become, Return, locks, counts, work
<1>14. ASSUME NEW x \in Threads, NEW y \in Threads PROVE SnapOK(x, y)'
  <2>1. /\ SnapOK(x, y) /\ HeldOK(x) /\ ListOK(x) /\ ListOK(t) /\ NewOK(y)
        /\ NextOK(t)
    BY <1>1 DEF InvOK
  <2>2. TypeOK
    BY <1>1
  <2> QED
    BY <2>1, <2>2 DEF SnapOK, HeldOK, ListOK, NewOK, NewPlaces, NextOK,
       TypeOK, SuspendedAtCheck, FullSuspend, Goto, Become, Return, locks, counts, work
<1>15. ASSUME NEW x \in Threads PROVE Balanced(x)'
  <2>1. Balanced(x)
    BY <1>1 DEF InvOK
  <2>2. UNCHANGED <<suspendCount, held>> /\ threadList' \subseteq threadList
    BY DEF SuspendedAtCheck, FullSuspend, Goto, Become, Return, locks, counts, work
  <2>3. Holders(x)' = Holders(x)
    BY <2>2 DEF Holders
  <2> QED BY <2>1, <2>2, <2>3, <1>0 DEF Balanced, Robbed
<1> QED
  BY <1>0, <1>3, <1>4, <1>5, <1>6, <1>7, <1>8, <1>9, <1>10, <1>11, <1>12, <1>13, <1>14, <1>15
     DEF IInv, InvOK

\* The invariant is kept when a thread gets up.
LEMMA ResumedInv ==
  ASSUME IInv, Recorded, NEW t \in Threads, Resumed(t)
  PROVE  IInv'
<1> USE NobodyAssumption
<1>1. TypeOK /\ InvOK
  BY DEF IInv
<1>2. CountPos
  BY CountsPositive
<1>0. OverlapOK' /\ (overlapped => overlapped')
  BY RecordedKept
<1>3. TypeOK'
  BY <1>1 DEF TypeOK, Labels, Statuses, Stops, CollectorStops, InvOK, NextOK, Resumed,
     Goto, Become, locks, waiting, counts, work
<1>4. ASSUME NEW x \in Threads PROVE NextOK(x)'
  <2>1. NextOK(x) /\ NextOK(t)
    BY <1>1 DEF InvOK
  <2>2. TypeOK
    BY <1>1
  <2> QED
    BY <2>1, <2>2 DEF NextOK, TypeOK, Resumed, Goto, Become, locks, waiting, counts,
       work
<1>5. ASSUME NEW x \in Threads PROVE HeapOK(x)'
  <2>1. HeapOK(x) /\ HeapOK(t) /\ GcOK(t) /\ NextOK(t)
    BY <1>1 DEF InvOK
  <2>2. TypeOK
    BY <1>1
  <2> QED
    BY <2>1, <2>2 DEF HeapOK, GcOK, InGc, NextOK, Place, StopPlaces, ResumePlaces,
       HeapPlaces, Wholes, Pauses, CollectorStops, TypeOK, Resumed, Goto, Become,
       locks, waiting, counts, work
<1>6. ASSUME NEW x \in Threads PROVE ListOK(x)'
  <2>1. ListOK(x) /\ ListOK(t) /\ NextOK(t)
    BY <1>1 DEF InvOK
  <2>2. TypeOK
    BY <1>1
  <2> QED
    BY <2>1, <2>2 DEF ListOK, NextOK, TypeOK, Resumed, Goto, Become, locks, waiting,
       counts, work
<1>7. ASSUME NEW x \in Threads PROVE GcOK(x)'
  <2>1. /\ GcOK(x) /\ GcOK(t) /\ OneGc(x, t) /\ HeapOK(t) /\ HeapOK(x)
        /\ NextOK(t)
    BY <1>1 DEF InvOK
  <2>2. TypeOK
    BY <1>1
  <2> QED
    BY <2>1, <2>2 DEF GcOK, InGc, OneGc, HeapOK, NextOK, Place, StopPlaces,
       ResumePlaces, HeapPlaces, Wholes, Pauses, CollectorStops, TypeOK, Resumed, Goto,
       Become, locks, waiting, counts, work
<1>8. ASSUME NEW x \in Threads, NEW y \in Threads PROVE OneGc(x, y)'
  <2>1. /\ OneGc(x, y) /\ OneGc(x, t) /\ OneGc(t, y) /\ GcOK(x) /\ GcOK(y)
        /\ GcOK(t) /\ NextOK(t)
    BY <1>1 DEF InvOK
  <2>2. TypeOK
    BY <1>1
  <2> QED
    BY <2>1, <2>2 DEF OneGc, GcOK, InGc, NextOK, Place, StopPlaces, ResumePlaces,
       HeapPlaces, Wholes, Pauses, CollectorStops, TypeOK, Resumed, Goto, Become,
       locks, waiting, counts, work
<1>9. ASSUME NEW x \in Threads PROVE HeldOK(x)'
  <2>1. HeldOK(x) /\ HeldOK(t) /\ ListOK(x) /\ NextOK(t)
    BY <1>1 DEF InvOK
  <2>2. TypeOK
    BY <1>1
  <2> QED
    BY <2>1, <2>2 DEF HeldOK, Suspends, ListOK, NextOK, Place, TypeOK, Resumed, Goto, Become,
       locks, waiting, counts, work
<1>10. ASSUME NEW x \in Threads PROVE NewOK(x)'
  <2>1. NewOK(x) /\ NewOK(t) /\ ChildOK(t) /\ HeldOK(t) /\ NextOK(t)
    BY <1>1 DEF InvOK
  <2>2. TypeOK
    BY <1>1
  <2> QED
    BY <2>1, <2>2 DEF NewOK, NewPlaces, ChildOK, ParentPlaces, NextOK, Place, TypeOK,
       Resumed, Goto, Become, locks, waiting, counts, work
<1>11. ASSUME NEW x \in Threads PROVE ChildOK(x)'
  <2>1. /\ ChildOK(x) /\ ChildOK(t) /\ OneParent(x, t) /\ NewOK(t) /\ NewOK(x)
        /\ NextOK(t)
    BY <1>1 DEF InvOK
  <2>2. TypeOK
    BY <1>1
  <2> QED
    BY <2>1, <2>2, <1>1 DEF ChildOK, OneParent, ParentPlaces, NewOK, NewPlaces, NextOK,
       Place, TypeOK, Resumed, Goto, Become, locks, waiting, counts, work
<1>12. ASSUME NEW x \in Threads, NEW y \in Threads PROVE OneParent(x, y)'
  <2>1. OneParent(x, y) /\ ChildOK(x) /\ ChildOK(y)
    BY <1>1 DEF InvOK
  <2>2. TypeOK
    BY <1>1
  <2> QED
    BY <2>1, <2>2 DEF OneParent, ChildOK, NextOK, TypeOK, Resumed, Goto, Become, locks,
       waiting, counts, work
<1>13. ASSUME NEW x \in Threads, NEW y \in Threads PROVE StopOK(x, y)'
  <2>1. /\ StopOK(x, y) /\ StopOK(x, t) /\ NewOK(y) /\ NewOK(t) /\ HeapOK(x)
        /\ HeapOK(t) /\ GcOK(x) /\ ListOK(x) /\ ListOK(t) /\ ChildOK(t)
        /\ NextOK(t) /\ HeldOK(x) /\ OneGc(x, t)
    BY <1>1 DEF InvOK
  <2>2. TypeOK
    BY <1>1
  <2>3. Robbed(y)' <=> Robbed(y)
    BY DEF Robbed, Holders, Resumed, Goto, Become, locks, waiting, counts, work
  <2>4. /\ y \in held[x] /\ y \in threadList /\ suspendCount[y] = 0 => Robbed(y)
        /\ t \in held[x] /\ t \in threadList /\ suspendCount[t] = 0 => overlapped
    BY <1>2 DEF CountPos
  <2> QED
    BY <2>1, <2>2, <2>3, <2>4, <1>0, <1>1 DEF StopOK, Linking, NewOK, NewPlaces,
       HeapOK, ListOK, ChildOK, ParentPlaces, NextOK, HeldOK, OneParent, Place,
       StopPlaces, ResumePlaces, HeapPlaces, Wholes, Pauses, CollectorStops, InvOK,
       TypeOK, Resumed, Goto, Become, locks, waiting, counts, work
<1>14. ASSUME NEW x \in Threads, NEW y \in Threads PROVE SnapOK(x, y)'
  <2>1. /\ SnapOK(x, y) /\ HeldOK(x) /\ ListOK(x) /\ ListOK(t) /\ NewOK(y)
        /\ NextOK(t)
    BY <1>1 DEF InvOK
  <2>2. TypeOK
    BY <1>1
  <2> QED
    BY <2>1, <2>2 DEF SnapOK, HeldOK, ListOK, NewOK, NewPlaces, NextOK,
       TypeOK, Resumed, Goto, Become, locks, waiting, counts, work
<1>15. ASSUME NEW x \in Threads PROVE Balanced(x)'
  <2>1. Balanced(x)
    BY <1>1 DEF InvOK
  <2>2. UNCHANGED <<suspendCount, held>> /\ threadList' \subseteq threadList
    BY DEF Resumed, Goto, Become, locks, waiting, counts, work
  <2>3. Holders(x)' = Holders(x)
    BY <2>2 DEF Holders
  <2> QED BY <2>1, <2>2, <2>3, <1>0 DEF Balanced, Robbed
<1> QED
  BY <1>0, <1>3, <1>4, <1>5, <1>6, <1>7, <1>8, <1>9, <1>10, <1>11, <1>12, <1>13, <1>14, <1>15
     DEF IInv, InvOK

\* The invariant is kept when a thread sleeps again.
LEMMA SleepAgainInv ==
  ASSUME IInv, Recorded, NEW t \in Threads, SleepAgain(t)
  PROVE  IInv'
<1> USE NobodyAssumption
<1>1. TypeOK /\ InvOK
  BY DEF IInv
<1>2. CountPos
  BY CountsPositive
<1>0. OverlapOK' /\ (overlapped => overlapped')
  BY RecordedKept
<1>3. TypeOK'
  BY <1>1 DEF TypeOK, Labels, Statuses, Stops, CollectorStops, InvOK, NextOK,
     SleepAgain, locks, counts, work
<1>4. ASSUME NEW x \in Threads PROVE NextOK(x)'
  <2>1. NextOK(x) /\ NextOK(t)
    BY <1>1 DEF InvOK
  <2>2. TypeOK
    BY <1>1
  <2> QED
    BY <2>1, <2>2 DEF NextOK, TypeOK, SleepAgain, locks, counts, work
<1>5. ASSUME NEW x \in Threads PROVE HeapOK(x)'
  <2>1. HeapOK(x) /\ HeapOK(t) /\ GcOK(t) /\ NextOK(t)
    BY <1>1 DEF InvOK
  <2>2. TypeOK
    BY <1>1
  <2> QED
    BY <2>1, <2>2 DEF HeapOK, GcOK, InGc, NextOK, Place, StopPlaces, ResumePlaces,
       HeapPlaces, Wholes, Pauses, CollectorStops, TypeOK, SleepAgain, locks, counts,
       work
<1>6. ASSUME NEW x \in Threads PROVE ListOK(x)'
  <2>1. ListOK(x) /\ ListOK(t) /\ NextOK(t)
    BY <1>1 DEF InvOK
  <2>2. TypeOK
    BY <1>1
  <2> QED
    BY <2>1, <2>2 DEF ListOK, NextOK, TypeOK, SleepAgain, locks, counts, work
<1>7. ASSUME NEW x \in Threads PROVE GcOK(x)'
  <2>1. /\ GcOK(x) /\ GcOK(t) /\ OneGc(x, t) /\ HeapOK(t) /\ HeapOK(x)
        /\ NextOK(t)
    BY <1>1 DEF InvOK
  <2>2. TypeOK
    BY <1>1
  <2> QED
    BY <2>1, <2>2 DEF GcOK, InGc, OneGc, HeapOK, NextOK, Place, StopPlaces,
       ResumePlaces, HeapPlaces, Wholes, Pauses, CollectorStops, TypeOK, SleepAgain,
       locks, counts, work
<1>8. ASSUME NEW x \in Threads, NEW y \in Threads PROVE OneGc(x, y)'
  <2>1. /\ OneGc(x, y) /\ OneGc(x, t) /\ OneGc(t, y) /\ GcOK(x) /\ GcOK(y)
        /\ GcOK(t) /\ NextOK(t)
    BY <1>1 DEF InvOK
  <2>2. TypeOK
    BY <1>1
  <2> QED
    BY <2>1, <2>2 DEF OneGc, GcOK, InGc, NextOK, Place, StopPlaces, ResumePlaces,
       HeapPlaces, Wholes, Pauses, CollectorStops, TypeOK, SleepAgain, locks, counts,
       work
<1>9. ASSUME NEW x \in Threads PROVE HeldOK(x)'
  <2>1. HeldOK(x) /\ HeldOK(t) /\ ListOK(x) /\ NextOK(t)
    BY <1>1 DEF InvOK
  <2>2. TypeOK
    BY <1>1
  <2> QED
    BY <2>1, <2>2 DEF HeldOK, Suspends, ListOK, NextOK, Place, TypeOK, SleepAgain, locks, counts,
       work
<1>10. ASSUME NEW x \in Threads PROVE NewOK(x)'
  <2>1. NewOK(x) /\ NewOK(t) /\ ChildOK(t) /\ HeldOK(t) /\ NextOK(t)
    BY <1>1 DEF InvOK
  <2>2. TypeOK
    BY <1>1
  <2> QED
    BY <2>1, <2>2 DEF NewOK, NewPlaces, ChildOK, ParentPlaces, NextOK, Place, TypeOK,
       SleepAgain, locks, counts, work
<1>11. ASSUME NEW x \in Threads PROVE ChildOK(x)'
  <2>1. /\ ChildOK(x) /\ ChildOK(t) /\ OneParent(x, t) /\ NewOK(t) /\ NewOK(x)
        /\ NextOK(t)
    BY <1>1 DEF InvOK
  <2>2. TypeOK
    BY <1>1
  <2> QED
    BY <2>1, <2>2, <1>1 DEF ChildOK, OneParent, ParentPlaces, NewOK, NewPlaces, NextOK,
       Place, TypeOK, SleepAgain, locks, counts, work
<1>12. ASSUME NEW x \in Threads, NEW y \in Threads PROVE OneParent(x, y)'
  <2>1. OneParent(x, y) /\ ChildOK(x) /\ ChildOK(y)
    BY <1>1 DEF InvOK
  <2>2. TypeOK
    BY <1>1
  <2> QED
    BY <2>1, <2>2 DEF OneParent, ChildOK, NextOK, TypeOK, SleepAgain, locks, counts,
       work
<1>13. ASSUME NEW x \in Threads, NEW y \in Threads PROVE StopOK(x, y)'
  <2>1. /\ StopOK(x, y) /\ StopOK(x, t) /\ NewOK(y) /\ NewOK(t) /\ HeapOK(x)
        /\ HeapOK(t) /\ GcOK(x) /\ ListOK(x) /\ ListOK(t) /\ ChildOK(t)
        /\ NextOK(t) /\ HeldOK(x) /\ OneGc(x, t)
    BY <1>1 DEF InvOK
  <2>2. TypeOK
    BY <1>1
  <2>3. Robbed(y)' <=> Robbed(y)
    BY DEF Robbed, Holders, SleepAgain, locks, counts, work
  <2>4. /\ y \in held[x] /\ y \in threadList /\ suspendCount[y] = 0 => Robbed(y)
        /\ t \in held[x] /\ t \in threadList /\ suspendCount[t] = 0 => overlapped
    BY <1>2 DEF CountPos
  <2> QED
    BY <2>1, <2>2, <2>3, <2>4, <1>0, <1>1 DEF StopOK, Linking, NewOK, NewPlaces,
       HeapOK, ListOK, ChildOK, ParentPlaces, NextOK, HeldOK, OneParent, Place,
       StopPlaces, ResumePlaces, HeapPlaces, Wholes, Pauses, CollectorStops, InvOK,
       TypeOK, SleepAgain, locks, counts, work
<1>14. ASSUME NEW x \in Threads, NEW y \in Threads PROVE SnapOK(x, y)'
  <2>1. /\ SnapOK(x, y) /\ HeldOK(x) /\ ListOK(x) /\ ListOK(t) /\ NewOK(y)
        /\ NextOK(t)
    BY <1>1 DEF InvOK
  <2>2. TypeOK
    BY <1>1
  <2> QED
    BY <2>1, <2>2 DEF SnapOK, HeldOK, ListOK, NewOK, NewPlaces, NextOK,
       TypeOK, SleepAgain, locks, counts, work
<1>15. ASSUME NEW x \in Threads PROVE Balanced(x)'
  <2>1. Balanced(x)
    BY <1>1 DEF InvOK
  <2>2. UNCHANGED <<suspendCount, held>> /\ threadList' \subseteq threadList
    BY DEF SleepAgain, locks, counts, work
  <2>3. Holders(x)' = Holders(x)
    BY <2>2 DEF Holders
  <2> QED BY <2>1, <2>2, <2>3, <1>0 DEF Balanced, Robbed
<1> QED
  BY <1>0, <1>3, <1>4, <1>5, <1>6, <1>7, <1>8, <1>9, <1>10, <1>11, <1>12, <1>13, <1>14, <1>15
     DEF IInv, InvOK

\* The invariant is kept when a native method is called.
LEMMA ToNativeInv ==
  ASSUME IInv, Recorded, NEW t \in Threads, ToNative(t)
  PROVE  IInv'
<1> USE NobodyAssumption
<1>1. TypeOK /\ InvOK
  BY DEF IInv
<1>2. CountPos
  BY CountsPositive
<1>0. OverlapOK' /\ (overlapped => overlapped')
  BY RecordedKept
<1>3. TypeOK'
  BY <1>1 DEF TypeOK, Labels, Statuses, Stops, CollectorStops, InvOK, NextOK, ToNative,
     Goto, Become, locks, waiting, counts, work, Starts
<1>4. ASSUME NEW x \in Threads PROVE NextOK(x)'
  <2>1. NextOK(x) /\ NextOK(t)
    BY <1>1 DEF InvOK
  <2>2. TypeOK
    BY <1>1
  <2> QED
    BY <2>1, <2>2 DEF NextOK, TypeOK, ToNative, Goto, Become, locks, waiting, counts,
       work, Starts
<1>5. ASSUME NEW x \in Threads PROVE HeapOK(x)'
  <2>1. HeapOK(x) /\ HeapOK(t) /\ GcOK(t) /\ NextOK(t)
    BY <1>1 DEF InvOK
  <2>2. TypeOK
    BY <1>1
  <2> QED
    BY <2>1, <2>2 DEF HeapOK, GcOK, InGc, NextOK, Place, StopPlaces, ResumePlaces,
       HeapPlaces, Wholes, Pauses, CollectorStops, TypeOK, ToNative, Goto, Become,
       locks, waiting, counts, work, Starts
<1>6. ASSUME NEW x \in Threads PROVE ListOK(x)'
  <2>1. ListOK(x) /\ ListOK(t) /\ NextOK(t)
    BY <1>1 DEF InvOK
  <2>2. TypeOK
    BY <1>1
  <2> QED
    BY <2>1, <2>2 DEF ListOK, NextOK, TypeOK, ToNative, Goto, Become, locks, waiting,
       counts, work, Starts
<1>7. ASSUME NEW x \in Threads PROVE GcOK(x)'
  <2>1. /\ GcOK(x) /\ GcOK(t) /\ OneGc(x, t) /\ HeapOK(t) /\ HeapOK(x)
        /\ NextOK(t)
    BY <1>1 DEF InvOK
  <2>2. TypeOK
    BY <1>1
  <2> QED
    BY <2>1, <2>2 DEF GcOK, InGc, OneGc, HeapOK, NextOK, Place, StopPlaces,
       ResumePlaces, HeapPlaces, Wholes, Pauses, CollectorStops, TypeOK, ToNative,
       Goto, Become, locks, waiting, counts, work, Starts
<1>8. ASSUME NEW x \in Threads, NEW y \in Threads PROVE OneGc(x, y)'
  <2>1. /\ OneGc(x, y) /\ OneGc(x, t) /\ OneGc(t, y) /\ GcOK(x) /\ GcOK(y)
        /\ GcOK(t) /\ NextOK(t)
    BY <1>1 DEF InvOK
  <2>2. TypeOK
    BY <1>1
  <2> QED
    BY <2>1, <2>2 DEF OneGc, GcOK, InGc, NextOK, Place, StopPlaces, ResumePlaces,
       HeapPlaces, Wholes, Pauses, CollectorStops, TypeOK, ToNative, Goto, Become,
       locks, waiting, counts, work, Starts
<1>9. ASSUME NEW x \in Threads PROVE HeldOK(x)'
  <2>1. HeldOK(x) /\ HeldOK(t) /\ ListOK(x) /\ NextOK(t)
    BY <1>1 DEF InvOK
  <2>2. TypeOK
    BY <1>1
  <2> QED
    BY <2>1, <2>2 DEF HeldOK, Suspends, ListOK, NextOK, Place, TypeOK, ToNative, Goto, Become,
       locks, waiting, counts, work, Starts
<1>10. ASSUME NEW x \in Threads PROVE NewOK(x)'
  <2>1. NewOK(x) /\ NewOK(t) /\ ChildOK(t) /\ HeldOK(t) /\ NextOK(t)
    BY <1>1 DEF InvOK
  <2>2. TypeOK
    BY <1>1
  <2> QED
    BY <2>1, <2>2 DEF NewOK, NewPlaces, ChildOK, ParentPlaces, NextOK, Place, TypeOK,
       ToNative, Goto, Become, locks, waiting, counts, work, Starts
<1>11. ASSUME NEW x \in Threads PROVE ChildOK(x)'
  <2>1. /\ ChildOK(x) /\ ChildOK(t) /\ OneParent(x, t) /\ NewOK(t) /\ NewOK(x)
        /\ NextOK(t)
    BY <1>1 DEF InvOK
  <2>2. TypeOK
    BY <1>1
  <2> QED
    BY <2>1, <2>2, <1>1 DEF ChildOK, OneParent, ParentPlaces, NewOK, NewPlaces, NextOK,
       Place, TypeOK, ToNative, Goto, Become, locks, waiting, counts, work, Starts
<1>12. ASSUME NEW x \in Threads, NEW y \in Threads PROVE OneParent(x, y)'
  <2>1. OneParent(x, y) /\ ChildOK(x) /\ ChildOK(y)
    BY <1>1 DEF InvOK
  <2>2. TypeOK
    BY <1>1
  <2> QED
    BY <2>1, <2>2 DEF OneParent, ChildOK, NextOK, TypeOK, ToNative, Goto, Become,
       locks, waiting, counts, work, Starts
<1>13. ASSUME NEW x \in Threads, NEW y \in Threads PROVE StopOK(x, y)'
  <2>1. /\ StopOK(x, y) /\ StopOK(x, t) /\ NewOK(y) /\ NewOK(t) /\ HeapOK(x)
        /\ HeapOK(t) /\ GcOK(x) /\ ListOK(x) /\ ListOK(t) /\ ChildOK(t)
        /\ NextOK(t) /\ HeldOK(x) /\ OneGc(x, t)
    BY <1>1 DEF InvOK
  <2>2. TypeOK
    BY <1>1
  <2>3. Robbed(y)' <=> Robbed(y)
    BY DEF Robbed, Holders, ToNative, Goto, Become, locks, waiting, counts, work,
       Starts
  <2>4. /\ y \in held[x] /\ y \in threadList /\ suspendCount[y] = 0 => Robbed(y)
        /\ t \in held[x] /\ t \in threadList /\ suspendCount[t] = 0 => overlapped
    BY <1>2 DEF CountPos
  <2> QED
    BY <2>1, <2>2, <2>3, <2>4, <1>0, <1>1 DEF StopOK, Linking, NewOK, NewPlaces,
       HeapOK, ListOK, ChildOK, ParentPlaces, NextOK, HeldOK, OneParent, Place,
       StopPlaces, ResumePlaces, HeapPlaces, Wholes, Pauses, CollectorStops, InvOK,
       TypeOK, ToNative, Goto, Become, locks, waiting, counts, work, Starts
<1>14. ASSUME NEW x \in Threads, NEW y \in Threads PROVE SnapOK(x, y)'
  <2>1. /\ SnapOK(x, y) /\ HeldOK(x) /\ ListOK(x) /\ ListOK(t) /\ NewOK(y)
        /\ NextOK(t)
    BY <1>1 DEF InvOK
  <2>2. TypeOK
    BY <1>1
  <2> QED
    BY <2>1, <2>2 DEF SnapOK, HeldOK, ListOK, NewOK, NewPlaces, NextOK,
       TypeOK, ToNative, Goto, Become, locks, waiting, counts, work, Starts
<1>15. ASSUME NEW x \in Threads PROVE Balanced(x)'
  <2>1. Balanced(x)
    BY <1>1 DEF InvOK
  <2>2. UNCHANGED <<suspendCount, held>> /\ threadList' \subseteq threadList
    BY DEF ToNative, Goto, Become, locks, waiting, counts, work, Starts
  <2>3. Holders(x)' = Holders(x)
    BY <2>2 DEF Holders
  <2> QED BY <2>1, <2>2, <2>3, <1>0 DEF Balanced, Robbed
<1> QED
  BY <1>0, <1>3, <1>4, <1>5, <1>6, <1>7, <1>8, <1>9, <1>10, <1>11, <1>12, <1>13, <1>14, <1>15
     DEF IInv, InvOK

\* The invariant is kept when native code returns.
LEMMA FromNativeInv ==
  ASSUME IInv, Recorded, NEW t \in Threads, FromNative(t)
  PROVE  IInv'
<1> USE NobodyAssumption
<1>1. TypeOK /\ InvOK
  BY DEF IInv
<1>2. CountPos
  BY CountsPositive
<1>0. OverlapOK' /\ (overlapped => overlapped')
  BY RecordedKept
<1>3. TypeOK'
  BY <1>1 DEF TypeOK, Labels, Statuses, Stops, CollectorStops, InvOK, NextOK,
     FromNative, Revive, Goto, Become, Return, locks, waiting, counts, work
<1>4. ASSUME NEW x \in Threads PROVE NextOK(x)'
  <2>1. NextOK(x) /\ NextOK(t)
    BY <1>1 DEF InvOK
  <2>2. TypeOK
    BY <1>1
  <2> QED
    BY <2>1, <2>2 DEF NextOK, TypeOK, FromNative, Revive, Goto, Become, Return, locks,
       waiting, counts, work
<1>5. ASSUME NEW x \in Threads PROVE HeapOK(x)'
  <2>1. HeapOK(x) /\ HeapOK(t) /\ GcOK(t) /\ NextOK(t)
    BY <1>1 DEF InvOK
  <2>2. TypeOK
    BY <1>1
  <2> QED
    BY <2>1, <2>2 DEF HeapOK, GcOK, InGc, NextOK, Place, StopPlaces, ResumePlaces,
       HeapPlaces, Wholes, Pauses, CollectorStops, TypeOK, FromNative, Revive, Goto,
       Become, Return, locks, waiting, counts, work
<1>6. ASSUME NEW x \in Threads PROVE ListOK(x)'
  <2>1. ListOK(x) /\ ListOK(t) /\ NextOK(t)
    BY <1>1 DEF InvOK
  <2>2. TypeOK
    BY <1>1
  <2> QED
    BY <2>1, <2>2 DEF ListOK, NextOK, TypeOK, FromNative, Revive, Goto, Become, Return,
       locks, waiting, counts, work
<1>7. ASSUME NEW x \in Threads PROVE GcOK(x)'
  <2>1. /\ GcOK(x) /\ GcOK(t) /\ OneGc(x, t) /\ HeapOK(t) /\ HeapOK(x)
        /\ NextOK(t)
    BY <1>1 DEF InvOK
  <2>2. TypeOK
    BY <1>1
  <2> QED
    BY <2>1, <2>2 DEF GcOK, InGc, OneGc, HeapOK, NextOK, Place, StopPlaces,
       ResumePlaces, HeapPlaces, Wholes, Pauses, CollectorStops, TypeOK, FromNative,
       Revive, Goto, Become, Return, locks, waiting, counts, work
<1>8. ASSUME NEW x \in Threads, NEW y \in Threads PROVE OneGc(x, y)'
  <2>1. /\ OneGc(x, y) /\ OneGc(x, t) /\ OneGc(t, y) /\ GcOK(x) /\ GcOK(y)
        /\ GcOK(t) /\ NextOK(t)
    BY <1>1 DEF InvOK
  <2>2. TypeOK
    BY <1>1
  <2> QED
    BY <2>1, <2>2 DEF OneGc, GcOK, InGc, NextOK, Place, StopPlaces, ResumePlaces,
       HeapPlaces, Wholes, Pauses, CollectorStops, TypeOK, FromNative, Revive, Goto,
       Become, Return, locks, waiting, counts, work
<1>9. ASSUME NEW x \in Threads PROVE HeldOK(x)'
  <2>1. HeldOK(x) /\ HeldOK(t) /\ ListOK(x) /\ NextOK(t)
    BY <1>1 DEF InvOK
  <2>2. TypeOK
    BY <1>1
  <2> QED
    BY <2>1, <2>2 DEF HeldOK, Suspends, ListOK, NextOK, Place, TypeOK, FromNative, Revive, Goto,
       Become, Return, locks, waiting, counts, work
<1>10. ASSUME NEW x \in Threads PROVE NewOK(x)'
  <2>1. NewOK(x) /\ NewOK(t) /\ ChildOK(t) /\ HeldOK(t) /\ NextOK(t)
    BY <1>1 DEF InvOK
  <2>2. TypeOK
    BY <1>1
  <2> QED
    BY <2>1, <2>2 DEF NewOK, NewPlaces, ChildOK, ParentPlaces, NextOK, Place, TypeOK,
       FromNative, Revive, Goto, Become, Return, locks, waiting, counts, work
<1>11. ASSUME NEW x \in Threads PROVE ChildOK(x)'
  <2>1. /\ ChildOK(x) /\ ChildOK(t) /\ OneParent(x, t) /\ NewOK(t) /\ NewOK(x)
        /\ NextOK(t)
    BY <1>1 DEF InvOK
  <2>2. TypeOK
    BY <1>1
  <2> QED
    BY <2>1, <2>2, <1>1 DEF ChildOK, OneParent, ParentPlaces, NewOK, NewPlaces, NextOK,
       Place, TypeOK, FromNative, Revive, Goto, Become, Return, locks, waiting, counts,
       work
<1>12. ASSUME NEW x \in Threads, NEW y \in Threads PROVE OneParent(x, y)'
  <2>1. OneParent(x, y) /\ ChildOK(x) /\ ChildOK(y)
    BY <1>1 DEF InvOK
  <2>2. TypeOK
    BY <1>1
  <2> QED
    BY <2>1, <2>2 DEF OneParent, ChildOK, NextOK, TypeOK, FromNative, Revive, Goto,
       Become, Return, locks, waiting, counts, work
<1>13. ASSUME NEW x \in Threads, NEW y \in Threads PROVE StopOK(x, y)'
  <2>1. /\ StopOK(x, y) /\ StopOK(x, t) /\ NewOK(y) /\ NewOK(t) /\ HeapOK(x)
        /\ HeapOK(t) /\ GcOK(x) /\ ListOK(x) /\ ListOK(t) /\ ChildOK(t)
        /\ NextOK(t) /\ HeldOK(x) /\ OneGc(x, t)
    BY <1>1 DEF InvOK
  <2>2. TypeOK
    BY <1>1
  <2>3. Robbed(y)' <=> Robbed(y)
    BY DEF Robbed, Holders, FromNative, Revive, Goto, Become, Return, locks, waiting,
       counts, work
  <2>4. /\ y \in held[x] /\ y \in threadList /\ suspendCount[y] = 0 => Robbed(y)
        /\ t \in held[x] /\ t \in threadList /\ suspendCount[t] = 0 => overlapped
    BY <1>2 DEF CountPos
  <2> QED
    BY <2>1, <2>2, <2>3, <2>4, <1>0, <1>1 DEF StopOK, Linking, NewOK, NewPlaces,
       HeapOK, ListOK, ChildOK, ParentPlaces, NextOK, HeldOK, OneParent, Place,
       StopPlaces, ResumePlaces, HeapPlaces, Wholes, Pauses, CollectorStops, InvOK,
       TypeOK, FromNative, Revive, Goto, Become, Return, locks, waiting, counts, work
<1>14. ASSUME NEW x \in Threads, NEW y \in Threads PROVE SnapOK(x, y)'
  <2>1. /\ SnapOK(x, y) /\ HeldOK(x) /\ ListOK(x) /\ ListOK(t) /\ NewOK(y)
        /\ NextOK(t)
    BY <1>1 DEF InvOK
  <2>2. TypeOK
    BY <1>1
  <2> QED
    BY <2>1, <2>2 DEF SnapOK, HeldOK, ListOK, NewOK, NewPlaces, NextOK,
       TypeOK, FromNative, Revive, Goto, Become, Return, locks, waiting, counts, work
<1>15. ASSUME NEW x \in Threads PROVE Balanced(x)'
  <2>1. Balanced(x)
    BY <1>1 DEF InvOK
  <2>2. UNCHANGED <<suspendCount, held>> /\ threadList' \subseteq threadList
    BY DEF FromNative, Revive, Goto, Become, Return, locks, waiting, counts, work
  <2>3. Holders(x)' = Holders(x)
    BY <2>2 DEF Holders
  <2> QED BY <2>1, <2>2, <2>3, <1>0 DEF Balanced, Robbed
<1> QED
  BY <1>0, <1>3, <1>4, <1>5, <1>6, <1>7, <1>8, <1>9, <1>10, <1>11, <1>12, <1>13, <1>14, <1>15
     DEF IInv, InvOK

\* The invariant is kept when a native wants the list.
LEMMA UseListInv ==
  ASSUME IInv, Recorded, NEW t \in Threads, UseList(t)
  PROVE  IInv'
<1> USE NobodyAssumption
<1>1. TypeOK /\ InvOK
  BY DEF IInv
<1>2. CountPos
  BY CountsPositive
<1>0. OverlapOK' /\ (overlapped => overlapped')
  BY RecordedKept
<1>3. TypeOK'
  BY <1>1 DEF TypeOK, Labels, Statuses, Stops, CollectorStops, InvOK, NextOK, UseList,
     WantList, Goto, Become, Return, locks, waiting, counts, work, Starts
<1>4. ASSUME NEW x \in Threads PROVE NextOK(x)'
  <2>1. NextOK(x) /\ NextOK(t)
    BY <1>1 DEF InvOK
  <2>2. TypeOK
    BY <1>1
  <2> QED
    BY <2>1, <2>2 DEF NextOK, TypeOK, UseList, WantList, Goto, Become, Return, locks,
       waiting, counts, work, Starts
<1>5. ASSUME NEW x \in Threads PROVE HeapOK(x)'
  <2>1. HeapOK(x) /\ HeapOK(t) /\ GcOK(t) /\ NextOK(t)
    BY <1>1 DEF InvOK
  <2>2. TypeOK
    BY <1>1
  <2> QED
    BY <2>1, <2>2 DEF HeapOK, GcOK, InGc, NextOK, Place, StopPlaces, ResumePlaces,
       HeapPlaces, Wholes, Pauses, CollectorStops, TypeOK, UseList, WantList, Goto,
       Become, Return, locks, waiting, counts, work, Starts
<1>6. ASSUME NEW x \in Threads PROVE ListOK(x)'
  <2>1. ListOK(x) /\ ListOK(t) /\ NextOK(t)
    BY <1>1 DEF InvOK
  <2>2. TypeOK
    BY <1>1
  <2> QED
    BY <2>1, <2>2 DEF ListOK, NextOK, TypeOK, UseList, WantList, Goto, Become, Return,
       locks, waiting, counts, work, Starts
<1>7. ASSUME NEW x \in Threads PROVE GcOK(x)'
  <2>1. /\ GcOK(x) /\ GcOK(t) /\ OneGc(x, t) /\ HeapOK(t) /\ HeapOK(x)
        /\ NextOK(t)
    BY <1>1 DEF InvOK
  <2>2. TypeOK
    BY <1>1
  <2> QED
    BY <2>1, <2>2 DEF GcOK, InGc, OneGc, HeapOK, NextOK, Place, StopPlaces,
       ResumePlaces, HeapPlaces, Wholes, Pauses, CollectorStops, TypeOK, UseList,
       WantList, Goto, Become, Return, locks, waiting, counts, work, Starts
<1>8. ASSUME NEW x \in Threads, NEW y \in Threads PROVE OneGc(x, y)'
  <2>1. /\ OneGc(x, y) /\ OneGc(x, t) /\ OneGc(t, y) /\ GcOK(x) /\ GcOK(y)
        /\ GcOK(t) /\ NextOK(t)
    BY <1>1 DEF InvOK
  <2>2. TypeOK
    BY <1>1
  <2> QED
    BY <2>1, <2>2 DEF OneGc, GcOK, InGc, NextOK, Place, StopPlaces, ResumePlaces,
       HeapPlaces, Wholes, Pauses, CollectorStops, TypeOK, UseList, WantList, Goto,
       Become, Return, locks, waiting, counts, work, Starts
<1>9. ASSUME NEW x \in Threads PROVE HeldOK(x)'
  <2>1. HeldOK(x) /\ HeldOK(t) /\ ListOK(x) /\ NextOK(t)
    BY <1>1 DEF InvOK
  <2>2. TypeOK
    BY <1>1
  <2> QED
    BY <2>1, <2>2 DEF HeldOK, Suspends, ListOK, NextOK, Place, TypeOK, UseList, WantList, Goto,
       Become, Return, locks, waiting, counts, work, Starts
<1>10. ASSUME NEW x \in Threads PROVE NewOK(x)'
  <2>1. NewOK(x) /\ NewOK(t) /\ ChildOK(t) /\ HeldOK(t) /\ NextOK(t)
    BY <1>1 DEF InvOK
  <2>2. TypeOK
    BY <1>1
  <2> QED
    BY <2>1, <2>2 DEF NewOK, NewPlaces, ChildOK, ParentPlaces, NextOK, Place, TypeOK,
       UseList, WantList, Goto, Become, Return, locks, waiting, counts, work, Starts
<1>11. ASSUME NEW x \in Threads PROVE ChildOK(x)'
  <2>1. /\ ChildOK(x) /\ ChildOK(t) /\ OneParent(x, t) /\ NewOK(t) /\ NewOK(x)
        /\ NextOK(t)
    BY <1>1 DEF InvOK
  <2>2. TypeOK
    BY <1>1
  <2> QED
    BY <2>1, <2>2, <1>1 DEF ChildOK, OneParent, ParentPlaces, NewOK, NewPlaces, NextOK,
       Place, TypeOK, UseList, WantList, Goto, Become, Return, locks, waiting, counts,
       work, Starts
<1>12. ASSUME NEW x \in Threads, NEW y \in Threads PROVE OneParent(x, y)'
  <2>1. OneParent(x, y) /\ ChildOK(x) /\ ChildOK(y)
    BY <1>1 DEF InvOK
  <2>2. TypeOK
    BY <1>1
  <2> QED
    BY <2>1, <2>2 DEF OneParent, ChildOK, NextOK, TypeOK, UseList, WantList, Goto,
       Become, Return, locks, waiting, counts, work, Starts
<1>13. ASSUME NEW x \in Threads, NEW y \in Threads PROVE StopOK(x, y)'
  <2>1. TypeOK /\ StopOK(x, y)
    BY <1>1 DEF InvOK
  <2>2. Robbed(y)' <=> Robbed(y)
    BY DEF Robbed, Holders, UseList, WantList, counts
  <2>3. PICK n : /\ at[t] = "run" /\ at' = [at EXCEPT ![t] = "wantList"]
                 /\ status' = [status EXCEPT ![t] = "VMWAIT"]
                 /\ next' = [next EXCEPT ![t] = n]
                 /\ UNCHANGED <<threadList, stop, todo, child, held, escaped>>
    BY DEF UseList, WantList, Goto, Become, Return, counts, work
  <2> QED BY <2>1, <2>2, <2>3, <1>0, <1>2, Aside
<1>14. ASSUME NEW x \in Threads, NEW y \in Threads PROVE SnapOK(x, y)'
  <2>1. /\ SnapOK(x, y) /\ HeldOK(x) /\ ListOK(x) /\ ListOK(t) /\ NewOK(y)
        /\ NextOK(t)
    BY <1>1 DEF InvOK
  <2>2. TypeOK
    BY <1>1
  <2> QED
    BY <2>1, <2>2 DEF SnapOK, HeldOK, ListOK, NewOK, NewPlaces, NextOK,
       TypeOK, UseList, WantList, Goto, Become, Return, locks, waiting, counts, work,
       Starts
<1>15. ASSUME NEW x \in Threads PROVE Balanced(x)'
  <2>1. Balanced(x)
    BY <1>1 DEF InvOK
  <2>2. UNCHANGED <<suspendCount, held>> /\ threadList' \subseteq threadList
    BY DEF UseList, WantList, Goto, Become, Return, locks, waiting, counts, work,
       Starts
  <2>3. Holders(x)' = Holders(x)
    BY <2>2 DEF Holders
  <2> QED BY <2>1, <2>2, <2>3, <1>0 DEF Balanced, Robbed
<1> QED
  BY <1>0, <1>3, <1>4, <1>5, <1>6, <1>7, <1>8, <1>9, <1>10, <1>11, <1>12, <1>13, <1>14, <1>15
     DEF IInv, InvOK

\* The invariant is kept when the list is locked.
LEMMA AcquireListInv ==
  ASSUME IInv, Recorded, NEW t \in Threads, AcquireList(t)
  PROVE  IInv'
<1> USE NobodyAssumption
<1>1. TypeOK /\ InvOK
  BY DEF IInv
<1>2. CountPos
  BY CountsPositive
<1>0. OverlapOK' /\ (overlapped => overlapped')
  BY RecordedKept
<1>3. TypeOK'
  BY <1>1 DEF TypeOK, Labels, Statuses, Stops, CollectorStops, InvOK, NextOK,
     AcquireList, Goto, Become, Escape, waiting, counts, work
<1>4. ASSUME NEW x \in Threads PROVE NextOK(x)'
  <2>1. NextOK(x) /\ NextOK(t)
    BY <1>1 DEF InvOK
  <2>2. TypeOK
    BY <1>1
  <2> QED
    BY <2>1, <2>2 DEF NextOK, TypeOK, AcquireList, Goto, Become, Escape, waiting,
       counts, work
<1>5. ASSUME NEW x \in Threads PROVE HeapOK(x)'
  <2>1. HeapOK(x) /\ HeapOK(t) /\ GcOK(t) /\ NextOK(t)
    BY <1>1 DEF InvOK
  <2>2. TypeOK
    BY <1>1
  <2> QED
    BY <2>1, <2>2 DEF HeapOK, GcOK, InGc, NextOK, Place, StopPlaces, ResumePlaces,
       HeapPlaces, Wholes, Pauses, CollectorStops, TypeOK, AcquireList, Goto, Become,
       Escape, waiting, counts, work
<1>6. ASSUME NEW x \in Threads PROVE ListOK(x)'
  <2>1. ListOK(x) /\ ListOK(t) /\ NextOK(t)
    BY <1>1 DEF InvOK
  <2>2. TypeOK
    BY <1>1
  <2> QED
    BY <2>1, <2>2 DEF ListOK, NextOK, TypeOK, AcquireList, Goto, Become, Escape,
       waiting, counts, work
<1>7. ASSUME NEW x \in Threads PROVE GcOK(x)'
  <2>1. /\ GcOK(x) /\ GcOK(t) /\ OneGc(x, t) /\ HeapOK(t) /\ HeapOK(x)
        /\ NextOK(t)
    BY <1>1 DEF InvOK
  <2>2. TypeOK
    BY <1>1
  <2> QED
    BY <2>1, <2>2 DEF GcOK, InGc, OneGc, HeapOK, NextOK, Place, StopPlaces,
       ResumePlaces, HeapPlaces, Wholes, Pauses, CollectorStops, TypeOK, AcquireList,
       Goto, Become, Escape, waiting, counts, work
<1>8. ASSUME NEW x \in Threads, NEW y \in Threads PROVE OneGc(x, y)'
  <2>1. /\ OneGc(x, y) /\ OneGc(x, t) /\ OneGc(t, y) /\ GcOK(x) /\ GcOK(y)
        /\ GcOK(t) /\ NextOK(t)
    BY <1>1 DEF InvOK
  <2>2. TypeOK
    BY <1>1
  <2> QED
    BY <2>1, <2>2 DEF OneGc, GcOK, InGc, NextOK, Place, StopPlaces, ResumePlaces,
       HeapPlaces, Wholes, Pauses, CollectorStops, TypeOK, AcquireList, Goto, Become,
       Escape, waiting, counts, work
<1>9. ASSUME NEW x \in Threads PROVE HeldOK(x)'
  <2>1. HeldOK(x) /\ HeldOK(t) /\ ListOK(x) /\ NextOK(t)
    BY <1>1 DEF InvOK
  <2>2. TypeOK
    BY <1>1
  <2> QED
    BY <2>1, <2>2 DEF HeldOK, Suspends, ListOK, NextOK, Place, TypeOK, AcquireList, Goto, Become,
       Escape, waiting, counts, work
<1>10. ASSUME NEW x \in Threads PROVE NewOK(x)'
  <2>1. NewOK(x) /\ NewOK(t) /\ ChildOK(t) /\ HeldOK(t) /\ NextOK(t)
    BY <1>1 DEF InvOK
  <2>2. TypeOK
    BY <1>1
  <2> QED
    BY <2>1, <2>2 DEF NewOK, NewPlaces, ChildOK, ParentPlaces, NextOK, Place, TypeOK,
       AcquireList, Goto, Become, Escape, waiting, counts, work
<1>11. ASSUME NEW x \in Threads PROVE ChildOK(x)'
  <2>1. /\ ChildOK(x) /\ ChildOK(t) /\ OneParent(x, t) /\ NewOK(t) /\ NewOK(x)
        /\ NextOK(t)
    BY <1>1 DEF InvOK
  <2>2. TypeOK
    BY <1>1
  <2> QED
    BY <2>1, <2>2, <1>1 DEF ChildOK, OneParent, ParentPlaces, NewOK, NewPlaces, NextOK,
       Place, TypeOK, AcquireList, Goto, Become, Escape, waiting, counts, work
<1>12. ASSUME NEW x \in Threads, NEW y \in Threads PROVE OneParent(x, y)'
  <2>1. OneParent(x, y) /\ ChildOK(x) /\ ChildOK(y)
    BY <1>1 DEF InvOK
  <2>2. TypeOK
    BY <1>1
  <2> QED
    BY <2>1, <2>2 DEF OneParent, ChildOK, NextOK, TypeOK, AcquireList, Goto, Become,
       Escape, waiting, counts, work
<1>13. ASSUME NEW x \in Threads, NEW y \in Threads PROVE StopOK(x, y)'
  <2>1. StopOK(x, y) /\ NextOK(t) /\ TypeOK
    BY <1>1 DEF InvOK
  <2>2. Robbed(y)' <=> Robbed(y)
    BY DEF Robbed, Holders, AcquireList, counts
  <2>3. SUFFICES ASSUME at'[x] \in {"await", "stopped"}, stop[x] # "dump", y # x,
                        y \in threadList
                 PROVE  IF y \in held[x]
                          THEN \/ y \in todo[x] \/ status'[y] # "RUNNING"
                               \/ at'[y] = "check" \/ escaped'[y] \/ Robbed(y)'
                          ELSE at'[y] = "pulse" \/ Linking(x, y)' \/ overlapped'
    BY DEF StopOK, AcquireList, counts, work
  <2>4. x # t /\ at[x] = at'[x]
    BY <2>1, <2>3 DEF NextOK, TypeOK, AcquireList, Goto
  <2>5. CASE y = t
    <3>1. t \in held[x] \/ overlapped
      BY <2>1, <2>3, <2>4, <2>5 DEF StopOK, Linking, AcquireList
    <3>2. CASE t \in held[x]
      <4>1. suspendCount[t] # 0 \/ Robbed(t)
        BY <3>2, <2>3, <2>5, <1>2 DEF CountPos
      <4>2. suspendCount[t] # 0 => escaped'[t]
        BY <2>1 DEF AcquireList, Escape, TypeOK
      <4> QED BY <2>2, <2>5, <3>2, <4>1, <4>2
    <3>3. CASE t \notin held[x]
      BY <1>0, <2>5, <3>1, <3>3
    <3> QED BY <3>2, <3>3
  <2>6. CASE y # t
    <3>1. /\ status'[y] = status[y] /\ at'[y] = at[y] /\ escaped'[y] = escaped[y]
          /\ UNCHANGED <<held, todo, child, next>>
      BY <2>1, <2>6 DEF AcquireList, Become, Goto, Escape, TypeOK, counts, work
    <3>2. Linking(x, y) => Linking(x, y)'
      <4> SUFFICES ASSUME Linking(x, y) PROVE Linking(x, y)'
        OBVIOUS
      <4>1. PICK p \in held[x] : /\ child[p] = y /\ at[p] \in {"check", "asleep"}
                                 /\ next[p] = "linked"
        BY DEF Linking
      <4>2. p \in Threads /\ at'[p] = at[p]
        BY <4>1, <2>1 DEF AcquireList, Goto, TypeOK
      <4> QED BY <3>1, <4>1, <4>2 DEF Linking
    <3> QED BY <1>0, <2>2, <3>1, <3>2, <2>1, <2>3, <2>4 DEF StopOK
  <2> QED BY <2>5, <2>6
<1>14. ASSUME NEW x \in Threads, NEW y \in Threads PROVE SnapOK(x, y)'
  <2>1. /\ SnapOK(x, y) /\ HeldOK(x) /\ ListOK(x) /\ ListOK(t) /\ NewOK(y)
        /\ NextOK(t)
    BY <1>1 DEF InvOK
  <2>2. TypeOK
    BY <1>1
  <2> QED
    BY <2>1, <2>2 DEF SnapOK, HeldOK, ListOK, NewOK, NewPlaces, NextOK,
       TypeOK, AcquireList, Goto, Become, Escape, waiting, counts, work
<1>15. ASSUME NEW x \in Threads PROVE Balanced(x)'
  <2>1. Balanced(x)
    BY <1>1 DEF InvOK
  <2>2. UNCHANGED <<suspendCount, held>> /\ threadList' \subseteq threadList
    BY DEF AcquireList, Goto, Become, Escape, waiting, counts, work
  <2>3. Holders(x)' = Holders(x)
    BY <2>2 DEF Holders
  <2> QED BY <2>1, <2>2, <2>3, <1>0 DEF Balanced, Robbed
<1> QED
  BY <1>0, <1>3, <1>4, <1>5, <1>6, <1>7, <1>8, <1>9, <1>10, <1>11, <1>12, <1>13, <1>14, <1>15
     DEF IInv, InvOK

\* The invariant is kept when the list is unlocked.
LEMMA LeaveListInv ==
  ASSUME IInv, Recorded, NEW t \in Threads, LeaveList(t)
  PROVE  IInv'
<1> USE NobodyAssumption
<1>1. TypeOK /\ InvOK
  BY DEF IInv
<1>2. CountPos
  BY CountsPositive
<1>0. OverlapOK' /\ (overlapped => overlapped')
  BY RecordedKept
<1>3. TypeOK'
  BY <1>1 DEF TypeOK, Labels, Statuses, Stops, CollectorStops, InvOK, NextOK,
     LeaveList, Goto, waiting, counts, work
<1>4. ASSUME NEW x \in Threads PROVE NextOK(x)'
  <2>1. NextOK(x) /\ NextOK(t)
    BY <1>1 DEF InvOK
  <2>2. TypeOK
    BY <1>1
  <2> QED
    BY <2>1, <2>2 DEF NextOK, TypeOK, LeaveList, Goto, waiting, counts, work
<1>5. ASSUME NEW x \in Threads PROVE HeapOK(x)'
  <2>1. HeapOK(x) /\ HeapOK(t) /\ GcOK(t) /\ NextOK(t)
    BY <1>1 DEF InvOK
  <2>2. TypeOK
    BY <1>1
  <2> QED
    BY <2>1, <2>2 DEF HeapOK, GcOK, InGc, NextOK, Place, StopPlaces, ResumePlaces,
       HeapPlaces, Wholes, Pauses, CollectorStops, TypeOK, LeaveList, Goto, waiting,
       counts, work
<1>6. ASSUME NEW x \in Threads PROVE ListOK(x)'
  <2>1. ListOK(x) /\ ListOK(t) /\ NextOK(t)
    BY <1>1 DEF InvOK
  <2>2. TypeOK
    BY <1>1
  <2> QED
    BY <2>1, <2>2 DEF ListOK, NextOK, TypeOK, LeaveList, Goto, waiting, counts, work
<1>7. ASSUME NEW x \in Threads PROVE GcOK(x)'
  <2>1. /\ GcOK(x) /\ GcOK(t) /\ OneGc(x, t) /\ HeapOK(t) /\ HeapOK(x)
        /\ NextOK(t)
    BY <1>1 DEF InvOK
  <2>2. TypeOK
    BY <1>1
  <2> QED
    BY <2>1, <2>2 DEF GcOK, InGc, OneGc, HeapOK, NextOK, Place, StopPlaces,
       ResumePlaces, HeapPlaces, Wholes, Pauses, CollectorStops, TypeOK, LeaveList,
       Goto, waiting, counts, work
<1>8. ASSUME NEW x \in Threads, NEW y \in Threads PROVE OneGc(x, y)'
  <2>1. /\ OneGc(x, y) /\ OneGc(x, t) /\ OneGc(t, y) /\ GcOK(x) /\ GcOK(y)
        /\ GcOK(t) /\ NextOK(t)
    BY <1>1 DEF InvOK
  <2>2. TypeOK
    BY <1>1
  <2> QED
    BY <2>1, <2>2 DEF OneGc, GcOK, InGc, NextOK, Place, StopPlaces, ResumePlaces,
       HeapPlaces, Wholes, Pauses, CollectorStops, TypeOK, LeaveList, Goto, waiting,
       counts, work
<1>9. ASSUME NEW x \in Threads PROVE HeldOK(x)'
  <2>1. HeldOK(x) /\ HeldOK(t) /\ ListOK(x) /\ NextOK(t)
    BY <1>1 DEF InvOK
  <2>2. TypeOK
    BY <1>1
  <2> QED
    BY <2>1, <2>2 DEF HeldOK, Suspends, ListOK, NextOK, Place, TypeOK, LeaveList, Goto, waiting,
       counts, work
<1>10. ASSUME NEW x \in Threads PROVE NewOK(x)'
  <2>1. NewOK(x) /\ NewOK(t) /\ ChildOK(t) /\ HeldOK(t) /\ NextOK(t)
    BY <1>1 DEF InvOK
  <2>2. TypeOK
    BY <1>1
  <2> QED
    BY <2>1, <2>2 DEF NewOK, NewPlaces, ChildOK, ParentPlaces, NextOK, Place, TypeOK,
       LeaveList, Goto, waiting, counts, work
<1>11. ASSUME NEW x \in Threads PROVE ChildOK(x)'
  <2>1. /\ ChildOK(x) /\ ChildOK(t) /\ OneParent(x, t) /\ NewOK(t) /\ NewOK(x)
        /\ NextOK(t)
    BY <1>1 DEF InvOK
  <2>2. TypeOK
    BY <1>1
  <2> QED
    BY <2>1, <2>2, <1>1 DEF ChildOK, OneParent, ParentPlaces, NewOK, NewPlaces, NextOK,
       Place, TypeOK, LeaveList, Goto, waiting, counts, work
<1>12. ASSUME NEW x \in Threads, NEW y \in Threads PROVE OneParent(x, y)'
  <2>1. OneParent(x, y) /\ ChildOK(x) /\ ChildOK(y)
    BY <1>1 DEF InvOK
  <2>2. TypeOK
    BY <1>1
  <2> QED
    BY <2>1, <2>2 DEF OneParent, ChildOK, NextOK, TypeOK, LeaveList, Goto, waiting,
       counts, work
<1>13. ASSUME NEW x \in Threads, NEW y \in Threads PROVE StopOK(x, y)'
  <2>1. /\ StopOK(x, y) /\ StopOK(x, t) /\ NewOK(y) /\ NewOK(t) /\ HeapOK(x)
        /\ HeapOK(t) /\ GcOK(x) /\ ListOK(x) /\ ListOK(t) /\ ChildOK(t)
        /\ NextOK(t) /\ HeldOK(x) /\ OneGc(x, t)
    BY <1>1 DEF InvOK
  <2>2. TypeOK
    BY <1>1
  <2>3. Robbed(y)' <=> Robbed(y)
    BY DEF Robbed, Holders, LeaveList, Goto, waiting, counts, work
  <2>4. /\ y \in held[x] /\ y \in threadList /\ suspendCount[y] = 0 => Robbed(y)
        /\ t \in held[x] /\ t \in threadList /\ suspendCount[t] = 0 => overlapped
    BY <1>2 DEF CountPos
  <2> QED
    BY <2>1, <2>2, <2>3, <2>4, <1>0, <1>1 DEF StopOK, Linking, NewOK, NewPlaces,
       HeapOK, ListOK, ChildOK, ParentPlaces, NextOK, HeldOK, OneParent, Place,
       StopPlaces, ResumePlaces, HeapPlaces, Wholes, Pauses, CollectorStops, InvOK,
       TypeOK, LeaveList, Goto, waiting, counts, work
<1>14. ASSUME NEW x \in Threads, NEW y \in Threads PROVE SnapOK(x, y)'
  <2>1. /\ SnapOK(x, y) /\ HeldOK(x) /\ ListOK(x) /\ ListOK(t) /\ NewOK(y)
        /\ NextOK(t)
    BY <1>1 DEF InvOK
  <2>2. TypeOK
    BY <1>1
  <2> QED
    BY <2>1, <2>2 DEF SnapOK, HeldOK, ListOK, NewOK, NewPlaces, NextOK,
       TypeOK, LeaveList, Goto, waiting, counts, work
<1>15. ASSUME NEW x \in Threads PROVE Balanced(x)'
  <2>1. Balanced(x)
    BY <1>1 DEF InvOK
  <2>2. UNCHANGED <<suspendCount, held>> /\ threadList' \subseteq threadList
    BY DEF LeaveList, Goto, waiting, counts, work
  <2>3. Holders(x)' = Holders(x)
    BY <2>2 DEF Holders
  <2> QED BY <2>1, <2>2, <2>3, <1>0 DEF Balanced, Robbed
<1> QED
  BY <1>0, <1>3, <1>4, <1>5, <1>6, <1>7, <1>8, <1>9, <1>10, <1>11, <1>12, <1>13, <1>14, <1>15
     DEF IInv, InvOK

\* The invariant is kept when one thread is suspended.
LEMMA SuspendOneInv ==
  ASSUME IInv, Recorded, NEW t \in Threads, NEW u \in Threads, SuspendOne(t, u)
  PROVE  IInv'
<1> USE NobodyAssumption
<1>1. TypeOK /\ InvOK
  BY DEF IInv
<1>2. CountPos
  BY CountsPositive
<1>0. OverlapOK' /\ (overlapped => overlapped')
  BY RecordedKept
<1>3. TypeOK'
  BY <1>1 DEF TypeOK, Labels, Statuses, Stops, CollectorStops, InvOK, NextOK,
     SuspendOne, Goto, AddToCounts, locks, waiting, work
<1>4. ASSUME NEW x \in Threads PROVE NextOK(x)'
  <2>1. NextOK(x) /\ NextOK(t)
    BY <1>1 DEF InvOK
  <2>2. TypeOK
    BY <1>1
  <2> QED
    BY <2>1, <2>2 DEF NextOK, TypeOK, SuspendOne, Goto, AddToCounts, locks, waiting,
       work
<1>5. ASSUME NEW x \in Threads PROVE HeapOK(x)'
  <2>1. HeapOK(x) /\ HeapOK(t) /\ GcOK(t) /\ NextOK(t)
    BY <1>1 DEF InvOK
  <2>2. TypeOK
    BY <1>1
  <2> QED
    BY <2>1, <2>2 DEF HeapOK, GcOK, InGc, NextOK, Place, StopPlaces, ResumePlaces,
       HeapPlaces, Wholes, Pauses, CollectorStops, TypeOK, SuspendOne, Goto,
       AddToCounts, locks, waiting, work
<1>6. ASSUME NEW x \in Threads PROVE ListOK(x)'
  <2>1. ListOK(x) /\ ListOK(t) /\ NextOK(t)
    BY <1>1 DEF InvOK
  <2>2. TypeOK
    BY <1>1
  <2> QED
    BY <2>1, <2>2 DEF ListOK, NextOK, TypeOK, SuspendOne, Goto, AddToCounts, locks,
       waiting, work
<1>7. ASSUME NEW x \in Threads PROVE GcOK(x)'
  <2>1. /\ GcOK(x) /\ GcOK(t) /\ OneGc(x, t) /\ HeapOK(t) /\ HeapOK(x)
        /\ NextOK(t)
    BY <1>1 DEF InvOK
  <2>2. TypeOK
    BY <1>1
  <2> QED
    BY <2>1, <2>2 DEF GcOK, InGc, OneGc, HeapOK, NextOK, Place, StopPlaces,
       ResumePlaces, HeapPlaces, Wholes, Pauses, CollectorStops, TypeOK, SuspendOne,
       Goto, AddToCounts, locks, waiting, work
<1>8. ASSUME NEW x \in Threads, NEW y \in Threads PROVE OneGc(x, y)'
  <2>1. /\ OneGc(x, y) /\ OneGc(x, t) /\ OneGc(t, y) /\ GcOK(x) /\ GcOK(y)
        /\ GcOK(t) /\ NextOK(t)
    BY <1>1 DEF InvOK
  <2>2. TypeOK
    BY <1>1
  <2> QED
    BY <2>1, <2>2 DEF OneGc, GcOK, InGc, NextOK, Place, StopPlaces, ResumePlaces,
       HeapPlaces, Wholes, Pauses, CollectorStops, TypeOK, SuspendOne, Goto,
       AddToCounts, locks, waiting, work
<1>9. ASSUME NEW x \in Threads PROVE HeldOK(x)'
  <2>1. HeldOK(x) /\ HeldOK(t) /\ ListOK(x) /\ NextOK(t)
    BY <1>1 DEF InvOK
  <2>2. TypeOK
    BY <1>1
  <2> QED
    BY <2>1, <2>2 DEF HeldOK, Suspends, ListOK, NextOK, Place, TypeOK, SuspendOne, Goto,
       AddToCounts, locks, waiting, work
<1>10. ASSUME NEW x \in Threads PROVE NewOK(x)'
  <2>1. NewOK(x) /\ NewOK(t) /\ ChildOK(t) /\ HeldOK(t) /\ NextOK(t)
    BY <1>1 DEF InvOK
  <2>2. TypeOK
    BY <1>1
  <2> QED
    BY <2>1, <2>2 DEF NewOK, NewPlaces, ChildOK, ParentPlaces, NextOK, Place, TypeOK,
       SuspendOne, Goto, AddToCounts, locks, waiting, work
<1>11. ASSUME NEW x \in Threads PROVE ChildOK(x)'
  <2>1. /\ ChildOK(x) /\ ChildOK(t) /\ OneParent(x, t) /\ NewOK(t) /\ NewOK(x)
        /\ NextOK(t)
    BY <1>1 DEF InvOK
  <2>2. TypeOK
    BY <1>1
  <2> QED
    BY <2>1, <2>2, <1>1 DEF ChildOK, OneParent, ParentPlaces, NewOK, NewPlaces, NextOK,
       Place, TypeOK, SuspendOne, Goto, AddToCounts, locks, waiting, work
<1>12. ASSUME NEW x \in Threads, NEW y \in Threads PROVE OneParent(x, y)'
  <2>1. OneParent(x, y) /\ ChildOK(x) /\ ChildOK(y)
    BY <1>1 DEF InvOK
  <2>2. TypeOK
    BY <1>1
  <2> QED
    BY <2>1, <2>2 DEF OneParent, ChildOK, NextOK, TypeOK, SuspendOne, Goto,
       AddToCounts, locks, waiting, work
<1>13. ASSUME NEW x \in Threads, NEW y \in Threads PROVE StopOK(x, y)'
  <2>1. /\ TypeOK /\ StopOK(x, y) /\ HeldOK(t) /\ ListOK(x) /\ ListOK(t)
    BY <1>1 DEF InvOK
  <2>2. /\ at[t] = "trace" /\ at' = [at EXCEPT ![t] = "awaitOne"]
        /\ held' = [held EXCEPT ![t] = {u}]
        /\ suspendCount' = [z \in Threads |-> IF z = u THEN suspendCount[z] + 1
                                               ELSE suspendCount[z]]
        /\ UNCHANGED <<status, threadList, stop, todo, child, next, escaped>>
    BY DEF SuspendOne, AddToCounts, Goto, work
  <2>3. Robbed(y)' <=> Robbed(y)
    <3>1. held[t] = {}
      BY <2>1, <2>2 DEF HeldOK, Suspends
    <3>2. CASE y = u
      <4>1. Holders(y)' = Holders(y) \cup {t} /\ t \notin Holders(y)
        BY <2>1, <2>2, <3>1, <3>2 DEF Holders, TypeOK
      <4>2. IsFiniteSet(Holders(y)) /\ Cardinality(Holders(y)) \in Nat
        BY HoldersFinite
      <4>3. Cardinality(Holders(y) \cup {t}) = Cardinality(Holders(y)) + 1
        BY <4>1, <4>2, FS_AddElement
      <4>4. suspendCount'[y] = suspendCount[y] + 1 /\ suspendCount[y] \in Nat
        BY <2>1, <2>2, <3>2 DEF TypeOK
      <4> QED BY <4>1, <4>2, <4>3, <4>4 DEF Robbed
    <3>3. CASE y # u
      <4>1. Holders(y)' = Holders(y) /\ suspendCount'[y] = suspendCount[y]
        BY <2>1, <2>2, <3>1, <3>3 DEF Holders, TypeOK
      <4> QED BY <4>1 DEF Robbed
    <3> QED BY <3>2, <3>3
  <2> QED BY <2>1, <2>2, <2>3, <1>0, Undisturbed
<1>14. ASSUME NEW x \in Threads, NEW y \in Threads PROVE SnapOK(x, y)'
  <2>1. /\ SnapOK(x, y) /\ HeldOK(x) /\ ListOK(x) /\ ListOK(t) /\ NewOK(y)
        /\ NextOK(t)
    BY <1>1 DEF InvOK
  <2>2. TypeOK
    BY <1>1
  <2> QED
    BY <2>1, <2>2 DEF SnapOK, HeldOK, ListOK, NewOK, NewPlaces, NextOK,
       TypeOK, SuspendOne, Goto, AddToCounts, locks, waiting, work
<1>15. ASSUME NEW x \in Threads PROVE Balanced(x)'
  <2>1. Balanced(x) /\ HeldOK(t) /\ NewOK(x) /\ ChildOK(t) /\ TypeOK
    BY <1>1 DEF InvOK
  <2>2. IsFiniteSet(Holders(x)) /\ Cardinality(Holders(x)) \in Nat
    BY HoldersFinite
  <2>3. held[t] = {}
    BY <2>1 DEF HeldOK, Suspends, SuspendOne
  <2>4. CASE x = u
    <3>1. Holders(x)' = Holders(x) \cup {t} /\ t \notin Holders(x)
      BY <2>1, <2>3, <2>4 DEF Holders, SuspendOne, AddToCounts, TypeOK
    <3>2. suspendCount'[x] = suspendCount[x] + 1 /\ x \in threadList
      BY <2>1, <2>4 DEF SuspendOne, AddToCounts, TypeOK
    <3>3. Cardinality(Holders(x) \cup {t}) = Cardinality(Holders(x)) + 1
      BY <3>1, <2>2, FS_AddElement
    <3> QED BY <3>1, <3>2, <3>3, <2>1, <2>2, <1>0 DEF Balanced, Robbed, TypeOK
  <2>5. CASE x # u
    <3>1. Holders(x)' = Holders(x)
      BY <2>1, <2>3, <2>5 DEF Holders, SuspendOne, AddToCounts, TypeOK
    <3>2. suspendCount'[x] = suspendCount[x] /\ threadList' = threadList
      BY <2>1, <2>5 DEF SuspendOne, AddToCounts, TypeOK
    <3> QED BY <3>1, <3>2, <2>1, <1>0 DEF Balanced, Robbed
  <2> QED BY <2>4, <2>5
<1> QED
  BY <1>0, <1>3, <1>4, <1>5, <1>6, <1>7, <1>8, <1>9, <1>10, <1>11, <1>12, <1>13, <1>14, <1>15
     DEF IInv, InvOK

\* The invariant is kept when its suspension is seen.
LEMMA AwaitOneInv ==
  ASSUME IInv, Recorded, NEW t \in Threads, AwaitOne(t)
  PROVE  IInv'
<1> USE NobodyAssumption
<1>1. TypeOK /\ InvOK
  BY DEF IInv
<1>2. CountPos
  BY CountsPositive
<1>0. OverlapOK' /\ (overlapped => overlapped')
  BY RecordedKept
<1>3. TypeOK'
  BY <1>1 DEF TypeOK, Labels, Statuses, Stops, CollectorStops, InvOK, NextOK, AwaitOne,
     Goto, locks, waiting, counts, work
<1>4. ASSUME NEW x \in Threads PROVE NextOK(x)'
  <2>1. NextOK(x) /\ NextOK(t)
    BY <1>1 DEF InvOK
  <2>2. TypeOK
    BY <1>1
  <2> QED
    BY <2>1, <2>2 DEF NextOK, TypeOK, AwaitOne, Goto, locks, waiting, counts, work
<1>5. ASSUME NEW x \in Threads PROVE HeapOK(x)'
  <2>1. HeapOK(x) /\ HeapOK(t) /\ GcOK(t) /\ NextOK(t)
    BY <1>1 DEF InvOK
  <2>2. TypeOK
    BY <1>1
  <2> QED
    BY <2>1, <2>2 DEF HeapOK, GcOK, InGc, NextOK, Place, StopPlaces, ResumePlaces,
       HeapPlaces, Wholes, Pauses, CollectorStops, TypeOK, AwaitOne, Goto, locks,
       waiting, counts, work
<1>6. ASSUME NEW x \in Threads PROVE ListOK(x)'
  <2>1. ListOK(x) /\ ListOK(t) /\ NextOK(t)
    BY <1>1 DEF InvOK
  <2>2. TypeOK
    BY <1>1
  <2> QED
    BY <2>1, <2>2 DEF ListOK, NextOK, TypeOK, AwaitOne, Goto, locks, waiting, counts,
       work
<1>7. ASSUME NEW x \in Threads PROVE GcOK(x)'
  <2>1. /\ GcOK(x) /\ GcOK(t) /\ OneGc(x, t) /\ HeapOK(t) /\ HeapOK(x)
        /\ NextOK(t)
    BY <1>1 DEF InvOK
  <2>2. TypeOK
    BY <1>1
  <2> QED
    BY <2>1, <2>2 DEF GcOK, InGc, OneGc, HeapOK, NextOK, Place, StopPlaces,
       ResumePlaces, HeapPlaces, Wholes, Pauses, CollectorStops, TypeOK, AwaitOne,
       Goto, locks, waiting, counts, work
<1>8. ASSUME NEW x \in Threads, NEW y \in Threads PROVE OneGc(x, y)'
  <2>1. /\ OneGc(x, y) /\ OneGc(x, t) /\ OneGc(t, y) /\ GcOK(x) /\ GcOK(y)
        /\ GcOK(t) /\ NextOK(t)
    BY <1>1 DEF InvOK
  <2>2. TypeOK
    BY <1>1
  <2> QED
    BY <2>1, <2>2 DEF OneGc, GcOK, InGc, NextOK, Place, StopPlaces, ResumePlaces,
       HeapPlaces, Wholes, Pauses, CollectorStops, TypeOK, AwaitOne, Goto, locks,
       waiting, counts, work
<1>9. ASSUME NEW x \in Threads PROVE HeldOK(x)'
  <2>1. HeldOK(x) /\ HeldOK(t) /\ ListOK(x) /\ NextOK(t)
    BY <1>1 DEF InvOK
  <2>2. TypeOK
    BY <1>1
  <2> QED
    BY <2>1, <2>2 DEF HeldOK, Suspends, ListOK, NextOK, Place, TypeOK, AwaitOne, Goto, locks,
       waiting, counts, work
<1>10. ASSUME NEW x \in Threads PROVE NewOK(x)'
  <2>1. NewOK(x) /\ NewOK(t) /\ ChildOK(t) /\ HeldOK(t) /\ NextOK(t)
    BY <1>1 DEF InvOK
  <2>2. TypeOK
    BY <1>1
  <2> QED
    BY <2>1, <2>2 DEF NewOK, NewPlaces, ChildOK, ParentPlaces, NextOK, Place, TypeOK,
       AwaitOne, Goto, locks, waiting, counts, work
<1>11. ASSUME NEW x \in Threads PROVE ChildOK(x)'
  <2>1. /\ ChildOK(x) /\ ChildOK(t) /\ OneParent(x, t) /\ NewOK(t) /\ NewOK(x)
        /\ NextOK(t)
    BY <1>1 DEF InvOK
  <2>2. TypeOK
    BY <1>1
  <2> QED
    BY <2>1, <2>2, <1>1 DEF ChildOK, OneParent, ParentPlaces, NewOK, NewPlaces, NextOK,
       Place, TypeOK, AwaitOne, Goto, locks, waiting, counts, work
<1>12. ASSUME NEW x \in Threads, NEW y \in Threads PROVE OneParent(x, y)'
  <2>1. OneParent(x, y) /\ ChildOK(x) /\ ChildOK(y)
    BY <1>1 DEF InvOK
  <2>2. TypeOK
    BY <1>1
  <2> QED
    BY <2>1, <2>2 DEF OneParent, ChildOK, NextOK, TypeOK, AwaitOne, Goto, locks,
       waiting, counts, work
<1>13. ASSUME NEW x \in Threads, NEW y \in Threads PROVE StopOK(x, y)'
  <2>1. /\ StopOK(x, y) /\ StopOK(x, t) /\ NewOK(y) /\ NewOK(t) /\ HeapOK(x)
        /\ HeapOK(t) /\ GcOK(x) /\ ListOK(x) /\ ListOK(t) /\ ChildOK(t)
        /\ NextOK(t) /\ HeldOK(x) /\ OneGc(x, t)
    BY <1>1 DEF InvOK
  <2>2. TypeOK
    BY <1>1
  <2>3. Robbed(y)' <=> Robbed(y)
    BY DEF Robbed, Holders, AwaitOne, Goto, locks, waiting, counts, work
  <2>4. /\ y \in held[x] /\ y \in threadList /\ suspendCount[y] = 0 => Robbed(y)
        /\ t \in held[x] /\ t \in threadList /\ suspendCount[t] = 0 => overlapped
    BY <1>2 DEF CountPos
  <2> QED
    BY <2>1, <2>2, <2>3, <2>4, <1>0, <1>1 DEF StopOK, Linking, NewOK, NewPlaces,
       HeapOK, ListOK, ChildOK, ParentPlaces, NextOK, HeldOK, OneParent, Place,
       StopPlaces, ResumePlaces, HeapPlaces, Wholes, Pauses, CollectorStops, InvOK,
       TypeOK, AwaitOne, Goto, locks, waiting, counts, work
<1>14. ASSUME NEW x \in Threads, NEW y \in Threads PROVE SnapOK(x, y)'
  <2>1. /\ SnapOK(x, y) /\ HeldOK(x) /\ ListOK(x) /\ ListOK(t) /\ NewOK(y)
        /\ NextOK(t)
    BY <1>1 DEF InvOK
  <2>2. TypeOK
    BY <1>1
  <2> QED
    BY <2>1, <2>2 DEF SnapOK, HeldOK, ListOK, NewOK, NewPlaces, NextOK,
       TypeOK, AwaitOne, Goto, locks, waiting, counts, work
<1>15. ASSUME NEW x \in Threads PROVE Balanced(x)'
  <2>1. Balanced(x)
    BY <1>1 DEF InvOK
  <2>2. UNCHANGED <<suspendCount, held>> /\ threadList' \subseteq threadList
    BY DEF AwaitOne, Goto, locks, waiting, counts, work
  <2>3. Holders(x)' = Holders(x)
    BY <2>2 DEF Holders
  <2> QED BY <2>1, <2>2, <2>3, <1>0 DEF Balanced, Robbed
<1> QED
  BY <1>0, <1>3, <1>4, <1>5, <1>6, <1>7, <1>8, <1>9, <1>10, <1>11, <1>12, <1>13, <1>14, <1>15
     DEF IInv, InvOK

\* The invariant is kept when it is resumed.
LEMMA ResumeOneInv ==
  ASSUME IInv, Recorded, NEW t \in Threads, ResumeOne(t)
  PROVE  IInv'
<1> USE NobodyAssumption
<1>1. TypeOK /\ InvOK
  BY DEF IInv
<1>2. CountPos
  BY CountsPositive
<1>0. OverlapOK' /\ (overlapped => overlapped')
  BY RecordedKept
<1>3. TypeOK'
  BY <1>1 DEF TypeOK, Labels, Statuses, Stops, CollectorStops, InvOK, NextOK,
     ResumeOne, Goto, TakeFromCounts, work
<1>4. ASSUME NEW x \in Threads PROVE NextOK(x)'
  <2>1. NextOK(x) /\ NextOK(t)
    BY <1>1 DEF InvOK
  <2>2. TypeOK
    BY <1>1
  <2> QED
    BY <2>1, <2>2 DEF NextOK, TypeOK, ResumeOne, Goto, TakeFromCounts, work
<1>5. ASSUME NEW x \in Threads PROVE HeapOK(x)'
  <2>1. HeapOK(x) /\ HeapOK(t) /\ GcOK(t) /\ NextOK(t)
    BY <1>1 DEF InvOK
  <2>2. TypeOK
    BY <1>1
  <2> QED
    BY <2>1, <2>2 DEF HeapOK, GcOK, InGc, NextOK, Place, StopPlaces, ResumePlaces,
       HeapPlaces, Wholes, Pauses, CollectorStops, TypeOK, ResumeOne, Goto,
       TakeFromCounts, work
<1>6. ASSUME NEW x \in Threads PROVE ListOK(x)'
  <2>1. ListOK(x) /\ ListOK(t) /\ NextOK(t)
    BY <1>1 DEF InvOK
  <2>2. TypeOK
    BY <1>1
  <2> QED
    BY <2>1, <2>2 DEF ListOK, NextOK, TypeOK, ResumeOne, Goto, TakeFromCounts, work
<1>7. ASSUME NEW x \in Threads PROVE GcOK(x)'
  <2>1. /\ GcOK(x) /\ GcOK(t) /\ OneGc(x, t) /\ HeapOK(t) /\ HeapOK(x)
        /\ NextOK(t)
    BY <1>1 DEF InvOK
  <2>2. TypeOK
    BY <1>1
  <2> QED
    BY <2>1, <2>2 DEF GcOK, InGc, OneGc, HeapOK, NextOK, Place, StopPlaces,
       ResumePlaces, HeapPlaces, Wholes, Pauses, CollectorStops, TypeOK, ResumeOne,
       Goto, TakeFromCounts, work
<1>8. ASSUME NEW x \in Threads, NEW y \in Threads PROVE OneGc(x, y)'
  <2>1. /\ OneGc(x, y) /\ OneGc(x, t) /\ OneGc(t, y) /\ GcOK(x) /\ GcOK(y)
        /\ GcOK(t) /\ NextOK(t)
    BY <1>1 DEF InvOK
  <2>2. TypeOK
    BY <1>1
  <2> QED
    BY <2>1, <2>2 DEF OneGc, GcOK, InGc, NextOK, Place, StopPlaces, ResumePlaces,
       HeapPlaces, Wholes, Pauses, CollectorStops, TypeOK, ResumeOne, Goto,
       TakeFromCounts, work
<1>9. ASSUME NEW x \in Threads PROVE HeldOK(x)'
  <2>1. HeldOK(x) /\ HeldOK(t) /\ ListOK(x) /\ NextOK(t)
    BY <1>1 DEF InvOK
  <2>2. TypeOK
    BY <1>1
  <2> QED
    BY <2>1, <2>2 DEF HeldOK, Suspends, ListOK, NextOK, Place, TypeOK, ResumeOne, Goto,
       TakeFromCounts, work
<1>10. ASSUME NEW x \in Threads PROVE NewOK(x)'
  <2>1. NewOK(x) /\ NewOK(t) /\ ChildOK(t) /\ HeldOK(t) /\ NextOK(t)
    BY <1>1 DEF InvOK
  <2>2. TypeOK
    BY <1>1
  <2> QED
    BY <2>1, <2>2 DEF NewOK, NewPlaces, ChildOK, ParentPlaces, NextOK, Place, TypeOK,
       ResumeOne, Goto, TakeFromCounts, work
<1>11. ASSUME NEW x \in Threads PROVE ChildOK(x)'
  <2>1. /\ ChildOK(x) /\ ChildOK(t) /\ OneParent(x, t) /\ NewOK(t) /\ NewOK(x)
        /\ NextOK(t)
    BY <1>1 DEF InvOK
  <2>2. TypeOK
    BY <1>1
  <2> QED
    BY <2>1, <2>2, <1>1 DEF ChildOK, OneParent, ParentPlaces, NewOK, NewPlaces, NextOK,
       Place, TypeOK, ResumeOne, Goto, TakeFromCounts, work
<1>12. ASSUME NEW x \in Threads, NEW y \in Threads PROVE OneParent(x, y)'
  <2>1. OneParent(x, y) /\ ChildOK(x) /\ ChildOK(y)
    BY <1>1 DEF InvOK
  <2>2. TypeOK
    BY <1>1
  <2> QED
    BY <2>1, <2>2 DEF OneParent, ChildOK, NextOK, TypeOK, ResumeOne, Goto,
       TakeFromCounts, work
<1>13. ASSUME NEW x \in Threads, NEW y \in Threads PROVE StopOK(x, y)'
  <2>1. /\ TypeOK /\ StopOK(x, y) /\ HeldOK(t) /\ ListOK(x) /\ ListOK(t)
    BY <1>1 DEF InvOK
  <2>2. /\ at[t] = "snapshot" /\ at' = [at EXCEPT ![t] = "run"]
        /\ held' = [held EXCEPT ![t] = {}]
        /\ UNCHANGED <<status, threadList, stop, todo, child, next, escaped>>
    BY DEF ResumeOne, TakeFromCounts, Goto, work
  <2>3. Robbed(y)' <=> Robbed(y)
    <3>1. CASE y \in held[t]
      <4>1. Holders(y)' = Holders(y) \ {t} /\ t \in Holders(y)
        BY <2>1, <2>2, <3>1 DEF Holders, TypeOK
      <4>2. IsFiniteSet(Holders(y)) /\ Cardinality(Holders(y)) \in Nat
        BY HoldersFinite
      <4>3. Cardinality(Holders(y) \ {t}) = Cardinality(Holders(y)) - 1
        BY <4>1, <4>2, FS_RemoveElement
      <4>4. suspendCount[y] # 0
        BY <1>1, <2>2, <3>1 DEF InvOK, SnapOK
      <4>5. suspendCount'[y] = suspendCount[y] - 1 /\ suspendCount[y] \in Nat
        BY <2>1, <3>1, <4>4 DEF ResumeOne, TakeFromCounts, TypeOK
      <4> QED BY <4>1, <4>2, <4>3, <4>5 DEF Robbed
    <3>2. CASE y \notin held[t]
      <4>1. Holders(y)' = Holders(y)
        BY <2>1, <2>2, <3>2 DEF Holders, TypeOK
      <4>2. suspendCount'[y] = suspendCount[y]
        BY <2>1, <3>2 DEF ResumeOne, TakeFromCounts, TypeOK
      <4> QED BY <4>1, <4>2 DEF Robbed
    <3> QED BY <3>1, <3>2
  <2> QED BY <2>1, <2>2, <2>3, <1>0, Undisturbed
<1>14. ASSUME NEW x \in Threads, NEW y \in Threads PROVE SnapOK(x, y)'
  <2>1. /\ SnapOK(x, y) /\ HeldOK(x) /\ ListOK(x) /\ ListOK(t) /\ NewOK(y)
        /\ NextOK(t)
    BY <1>1 DEF InvOK
  <2>2. TypeOK
    BY <1>1
  <2> QED
    BY <2>1, <2>2 DEF SnapOK, HeldOK, ListOK, NewOK, NewPlaces, NextOK,
       TypeOK, ResumeOne, Goto, TakeFromCounts, work
<1>15. ASSUME NEW x \in Threads PROVE Balanced(x)'
  <2>1. Balanced(x) /\ HeldOK(t) /\ NewOK(x) /\ ChildOK(t) /\ TypeOK
    BY <1>1 DEF InvOK
  <2>2. IsFiniteSet(Holders(x)) /\ Cardinality(Holders(x)) \in Nat
    BY HoldersFinite
  <2>3. CASE x \in held[t]
    <3>1. Holders(x)' = Holders(x) \ {t} /\ t \in Holders(x)
      BY <2>1, <2>3 DEF Holders, ResumeOne, TakeFromCounts, TypeOK
    <3>2. suspendCount[x] # 0
      BY <1>1, <2>3 DEF InvOK, SnapOK, ResumeOne
    <3>3. suspendCount'[x] = suspendCount[x] - 1 /\ threadList' = threadList
      BY <2>1, <2>3, <3>2 DEF ResumeOne, TakeFromCounts, TypeOK
    <3>4. Cardinality(Holders(x) \ {t}) = Cardinality(Holders(x)) - 1
      BY <3>1, <2>2, FS_RemoveElement
    <3> QED BY <3>1, <3>3, <3>4, <2>1, <2>2, <1>0 DEF Balanced, Robbed, TypeOK
  <2>4. CASE x \notin held[t]
    <3>1. Holders(x)' = Holders(x)
      BY <2>1, <2>4 DEF Holders, ResumeOne, TakeFromCounts, TypeOK
    <3>2. suspendCount'[x] = suspendCount[x] /\ threadList' = threadList
      BY <2>1, <2>4 DEF ResumeOne, TakeFromCounts, TypeOK
    <3> QED BY <3>1, <3>2, <2>1, <1>0 DEF Balanced, Robbed
  <2> QED BY <2>3, <2>4
<1> QED
  BY <1>0, <1>3, <1>4, <1>5, <1>6, <1>7, <1>8, <1>9, <1>10, <1>11, <1>12, <1>13, <1>14, <1>15
     DEF IInv, InvOK

\* The invariant is kept when the suspend lock is taken.
LEMMA TrySuspendLockInv ==
  ASSUME IInv, Recorded, NEW t \in Threads, TrySuspendLock(t)
  PROVE  IInv'
<1> USE NobodyAssumption
<1>1. TypeOK /\ InvOK
  BY DEF IInv
<1>2. CountPos
  BY CountsPositive
<1>0. OverlapOK' /\ (overlapped => overlapped')
  BY RecordedKept
<1>3. TypeOK'
  BY <1>1 DEF TypeOK, Labels, Statuses, Stops, CollectorStops, InvOK, NextOK,
     TrySuspendLock, Goto, Become, waiting, counts, work
<1>4. ASSUME NEW x \in Threads PROVE NextOK(x)'
  <2>1. NextOK(x) /\ NextOK(t)
    BY <1>1 DEF InvOK
  <2>2. TypeOK
    BY <1>1
  <2> QED
    BY <2>1, <2>2 DEF NextOK, TypeOK, TrySuspendLock, Goto, Become, waiting, counts,
       work
<1>5. ASSUME NEW x \in Threads PROVE HeapOK(x)'
  <2>1. HeapOK(x) /\ HeapOK(t) /\ GcOK(t) /\ NextOK(t)
    BY <1>1 DEF InvOK
  <2>2. TypeOK
    BY <1>1
  <2> QED
    BY <2>1, <2>2 DEF HeapOK, GcOK, InGc, NextOK, Place, StopPlaces, ResumePlaces,
       HeapPlaces, Wholes, Pauses, CollectorStops, TypeOK, TrySuspendLock, Goto,
       Become, waiting, counts, work
<1>6. ASSUME NEW x \in Threads PROVE ListOK(x)'
  <2>1. ListOK(x) /\ ListOK(t) /\ NextOK(t)
    BY <1>1 DEF InvOK
  <2>2. TypeOK
    BY <1>1
  <2> QED
    BY <2>1, <2>2 DEF ListOK, NextOK, TypeOK, TrySuspendLock, Goto, Become, waiting,
       counts, work
<1>7. ASSUME NEW x \in Threads PROVE GcOK(x)'
  <2>1. /\ GcOK(x) /\ GcOK(t) /\ OneGc(x, t) /\ HeapOK(t) /\ HeapOK(x)
        /\ NextOK(t)
    BY <1>1 DEF InvOK
  <2>2. TypeOK
    BY <1>1
  <2> QED
    BY <2>1, <2>2 DEF GcOK, InGc, OneGc, HeapOK, NextOK, Place, StopPlaces,
       ResumePlaces, HeapPlaces, Wholes, Pauses, CollectorStops, TypeOK,
       TrySuspendLock, Goto, Become, waiting, counts, work
<1>8. ASSUME NEW x \in Threads, NEW y \in Threads PROVE OneGc(x, y)'
  <2>1. /\ OneGc(x, y) /\ OneGc(x, t) /\ OneGc(t, y) /\ GcOK(x) /\ GcOK(y)
        /\ GcOK(t) /\ NextOK(t)
    BY <1>1 DEF InvOK
  <2>2. TypeOK
    BY <1>1
  <2> QED
    BY <2>1, <2>2 DEF OneGc, GcOK, InGc, NextOK, Place, StopPlaces, ResumePlaces,
       HeapPlaces, Wholes, Pauses, CollectorStops, TypeOK, TrySuspendLock, Goto,
       Become, waiting, counts, work
<1>9. ASSUME NEW x \in Threads PROVE HeldOK(x)'
  <2>1. HeldOK(x) /\ HeldOK(t) /\ ListOK(x) /\ NextOK(t)
    BY <1>1 DEF InvOK
  <2>2. TypeOK
    BY <1>1
  <2> QED
    BY <2>1, <2>2 DEF HeldOK, Suspends, ListOK, NextOK, Place, TypeOK, TrySuspendLock, Goto,
       Become, waiting, counts, work
<1>10. ASSUME NEW x \in Threads PROVE NewOK(x)'
  <2>1. NewOK(x) /\ NewOK(t) /\ ChildOK(t) /\ HeldOK(t) /\ NextOK(t)
    BY <1>1 DEF InvOK
  <2>2. TypeOK
    BY <1>1
  <2> QED
    BY <2>1, <2>2 DEF NewOK, NewPlaces, ChildOK, ParentPlaces, NextOK, Place, TypeOK,
       TrySuspendLock, Goto, Become, waiting, counts, work
<1>11. ASSUME NEW x \in Threads PROVE ChildOK(x)'
  <2>1. /\ ChildOK(x) /\ ChildOK(t) /\ OneParent(x, t) /\ NewOK(t) /\ NewOK(x)
        /\ NextOK(t)
    BY <1>1 DEF InvOK
  <2>2. TypeOK
    BY <1>1
  <2> QED
    BY <2>1, <2>2, <1>1 DEF ChildOK, OneParent, ParentPlaces, NewOK, NewPlaces, NextOK,
       Place, TypeOK, TrySuspendLock, Goto, Become, waiting, counts, work
<1>12. ASSUME NEW x \in Threads, NEW y \in Threads PROVE OneParent(x, y)'
  <2>1. OneParent(x, y) /\ ChildOK(x) /\ ChildOK(y)
    BY <1>1 DEF InvOK
  <2>2. TypeOK
    BY <1>1
  <2> QED
    BY <2>1, <2>2 DEF OneParent, ChildOK, NextOK, TypeOK, TrySuspendLock, Goto, Become,
       waiting, counts, work
<1>13. ASSUME NEW x \in Threads, NEW y \in Threads PROVE StopOK(x, y)'
  <2>1. /\ StopOK(x, y) /\ StopOK(x, t) /\ NewOK(y) /\ NewOK(t) /\ HeapOK(x)
        /\ HeapOK(t) /\ GcOK(x) /\ ListOK(x) /\ ListOK(t) /\ ChildOK(t)
        /\ NextOK(t) /\ HeldOK(x) /\ OneGc(x, t)
    BY <1>1 DEF InvOK
  <2>2. TypeOK
    BY <1>1
  <2>3. Robbed(y)' <=> Robbed(y)
    BY DEF Robbed, Holders, TrySuspendLock, Goto, Become, waiting, counts, work
  <2>4. /\ y \in held[x] /\ y \in threadList /\ suspendCount[y] = 0 => Robbed(y)
        /\ t \in held[x] /\ t \in threadList /\ suspendCount[t] = 0 => overlapped
    BY <1>2 DEF CountPos
  <2> QED
    BY <2>1, <2>2, <2>3, <2>4, <1>0, <1>1 DEF StopOK, Linking, NewOK, NewPlaces,
       HeapOK, ListOK, ChildOK, ParentPlaces, NextOK, HeldOK, OneParent, Place,
       StopPlaces, ResumePlaces, HeapPlaces, Wholes, Pauses, CollectorStops, InvOK,
       TypeOK, TrySuspendLock, Goto, Become, waiting, counts, work
<1>14. ASSUME NEW x \in Threads, NEW y \in Threads PROVE SnapOK(x, y)'
  <2>1. /\ SnapOK(x, y) /\ HeldOK(x) /\ ListOK(x) /\ ListOK(t) /\ NewOK(y)
        /\ NextOK(t)
    BY <1>1 DEF InvOK
  <2>2. TypeOK
    BY <1>1
  <2> QED
    BY <2>1, <2>2 DEF SnapOK, HeldOK, ListOK, NewOK, NewPlaces, NextOK,
       TypeOK, TrySuspendLock, Goto, Become, waiting, counts, work
<1>15. ASSUME NEW x \in Threads PROVE Balanced(x)'
  <2>1. Balanced(x)
    BY <1>1 DEF InvOK
  <2>2. UNCHANGED <<suspendCount, held>> /\ threadList' \subseteq threadList
    BY DEF TrySuspendLock, Goto, Become, waiting, counts, work
  <2>3. Holders(x)' = Holders(x)
    BY <2>2 DEF Holders
  <2> QED BY <2>1, <2>2, <2>3, <1>0 DEF Balanced, Robbed
<1> QED
  BY <1>0, <1>3, <1>4, <1>5, <1>6, <1>7, <1>8, <1>9, <1>10, <1>11, <1>12, <1>13, <1>14, <1>15
     DEF IInv, InvOK

\* The invariant is kept when a thread gives way to a suspension.
LEMMA SuspendedAtLockInv ==
  ASSUME IInv, Recorded, NEW t \in Threads, SuspendedAtLock(t)
  PROVE  IInv'
<1> USE NobodyAssumption
<1>1. TypeOK /\ InvOK
  BY DEF IInv
<1>2. CountPos
  BY CountsPositive
<1>0. OverlapOK' /\ (overlapped => overlapped')
  BY RecordedKept
<1>3. TypeOK'
  BY <1>1 DEF TypeOK, Labels, Statuses, Stops, CollectorStops, InvOK, NextOK,
     SuspendedAtLock, FullSuspend, Goto, Become, Return, locks, counts, work
<1>4. ASSUME NEW x \in Threads PROVE NextOK(x)'
  <2>1. NextOK(x) /\ NextOK(t)
    BY <1>1 DEF InvOK
  <2>2. TypeOK
    BY <1>1
  <2> QED
    BY <2>1, <2>2 DEF NextOK, TypeOK, SuspendedAtLock, FullSuspend, Goto, Become,
       Return, locks, counts, work
<1>5. ASSUME NEW x \in Threads PROVE HeapOK(x)'
  <2>1. HeapOK(x) /\ HeapOK(t) /\ GcOK(t) /\ NextOK(t)
    BY <1>1 DEF InvOK
  <2>2. TypeOK
    BY <1>1
  <2> QED
    BY <2>1, <2>2 DEF HeapOK, GcOK, InGc, NextOK, Place, StopPlaces, ResumePlaces,
       HeapPlaces, Wholes, Pauses, CollectorStops, TypeOK, SuspendedAtLock,
       FullSuspend, Goto, Become, Return, locks, counts, work
<1>6. ASSUME NEW x \in Threads PROVE ListOK(x)'
  <2>1. ListOK(x) /\ ListOK(t) /\ NextOK(t)
    BY <1>1 DEF InvOK
  <2>2. TypeOK
    BY <1>1
  <2> QED
    BY <2>1, <2>2 DEF ListOK, NextOK, TypeOK, SuspendedAtLock, FullSuspend, Goto,
       Become, Return, locks, counts, work
<1>7. ASSUME NEW x \in Threads PROVE GcOK(x)'
  <2>1. /\ GcOK(x) /\ GcOK(t) /\ OneGc(x, t) /\ HeapOK(t) /\ HeapOK(x)
        /\ NextOK(t)
    BY <1>1 DEF InvOK
  <2>2. TypeOK
    BY <1>1
  <2> QED
    BY <2>1, <2>2 DEF GcOK, InGc, OneGc, HeapOK, NextOK, Place, StopPlaces,
       ResumePlaces, HeapPlaces, Wholes, Pauses, CollectorStops, TypeOK,
       SuspendedAtLock, FullSuspend, Goto, Become, Return, locks, counts, work
<1>8. ASSUME NEW x \in Threads, NEW y \in Threads PROVE OneGc(x, y)'
  <2>1. /\ OneGc(x, y) /\ OneGc(x, t) /\ OneGc(t, y) /\ GcOK(x) /\ GcOK(y)
        /\ GcOK(t) /\ NextOK(t)
    BY <1>1 DEF InvOK
  <2>2. TypeOK
    BY <1>1
  <2> QED
    BY <2>1, <2>2 DEF OneGc, GcOK, InGc, NextOK, Place, StopPlaces, ResumePlaces,
       HeapPlaces, Wholes, Pauses, CollectorStops, TypeOK, SuspendedAtLock,
       FullSuspend, Goto, Become, Return, locks, counts, work
<1>9. ASSUME NEW x \in Threads PROVE HeldOK(x)'
  <2>1. HeldOK(x) /\ HeldOK(t) /\ ListOK(x) /\ NextOK(t)
    BY <1>1 DEF InvOK
  <2>2. TypeOK
    BY <1>1
  <2> QED
    BY <2>1, <2>2 DEF HeldOK, Suspends, ListOK, NextOK, Place, TypeOK, SuspendedAtLock,
       FullSuspend, Goto, Become, Return, locks, counts, work
<1>10. ASSUME NEW x \in Threads PROVE NewOK(x)'
  <2>1. NewOK(x) /\ NewOK(t) /\ ChildOK(t) /\ HeldOK(t) /\ NextOK(t)
    BY <1>1 DEF InvOK
  <2>2. TypeOK
    BY <1>1
  <2> QED
    BY <2>1, <2>2 DEF NewOK, NewPlaces, ChildOK, ParentPlaces, NextOK, Place, TypeOK,
       SuspendedAtLock, FullSuspend, Goto, Become, Return, locks, counts, work
<1>11. ASSUME NEW x \in Threads PROVE ChildOK(x)'
  <2>1. /\ ChildOK(x) /\ ChildOK(t) /\ OneParent(x, t) /\ NewOK(t) /\ NewOK(x)
        /\ NextOK(t)
    BY <1>1 DEF InvOK
  <2>2. TypeOK
    BY <1>1
  <2> QED
    BY <2>1, <2>2, <1>1 DEF ChildOK, OneParent, ParentPlaces, NewOK, NewPlaces, NextOK,
       Place, TypeOK, SuspendedAtLock, FullSuspend, Goto, Become, Return, locks,
       counts, work
<1>12. ASSUME NEW x \in Threads, NEW y \in Threads PROVE OneParent(x, y)'
  <2>1. OneParent(x, y) /\ ChildOK(x) /\ ChildOK(y)
    BY <1>1 DEF InvOK
  <2>2. TypeOK
    BY <1>1
  <2> QED
    BY <2>1, <2>2 DEF OneParent, ChildOK, NextOK, TypeOK, SuspendedAtLock, FullSuspend,
       Goto, Become, Return, locks, counts, work
<1>13. ASSUME NEW x \in Threads, NEW y \in Threads PROVE StopOK(x, y)'
  <2>1. /\ StopOK(x, y) /\ StopOK(x, t) /\ NewOK(y) /\ NewOK(t) /\ HeapOK(x)
        /\ HeapOK(t) /\ GcOK(x) /\ ListOK(x) /\ ListOK(t) /\ ChildOK(t)
        /\ NextOK(t) /\ HeldOK(x) /\ OneGc(x, t)
    BY <1>1 DEF InvOK
  <2>2. TypeOK
    BY <1>1
  <2>3. Robbed(y)' <=> Robbed(y)
    BY DEF Robbed, Holders, SuspendedAtLock, FullSuspend, Goto, Become, Return, locks,
       counts, work
  <2>4. /\ y \in held[x] /\ y \in threadList /\ suspendCount[y] = 0 => Robbed(y)
        /\ t \in held[x] /\ t \in threadList /\ suspendCount[t] = 0 => overlapped
    BY <1>2 DEF CountPos
  <2> QED
    BY <2>1, <2>2, <2>3, <2>4, <1>0, <1>1 DEF StopOK, Linking, NewOK, NewPlaces,
       HeapOK, ListOK, ChildOK, ParentPlaces, NextOK, HeldOK, OneParent, Place,
       StopPlaces, ResumePlaces, HeapPlaces, Wholes, Pauses, CollectorStops, InvOK,
       TypeOK, SuspendedAtLock, FullSuspend, Goto, Become, Return, locks, counts, work
<1>14. ASSUME NEW x \in Threads, NEW y \in Threads PROVE SnapOK(x, y)'
  <2>1. /\ SnapOK(x, y) /\ HeldOK(x) /\ ListOK(x) /\ ListOK(t) /\ NewOK(y)
        /\ NextOK(t)
    BY <1>1 DEF InvOK
  <2>2. TypeOK
    BY <1>1
  <2> QED
    BY <2>1, <2>2 DEF SnapOK, HeldOK, ListOK, NewOK, NewPlaces, NextOK,
       TypeOK, SuspendedAtLock, FullSuspend, Goto, Become, Return, locks, counts, work
<1>15. ASSUME NEW x \in Threads PROVE Balanced(x)'
  <2>1. Balanced(x)
    BY <1>1 DEF InvOK
  <2>2. UNCHANGED <<suspendCount, held>> /\ threadList' \subseteq threadList
    BY DEF SuspendedAtLock, FullSuspend, Goto, Become, Return, locks, counts, work
  <2>3. Holders(x)' = Holders(x)
    BY <2>2 DEF Holders
  <2> QED BY <2>1, <2>2, <2>3, <1>0 DEF Balanced, Robbed
<1> QED
  BY <1>0, <1>3, <1>4, <1>5, <1>6, <1>7, <1>8, <1>9, <1>10, <1>11, <1>12, <1>13, <1>14, <1>15
     DEF IInv, InvOK

\* The invariant is kept when all threads are told to suspend.
LEMMA CountAllInv ==
  ASSUME IInv, Recorded, NEW t \in Threads, CountAll(t)
  PROVE  IInv'
<1> USE NobodyAssumption
<1>1. TypeOK /\ InvOK
  BY DEF IInv
<1>2. CountPos
  BY CountsPositive
<1>0. OverlapOK' /\ (overlapped => overlapped')
  BY RecordedKept
<1>3. TypeOK'
  BY <1>1 DEF TypeOK, Labels, Statuses, Stops, CollectorStops, InvOK, NextOK, CountAll,
     Goto, Become, Escape, AddToCounts, waiting
<1>4. ASSUME NEW x \in Threads PROVE NextOK(x)'
  <2>1. NextOK(x) /\ NextOK(t)
    BY <1>1 DEF InvOK
  <2>2. TypeOK
    BY <1>1
  <2> QED
    BY <2>1, <2>2 DEF NextOK, TypeOK, CountAll, Goto, Become, Escape, AddToCounts,
       waiting
<1>5. ASSUME NEW x \in Threads PROVE HeapOK(x)'
  <2>1. HeapOK(x) /\ HeapOK(t) /\ GcOK(t) /\ NextOK(t)
    BY <1>1 DEF InvOK
  <2>2. TypeOK
    BY <1>1
  <2> QED
    BY <2>1, <2>2 DEF HeapOK, GcOK, InGc, NextOK, Place, StopPlaces, ResumePlaces,
       HeapPlaces, Wholes, Pauses, CollectorStops, TypeOK, CountAll, Goto, Become,
       Escape, AddToCounts, waiting
<1>6. ASSUME NEW x \in Threads PROVE ListOK(x)'
  <2>1. ListOK(x) /\ ListOK(t) /\ NextOK(t)
    BY <1>1 DEF InvOK
  <2>2. TypeOK
    BY <1>1
  <2> QED
    BY <2>1, <2>2 DEF ListOK, NextOK, TypeOK, CountAll, Goto, Become, Escape,
       AddToCounts, waiting
<1>7. ASSUME NEW x \in Threads PROVE GcOK(x)'
  <2>1. /\ GcOK(x) /\ GcOK(t) /\ OneGc(x, t) /\ HeapOK(t) /\ HeapOK(x)
        /\ NextOK(t)
    BY <1>1 DEF InvOK
  <2>2. TypeOK
    BY <1>1
  <2> QED
    BY <2>1, <2>2 DEF GcOK, InGc, OneGc, HeapOK, NextOK, Place, StopPlaces,
       ResumePlaces, HeapPlaces, Wholes, Pauses, CollectorStops, TypeOK, CountAll,
       Goto, Become, Escape, AddToCounts, waiting
<1>8. ASSUME NEW x \in Threads, NEW y \in Threads PROVE OneGc(x, y)'
  <2>1. /\ OneGc(x, y) /\ OneGc(x, t) /\ OneGc(t, y) /\ GcOK(x) /\ GcOK(y)
        /\ GcOK(t) /\ NextOK(t)
    BY <1>1 DEF InvOK
  <2>2. TypeOK
    BY <1>1
  <2> QED
    BY <2>1, <2>2 DEF OneGc, GcOK, InGc, NextOK, Place, StopPlaces, ResumePlaces,
       HeapPlaces, Wholes, Pauses, CollectorStops, TypeOK, CountAll, Goto, Become,
       Escape, AddToCounts, waiting
<1>9. ASSUME NEW x \in Threads PROVE HeldOK(x)'
  <2>1. HeldOK(x) /\ HeldOK(t) /\ ListOK(x) /\ NextOK(t)
    BY <1>1 DEF InvOK
  <2>2. TypeOK
    BY <1>1
  <2> QED
    BY <2>1, <2>2 DEF HeldOK, Suspends, ListOK, NextOK, Place, TypeOK, CountAll, Goto, Become,
       Escape, AddToCounts, waiting
<1>10. ASSUME NEW x \in Threads PROVE NewOK(x)'
  <2>1. NewOK(x) /\ NewOK(t) /\ ChildOK(t) /\ HeldOK(t) /\ NextOK(t)
    BY <1>1 DEF InvOK
  <2>2. TypeOK
    BY <1>1
  <2> QED
    BY <2>1, <2>2 DEF NewOK, NewPlaces, ChildOK, ParentPlaces, NextOK, Place, TypeOK,
       CountAll, Goto, Become, Escape, AddToCounts, waiting
<1>11. ASSUME NEW x \in Threads PROVE ChildOK(x)'
  <2>1. /\ ChildOK(x) /\ ChildOK(t) /\ OneParent(x, t) /\ NewOK(t) /\ NewOK(x)
        /\ NextOK(t)
    BY <1>1 DEF InvOK
  <2>2. TypeOK
    BY <1>1
  <2> QED
    BY <2>1, <2>2, <1>1 DEF ChildOK, OneParent, ParentPlaces, NewOK, NewPlaces, NextOK,
       Place, TypeOK, CountAll, Goto, Become, Escape, AddToCounts, waiting
<1>12. ASSUME NEW x \in Threads, NEW y \in Threads PROVE OneParent(x, y)'
  <2>1. OneParent(x, y) /\ ChildOK(x) /\ ChildOK(y)
    BY <1>1 DEF InvOK
  <2>2. TypeOK
    BY <1>1
  <2> QED
    BY <2>1, <2>2 DEF OneParent, ChildOK, NextOK, TypeOK, CountAll, Goto, Become,
       Escape, AddToCounts, waiting
<1>13. ASSUME NEW x \in Threads, NEW y \in Threads PROVE StopOK(x, y)'
  <2>1. /\ TypeOK /\ StopOK(x, y) /\ HeldOK(t) /\ ListOK(x)
    BY <1>1 DEF InvOK
  <2>2. /\ at[t] = "stopList" /\ at' = [at EXCEPT ![t] = "await"]
        /\ listLock = Nobody /\ status' = [status EXCEPT ![t] = "RUNNING"]
        /\ held' = [held EXCEPT ![t] = threadList \ {t}]
        /\ todo' = [todo EXCEPT ![t] = threadList \ {t}]
        /\ escaped' = [escaped EXCEPT ![t] = suspendCount[t] # 0]
        /\ suspendCount' = [z \in Threads |-> IF z \in threadList \ {t}
                                               THEN suspendCount[z] + 1
                                               ELSE suspendCount[z]]
        /\ UNCHANGED <<threadList, stop, child, next>>
    BY DEF CountAll, AddToCounts, Goto, Become, Escape
  <2>3. Robbed(y)' <=> Robbed(y)
    <3>1. held[t] = {}
      BY <2>1, <2>2 DEF HeldOK, Suspends
    <3>2. CASE y \in threadList \ {t}
      <4>1. Holders(y)' = Holders(y) \cup {t} /\ t \notin Holders(y)
        BY <2>1, <2>2, <3>1, <3>2 DEF Holders, TypeOK
      <4>2. IsFiniteSet(Holders(y)) /\ Cardinality(Holders(y)) \in Nat
        BY HoldersFinite
      <4>3. Cardinality(Holders(y) \cup {t}) = Cardinality(Holders(y)) + 1
        BY <4>1, <4>2, FS_AddElement
      <4>4. suspendCount'[y] = suspendCount[y] + 1 /\ suspendCount[y] \in Nat
        BY <2>1, <2>2, <3>2 DEF TypeOK
      <4> QED BY <4>1, <4>2, <4>3, <4>4 DEF Robbed
    <3>3. CASE y \notin threadList \ {t}
      <4>1. Holders(y)' = Holders(y) /\ suspendCount'[y] = suspendCount[y]
        BY <2>1, <2>2, <3>1, <3>3 DEF Holders, TypeOK
      <4> QED BY <4>1 DEF Robbed
    <3> QED BY <3>2, <3>3
  <2>4. CASE x = t
    <3>1. y # x /\ y \in threadList => y \in held'[x] /\ y \in todo'[x]
      BY <2>1, <2>2, <2>4 DEF TypeOK
    <3> QED BY <2>2, <3>1 DEF StopOK
  <2>5. CASE x # t
    <3> SUFFICES ASSUME at'[x] \in {"await", "stopped"}, stop[x] # "dump", y # x,
                        y \in threadList
                 PROVE  IF y \in held[x]
                          THEN \/ y \in todo[x] \/ status'[y] # "RUNNING"
                               \/ at'[y] = "check" \/ escaped'[y] \/ Robbed(y)'
                          ELSE at'[y] = "pulse" \/ Linking(x, y)' \/ overlapped'
      BY <2>1, <2>2, <2>5 DEF StopOK, TypeOK
    <3>1. at[x] = at'[x]
      BY <2>1, <2>2, <2>5 DEF TypeOK
    <3>2. CASE y \in held[x]
      <4>1. \/ y \in todo[x] \/ status[y] # "RUNNING" \/ at[y] = "check"
            \/ escaped[y] \/ Robbed(y)
        BY <2>1, <3>1, <3>2 DEF StopOK
      <4>2. CASE y = t
        <5>1. suspendCount[y] # 0 \/ Robbed(y)
          BY <1>2, <3>2 DEF CountPos
        <5>2. suspendCount[y] # 0 => escaped'[y]
          BY <2>1, <2>2, <4>2 DEF TypeOK
        <5> QED BY <2>3, <3>2, <5>1, <5>2
      <4>3. CASE y # t
        <5>1. status'[y] = status[y] /\ at'[y] = at[y] /\ escaped'[y] = escaped[y]
          BY <2>1, <2>2, <4>3 DEF TypeOK
        <5> QED BY <2>3, <3>2, <4>1, <5>1
      <4> QED BY <4>2, <4>3
    <3>3. CASE y \notin held[x]
      <4>1. at[y] = "pulse" \/ Linking(x, y) \/ overlapped
        BY <2>1, <3>1, <3>3 DEF StopOK
      <4>2. held'[x] = held[x]
        BY <2>1, <2>2, <2>5 DEF TypeOK
      <4>3. CASE Linking(x, y)
        <5>1. y # t
          BY <2>2, <4>3 DEF Linking
        <5>2. PICK p \in held[x] : /\ child[p] = y /\ at[p] \in {"check", "asleep"}
                                   /\ next[p] = "linked"
          BY <4>3 DEF Linking
        <5>3. p \in Threads /\ p # t
          BY <5>2, <2>1, <2>2 DEF TypeOK
        <5>4. /\ at'[p] = at[p] /\ at'[y] = at[y] /\ status'[y] = status[y]
              /\ child'[p] = child[p] /\ next'[p] = next[p]
          BY <5>1, <5>3, <2>1, <2>2 DEF TypeOK
        <5>5. Linking(x, y)'
          BY <5>2, <5>4, <4>2, <4>3 DEF Linking
        <5> QED BY <3>3, <5>5
      <4>4. CASE at[y] = "pulse"
        BY <2>1, <2>2, <3>3, <4>4 DEF TypeOK
      <4> QED BY <4>1, <4>3, <4>4, <1>0, <3>3
    <3> QED BY <3>2, <3>3
  <2> QED BY <2>4, <2>5
<1>14. ASSUME NEW x \in Threads, NEW y \in Threads PROVE SnapOK(x, y)'
  <2>1. /\ SnapOK(x, y) /\ HeldOK(x) /\ ListOK(x) /\ ListOK(t) /\ NewOK(y)
        /\ NextOK(t)
    BY <1>1 DEF InvOK
  <2>2. TypeOK
    BY <1>1
  <2> QED
    BY <2>1, <2>2 DEF SnapOK, HeldOK, ListOK, NewOK, NewPlaces, NextOK,
       TypeOK, CountAll, Goto, Become, Escape, AddToCounts, waiting
<1>15. ASSUME NEW x \in Threads PROVE Balanced(x)'
  <2>1. Balanced(x) /\ HeldOK(t) /\ NewOK(x) /\ ChildOK(t) /\ TypeOK
    BY <1>1 DEF InvOK
  <2>2. IsFiniteSet(Holders(x)) /\ Cardinality(Holders(x)) \in Nat
    BY HoldersFinite
  <2>3. held[t] = {}
    BY <2>1 DEF HeldOK, Suspends, CountAll
  <2>4. CASE x \in threadList \ {t}
    <3>1. Holders(x)' = Holders(x) \cup {t} /\ t \notin Holders(x)
      BY <2>1, <2>3, <2>4 DEF Holders, CountAll, AddToCounts, TypeOK
    <3>2. suspendCount'[x] = suspendCount[x] + 1 /\ x \in threadList
      BY <2>1, <2>4 DEF CountAll, AddToCounts, TypeOK
    <3>3. Cardinality(Holders(x) \cup {t}) = Cardinality(Holders(x)) + 1
      BY <3>1, <2>2, FS_AddElement
    <3> QED BY <3>1, <3>2, <3>3, <2>1, <2>2, <1>0 DEF Balanced, Robbed, TypeOK
  <2>5. CASE x \notin threadList \ {t}
    <3>1. Holders(x)' = Holders(x)
      BY <2>1, <2>3, <2>5 DEF Holders, CountAll, AddToCounts, TypeOK
    <3>2. suspendCount'[x] = suspendCount[x] /\ threadList' = threadList
      BY <2>1, <2>5 DEF CountAll, AddToCounts, TypeOK
    <3> QED BY <3>1, <3>2, <2>1, <1>0 DEF Balanced, Robbed
  <2> QED BY <2>4, <2>5
<1> QED
  BY <1>0, <1>3, <1>4, <1>5, <1>6, <1>7, <1>8, <1>9, <1>10, <1>11, <1>12, <1>13, <1>14, <1>15
     DEF IInv, InvOK

\* The invariant is kept when a thread is seen suspended.
LEMMA AwaitStopInv ==
  ASSUME IInv, Recorded, NEW t \in Threads, NEW u \in Threads, AwaitStop(t, u)
  PROVE  IInv'
<1> USE NobodyAssumption
<1>1. TypeOK /\ InvOK
  BY DEF IInv
<1>2. CountPos
  BY CountsPositive
<1>0. OverlapOK' /\ (overlapped => overlapped')
  BY RecordedKept
<1>3. TypeOK'
  BY <1>1 DEF TypeOK, Labels, Statuses, Stops, CollectorStops, InvOK, NextOK,
     AwaitStop, locks, waiting, counts
<1>4. ASSUME NEW x \in Threads PROVE NextOK(x)'
  <2>1. NextOK(x) /\ NextOK(t)
    BY <1>1 DEF InvOK
  <2>2. TypeOK
    BY <1>1
  <2> QED
    BY <2>1, <2>2 DEF NextOK, TypeOK, AwaitStop, locks, waiting, counts
<1>5. ASSUME NEW x \in Threads PROVE HeapOK(x)'
  <2>1. HeapOK(x) /\ HeapOK(t) /\ GcOK(t) /\ NextOK(t)
    BY <1>1 DEF InvOK
  <2>2. TypeOK
    BY <1>1
  <2> QED
    BY <2>1, <2>2 DEF HeapOK, GcOK, InGc, NextOK, Place, StopPlaces, ResumePlaces,
       HeapPlaces, Wholes, Pauses, CollectorStops, TypeOK, AwaitStop, locks, waiting,
       counts
<1>6. ASSUME NEW x \in Threads PROVE ListOK(x)'
  <2>1. ListOK(x) /\ ListOK(t) /\ NextOK(t)
    BY <1>1 DEF InvOK
  <2>2. TypeOK
    BY <1>1
  <2> QED
    BY <2>1, <2>2 DEF ListOK, NextOK, TypeOK, AwaitStop, locks, waiting, counts
<1>7. ASSUME NEW x \in Threads PROVE GcOK(x)'
  <2>1. /\ GcOK(x) /\ GcOK(t) /\ OneGc(x, t) /\ HeapOK(t) /\ HeapOK(x)
        /\ NextOK(t)
    BY <1>1 DEF InvOK
  <2>2. TypeOK
    BY <1>1
  <2> QED
    BY <2>1, <2>2 DEF GcOK, InGc, OneGc, HeapOK, NextOK, Place, StopPlaces,
       ResumePlaces, HeapPlaces, Wholes, Pauses, CollectorStops, TypeOK, AwaitStop,
       locks, waiting, counts
<1>8. ASSUME NEW x \in Threads, NEW y \in Threads PROVE OneGc(x, y)'
  <2>1. /\ OneGc(x, y) /\ OneGc(x, t) /\ OneGc(t, y) /\ GcOK(x) /\ GcOK(y)
        /\ GcOK(t) /\ NextOK(t)
    BY <1>1 DEF InvOK
  <2>2. TypeOK
    BY <1>1
  <2> QED
    BY <2>1, <2>2 DEF OneGc, GcOK, InGc, NextOK, Place, StopPlaces, ResumePlaces,
       HeapPlaces, Wholes, Pauses, CollectorStops, TypeOK, AwaitStop, locks, waiting,
       counts
<1>9. ASSUME NEW x \in Threads PROVE HeldOK(x)'
  <2>1. HeldOK(x) /\ HeldOK(t) /\ ListOK(x) /\ NextOK(t)
    BY <1>1 DEF InvOK
  <2>2. TypeOK
    BY <1>1
  <2> QED
    BY <2>1, <2>2 DEF HeldOK, Suspends, ListOK, NextOK, Place, TypeOK, AwaitStop, locks, waiting,
       counts
<1>10. ASSUME NEW x \in Threads PROVE NewOK(x)'
  <2>1. NewOK(x) /\ NewOK(t) /\ ChildOK(t) /\ HeldOK(t) /\ NextOK(t)
    BY <1>1 DEF InvOK
  <2>2. TypeOK
    BY <1>1
  <2> QED
    BY <2>1, <2>2 DEF NewOK, NewPlaces, ChildOK, ParentPlaces, NextOK, Place, TypeOK,
       AwaitStop, locks, waiting, counts
<1>11. ASSUME NEW x \in Threads PROVE ChildOK(x)'
  <2>1. /\ ChildOK(x) /\ ChildOK(t) /\ OneParent(x, t) /\ NewOK(t) /\ NewOK(x)
        /\ NextOK(t)
    BY <1>1 DEF InvOK
  <2>2. TypeOK
    BY <1>1
  <2> QED
    BY <2>1, <2>2, <1>1 DEF ChildOK, OneParent, ParentPlaces, NewOK, NewPlaces, NextOK,
       Place, TypeOK, AwaitStop, locks, waiting, counts
<1>12. ASSUME NEW x \in Threads, NEW y \in Threads PROVE OneParent(x, y)'
  <2>1. OneParent(x, y) /\ ChildOK(x) /\ ChildOK(y)
    BY <1>1 DEF InvOK
  <2>2. TypeOK
    BY <1>1
  <2> QED
    BY <2>1, <2>2 DEF OneParent, ChildOK, NextOK, TypeOK, AwaitStop, locks, waiting,
       counts
<1>13. ASSUME NEW x \in Threads, NEW y \in Threads PROVE StopOK(x, y)'
  <2>1. /\ StopOK(x, y) /\ StopOK(x, t) /\ NewOK(y) /\ NewOK(t) /\ HeapOK(x)
        /\ HeapOK(t) /\ GcOK(x) /\ ListOK(x) /\ ListOK(t) /\ ChildOK(t)
        /\ NextOK(t) /\ HeldOK(x) /\ OneGc(x, t)
    BY <1>1 DEF InvOK
  <2>2. TypeOK
    BY <1>1
  <2>3. Robbed(y)' <=> Robbed(y)
    BY DEF Robbed, Holders, AwaitStop, locks, waiting, counts
  <2>4. /\ y \in held[x] /\ y \in threadList /\ suspendCount[y] = 0 => Robbed(y)
        /\ t \in held[x] /\ t \in threadList /\ suspendCount[t] = 0 => overlapped
    BY <1>2 DEF CountPos
  <2> QED
    BY <2>1, <2>2, <2>3, <2>4, <1>0, <1>1 DEF StopOK, Linking, NewOK, NewPlaces,
       HeapOK, ListOK, ChildOK, ParentPlaces, NextOK, HeldOK, OneParent, Place,
       StopPlaces, ResumePlaces, HeapPlaces, Wholes, Pauses, CollectorStops, InvOK,
       TypeOK, AwaitStop, locks, waiting, counts
<1>14. ASSUME NEW x \in Threads, NEW y \in Threads PROVE SnapOK(x, y)'
  <2>1. /\ SnapOK(x, y) /\ HeldOK(x) /\ ListOK(x) /\ ListOK(t) /\ NewOK(y)
        /\ NextOK(t)
    BY <1>1 DEF InvOK
  <2>2. TypeOK
    BY <1>1
  <2> QED
    BY <2>1, <2>2 DEF SnapOK, HeldOK, ListOK, NewOK, NewPlaces, NextOK,
       TypeOK, AwaitStop, locks, waiting, counts
<1>15. ASSUME NEW x \in Threads PROVE Balanced(x)'
  <2>1. Balanced(x)
    BY <1>1 DEF InvOK
  <2>2. UNCHANGED <<suspendCount, held>> /\ threadList' \subseteq threadList
    BY DEF AwaitStop, locks, waiting, counts
  <2>3. Holders(x)' = Holders(x)
    BY <2>2 DEF Holders
  <2> QED BY <2>1, <2>2, <2>3, <1>0 DEF Balanced, Robbed
<1> QED
  BY <1>0, <1>3, <1>4, <1>5, <1>6, <1>7, <1>8, <1>9, <1>10, <1>11, <1>12, <1>13, <1>14, <1>15
     DEF IInv, InvOK

\* The invariant is kept when the world has stopped.
LEMMA WorldStopsInv ==
  ASSUME IInv, Recorded, NEW t \in Threads, WorldStops(t)
  PROVE  IInv'
<1> USE NobodyAssumption
<1>1. TypeOK /\ InvOK
  BY DEF IInv
<1>2. CountPos
  BY CountsPositive
<1>0. OverlapOK' /\ (overlapped => overlapped')
  BY RecordedKept
<1>3. TypeOK'
  BY <1>1 DEF TypeOK, Labels, Statuses, Stops, CollectorStops, InvOK, NextOK,
     WorldStops, Goto, waiting, counts, work
<1>4. ASSUME NEW x \in Threads PROVE NextOK(x)'
  <2>1. NextOK(x) /\ NextOK(t)
    BY <1>1 DEF InvOK
  <2>2. TypeOK
    BY <1>1
  <2> QED
    BY <2>1, <2>2 DEF NextOK, TypeOK, WorldStops, Goto, waiting, counts, work
<1>5. ASSUME NEW x \in Threads PROVE HeapOK(x)'
  <2>1. HeapOK(x) /\ HeapOK(t) /\ GcOK(t) /\ NextOK(t)
    BY <1>1 DEF InvOK
  <2>2. TypeOK
    BY <1>1
  <2> QED
    BY <2>1, <2>2 DEF HeapOK, GcOK, InGc, NextOK, Place, StopPlaces, ResumePlaces,
       HeapPlaces, Wholes, Pauses, CollectorStops, TypeOK, WorldStops, Goto, waiting,
       counts, work
<1>6. ASSUME NEW x \in Threads PROVE ListOK(x)'
  <2>1. ListOK(x) /\ ListOK(t) /\ NextOK(t)
    BY <1>1 DEF InvOK
  <2>2. TypeOK
    BY <1>1
  <2> QED
    BY <2>1, <2>2 DEF ListOK, NextOK, TypeOK, WorldStops, Goto, waiting, counts, work
<1>7. ASSUME NEW x \in Threads PROVE GcOK(x)'
  <2>1. /\ GcOK(x) /\ GcOK(t) /\ OneGc(x, t) /\ HeapOK(t) /\ HeapOK(x)
        /\ NextOK(t)
    BY <1>1 DEF InvOK
  <2>2. TypeOK
    BY <1>1
  <2> QED
    BY <2>1, <2>2 DEF GcOK, InGc, OneGc, HeapOK, NextOK, Place, StopPlaces,
       ResumePlaces, HeapPlaces, Wholes, Pauses, CollectorStops, TypeOK, WorldStops,
       Goto, waiting, counts, work
<1>8. ASSUME NEW x \in Threads, NEW y \in Threads PROVE OneGc(x, y)'
  <2>1. /\ OneGc(x, y) /\ OneGc(x, t) /\ OneGc(t, y) /\ GcOK(x) /\ GcOK(y)
        /\ GcOK(t) /\ NextOK(t)
    BY <1>1 DEF InvOK
  <2>2. TypeOK
    BY <1>1
  <2> QED
    BY <2>1, <2>2 DEF OneGc, GcOK, InGc, NextOK, Place, StopPlaces, ResumePlaces,
       HeapPlaces, Wholes, Pauses, CollectorStops, TypeOK, WorldStops, Goto, waiting,
       counts, work
<1>9. ASSUME NEW x \in Threads PROVE HeldOK(x)'
  <2>1. HeldOK(x) /\ HeldOK(t) /\ ListOK(x) /\ NextOK(t)
    BY <1>1 DEF InvOK
  <2>2. TypeOK
    BY <1>1
  <2> QED
    BY <2>1, <2>2 DEF HeldOK, Suspends, ListOK, NextOK, Place, TypeOK, WorldStops, Goto, waiting,
       counts, work
<1>10. ASSUME NEW x \in Threads PROVE NewOK(x)'
  <2>1. NewOK(x) /\ NewOK(t) /\ ChildOK(t) /\ HeldOK(t) /\ NextOK(t)
    BY <1>1 DEF InvOK
  <2>2. TypeOK
    BY <1>1
  <2> QED
    BY <2>1, <2>2 DEF NewOK, NewPlaces, ChildOK, ParentPlaces, NextOK, Place, TypeOK,
       WorldStops, Goto, waiting, counts, work
<1>11. ASSUME NEW x \in Threads PROVE ChildOK(x)'
  <2>1. /\ ChildOK(x) /\ ChildOK(t) /\ OneParent(x, t) /\ NewOK(t) /\ NewOK(x)
        /\ NextOK(t)
    BY <1>1 DEF InvOK
  <2>2. TypeOK
    BY <1>1
  <2> QED
    BY <2>1, <2>2, <1>1 DEF ChildOK, OneParent, ParentPlaces, NewOK, NewPlaces, NextOK,
       Place, TypeOK, WorldStops, Goto, waiting, counts, work
<1>12. ASSUME NEW x \in Threads, NEW y \in Threads PROVE OneParent(x, y)'
  <2>1. OneParent(x, y) /\ ChildOK(x) /\ ChildOK(y)
    BY <1>1 DEF InvOK
  <2>2. TypeOK
    BY <1>1
  <2> QED
    BY <2>1, <2>2 DEF OneParent, ChildOK, NextOK, TypeOK, WorldStops, Goto, waiting,
       counts, work
<1>13. ASSUME NEW x \in Threads, NEW y \in Threads PROVE StopOK(x, y)'
  <2>1. /\ StopOK(x, y) /\ StopOK(x, t) /\ NewOK(y) /\ NewOK(t) /\ HeapOK(x)
        /\ HeapOK(t) /\ GcOK(x) /\ ListOK(x) /\ ListOK(t) /\ ChildOK(t)
        /\ NextOK(t) /\ HeldOK(x) /\ OneGc(x, t)
    BY <1>1 DEF InvOK
  <2>2. TypeOK
    BY <1>1
  <2>3. Robbed(y)' <=> Robbed(y)
    BY DEF Robbed, Holders, WorldStops, Goto, waiting, counts, work
  <2>4. /\ y \in held[x] /\ y \in threadList /\ suspendCount[y] = 0 => Robbed(y)
        /\ t \in held[x] /\ t \in threadList /\ suspendCount[t] = 0 => overlapped
    BY <1>2 DEF CountPos
  <2> QED
    BY <2>1, <2>2, <2>3, <2>4, <1>0, <1>1 DEF StopOK, Linking, NewOK, NewPlaces,
       HeapOK, ListOK, ChildOK, ParentPlaces, NextOK, HeldOK, OneParent, Place,
       StopPlaces, ResumePlaces, HeapPlaces, Wholes, Pauses, CollectorStops, InvOK,
       TypeOK, WorldStops, Goto, waiting, counts, work
<1>14. ASSUME NEW x \in Threads, NEW y \in Threads PROVE SnapOK(x, y)'
  <2>1. /\ SnapOK(x, y) /\ HeldOK(x) /\ ListOK(x) /\ ListOK(t) /\ NewOK(y)
        /\ NextOK(t)
    BY <1>1 DEF InvOK
  <2>2. TypeOK
    BY <1>1
  <2> QED
    BY <2>1, <2>2 DEF SnapOK, HeldOK, ListOK, NewOK, NewPlaces, NextOK,
       TypeOK, WorldStops, Goto, waiting, counts, work
<1>15. ASSUME NEW x \in Threads PROVE Balanced(x)'
  <2>1. Balanced(x)
    BY <1>1 DEF InvOK
  <2>2. UNCHANGED <<suspendCount, held>> /\ threadList' \subseteq threadList
    BY DEF WorldStops, Goto, waiting, counts, work
  <2>3. Holders(x)' = Holders(x)
    BY <2>2 DEF Holders
  <2> QED BY <2>1, <2>2, <2>3, <1>0 DEF Balanced, Robbed
<1> QED
  BY <1>0, <1>3, <1>4, <1>5, <1>6, <1>7, <1>8, <1>9, <1>10, <1>11, <1>12, <1>13, <1>14, <1>15
     DEF IInv, InvOK

\* The invariant is kept when all counts are taken back.
LEMMA UncountAllInv ==
  ASSUME IInv, Recorded, NEW t \in Threads, UncountAll(t)
  PROVE  IInv'
<1> USE NobodyAssumption
<1>1. TypeOK /\ InvOK
  BY DEF IInv
<1>2. CountPos
  BY CountsPositive
<1>0. OverlapOK' /\ (overlapped => overlapped')
  BY RecordedKept
<1>3. TypeOK'
  BY <1>1 DEF TypeOK, Labels, Statuses, Stops, CollectorStops, InvOK, NextOK,
     UncountAll, Goto, Become, Escape, TakeFromCounts, locks, waiting, work
<1>4. ASSUME NEW x \in Threads PROVE NextOK(x)'
  <2>1. NextOK(x) /\ NextOK(t)
    BY <1>1 DEF InvOK
  <2>2. TypeOK
    BY <1>1
  <2> QED
    BY <2>1, <2>2 DEF NextOK, TypeOK, UncountAll, Goto, Become, Escape, TakeFromCounts,
       locks, waiting, work
<1>5. ASSUME NEW x \in Threads PROVE HeapOK(x)'
  <2>1. HeapOK(x) /\ HeapOK(t) /\ GcOK(t) /\ NextOK(t)
    BY <1>1 DEF InvOK
  <2>2. TypeOK
    BY <1>1
  <2> QED
    BY <2>1, <2>2 DEF HeapOK, GcOK, InGc, NextOK, Place, StopPlaces, ResumePlaces,
       HeapPlaces, Wholes, Pauses, CollectorStops, TypeOK, UncountAll, Goto, Become,
       Escape, TakeFromCounts, locks, waiting, work
<1>6. ASSUME NEW x \in Threads PROVE ListOK(x)'
  <2>1. ListOK(x) /\ ListOK(t) /\ NextOK(t)
    BY <1>1 DEF InvOK
  <2>2. TypeOK
    BY <1>1
  <2> QED
    BY <2>1, <2>2 DEF ListOK, NextOK, TypeOK, UncountAll, Goto, Become, Escape,
       TakeFromCounts, locks, waiting, work
<1>7. ASSUME NEW x \in Threads PROVE GcOK(x)'
  <2>1. /\ GcOK(x) /\ GcOK(t) /\ OneGc(x, t) /\ HeapOK(t) /\ HeapOK(x)
        /\ NextOK(t)
    BY <1>1 DEF InvOK
  <2>2. TypeOK
    BY <1>1
  <2> QED
    BY <2>1, <2>2 DEF GcOK, InGc, OneGc, HeapOK, NextOK, Place, StopPlaces,
       ResumePlaces, HeapPlaces, Wholes, Pauses, CollectorStops, TypeOK, UncountAll,
       Goto, Become, Escape, TakeFromCounts, locks, waiting, work
<1>8. ASSUME NEW x \in Threads, NEW y \in Threads PROVE OneGc(x, y)'
  <2>1. /\ OneGc(x, y) /\ OneGc(x, t) /\ OneGc(t, y) /\ GcOK(x) /\ GcOK(y)
        /\ GcOK(t) /\ NextOK(t)
    BY <1>1 DEF InvOK
  <2>2. TypeOK
    BY <1>1
  <2> QED
    BY <2>1, <2>2 DEF OneGc, GcOK, InGc, NextOK, Place, StopPlaces, ResumePlaces,
       HeapPlaces, Wholes, Pauses, CollectorStops, TypeOK, UncountAll, Goto, Become,
       Escape, TakeFromCounts, locks, waiting, work
<1>9. ASSUME NEW x \in Threads PROVE HeldOK(x)'
  <2>1. HeldOK(x) /\ HeldOK(t) /\ ListOK(x) /\ NextOK(t)
    BY <1>1 DEF InvOK
  <2>2. TypeOK
    BY <1>1
  <2> QED
    BY <2>1, <2>2 DEF HeldOK, Suspends, ListOK, NextOK, Place, TypeOK, UncountAll, Goto, Become,
       Escape, TakeFromCounts, locks, waiting, work
<1>10. ASSUME NEW x \in Threads PROVE NewOK(x)'
  <2>1. NewOK(x) /\ NewOK(t) /\ ChildOK(t) /\ HeldOK(t) /\ NextOK(t)
    BY <1>1 DEF InvOK
  <2>2. TypeOK
    BY <1>1
  <2> QED
    BY <2>1, <2>2 DEF NewOK, NewPlaces, ChildOK, ParentPlaces, NextOK, Place, TypeOK,
       UncountAll, Goto, Become, Escape, TakeFromCounts, locks, waiting, work
<1>11. ASSUME NEW x \in Threads PROVE ChildOK(x)'
  <2>1. /\ ChildOK(x) /\ ChildOK(t) /\ OneParent(x, t) /\ NewOK(t) /\ NewOK(x)
        /\ NextOK(t)
    BY <1>1 DEF InvOK
  <2>2. TypeOK
    BY <1>1
  <2> QED
    BY <2>1, <2>2, <1>1 DEF ChildOK, OneParent, ParentPlaces, NewOK, NewPlaces, NextOK,
       Place, TypeOK, UncountAll, Goto, Become, Escape, TakeFromCounts, locks, waiting,
       work
<1>12. ASSUME NEW x \in Threads, NEW y \in Threads PROVE OneParent(x, y)'
  <2>1. OneParent(x, y) /\ ChildOK(x) /\ ChildOK(y)
    BY <1>1 DEF InvOK
  <2>2. TypeOK
    BY <1>1
  <2> QED
    BY <2>1, <2>2 DEF OneParent, ChildOK, NextOK, TypeOK, UncountAll, Goto, Become,
       Escape, TakeFromCounts, locks, waiting, work
<1>13. ASSUME NEW x \in Threads, NEW y \in Threads PROVE StopOK(x, y)'
  <2>1. TypeOK /\ StopOK(x, y) /\ HeldOK(t)
    BY <1>1 DEF InvOK
  <2>2. SUFFICES ASSUME at'[x] \in {"await", "stopped"}, stop[x] # "dump", y # x, y \in threadList
                 PROVE  IF y \in held[x]
                          THEN \/ y \in todo[x] \/ status'[y] # "RUNNING" \/ at'[y] = "check"
                               \/ escaped'[y] \/ Robbed(y)'
                          ELSE at'[y] = "pulse" \/ Linking(x, y)' \/ overlapped'
    <3>1. at'[t] = "uncounted"
      BY <2>1 DEF UncountAll, Goto, TypeOK
    <3>2. x # t => held'[x] = held[x]
      BY <2>1 DEF UncountAll, TakeFromCounts, TypeOK
    <3>3. UNCHANGED <<threadList, stop, todo>>
      BY DEF UncountAll, work
    <3> QED BY <3>1, <3>2, <3>3 DEF StopOK
  <2>3. x # t /\ at[x] = at'[x]
    BY <2>1, <2>2 DEF TypeOK, UncountAll, Goto
  <2>4. CASE y \in held[x]
    <3>1. \/ y \in todo[x] \/ status[y] # "RUNNING" \/ at[y] = "check"
          \/ escaped[y] \/ Robbed(y)
      BY <2>1, <2>2, <2>3, <2>4 DEF StopOK
    <3>2. CASE Robbed(y)
      BY <3>2, <2>2, <2>3, <2>4, UncountRobbed
    <3>3. CASE y = t /\ ~Robbed(y)
      <4>1. suspendCount[t] # 0
        BY <1>2, <2>2, <2>4, <3>3 DEF CountPos
      <4> QED BY <4>1, <3>3, <2>1, <2>4 DEF UncountAll, Escape, TypeOK
    <3>4. CASE y # t /\ ~Robbed(y)
      BY <3>1, <3>4, <2>1, <2>4 DEF UncountAll, Become, Goto, Escape, TypeOK
    <3> QED BY <3>2, <3>3, <3>4
  <2>5. CASE y \notin held[x]
    <3>1. at[y] = "pulse" \/ Linking(x, y) \/ overlapped
      BY <2>1, <2>2, <2>3, <2>5 DEF StopOK
    <3>2. at[t] = "resumeList" /\ at'= [at EXCEPT ![t] = "uncounted"]
          /\ status' = [status EXCEPT ![t] = "RUNNING"]
          /\ UNCHANGED <<next, child>>
      BY DEF UncountAll, Goto, Become, work
    <3>3. held'[x] = held[x]
      BY <2>1, <2>3 DEF UncountAll, TakeFromCounts, TypeOK
    <3>4. CASE Linking(x, y)
      <4>1. y # t
        BY <3>2, <3>4 DEF Linking
      <4>2. PICK p \in held[x] : /\ child[p] = y /\ at[p] \in {"check", "asleep"}
                                 /\ next[p] = "linked"
        BY <3>4 DEF Linking
      <4>3. p \in Threads /\ p # t
        BY <4>2, <3>2, <2>1 DEF TypeOK
      <4> QED BY <4>1, <4>2, <4>3, <3>2, <3>3, <3>4, <2>1, <2>5 DEF Linking, TypeOK
    <3>5. CASE at[y] = "pulse"
      BY <3>2, <3>5, <2>1, <2>5 DEF TypeOK
    <3> QED BY <3>1, <3>4, <3>5, <1>0, <2>5
  <2> QED BY <2>4, <2>5
<1>14. ASSUME NEW x \in Threads, NEW y \in Threads PROVE SnapOK(x, y)'
  <2>1. /\ SnapOK(x, y) /\ HeldOK(x) /\ ListOK(x) /\ ListOK(t) /\ NewOK(y)
        /\ NextOK(t)
    BY <1>1 DEF InvOK
  <2>2. TypeOK
    BY <1>1
  <2> QED
    BY <2>1, <2>2 DEF SnapOK, HeldOK, ListOK, NewOK, NewPlaces, NextOK,
       TypeOK, UncountAll, Goto, Become, Escape, TakeFromCounts, locks, waiting, work
<1>15. ASSUME NEW x \in Threads PROVE Balanced(x)'
  <2>1. Balanced(x) /\ HeldOK(t) /\ NewOK(x) /\ ChildOK(t) /\ TypeOK
    BY <1>1 DEF InvOK
  <2>2. IsFiniteSet(Holders(x)) /\ Cardinality(Holders(x)) \in Nat
    BY HoldersFinite
  <2>3. /\ Holders(x)' = Holders(x) \ {t} /\ threadList' = threadList
        /\ suspendCount'[x] = IF x \in threadList \ {t} /\ suspendCount[x] > 0
                               THEN suspendCount[x] - 1 ELSE suspendCount[x]
    BY <2>1 DEF Holders, UncountAll, TakeFromCounts, TypeOK
  <2>4. CASE t \in Holders(x)
    <3>1. Cardinality(Holders(x) \ {t}) = Cardinality(Holders(x)) - 1
      BY <2>4, <2>2, FS_RemoveElement
    <3>2. x # t
      BY <2>1, <2>4 DEF HeldOK, Holders
    <3>3. Cardinality(Holders(x)) > 0
      BY <2>2, <2>4, FS_EmptySet
    <3> QED BY <3>1, <3>2, <3>3, <2>1, <2>2, <2>3, <1>0 DEF Balanced, Robbed, TypeOK
  <2>5. CASE t \notin Holders(x)
    <3>1. Holders(x)' = Holders(x)
      BY <2>3, <2>5
    <3>2. CASE suspendCount'[x] = suspendCount[x]
      <4>1. Robbed(x)' <=> Robbed(x)
        BY <3>1, <3>2 DEF Robbed
      <4>2. Cardinality(Holders(x)') = Cardinality(Holders(x))
        BY <3>1
      <4> QED BY <4>1, <4>2, <3>2, <2>1, <2>3, <1>0 DEF Balanced
    <3>3. CASE suspendCount'[x] # suspendCount[x] /\ x \in threadList
      <4>1. suspendCount[x] > 0 /\ suspendCount'[x] = suspendCount[x] - 1
        BY <3>3, <2>3
      <4>2. Cardinality(Holders(x)) # 0
        BY <4>1, <3>3, <2>1, <2>2 DEF Balanced, TypeOK
      <4>3. PICK s \in Holders(x) : TRUE
        BY <4>2, <2>2, FS_EmptySet
      <4>4. overlapped
        BY <4>3, <2>5, OthersStop DEF UncountAll, Holders
      <4>5. Cardinality(Holders(x)') = Cardinality(Holders(x)) /\ suspendCount[x] \in Nat
        BY <3>1, <2>1 DEF TypeOK
      <4>6. suspendCount'[x] <= Cardinality(Holders(x)')
        BY <4>1, <4>5, <2>1, <2>2, <3>3 DEF Balanced
      <4> QED BY <4>4, <4>6, <1>0 DEF Balanced
    <3> QED BY <3>2, <3>3, <2>3 DEF Balanced
  <2> QED BY <2>4, <2>5
<1> QED
  BY <1>0, <1>3, <1>4, <1>5, <1>6, <1>7, <1>8, <1>9, <1>10, <1>11, <1>12, <1>13, <1>14, <1>15
     DEF IInv, InvOK

\* The invariant is kept when the suspend lock is released.
LEMMA ReleaseSuspendLockInv ==
  ASSUME IInv, Recorded, NEW t \in Threads, ReleaseSuspendLock(t)
  PROVE  IInv'
<1> USE NobodyAssumption
<1>1. TypeOK /\ InvOK
  BY DEF IInv
<1>2. CountPos
  BY CountsPositive
<1>0. OverlapOK' /\ (overlapped => overlapped')
  BY RecordedKept
<1>3. TypeOK'
  BY <1>1 DEF TypeOK, Labels, Statuses, Stops, CollectorStops, InvOK, NextOK,
     ReleaseSuspendLock, Goto, waiting, counts, work
<1>4. ASSUME NEW x \in Threads PROVE NextOK(x)'
  <2>1. NextOK(x) /\ NextOK(t)
    BY <1>1 DEF InvOK
  <2>2. TypeOK
    BY <1>1
  <2> QED
    BY <2>1, <2>2 DEF NextOK, TypeOK, ReleaseSuspendLock, Goto, waiting, counts, work
<1>5. ASSUME NEW x \in Threads PROVE HeapOK(x)'
  <2>1. HeapOK(x) /\ HeapOK(t) /\ GcOK(t) /\ NextOK(t)
    BY <1>1 DEF InvOK
  <2>2. TypeOK
    BY <1>1
  <2> QED
    BY <2>1, <2>2 DEF HeapOK, GcOK, InGc, NextOK, Place, StopPlaces, ResumePlaces,
       HeapPlaces, Wholes, Pauses, CollectorStops, TypeOK, ReleaseSuspendLock, Goto,
       waiting, counts, work
<1>6. ASSUME NEW x \in Threads PROVE ListOK(x)'
  <2>1. ListOK(x) /\ ListOK(t) /\ NextOK(t)
    BY <1>1 DEF InvOK
  <2>2. TypeOK
    BY <1>1
  <2> QED
    BY <2>1, <2>2 DEF ListOK, NextOK, TypeOK, ReleaseSuspendLock, Goto, waiting,
       counts, work
<1>7. ASSUME NEW x \in Threads PROVE GcOK(x)'
  <2>1. /\ GcOK(x) /\ GcOK(t) /\ OneGc(x, t) /\ HeapOK(t) /\ HeapOK(x)
        /\ NextOK(t)
    BY <1>1 DEF InvOK
  <2>2. TypeOK
    BY <1>1
  <2> QED
    BY <2>1, <2>2 DEF GcOK, InGc, OneGc, HeapOK, NextOK, Place, StopPlaces,
       ResumePlaces, HeapPlaces, Wholes, Pauses, CollectorStops, TypeOK,
       ReleaseSuspendLock, Goto, waiting, counts, work
<1>8. ASSUME NEW x \in Threads, NEW y \in Threads PROVE OneGc(x, y)'
  <2>1. /\ OneGc(x, y) /\ OneGc(x, t) /\ OneGc(t, y) /\ GcOK(x) /\ GcOK(y)
        /\ GcOK(t) /\ NextOK(t)
    BY <1>1 DEF InvOK
  <2>2. TypeOK
    BY <1>1
  <2> QED
    BY <2>1, <2>2 DEF OneGc, GcOK, InGc, NextOK, Place, StopPlaces, ResumePlaces,
       HeapPlaces, Wholes, Pauses, CollectorStops, TypeOK, ReleaseSuspendLock, Goto,
       waiting, counts, work
<1>9. ASSUME NEW x \in Threads PROVE HeldOK(x)'
  <2>1. HeldOK(x) /\ HeldOK(t) /\ ListOK(x) /\ NextOK(t)
    BY <1>1 DEF InvOK
  <2>2. TypeOK
    BY <1>1
  <2> QED
    BY <2>1, <2>2 DEF HeldOK, Suspends, ListOK, NextOK, Place, TypeOK, ReleaseSuspendLock, Goto,
       waiting, counts, work
<1>10. ASSUME NEW x \in Threads PROVE NewOK(x)'
  <2>1. NewOK(x) /\ NewOK(t) /\ ChildOK(t) /\ HeldOK(t) /\ NextOK(t)
    BY <1>1 DEF InvOK
  <2>2. TypeOK
    BY <1>1
  <2> QED
    BY <2>1, <2>2 DEF NewOK, NewPlaces, ChildOK, ParentPlaces, NextOK, Place, TypeOK,
       ReleaseSuspendLock, Goto, waiting, counts, work
<1>11. ASSUME NEW x \in Threads PROVE ChildOK(x)'
  <2>1. /\ ChildOK(x) /\ ChildOK(t) /\ OneParent(x, t) /\ NewOK(t) /\ NewOK(x)
        /\ NextOK(t)
    BY <1>1 DEF InvOK
  <2>2. TypeOK
    BY <1>1
  <2> QED
    BY <2>1, <2>2, <1>1 DEF ChildOK, OneParent, ParentPlaces, NewOK, NewPlaces, NextOK,
       Place, TypeOK, ReleaseSuspendLock, Goto, waiting, counts, work
<1>12. ASSUME NEW x \in Threads, NEW y \in Threads PROVE OneParent(x, y)'
  <2>1. OneParent(x, y) /\ ChildOK(x) /\ ChildOK(y)
    BY <1>1 DEF InvOK
  <2>2. TypeOK
    BY <1>1
  <2> QED
    BY <2>1, <2>2 DEF OneParent, ChildOK, NextOK, TypeOK, ReleaseSuspendLock, Goto,
       waiting, counts, work
<1>13. ASSUME NEW x \in Threads, NEW y \in Threads PROVE StopOK(x, y)'
  <2>1. /\ StopOK(x, y) /\ StopOK(x, t) /\ NewOK(y) /\ NewOK(t) /\ HeapOK(x)
        /\ HeapOK(t) /\ GcOK(x) /\ ListOK(x) /\ ListOK(t) /\ ChildOK(t)
        /\ NextOK(t) /\ HeldOK(x) /\ OneGc(x, t)
    BY <1>1 DEF InvOK
  <2>2. TypeOK
    BY <1>1
  <2>3. Robbed(y)' <=> Robbed(y)
    BY DEF Robbed, Holders, ReleaseSuspendLock, Goto, waiting, counts, work
  <2>4. /\ y \in held[x] /\ y \in threadList /\ suspendCount[y] = 0 => Robbed(y)
        /\ t \in held[x] /\ t \in threadList /\ suspendCount[t] = 0 => overlapped
    BY <1>2 DEF CountPos
  <2> QED
    BY <2>1, <2>2, <2>3, <2>4, <1>0, <1>1 DEF StopOK, Linking, NewOK, NewPlaces,
       HeapOK, ListOK, ChildOK, ParentPlaces, NextOK, HeldOK, OneParent, Place,
       StopPlaces, ResumePlaces, HeapPlaces, Wholes, Pauses, CollectorStops, InvOK,
       TypeOK, ReleaseSuspendLock, Goto, waiting, counts, work
<1>14. ASSUME NEW x \in Threads, NEW y \in Threads PROVE SnapOK(x, y)'
  <2>1. /\ SnapOK(x, y) /\ HeldOK(x) /\ ListOK(x) /\ ListOK(t) /\ NewOK(y)
        /\ NextOK(t)
    BY <1>1 DEF InvOK
  <2>2. TypeOK
    BY <1>1
  <2> QED
    BY <2>1, <2>2 DEF SnapOK, HeldOK, ListOK, NewOK, NewPlaces, NextOK,
       TypeOK, ReleaseSuspendLock, Goto, waiting, counts, work
<1>15. ASSUME NEW x \in Threads PROVE Balanced(x)'
  <2>1. Balanced(x)
    BY <1>1 DEF InvOK
  <2>2. UNCHANGED <<suspendCount, held>> /\ threadList' \subseteq threadList
    BY DEF ReleaseSuspendLock, Goto, waiting, counts, work
  <2>3. Holders(x)' = Holders(x)
    BY <2>2 DEF Holders
  <2> QED BY <2>1, <2>2, <2>3, <1>0 DEF Balanced, Robbed
<1> QED
  BY <1>0, <1>3, <1>4, <1>5, <1>6, <1>7, <1>8, <1>9, <1>10, <1>11, <1>12, <1>13, <1>14, <1>15
     DEF IInv, InvOK

\* Where a thread goes on once it has woken the sleepers.
LEMMA AfterBroadcast ==
  ASSUME TypeOK, NEW t \in Threads, Broadcast(t)
  PROVE  \E l \in {"run", "retry", "last", "marking", "sweeping"} :
           /\ at' = [at EXCEPT ![t] = l]
           /\ l \in {"retry", "last"} => stop[t] \in Wholes
           /\ l \in {"marking", "sweeping"} => stop[t] \in Pauses
<1>1. stop[t] \in {"foreground", "soft", "roots", "remark", "dump"}
  BY DEF TypeOK, Stops, CollectorStops
<1> DEFINE l == AfterResume[stop[t]]
<1>2. /\ stop[t] = "foreground" => l = "retry"
      /\ stop[t] = "soft" => l = "last"
      /\ stop[t] = "roots" => l = "marking"
      /\ stop[t] = "remark" => l = "sweeping"
      /\ stop[t] = "dump" => l = "run"
  BY DEF AfterResume
<1>3. at' = [at EXCEPT ![t] = l]
  BY DEF Broadcast, Goto
<1> HIDE DEF l
<1>4. /\ l \in {"run", "retry", "last", "marking", "sweeping"}
      /\ l \in {"retry", "last"} => stop[t] \in Wholes
      /\ l \in {"marking", "sweeping"} => stop[t] \in Pauses
  BY <1>1, <1>2 DEF Wholes, Pauses
<1> QED BY <1>3, <1>4

\* The invariant is kept when the sleepers are woken.
LEMMA BroadcastInv ==
  ASSUME IInv, Recorded, NEW t \in Threads, Broadcast(t)
  PROVE  IInv'
<1> USE NobodyAssumption
<1>1. TypeOK /\ InvOK
  BY DEF IInv
<1>2. CountPos
  BY CountsPositive
<1>0. OverlapOK' /\ (overlapped => overlapped')
  BY RecordedKept
<1>3. TypeOK'
  BY <1>1 DEF TypeOK, Labels, Statuses, Stops, CollectorStops, InvOK, NextOK,
     Broadcast, Goto, Wholes, Pauses, GcOK, locks, counts, work, AfterResume
<1>4. ASSUME NEW x \in Threads PROVE NextOK(x)'
  <2>1. NextOK(x) /\ NextOK(t) /\ GcOK(t)
    BY <1>1 DEF InvOK
  <2>2. TypeOK
    BY <1>1
  <2>3. PICK l \in {"run", "retry", "last", "marking", "sweeping"} :
             /\ at' = [at EXCEPT ![t] = l]
             /\ l \in {"retry", "last"} => stop[t] \in Wholes
             /\ l \in {"marking", "sweeping"} => stop[t] \in Pauses
    BY <2>1, <2>2, AfterBroadcast
  <2>4. /\ at[t] = "broadcast"
        /\ UNCHANGED <<status, counts, threadList, locks, gcRunning, next, work, escaped>>
    BY DEF Broadcast
  <2> QED
    BY <2>1, <2>2, <2>3, <2>4, <1>1 DEF NextOK, TypeOK, locks, counts, work, Wholes,
       Pauses
<1>5. ASSUME NEW x \in Threads PROVE HeapOK(x)'
  <2>1. HeapOK(x) /\ HeapOK(t) /\ GcOK(t) /\ NextOK(t)
    BY <1>1 DEF InvOK
  <2>2. TypeOK
    BY <1>1
  <2>3. PICK l \in {"run", "retry", "last", "marking", "sweeping"} :
             /\ at' = [at EXCEPT ![t] = l]
             /\ l \in {"retry", "last"} => stop[t] \in Wholes
             /\ l \in {"marking", "sweeping"} => stop[t] \in Pauses
    BY <2>1, <2>2, AfterBroadcast
  <2>4. /\ at[t] = "broadcast"
        /\ UNCHANGED <<status, counts, threadList, locks, gcRunning, next, work, escaped>>
    BY DEF Broadcast
  <2> QED
    BY <2>1, <2>2, <2>3, <2>4, <1>1 DEF HeapOK, GcOK, InGc, NextOK, Place, StopPlaces,
       ResumePlaces, HeapPlaces, Wholes, Pauses, CollectorStops, TypeOK, locks, counts,
       work
<1>6. ASSUME NEW x \in Threads PROVE ListOK(x)'
  <2>1. ListOK(x) /\ ListOK(t) /\ NextOK(t) /\ GcOK(t)
    BY <1>1 DEF InvOK
  <2>2. TypeOK
    BY <1>1
  <2>3. PICK l \in {"run", "retry", "last", "marking", "sweeping"} :
             /\ at' = [at EXCEPT ![t] = l]
             /\ l \in {"retry", "last"} => stop[t] \in Wholes
             /\ l \in {"marking", "sweeping"} => stop[t] \in Pauses
    BY <2>1, <2>2, AfterBroadcast
  <2>4. /\ at[t] = "broadcast"
        /\ UNCHANGED <<status, counts, threadList, locks, gcRunning, next, work, escaped>>
    BY DEF Broadcast
  <2> QED
    BY <2>1, <2>2, <2>3, <2>4, <1>1 DEF ListOK, NextOK, TypeOK, locks, counts, work,
       Wholes, Pauses
<1>7. ASSUME NEW x \in Threads PROVE GcOK(x)'
  <2>1. /\ GcOK(x) /\ GcOK(t) /\ OneGc(x, t) /\ HeapOK(t) /\ HeapOK(x)
        /\ NextOK(t)
    BY <1>1 DEF InvOK
  <2>2. TypeOK
    BY <1>1
  <2>3. PICK l \in {"run", "retry", "last", "marking", "sweeping"} :
             /\ at' = [at EXCEPT ![t] = l]
             /\ l \in {"retry", "last"} => stop[t] \in Wholes
             /\ l \in {"marking", "sweeping"} => stop[t] \in Pauses
    BY <2>1, <2>2, AfterBroadcast
  <2>4. /\ at[t] = "broadcast"
        /\ UNCHANGED <<status, counts, threadList, locks, gcRunning, next, work, escaped>>
    BY DEF Broadcast
  <2> QED
    BY <2>1, <2>2, <2>3, <2>4, <1>1 DEF GcOK, InGc, OneGc, HeapOK, NextOK, Place,
       StopPlaces, ResumePlaces, HeapPlaces, Wholes, Pauses, CollectorStops, TypeOK,
       locks, counts, work
<1>8. ASSUME NEW x \in Threads, NEW y \in Threads PROVE OneGc(x, y)'
  <2>1. /\ OneGc(x, y) /\ OneGc(x, t) /\ OneGc(t, y) /\ GcOK(x) /\ GcOK(y)
        /\ GcOK(t) /\ NextOK(t)
    BY <1>1 DEF InvOK
  <2>2. TypeOK
    BY <1>1
  <2>3. PICK l \in {"run", "retry", "last", "marking", "sweeping"} :
             /\ at' = [at EXCEPT ![t] = l]
             /\ l \in {"retry", "last"} => stop[t] \in Wholes
             /\ l \in {"marking", "sweeping"} => stop[t] \in Pauses
    BY <2>1, <2>2, AfterBroadcast
  <2>4. /\ at[t] = "broadcast"
        /\ UNCHANGED <<status, counts, threadList, locks, gcRunning, next, work, escaped>>
    BY DEF Broadcast
  <2> QED
    BY <2>1, <2>2, <2>3, <2>4, <1>1 DEF OneGc, GcOK, InGc, NextOK, Place, StopPlaces,
       ResumePlaces, HeapPlaces, Wholes, Pauses, CollectorStops, TypeOK, locks, counts,
       work
<1>9. ASSUME NEW x \in Threads PROVE HeldOK(x)'
  <2>1. HeldOK(x) /\ HeldOK(t) /\ ListOK(x) /\ NextOK(t) /\ GcOK(t)
    BY <1>1 DEF InvOK
  <2>2. TypeOK
    BY <1>1
  <2>3. PICK l \in {"run", "retry", "last", "marking", "sweeping"} :
             /\ at' = [at EXCEPT ![t] = l]
             /\ l \in {"retry", "last"} => stop[t] \in Wholes
             /\ l \in {"marking", "sweeping"} => stop[t] \in Pauses
    BY <2>1, <2>2, AfterBroadcast
  <2>4. /\ at[t] = "broadcast"
        /\ UNCHANGED <<status, counts, threadList, locks, gcRunning, next, work, escaped>>
    BY DEF Broadcast
  <2> QED
    BY <2>1, <2>2, <2>3, <2>4, <1>1 DEF HeldOK, Suspends, ListOK, NextOK, Place,
       TypeOK, locks, counts, work, Wholes, Pauses
<1>10. ASSUME NEW x \in Threads PROVE NewOK(x)'
  <2>1. /\ NewOK(x) /\ NewOK(t) /\ ChildOK(t) /\ HeldOK(t) /\ NextOK(t)
        /\ GcOK(t)
    BY <1>1 DEF InvOK
  <2>2. TypeOK
    BY <1>1
  <2>3. PICK l \in {"run", "retry", "last", "marking", "sweeping"} :
             /\ at' = [at EXCEPT ![t] = l]
             /\ l \in {"retry", "last"} => stop[t] \in Wholes
             /\ l \in {"marking", "sweeping"} => stop[t] \in Pauses
    BY <2>1, <2>2, AfterBroadcast
  <2>4. /\ at[t] = "broadcast"
        /\ UNCHANGED <<status, counts, threadList, locks, gcRunning, next, work, escaped>>
    BY DEF Broadcast
  <2> QED
    BY <2>1, <2>2, <2>3, <2>4, <1>1 DEF NewOK, NewPlaces, ChildOK, ParentPlaces,
       NextOK, Place, TypeOK, locks, counts, work, Wholes, Pauses
<1>11. ASSUME NEW x \in Threads PROVE ChildOK(x)'
  <2>1. /\ ChildOK(x) /\ ChildOK(t) /\ OneParent(x, t) /\ NewOK(t) /\ NewOK(x)
        /\ NextOK(t) /\ GcOK(t)
    BY <1>1 DEF InvOK
  <2>2. TypeOK
    BY <1>1
  <2>3. PICK l \in {"run", "retry", "last", "marking", "sweeping"} :
             /\ at' = [at EXCEPT ![t] = l]
             /\ l \in {"retry", "last"} => stop[t] \in Wholes
             /\ l \in {"marking", "sweeping"} => stop[t] \in Pauses
    BY <2>1, <2>2, AfterBroadcast
  <2>4. /\ at[t] = "broadcast"
        /\ UNCHANGED <<status, counts, threadList, locks, gcRunning, next, work, escaped>>
    BY DEF Broadcast
  <2> QED
    BY <2>1, <2>2, <2>3, <2>4, <1>1 DEF ChildOK, OneParent, ParentPlaces, NewOK,
       NewPlaces, NextOK, Place, TypeOK, locks, counts, work, Wholes, Pauses
<1>12. ASSUME NEW x \in Threads, NEW y \in Threads PROVE OneParent(x, y)'
  <2>1. OneParent(x, y) /\ ChildOK(x) /\ ChildOK(y) /\ GcOK(t)
    BY <1>1 DEF InvOK
  <2>2. TypeOK
    BY <1>1
  <2>3. PICK l \in {"run", "retry", "last", "marking", "sweeping"} :
             /\ at' = [at EXCEPT ![t] = l]
             /\ l \in {"retry", "last"} => stop[t] \in Wholes
             /\ l \in {"marking", "sweeping"} => stop[t] \in Pauses
    BY <2>1, <2>2, AfterBroadcast
  <2>4. /\ at[t] = "broadcast"
        /\ UNCHANGED <<status, counts, threadList, locks, gcRunning, next, work, escaped>>
    BY DEF Broadcast
  <2> QED
    BY <2>1, <2>2, <2>3, <2>4, <1>1 DEF OneParent, ChildOK, NextOK, TypeOK, locks,
       counts, work, Wholes, Pauses
<1>13. ASSUME NEW x \in Threads, NEW y \in Threads PROVE StopOK(x, y)'
  <2>1. TypeOK /\ StopOK(x, y) /\ GcOK(t)
    BY <1>1 DEF InvOK
  <2>2. Robbed(y)' <=> Robbed(y)
    BY DEF Robbed, Holders, Broadcast, counts
  <2>3. PICK l \in {"run", "retry", "last", "marking", "sweeping"} :
             at' = [at EXCEPT ![t] = l]
    BY <2>1, AfterBroadcast
  <2>4. /\ at[t] = "broadcast" /\ status' = [status EXCEPT ![t] = status[t]]
        /\ next' = [next EXCEPT ![t] = next[t]]
        /\ UNCHANGED <<threadList, stop, todo, child, held, escaped>>
    BY <2>1 DEF Broadcast, counts, work, TypeOK
  <2> QED BY <2>1, <2>2, <2>3, <2>4, <1>0, <1>2, Aside
<1>14. ASSUME NEW x \in Threads, NEW y \in Threads PROVE SnapOK(x, y)'
  <2>1. /\ SnapOK(x, y) /\ HeldOK(x) /\ ListOK(x) /\ ListOK(t) /\ NewOK(y)
        /\ NextOK(t) /\ GcOK(t)
    BY <1>1 DEF InvOK
  <2>2. TypeOK
    BY <1>1
  <2>3. PICK l \in {"run", "retry", "last", "marking", "sweeping"} :
             /\ at' = [at EXCEPT ![t] = l]
             /\ l \in {"retry", "last"} => stop[t] \in Wholes
             /\ l \in {"marking", "sweeping"} => stop[t] \in Pauses
    BY <2>1, <2>2, AfterBroadcast
  <2>4. /\ at[t] = "broadcast"
        /\ UNCHANGED <<status, counts, threadList, locks, gcRunning, next, work, escaped>>
    BY DEF Broadcast
  <2> QED
    BY <2>1, <2>2, <2>3, <2>4, <1>1 DEF SnapOK, HeldOK, ListOK, NewOK, NewPlaces,
       NextOK, TypeOK, locks, counts, work, Wholes, Pauses
<1>15. ASSUME NEW x \in Threads PROVE Balanced(x)'
  <2>1. Balanced(x)
    BY <1>1 DEF InvOK
  <2>2. UNCHANGED <<suspendCount, held>> /\ threadList' \subseteq threadList
    BY DEF Broadcast, Goto, locks, counts, work, AfterResume
  <2>3. Holders(x)' = Holders(x)
    BY <2>2 DEF Holders
  <2> QED BY <2>1, <2>2, <2>3, <1>0 DEF Balanced, Robbed
<1> QED
  BY <1>0, <1>3, <1>4, <1>5, <1>6, <1>7, <1>8, <1>9, <1>10, <1>11, <1>12, <1>13, <1>14, <1>15
     DEF IInv, InvOK

\* The invariant is kept when an allocation begins.
LEMMA AllocateInv ==
  ASSUME IInv, Recorded, NEW t \in Threads, Allocate(t)
  PROVE  IInv'
<1> USE NobodyAssumption
<1>1. TypeOK /\ InvOK
  BY DEF IInv
<1>2. CountPos
  BY CountsPositive
<1>0. OverlapOK' /\ (overlapped => overlapped')
  BY RecordedKept
<1>3. TypeOK'
  BY SMTT(30), <1>1 DEF TypeOK, Labels, Statuses, Stops, CollectorStops, InvOK, NextOK, Allocate,
     LockHeap, Goto, Become, Return, waiting, counts, work, Starts
<1>4. ASSUME NEW x \in Threads PROVE NextOK(x)'
  <2>1. NextOK(x) /\ NextOK(t)
    BY <1>1 DEF InvOK
  <2>2. TypeOK
    BY <1>1
  <2> QED
    BY <2>1, <2>2 DEF NextOK, TypeOK, Allocate, LockHeap, Goto, Become, Return,
       waiting, counts, work, Starts
<1>5. ASSUME NEW x \in Threads PROVE HeapOK(x)'
  <2>1. HeapOK(x) /\ HeapOK(t) /\ GcOK(t) /\ NextOK(t)
    BY <1>1 DEF InvOK
  <2>2. TypeOK
    BY <1>1
  <2> QED
    BY <2>1, <2>2 DEF HeapOK, GcOK, InGc, NextOK, Place, StopPlaces, ResumePlaces,
       HeapPlaces, Wholes, Pauses, CollectorStops, TypeOK, Allocate, LockHeap, Goto,
       Become, Return, waiting, counts, work, Starts
<1>6. ASSUME NEW x \in Threads PROVE ListOK(x)'
  <2>1. ListOK(x) /\ ListOK(t) /\ NextOK(t)
    BY <1>1 DEF InvOK
  <2>2. TypeOK
    BY <1>1
  <2> QED
    BY <2>1, <2>2 DEF ListOK, NextOK, TypeOK, Allocate, LockHeap, Goto, Become, Return,
       waiting, counts, work, Starts
<1>7. ASSUME NEW x \in Threads PROVE GcOK(x)'
  <2>1. /\ GcOK(x) /\ GcOK(t) /\ OneGc(x, t) /\ HeapOK(t) /\ HeapOK(x)
        /\ NextOK(t)
    BY <1>1 DEF InvOK
  <2>2. TypeOK
    BY <1>1
  <2> QED
    BY <2>1, <2>2 DEF GcOK, InGc, OneGc, HeapOK, NextOK, Place, StopPlaces,
       ResumePlaces, HeapPlaces, Wholes, Pauses, CollectorStops, TypeOK, Allocate,
       LockHeap, Goto, Become, Return, waiting, counts, work, Starts
<1>8. ASSUME NEW x \in Threads, NEW y \in Threads PROVE OneGc(x, y)'
  <2>1. /\ OneGc(x, y) /\ OneGc(x, t) /\ OneGc(t, y) /\ GcOK(x) /\ GcOK(y)
        /\ GcOK(t) /\ NextOK(t)
    BY <1>1 DEF InvOK
  <2>2. TypeOK
    BY <1>1
  <2> QED
    BY <2>1, <2>2 DEF OneGc, GcOK, InGc, NextOK, Place, StopPlaces, ResumePlaces,
       HeapPlaces, Wholes, Pauses, CollectorStops, TypeOK, Allocate, LockHeap, Goto,
       Become, Return, waiting, counts, work, Starts
<1>9. ASSUME NEW x \in Threads PROVE HeldOK(x)'
  <2>1. HeldOK(x) /\ HeldOK(t) /\ ListOK(x) /\ NextOK(t)
    BY <1>1 DEF InvOK
  <2>2. TypeOK
    BY <1>1
  <2> QED
    BY <2>1, <2>2 DEF HeldOK, Suspends, ListOK, NextOK, Place, TypeOK, Allocate, LockHeap, Goto,
       Become, Return, waiting, counts, work, Starts
<1>10. ASSUME NEW x \in Threads PROVE NewOK(x)'
  <2>1. NewOK(x) /\ NewOK(t) /\ ChildOK(t) /\ HeldOK(t) /\ NextOK(t)
    BY <1>1 DEF InvOK
  <2>2. TypeOK
    BY <1>1
  <2> QED
    BY <2>1, <2>2 DEF NewOK, NewPlaces, ChildOK, ParentPlaces, NextOK, Place, TypeOK,
       Allocate, LockHeap, Goto, Become, Return, waiting, counts, work, Starts
<1>11. ASSUME NEW x \in Threads PROVE ChildOK(x)'
  <2>1. /\ ChildOK(x) /\ ChildOK(t) /\ OneParent(x, t) /\ NewOK(t) /\ NewOK(x)
        /\ NextOK(t)
    BY <1>1 DEF InvOK
  <2>2. TypeOK
    BY <1>1
  <2> QED
    BY <2>1, <2>2, <1>1 DEF ChildOK, OneParent, ParentPlaces, NewOK, NewPlaces, NextOK,
       Place, TypeOK, Allocate, LockHeap, Goto, Become, Return, waiting, counts, work,
       Starts
<1>12. ASSUME NEW x \in Threads, NEW y \in Threads PROVE OneParent(x, y)'
  <2>1. OneParent(x, y) /\ ChildOK(x) /\ ChildOK(y)
    BY <1>1 DEF InvOK
  <2>2. TypeOK
    BY <1>1
  <2> QED
    BY <2>1, <2>2 DEF OneParent, ChildOK, NextOK, TypeOK, Allocate, LockHeap, Goto,
       Become, Return, waiting, counts, work, Starts
<1>13. ASSUME NEW x \in Threads, NEW y \in Threads PROVE StopOK(x, y)'
  <2>1. /\ StopOK(x, y) /\ StopOK(x, t) /\ NewOK(y) /\ NewOK(t) /\ HeapOK(x)
        /\ HeapOK(t) /\ GcOK(x) /\ ListOK(x) /\ ListOK(t) /\ ChildOK(t)
        /\ NextOK(t) /\ HeldOK(x) /\ OneGc(x, t)
    BY <1>1 DEF InvOK
  <2>2. TypeOK
    BY <1>1
  <2>3. Robbed(y)' <=> Robbed(y)
    BY DEF Robbed, Holders, Allocate, LockHeap, Goto, Become, Return, waiting, counts,
       work, Starts
  <2>4. /\ y \in held[x] /\ y \in threadList /\ suspendCount[y] = 0 => Robbed(y)
        /\ t \in held[x] /\ t \in threadList /\ suspendCount[t] = 0 => overlapped
    BY <1>2 DEF CountPos
  <2> QED
    BY SMTT(30), <2>1, <2>2, <2>3, <2>4, <1>0, <1>1 DEF StopOK, Linking, NewOK,
       NewPlaces, HeapOK, ListOK, ChildOK, ParentPlaces, NextOK, HeldOK, OneParent,
       Place, StopPlaces, ResumePlaces, HeapPlaces, Wholes, Pauses, CollectorStops,
       InvOK, TypeOK, Allocate, LockHeap, Goto, Become, Return, waiting, counts, work,
       Starts
<1>14. ASSUME NEW x \in Threads, NEW y \in Threads PROVE SnapOK(x, y)'
  <2>1. /\ SnapOK(x, y) /\ HeldOK(x) /\ ListOK(x) /\ ListOK(t) /\ NewOK(y)
        /\ NextOK(t)
    BY <1>1 DEF InvOK
  <2>2. TypeOK
    BY <1>1
  <2> QED
    BY <2>1, <2>2 DEF SnapOK, HeldOK, ListOK, NewOK, NewPlaces, NextOK,
       TypeOK, Allocate, LockHeap, Goto, Become, Return, waiting, counts, work, Starts
<1>15. ASSUME NEW x \in Threads PROVE Balanced(x)'
  <2>1. Balanced(x)
    BY <1>1 DEF InvOK
  <2>2. UNCHANGED <<suspendCount, held>> /\ threadList' \subseteq threadList
    BY DEF Allocate, LockHeap, Goto, Become, Return, waiting, counts, work, Starts
  <2>3. Holders(x)' = Holders(x)
    BY <2>2 DEF Holders
  <2> QED BY <2>1, <2>2, <2>3, <1>0 DEF Balanced, Robbed
<1> QED
  BY <1>0, <1>3, <1>4, <1>5, <1>6, <1>7, <1>8, <1>9, <1>10, <1>11, <1>12, <1>13, <1>14, <1>15
     DEF IInv, InvOK

\* The invariant is kept when the heap is locked.
LEMMA AcquireHeapInv ==
  ASSUME IInv, Recorded, NEW t \in Threads, AcquireHeap(t)
  PROVE  IInv'
<1> USE NobodyAssumption
<1>1. TypeOK /\ InvOK
  BY DEF IInv
<1>2. CountPos
  BY CountsPositive
<1>0. OverlapOK' /\ (overlapped => overlapped')
  BY RecordedKept
<1>3. TypeOK'
  BY <1>1 DEF TypeOK, Labels, Statuses, Stops, CollectorStops, InvOK, NextOK,
     AcquireHeap, Revive, Goto, Become, Return, waiting, counts, work
<1>4. ASSUME NEW x \in Threads PROVE NextOK(x)'
  <2>1. NextOK(x) /\ NextOK(t)
    BY <1>1 DEF InvOK
  <2>2. TypeOK
    BY <1>1
  <2> QED
    BY <2>1, <2>2 DEF NextOK, TypeOK, AcquireHeap, Revive, Goto, Become, Return,
       waiting, counts, work
<1>5. ASSUME NEW x \in Threads PROVE HeapOK(x)'
  <2>1. HeapOK(x) /\ HeapOK(t) /\ GcOK(t) /\ NextOK(t)
    BY <1>1 DEF InvOK
  <2>2. TypeOK
    BY <1>1
  <2> QED
    BY <2>1, <2>2 DEF HeapOK, GcOK, InGc, NextOK, Place, StopPlaces, ResumePlaces,
       HeapPlaces, Wholes, Pauses, CollectorStops, TypeOK, AcquireHeap, Revive, Goto,
       Become, Return, waiting, counts, work
<1>6. ASSUME NEW x \in Threads PROVE ListOK(x)'
  <2>1. ListOK(x) /\ ListOK(t) /\ NextOK(t)
    BY <1>1 DEF InvOK
  <2>2. TypeOK
    BY <1>1
  <2> QED
    BY <2>1, <2>2 DEF ListOK, NextOK, TypeOK, AcquireHeap, Revive, Goto, Become,
       Return, waiting, counts, work
<1>7. ASSUME NEW x \in Threads PROVE GcOK(x)'
  <2>1. /\ GcOK(x) /\ GcOK(t) /\ OneGc(x, t) /\ HeapOK(t) /\ HeapOK(x)
        /\ NextOK(t)
    BY <1>1 DEF InvOK
  <2>2. TypeOK
    BY <1>1
  <2> QED
    BY <2>1, <2>2 DEF GcOK, InGc, OneGc, HeapOK, NextOK, Place, StopPlaces,
       ResumePlaces, HeapPlaces, Wholes, Pauses, CollectorStops, TypeOK, AcquireHeap,
       Revive, Goto, Become, Return, waiting, counts, work
<1>8. ASSUME NEW x \in Threads, NEW y \in Threads PROVE OneGc(x, y)'
  <2>1. /\ OneGc(x, y) /\ OneGc(x, t) /\ OneGc(t, y) /\ GcOK(x) /\ GcOK(y)
        /\ GcOK(t) /\ NextOK(t)
    BY <1>1 DEF InvOK
  <2>2. TypeOK
    BY <1>1
  <2> QED
    BY <2>1, <2>2 DEF OneGc, GcOK, InGc, NextOK, Place, StopPlaces, ResumePlaces,
       HeapPlaces, Wholes, Pauses, CollectorStops, TypeOK, AcquireHeap, Revive, Goto,
       Become, Return, waiting, counts, work
<1>9. ASSUME NEW x \in Threads PROVE HeldOK(x)'
  <2>1. HeldOK(x) /\ HeldOK(t) /\ ListOK(x) /\ NextOK(t)
    BY <1>1 DEF InvOK
  <2>2. TypeOK
    BY <1>1
  <2> QED
    BY <2>1, <2>2 DEF HeldOK, Suspends, ListOK, NextOK, Place, TypeOK, AcquireHeap, Revive, Goto,
       Become, Return, waiting, counts, work
<1>10. ASSUME NEW x \in Threads PROVE NewOK(x)'
  <2>1. NewOK(x) /\ NewOK(t) /\ ChildOK(t) /\ HeldOK(t) /\ NextOK(t)
    BY <1>1 DEF InvOK
  <2>2. TypeOK
    BY <1>1
  <2> QED
    BY <2>1, <2>2 DEF NewOK, NewPlaces, ChildOK, ParentPlaces, NextOK, Place, TypeOK,
       AcquireHeap, Revive, Goto, Become, Return, waiting, counts, work
<1>11. ASSUME NEW x \in Threads PROVE ChildOK(x)'
  <2>1. /\ ChildOK(x) /\ ChildOK(t) /\ OneParent(x, t) /\ NewOK(t) /\ NewOK(x)
        /\ NextOK(t)
    BY <1>1 DEF InvOK
  <2>2. TypeOK
    BY <1>1
  <2> QED
    BY <2>1, <2>2, <1>1 DEF ChildOK, OneParent, ParentPlaces, NewOK, NewPlaces, NextOK,
       Place, TypeOK, AcquireHeap, Revive, Goto, Become, Return, waiting, counts, work
<1>12. ASSUME NEW x \in Threads, NEW y \in Threads PROVE OneParent(x, y)'
  <2>1. OneParent(x, y) /\ ChildOK(x) /\ ChildOK(y)
    BY <1>1 DEF InvOK
  <2>2. TypeOK
    BY <1>1
  <2> QED
    BY <2>1, <2>2 DEF OneParent, ChildOK, NextOK, TypeOK, AcquireHeap, Revive, Goto,
       Become, Return, waiting, counts, work
<1>13. ASSUME NEW x \in Threads, NEW y \in Threads PROVE StopOK(x, y)'
  <2>1. /\ StopOK(x, y) /\ StopOK(x, t) /\ NewOK(y) /\ NewOK(t) /\ HeapOK(x)
        /\ HeapOK(t) /\ GcOK(x) /\ ListOK(x) /\ ListOK(t) /\ ChildOK(t)
        /\ NextOK(t) /\ HeldOK(x) /\ OneGc(x, t)
    BY <1>1 DEF InvOK
  <2>2. TypeOK
    BY <1>1
  <2>3. Robbed(y)' <=> Robbed(y)
    BY DEF Robbed, Holders, AcquireHeap, Revive, Goto, Become, Return, waiting, counts,
       work
  <2>4. /\ y \in held[x] /\ y \in threadList /\ suspendCount[y] = 0 => Robbed(y)
        /\ t \in held[x] /\ t \in threadList /\ suspendCount[t] = 0 => overlapped
    BY <1>2 DEF CountPos
  <2> QED
    BY <2>1, <2>2, <2>3, <2>4, <1>0, <1>1 DEF StopOK, Linking, NewOK, NewPlaces,
       HeapOK, ListOK, ChildOK, ParentPlaces, NextOK, HeldOK, OneParent, Place,
       StopPlaces, ResumePlaces, HeapPlaces, Wholes, Pauses, CollectorStops, InvOK,
       TypeOK, AcquireHeap, Revive, Goto, Become, Return, waiting, counts, work
<1>14. ASSUME NEW x \in Threads, NEW y \in Threads PROVE SnapOK(x, y)'
  <2>1. /\ SnapOK(x, y) /\ HeldOK(x) /\ ListOK(x) /\ ListOK(t) /\ NewOK(y)
        /\ NextOK(t)
    BY <1>1 DEF InvOK
  <2>2. TypeOK
    BY <1>1
  <2> QED
    BY <2>1, <2>2 DEF SnapOK, HeldOK, ListOK, NewOK, NewPlaces, NextOK,
       TypeOK, AcquireHeap, Revive, Goto, Become, Return, waiting, counts, work
<1>15. ASSUME NEW x \in Threads PROVE Balanced(x)'
  <2>1. Balanced(x)
    BY <1>1 DEF InvOK
  <2>2. UNCHANGED <<suspendCount, held>> /\ threadList' \subseteq threadList
    BY DEF AcquireHeap, Revive, Goto, Become, Return, waiting, counts, work
  <2>3. Holders(x)' = Holders(x)
    BY <2>2 DEF Holders
  <2> QED BY <2>1, <2>2, <2>3, <1>0 DEF Balanced, Robbed
<1> QED
  BY <1>0, <1>3, <1>4, <1>5, <1>6, <1>7, <1>8, <1>9, <1>10, <1>11, <1>12, <1>13, <1>14, <1>15
     DEF IInv, InvOK

\* The invariant is kept when an allocation ends.
LEMMA AllocatedInv ==
  ASSUME IInv, Recorded, NEW t \in Threads, Allocated(t)
  PROVE  IInv'
<1> USE NobodyAssumption
<1>1. TypeOK /\ InvOK
  BY DEF IInv
<1>2. CountPos
  BY CountsPositive
<1>0. OverlapOK' /\ (overlapped => overlapped')
  BY RecordedKept
<1>3. TypeOK'
  BY <1>1 DEF TypeOK, Labels, Statuses, Stops, CollectorStops, InvOK, NextOK,
     Allocated, Goto, waiting, counts, work
<1>4. ASSUME NEW x \in Threads PROVE NextOK(x)'
  <2>1. NextOK(x) /\ NextOK(t)
    BY <1>1 DEF InvOK
  <2>2. TypeOK
    BY <1>1
  <2> QED
    BY <2>1, <2>2 DEF NextOK, TypeOK, Allocated, Goto, waiting, counts, work
<1>5. ASSUME NEW x \in Threads PROVE HeapOK(x)'
  <2>1. HeapOK(x) /\ HeapOK(t) /\ GcOK(t) /\ NextOK(t)
    BY <1>1 DEF InvOK
  <2>2. TypeOK
    BY <1>1
  <2> QED
    BY <2>1, <2>2 DEF HeapOK, GcOK, InGc, NextOK, Place, StopPlaces, ResumePlaces,
       HeapPlaces, Wholes, Pauses, CollectorStops, TypeOK, Allocated, Goto, waiting,
       counts, work
<1>6. ASSUME NEW x \in Threads PROVE ListOK(x)'
  <2>1. ListOK(x) /\ ListOK(t) /\ NextOK(t)
    BY <1>1 DEF InvOK
  <2>2. TypeOK
    BY <1>1
  <2> QED
    BY <2>1, <2>2 DEF ListOK, NextOK, TypeOK, Allocated, Goto, waiting, counts, work
<1>7. ASSUME NEW x \in Threads PROVE GcOK(x)'
  <2>1. /\ GcOK(x) /\ GcOK(t) /\ OneGc(x, t) /\ HeapOK(t) /\ HeapOK(x)
        /\ NextOK(t)
    BY <1>1 DEF InvOK
  <2>2. TypeOK
    BY <1>1
  <2> QED
    BY <2>1, <2>2 DEF GcOK, InGc, OneGc, HeapOK, NextOK, Place, StopPlaces,
       ResumePlaces, HeapPlaces, Wholes, Pauses, CollectorStops, TypeOK, Allocated,
       Goto, waiting, counts, work
<1>8. ASSUME NEW x \in Threads, NEW y \in Threads PROVE OneGc(x, y)'
  <2>1. /\ OneGc(x, y) /\ OneGc(x, t) /\ OneGc(t, y) /\ GcOK(x) /\ GcOK(y)
        /\ GcOK(t) /\ NextOK(t)
    BY <1>1 DEF InvOK
  <2>2. TypeOK
    BY <1>1
  <2> QED
    BY <2>1, <2>2 DEF OneGc, GcOK, InGc, NextOK, Place, StopPlaces, ResumePlaces,
       HeapPlaces, Wholes, Pauses, CollectorStops, TypeOK, Allocated, Goto, waiting,
       counts, work
<1>9. ASSUME NEW x \in Threads PROVE HeldOK(x)'
  <2>1. HeldOK(x) /\ HeldOK(t) /\ ListOK(x) /\ NextOK(t)
    BY <1>1 DEF InvOK
  <2>2. TypeOK
    BY <1>1
  <2> QED
    BY <2>1, <2>2 DEF HeldOK, Suspends, ListOK, NextOK, Place, TypeOK, Allocated, Goto, waiting,
       counts, work
<1>10. ASSUME NEW x \in Threads PROVE NewOK(x)'
  <2>1. NewOK(x) /\ NewOK(t) /\ ChildOK(t) /\ HeldOK(t) /\ NextOK(t)
    BY <1>1 DEF InvOK
  <2>2. TypeOK
    BY <1>1
  <2> QED
    BY <2>1, <2>2 DEF NewOK, NewPlaces, ChildOK, ParentPlaces, NextOK, Place, TypeOK,
       Allocated, Goto, waiting, counts, work
<1>11. ASSUME NEW x \in Threads PROVE ChildOK(x)'
  <2>1. /\ ChildOK(x) /\ ChildOK(t) /\ OneParent(x, t) /\ NewOK(t) /\ NewOK(x)
        /\ NextOK(t)
    BY <1>1 DEF InvOK
  <2>2. TypeOK
    BY <1>1
  <2> QED
    BY <2>1, <2>2, <1>1 DEF ChildOK, OneParent, ParentPlaces, NewOK, NewPlaces, NextOK,
       Place, TypeOK, Allocated, Goto, waiting, counts, work
<1>12. ASSUME NEW x \in Threads, NEW y \in Threads PROVE OneParent(x, y)'
  <2>1. OneParent(x, y) /\ ChildOK(x) /\ ChildOK(y)
    BY <1>1 DEF InvOK
  <2>2. TypeOK
    BY <1>1
  <2> QED
    BY <2>1, <2>2 DEF OneParent, ChildOK, NextOK, TypeOK, Allocated, Goto, waiting,
       counts, work
<1>13. ASSUME NEW x \in Threads, NEW y \in Threads PROVE StopOK(x, y)'
  <2>1. /\ StopOK(x, y) /\ StopOK(x, t) /\ NewOK(y) /\ NewOK(t) /\ HeapOK(x)
        /\ HeapOK(t) /\ GcOK(x) /\ ListOK(x) /\ ListOK(t) /\ ChildOK(t)
        /\ NextOK(t) /\ HeldOK(x) /\ OneGc(x, t)
    BY <1>1 DEF InvOK
  <2>2. TypeOK
    BY <1>1
  <2>3. Robbed(y)' <=> Robbed(y)
    BY DEF Robbed, Holders, Allocated, Goto, waiting, counts, work
  <2>4. /\ y \in held[x] /\ y \in threadList /\ suspendCount[y] = 0 => Robbed(y)
        /\ t \in held[x] /\ t \in threadList /\ suspendCount[t] = 0 => overlapped
    BY <1>2 DEF CountPos
  <2> QED
    BY <2>1, <2>2, <2>3, <2>4, <1>0, <1>1 DEF StopOK, Linking, NewOK, NewPlaces,
       HeapOK, ListOK, ChildOK, ParentPlaces, NextOK, HeldOK, OneParent, Place,
       StopPlaces, ResumePlaces, HeapPlaces, Wholes, Pauses, CollectorStops, InvOK,
       TypeOK, Allocated, Goto, waiting, counts, work
<1>14. ASSUME NEW x \in Threads, NEW y \in Threads PROVE SnapOK(x, y)'
  <2>1. /\ SnapOK(x, y) /\ HeldOK(x) /\ ListOK(x) /\ ListOK(t) /\ NewOK(y)
        /\ NextOK(t)
    BY <1>1 DEF InvOK
  <2>2. TypeOK
    BY <1>1
  <2> QED
    BY <2>1, <2>2 DEF SnapOK, HeldOK, ListOK, NewOK, NewPlaces, NextOK,
       TypeOK, Allocated, Goto, waiting, counts, work
<1>15. ASSUME NEW x \in Threads PROVE Balanced(x)'
  <2>1. Balanced(x)
    BY <1>1 DEF InvOK
  <2>2. UNCHANGED <<suspendCount, held>> /\ threadList' \subseteq threadList
    BY DEF Allocated, Goto, waiting, counts, work
  <2>3. Holders(x)' = Holders(x)
    BY <2>2 DEF Holders
  <2> QED BY <2>1, <2>2, <2>3, <1>0 DEF Balanced, Robbed
<1> QED
  BY <1>0, <1>3, <1>4, <1>5, <1>6, <1>7, <1>8, <1>9, <1>10, <1>11, <1>12, <1>13, <1>14, <1>15
     DEF IInv, InvOK

\* The invariant is kept when an allocation waits for a collection.
LEMMA WaitForGcInv ==
  ASSUME IInv, Recorded, NEW t \in Threads, WaitForGc(t)
  PROVE  IInv'
<1> USE NobodyAssumption
<1>1. TypeOK /\ InvOK
  BY DEF IInv
<1>2. CountPos
  BY CountsPositive
<1>0. OverlapOK' /\ (overlapped => overlapped')
  BY RecordedKept
<1>3. TypeOK'
  BY <1>1 DEF TypeOK, Labels, Statuses, Stops, CollectorStops, InvOK, NextOK,
     WaitForGc, Goto, Become, counts, work
<1>4. ASSUME NEW x \in Threads PROVE NextOK(x)'
  <2>1. NextOK(x) /\ NextOK(t)
    BY <1>1 DEF InvOK
  <2>2. TypeOK
    BY <1>1
  <2> QED
    BY <2>1, <2>2 DEF NextOK, TypeOK, WaitForGc, Goto, Become, counts, work
<1>5. ASSUME NEW x \in Threads PROVE HeapOK(x)'
  <2>1. HeapOK(x) /\ HeapOK(t) /\ GcOK(t) /\ NextOK(t)
    BY <1>1 DEF InvOK
  <2>2. TypeOK
    BY <1>1
  <2> QED
    BY <2>1, <2>2 DEF HeapOK, GcOK, InGc, NextOK, Place, StopPlaces, ResumePlaces,
       HeapPlaces, Wholes, Pauses, CollectorStops, TypeOK, WaitForGc, Goto, Become,
       counts, work
<1>6. ASSUME NEW x \in Threads PROVE ListOK(x)'
  <2>1. ListOK(x) /\ ListOK(t) /\ NextOK(t)
    BY <1>1 DEF InvOK
  <2>2. TypeOK
    BY <1>1
  <2> QED
    BY <2>1, <2>2 DEF ListOK, NextOK, TypeOK, WaitForGc, Goto, Become, counts, work
<1>7. ASSUME NEW x \in Threads PROVE GcOK(x)'
  <2>1. /\ GcOK(x) /\ GcOK(t) /\ OneGc(x, t) /\ HeapOK(t) /\ HeapOK(x)
        /\ NextOK(t)
    BY <1>1 DEF InvOK
  <2>2. TypeOK
    BY <1>1
  <2> QED
    BY <2>1, <2>2 DEF GcOK, InGc, OneGc, HeapOK, NextOK, Place, StopPlaces,
       ResumePlaces, HeapPlaces, Wholes, Pauses, CollectorStops, TypeOK, WaitForGc,
       Goto, Become, counts, work
<1>8. ASSUME NEW x \in Threads, NEW y \in Threads PROVE OneGc(x, y)'
  <2>1. /\ OneGc(x, y) /\ OneGc(x, t) /\ OneGc(t, y) /\ GcOK(x) /\ GcOK(y)
        /\ GcOK(t) /\ NextOK(t)
    BY <1>1 DEF InvOK
  <2>2. TypeOK
    BY <1>1
  <2> QED
    BY <2>1, <2>2 DEF OneGc, GcOK, InGc, NextOK, Place, StopPlaces, ResumePlaces,
       HeapPlaces, Wholes, Pauses, CollectorStops, TypeOK, WaitForGc, Goto, Become,
       counts, work
<1>9. ASSUME NEW x \in Threads PROVE HeldOK(x)'
  <2>1. HeldOK(x) /\ HeldOK(t) /\ ListOK(x) /\ NextOK(t)
    BY <1>1 DEF InvOK
  <2>2. TypeOK
    BY <1>1
  <2> QED
    BY <2>1, <2>2 DEF HeldOK, Suspends, ListOK, NextOK, Place, TypeOK, WaitForGc, Goto, Become,
       counts, work
<1>10. ASSUME NEW x \in Threads PROVE NewOK(x)'
  <2>1. NewOK(x) /\ NewOK(t) /\ ChildOK(t) /\ HeldOK(t) /\ NextOK(t)
    BY <1>1 DEF InvOK
  <2>2. TypeOK
    BY <1>1
  <2> QED
    BY <2>1, <2>2 DEF NewOK, NewPlaces, ChildOK, ParentPlaces, NextOK, Place, TypeOK,
       WaitForGc, Goto, Become, counts, work
<1>11. ASSUME NEW x \in Threads PROVE ChildOK(x)'
  <2>1. /\ ChildOK(x) /\ ChildOK(t) /\ OneParent(x, t) /\ NewOK(t) /\ NewOK(x)
        /\ NextOK(t)
    BY <1>1 DEF InvOK
  <2>2. TypeOK
    BY <1>1
  <2> QED
    BY <2>1, <2>2, <1>1 DEF ChildOK, OneParent, ParentPlaces, NewOK, NewPlaces, NextOK,
       Place, TypeOK, WaitForGc, Goto, Become, counts, work
<1>12. ASSUME NEW x \in Threads, NEW y \in Threads PROVE OneParent(x, y)'
  <2>1. OneParent(x, y) /\ ChildOK(x) /\ ChildOK(y)
    BY <1>1 DEF InvOK
  <2>2. TypeOK
    BY <1>1
  <2> QED
    BY <2>1, <2>2 DEF OneParent, ChildOK, NextOK, TypeOK, WaitForGc, Goto, Become,
       counts, work
<1>13. ASSUME NEW x \in Threads, NEW y \in Threads PROVE StopOK(x, y)'
  <2>1. /\ StopOK(x, y) /\ StopOK(x, t) /\ NewOK(y) /\ NewOK(t) /\ HeapOK(x)
        /\ HeapOK(t) /\ GcOK(x) /\ ListOK(x) /\ ListOK(t) /\ ChildOK(t)
        /\ NextOK(t) /\ HeldOK(x) /\ OneGc(x, t)
    BY <1>1 DEF InvOK
  <2>2. TypeOK
    BY <1>1
  <2>3. Robbed(y)' <=> Robbed(y)
    BY DEF Robbed, Holders, WaitForGc, Goto, Become, counts, work
  <2>4. /\ y \in held[x] /\ y \in threadList /\ suspendCount[y] = 0 => Robbed(y)
        /\ t \in held[x] /\ t \in threadList /\ suspendCount[t] = 0 => overlapped
    BY <1>2 DEF CountPos
  <2> QED
    BY <2>1, <2>2, <2>3, <2>4, <1>0, <1>1 DEF StopOK, Linking, NewOK, NewPlaces,
       HeapOK, ListOK, ChildOK, ParentPlaces, NextOK, HeldOK, OneParent, Place,
       StopPlaces, ResumePlaces, HeapPlaces, Wholes, Pauses, CollectorStops, InvOK,
       TypeOK, WaitForGc, Goto, Become, counts, work
<1>14. ASSUME NEW x \in Threads, NEW y \in Threads PROVE SnapOK(x, y)'
  <2>1. /\ SnapOK(x, y) /\ HeldOK(x) /\ ListOK(x) /\ ListOK(t) /\ NewOK(y)
        /\ NextOK(t)
    BY <1>1 DEF InvOK
  <2>2. TypeOK
    BY <1>1
  <2> QED
    BY <2>1, <2>2 DEF SnapOK, HeldOK, ListOK, NewOK, NewPlaces, NextOK,
       TypeOK, WaitForGc, Goto, Become, counts, work
<1>15. ASSUME NEW x \in Threads PROVE Balanced(x)'
  <2>1. Balanced(x)
    BY <1>1 DEF InvOK
  <2>2. UNCHANGED <<suspendCount, held>> /\ threadList' \subseteq threadList
    BY DEF WaitForGc, Goto, Become, counts, work
  <2>3. Holders(x)' = Holders(x)
    BY <2>2 DEF Holders
  <2> QED BY <2>1, <2>2, <2>3, <1>0 DEF Balanced, Robbed
<1> QED
  BY <1>0, <1>3, <1>4, <1>5, <1>6, <1>7, <1>8, <1>9, <1>10, <1>11, <1>12, <1>13, <1>14, <1>15
     DEF IInv, InvOK

\* The invariant is kept when it has waited.
LEMMA GcOverInv ==
  ASSUME IInv, Recorded, NEW t \in Threads, GcOver(t)
  PROVE  IInv'
<1> USE NobodyAssumption
<1>1. TypeOK /\ InvOK
  BY DEF IInv
<1>2. CountPos
  BY CountsPositive
<1>0. OverlapOK' /\ (overlapped => overlapped')
  BY RecordedKept
<1>3. TypeOK'
  BY <1>1 DEF TypeOK, Labels, Statuses, Stops, CollectorStops, InvOK, NextOK, GcOver,
     Revive, Goto, Become, Return, waiting, counts, work
<1>4. ASSUME NEW x \in Threads PROVE NextOK(x)'
  <2>1. NextOK(x) /\ NextOK(t)
    BY <1>1 DEF InvOK
  <2>2. TypeOK
    BY <1>1
  <2> QED
    BY <2>1, <2>2 DEF NextOK, TypeOK, GcOver, Revive, Goto, Become, Return, waiting,
       counts, work
<1>5. ASSUME NEW x \in Threads PROVE HeapOK(x)'
  <2>1. HeapOK(x) /\ HeapOK(t) /\ GcOK(t) /\ NextOK(t)
    BY <1>1 DEF InvOK
  <2>2. TypeOK
    BY <1>1
  <2> QED
    BY <2>1, <2>2 DEF HeapOK, GcOK, InGc, NextOK, Place, StopPlaces, ResumePlaces,
       HeapPlaces, Wholes, Pauses, CollectorStops, TypeOK, GcOver, Revive, Goto,
       Become, Return, waiting, counts, work
<1>6. ASSUME NEW x \in Threads PROVE ListOK(x)'
  <2>1. ListOK(x) /\ ListOK(t) /\ NextOK(t)
    BY <1>1 DEF InvOK
  <2>2. TypeOK
    BY <1>1
  <2> QED
    BY <2>1, <2>2 DEF ListOK, NextOK, TypeOK, GcOver, Revive, Goto, Become, Return,
       waiting, counts, work
<1>7. ASSUME NEW x \in Threads PROVE GcOK(x)'
  <2>1. /\ GcOK(x) /\ GcOK(t) /\ OneGc(x, t) /\ HeapOK(t) /\ HeapOK(x)
        /\ NextOK(t)
    BY <1>1 DEF InvOK
  <2>2. TypeOK
    BY <1>1
  <2> QED
    BY <2>1, <2>2 DEF GcOK, InGc, OneGc, HeapOK, NextOK, Place, StopPlaces,
       ResumePlaces, HeapPlaces, Wholes, Pauses, CollectorStops, TypeOK, GcOver,
       Revive, Goto, Become, Return, waiting, counts, work
<1>8. ASSUME NEW x \in Threads, NEW y \in Threads PROVE OneGc(x, y)'
  <2>1. /\ OneGc(x, y) /\ OneGc(x, t) /\ OneGc(t, y) /\ GcOK(x) /\ GcOK(y)
        /\ GcOK(t) /\ NextOK(t)
    BY <1>1 DEF InvOK
  <2>2. TypeOK
    BY <1>1
  <2> QED
    BY <2>1, <2>2 DEF OneGc, GcOK, InGc, NextOK, Place, StopPlaces, ResumePlaces,
       HeapPlaces, Wholes, Pauses, CollectorStops, TypeOK, GcOver, Revive, Goto,
       Become, Return, waiting, counts, work
<1>9. ASSUME NEW x \in Threads PROVE HeldOK(x)'
  <2>1. HeldOK(x) /\ HeldOK(t) /\ ListOK(x) /\ NextOK(t)
    BY <1>1 DEF InvOK
  <2>2. TypeOK
    BY <1>1
  <2> QED
    BY <2>1, <2>2 DEF HeldOK, Suspends, ListOK, NextOK, Place, TypeOK, GcOver, Revive, Goto,
       Become, Return, waiting, counts, work
<1>10. ASSUME NEW x \in Threads PROVE NewOK(x)'
  <2>1. NewOK(x) /\ NewOK(t) /\ ChildOK(t) /\ HeldOK(t) /\ NextOK(t)
    BY <1>1 DEF InvOK
  <2>2. TypeOK
    BY <1>1
  <2> QED
    BY <2>1, <2>2 DEF NewOK, NewPlaces, ChildOK, ParentPlaces, NextOK, Place, TypeOK,
       GcOver, Revive, Goto, Become, Return, waiting, counts, work
<1>11. ASSUME NEW x \in Threads PROVE ChildOK(x)'
  <2>1. /\ ChildOK(x) /\ ChildOK(t) /\ OneParent(x, t) /\ NewOK(t) /\ NewOK(x)
        /\ NextOK(t)
    BY <1>1 DEF InvOK
  <2>2. TypeOK
    BY <1>1
  <2> QED
    BY <2>1, <2>2, <1>1 DEF ChildOK, OneParent, ParentPlaces, NewOK, NewPlaces, NextOK,
       Place, TypeOK, GcOver, Revive, Goto, Become, Return, waiting, counts, work
<1>12. ASSUME NEW x \in Threads, NEW y \in Threads PROVE OneParent(x, y)'
  <2>1. OneParent(x, y) /\ ChildOK(x) /\ ChildOK(y)
    BY <1>1 DEF InvOK
  <2>2. TypeOK
    BY <1>1
  <2> QED
    BY <2>1, <2>2 DEF OneParent, ChildOK, NextOK, TypeOK, GcOver, Revive, Goto, Become,
       Return, waiting, counts, work
<1>13. ASSUME NEW x \in Threads, NEW y \in Threads PROVE StopOK(x, y)'
  <2>1. /\ StopOK(x, y) /\ StopOK(x, t) /\ NewOK(y) /\ NewOK(t) /\ HeapOK(x)
        /\ HeapOK(t) /\ GcOK(x) /\ ListOK(x) /\ ListOK(t) /\ ChildOK(t)
        /\ NextOK(t) /\ HeldOK(x) /\ OneGc(x, t)
    BY <1>1 DEF InvOK
  <2>2. TypeOK
    BY <1>1
  <2>3. Robbed(y)' <=> Robbed(y)
    BY DEF Robbed, Holders, GcOver, Revive, Goto, Become, Return, waiting, counts, work
  <2>4. /\ y \in held[x] /\ y \in threadList /\ suspendCount[y] = 0 => Robbed(y)
        /\ t \in held[x] /\ t \in threadList /\ suspendCount[t] = 0 => overlapped
    BY <1>2 DEF CountPos
  <2> QED
    BY <2>1, <2>2, <2>3, <2>4, <1>0, <1>1 DEF StopOK, Linking, NewOK, NewPlaces,
       HeapOK, ListOK, ChildOK, ParentPlaces, NextOK, HeldOK, OneParent, Place,
       StopPlaces, ResumePlaces, HeapPlaces, Wholes, Pauses, CollectorStops, InvOK,
       TypeOK, GcOver, Revive, Goto, Become, Return, waiting, counts, work
<1>14. ASSUME NEW x \in Threads, NEW y \in Threads PROVE SnapOK(x, y)'
  <2>1. /\ SnapOK(x, y) /\ HeldOK(x) /\ ListOK(x) /\ ListOK(t) /\ NewOK(y)
        /\ NextOK(t)
    BY <1>1 DEF InvOK
  <2>2. TypeOK
    BY <1>1
  <2> QED
    BY <2>1, <2>2 DEF SnapOK, HeldOK, ListOK, NewOK, NewPlaces, NextOK,
       TypeOK, GcOver, Revive, Goto, Become, Return, waiting, counts, work
<1>15. ASSUME NEW x \in Threads PROVE Balanced(x)'
  <2>1. Balanced(x)
    BY <1>1 DEF InvOK
  <2>2. UNCHANGED <<suspendCount, held>> /\ threadList' \subseteq threadList
    BY DEF GcOver, Revive, Goto, Become, Return, waiting, counts, work
  <2>3. Holders(x)' = Holders(x)
    BY <2>2 DEF Holders
  <2> QED BY <2>1, <2>2, <2>3, <1>0 DEF Balanced, Robbed
<1> QED
  BY <1>0, <1>3, <1>4, <1>5, <1>6, <1>7, <1>8, <1>9, <1>10, <1>11, <1>12, <1>13, <1>14, <1>15
     DEF IInv, InvOK

\* The invariant is kept when an allocation collects.
LEMMA CollectForMallocInv ==
  ASSUME IInv, Recorded, NEW t \in Threads, CollectForMalloc(t)
  PROVE  IInv'
<1> USE NobodyAssumption
<1>1. TypeOK /\ InvOK
  BY DEF IInv
<1>2. CountPos
  BY CountsPositive
<1>0. OverlapOK' /\ (overlapped => overlapped')
  BY RecordedKept
<1>3. TypeOK'
  <2>1. /\ gcRunning' \in BOOLEAN /\ at' = [at EXCEPT ![t] = "stop"]
        /\ \/ stop' = [stop EXCEPT ![t] = "foreground"]
           \/ stop' = [stop EXCEPT ![t] = "soft"]
        /\ UNCHANGED <<status, counts, threadList, locks, waiting, next, todo, child, escaped>>
    BY DEF CollectForMalloc, StartGc, Goto
  <2>2. at' \in [Threads -> Labels] /\ stop' \in [Threads -> Stops]
    BY <1>1, <2>1 DEF TypeOK, Labels, Stops, CollectorStops
  <2> QED BY <1>1, <2>1, <2>2 DEF TypeOK, counts, locks, waiting
<1>4. ASSUME NEW x \in Threads PROVE NextOK(x)'
  <2>1. NextOK(x) /\ NextOK(t)
    BY <1>1 DEF InvOK
  <2>2. TypeOK
    BY <1>1
  <2> QED
    BY <2>1, <2>2 DEF NextOK, TypeOK, CollectForMalloc, StartGc, Goto, locks, waiting,
       counts
<1>5. ASSUME NEW x \in Threads PROVE HeapOK(x)'
  <2>1. HeapOK(x) /\ HeapOK(t) /\ GcOK(t) /\ NextOK(t)
    BY <1>1 DEF InvOK
  <2>2. TypeOK
    BY <1>1
  <2> QED
    BY <2>1, <2>2 DEF HeapOK, GcOK, InGc, NextOK, Place, StopPlaces, ResumePlaces,
       HeapPlaces, Wholes, Pauses, CollectorStops, TypeOK, CollectForMalloc, StartGc,
       Goto, locks, waiting, counts
<1>6. ASSUME NEW x \in Threads PROVE ListOK(x)'
  <2>1. ListOK(x) /\ ListOK(t) /\ NextOK(t)
    BY <1>1 DEF InvOK
  <2>2. TypeOK
    BY <1>1
  <2> QED
    BY <2>1, <2>2 DEF ListOK, NextOK, TypeOK, CollectForMalloc, StartGc, Goto, locks,
       waiting, counts
<1>7. ASSUME NEW x \in Threads PROVE GcOK(x)'
  <2>1. /\ GcOK(x) /\ GcOK(t) /\ OneGc(x, t) /\ HeapOK(t) /\ HeapOK(x)
        /\ NextOK(t)
    BY <1>1 DEF InvOK
  <2>2. TypeOK
    BY <1>1
  <2> QED
    BY <2>1, <2>2 DEF GcOK, InGc, OneGc, HeapOK, NextOK, Place, StopPlaces,
       ResumePlaces, HeapPlaces, Wholes, Pauses, CollectorStops, TypeOK,
       CollectForMalloc, StartGc, Goto, locks, waiting, counts
<1>8. ASSUME NEW x \in Threads, NEW y \in Threads PROVE OneGc(x, y)'
  <2>1. /\ OneGc(x, y) /\ OneGc(x, t) /\ OneGc(t, y) /\ GcOK(x) /\ GcOK(y)
        /\ GcOK(t) /\ NextOK(t)
    BY <1>1 DEF InvOK
  <2>2. TypeOK
    BY <1>1
  <2> QED
    BY <2>1, <2>2 DEF OneGc, GcOK, InGc, NextOK, Place, StopPlaces, ResumePlaces,
       HeapPlaces, Wholes, Pauses, CollectorStops, TypeOK, CollectForMalloc, StartGc,
       Goto, locks, waiting, counts
<1>9. ASSUME NEW x \in Threads PROVE HeldOK(x)'
  <2>1. HeldOK(x) /\ HeldOK(t) /\ ListOK(x) /\ NextOK(t)
    BY <1>1 DEF InvOK
  <2>2. TypeOK
    BY <1>1
  <2> QED
    BY <2>1, <2>2 DEF HeldOK, Suspends, ListOK, NextOK, Place, TypeOK, CollectForMalloc, StartGc,
       Goto, locks, waiting, counts
<1>10. ASSUME NEW x \in Threads PROVE NewOK(x)'
  <2>1. NewOK(x) /\ NewOK(t) /\ ChildOK(t) /\ HeldOK(t) /\ NextOK(t)
    BY <1>1 DEF InvOK
  <2>2. TypeOK
    BY <1>1
  <2> QED
    BY <2>1, <2>2 DEF NewOK, NewPlaces, ChildOK, ParentPlaces, NextOK, Place, TypeOK,
       CollectForMalloc, StartGc, Goto, locks, waiting, counts
<1>11. ASSUME NEW x \in Threads PROVE ChildOK(x)'
  <2>1. /\ ChildOK(x) /\ ChildOK(t) /\ OneParent(x, t) /\ NewOK(t) /\ NewOK(x)
        /\ NextOK(t)
    BY <1>1 DEF InvOK
  <2>2. TypeOK
    BY <1>1
  <2> QED
    BY <2>1, <2>2, <1>1 DEF ChildOK, OneParent, ParentPlaces, NewOK, NewPlaces, NextOK,
       Place, TypeOK, CollectForMalloc, StartGc, Goto, locks, waiting, counts
<1>12. ASSUME NEW x \in Threads, NEW y \in Threads PROVE OneParent(x, y)'
  <2>1. OneParent(x, y) /\ ChildOK(x) /\ ChildOK(y)
    BY <1>1 DEF InvOK
  <2>2. TypeOK
    BY <1>1
  <2> QED
    BY <2>1, <2>2 DEF OneParent, ChildOK, NextOK, TypeOK, CollectForMalloc, StartGc,
       Goto, locks, waiting, counts
<1>13. ASSUME NEW x \in Threads, NEW y \in Threads PROVE StopOK(x, y)'
  <2>1. /\ StopOK(x, y) /\ StopOK(x, t) /\ NewOK(y) /\ NewOK(t) /\ HeapOK(x)
        /\ HeapOK(t) /\ GcOK(x) /\ ListOK(x) /\ ListOK(t) /\ ChildOK(t)
        /\ NextOK(t) /\ HeldOK(x) /\ OneGc(x, t)
    BY <1>1 DEF InvOK
  <2>2. TypeOK
    BY <1>1
  <2>3. Robbed(y)' <=> Robbed(y)
    BY DEF Robbed, Holders, CollectForMalloc, StartGc, Goto, locks, waiting, counts
  <2>4. /\ y \in held[x] /\ y \in threadList /\ suspendCount[y] = 0 => Robbed(y)
        /\ t \in held[x] /\ t \in threadList /\ suspendCount[t] = 0 => overlapped
    BY <1>2 DEF CountPos
  <2> QED
    BY <2>1, <2>2, <2>3, <2>4, <1>0, <1>1 DEF StopOK, Linking, NewOK, NewPlaces,
       HeapOK, ListOK, ChildOK, ParentPlaces, NextOK, HeldOK, OneParent, Place,
       StopPlaces, ResumePlaces, HeapPlaces, Wholes, Pauses, CollectorStops, InvOK,
       TypeOK, CollectForMalloc, StartGc, Goto, locks, waiting, counts
<1>14. ASSUME NEW x \in Threads, NEW y \in Threads PROVE SnapOK(x, y)'
  <2>1. /\ SnapOK(x, y) /\ HeldOK(x) /\ ListOK(x) /\ ListOK(t) /\ NewOK(y)
        /\ NextOK(t)
    BY <1>1 DEF InvOK
  <2>2. TypeOK
    BY <1>1
  <2> QED
    BY <2>1, <2>2 DEF SnapOK, HeldOK, ListOK, NewOK, NewPlaces, NextOK,
       TypeOK, CollectForMalloc, StartGc, Goto, locks, waiting, counts
<1>15. ASSUME NEW x \in Threads PROVE Balanced(x)'
  <2>1. Balanced(x)
    BY <1>1 DEF InvOK
  <2>2. UNCHANGED <<suspendCount, held>> /\ threadList' \subseteq threadList
    BY DEF CollectForMalloc, StartGc, Goto, locks, waiting, counts
  <2>3. Holders(x)' = Holders(x)
    BY <2>2 DEF Holders
  <2> QED BY <2>1, <2>2, <2>3, <1>0 DEF Balanced, Robbed
<1> QED
  BY <1>0, <1>3, <1>4, <1>5, <1>6, <1>7, <1>8, <1>9, <1>10, <1>11, <1>12, <1>13, <1>14, <1>15
     DEF IInv, InvOK

\* The invariant is kept when the daemon sleeps.
LEMMA DaemonSleepsInv ==
  ASSUME IInv, Recorded, NEW t \in Threads, DaemonSleeps(t)
  PROVE  IInv'
<1> USE NobodyAssumption
<1>1. TypeOK /\ InvOK
  BY DEF IInv
<1>2. CountPos
  BY CountsPositive
<1>0. OverlapOK' /\ (overlapped => overlapped')
  BY RecordedKept
<1>3. TypeOK'
  BY <1>1 DEF TypeOK, Labels, Statuses, Stops, CollectorStops, InvOK, NextOK,
     DaemonSleeps, Goto, Become, locks, waiting, counts, work, Starts
<1>4. ASSUME NEW x \in Threads PROVE NextOK(x)'
  <2>1. NextOK(x) /\ NextOK(t)
    BY <1>1 DEF InvOK
  <2>2. TypeOK
    BY <1>1
  <2> QED
    BY <2>1, <2>2 DEF NextOK, TypeOK, DaemonSleeps, Goto, Become, locks, waiting,
       counts, work, Starts
<1>5. ASSUME NEW x \in Threads PROVE HeapOK(x)'
  <2>1. HeapOK(x) /\ HeapOK(t) /\ GcOK(t) /\ NextOK(t)
    BY <1>1 DEF InvOK
  <2>2. TypeOK
    BY <1>1
  <2> QED
    BY <2>1, <2>2 DEF HeapOK, GcOK, InGc, NextOK, Place, StopPlaces, ResumePlaces,
       HeapPlaces, Wholes, Pauses, CollectorStops, TypeOK, DaemonSleeps, Goto, Become,
       locks, waiting, counts, work, Starts
<1>6. ASSUME NEW x \in Threads PROVE ListOK(x)'
  <2>1. ListOK(x) /\ ListOK(t) /\ NextOK(t)
    BY <1>1 DEF InvOK
  <2>2. TypeOK
    BY <1>1
  <2> QED
    BY <2>1, <2>2 DEF ListOK, NextOK, TypeOK, DaemonSleeps, Goto, Become, locks,
       waiting, counts, work, Starts
<1>7. ASSUME NEW x \in Threads PROVE GcOK(x)'
  <2>1. /\ GcOK(x) /\ GcOK(t) /\ OneGc(x, t) /\ HeapOK(t) /\ HeapOK(x)
        /\ NextOK(t)
    BY <1>1 DEF InvOK
  <2>2. TypeOK
    BY <1>1
  <2> QED
    BY <2>1, <2>2 DEF GcOK, InGc, OneGc, HeapOK, NextOK, Place, StopPlaces,
       ResumePlaces, HeapPlaces, Wholes, Pauses, CollectorStops, TypeOK, DaemonSleeps,
       Goto, Become, locks, waiting, counts, work, Starts
<1>8. ASSUME NEW x \in Threads, NEW y \in Threads PROVE OneGc(x, y)'
  <2>1. /\ OneGc(x, y) /\ OneGc(x, t) /\ OneGc(t, y) /\ GcOK(x) /\ GcOK(y)
        /\ GcOK(t) /\ NextOK(t)
    BY <1>1 DEF InvOK
  <2>2. TypeOK
    BY <1>1
  <2> QED
    BY <2>1, <2>2 DEF OneGc, GcOK, InGc, NextOK, Place, StopPlaces, ResumePlaces,
       HeapPlaces, Wholes, Pauses, CollectorStops, TypeOK, DaemonSleeps, Goto, Become,
       locks, waiting, counts, work, Starts
<1>9. ASSUME NEW x \in Threads PROVE HeldOK(x)'
  <2>1. HeldOK(x) /\ HeldOK(t) /\ ListOK(x) /\ NextOK(t)
    BY <1>1 DEF InvOK
  <2>2. TypeOK
    BY <1>1
  <2> QED
    BY <2>1, <2>2 DEF HeldOK, Suspends, ListOK, NextOK, Place, TypeOK, DaemonSleeps, Goto,
       Become, locks, waiting, counts, work, Starts
<1>10. ASSUME NEW x \in Threads PROVE NewOK(x)'
  <2>1. NewOK(x) /\ NewOK(t) /\ ChildOK(t) /\ HeldOK(t) /\ NextOK(t)
    BY <1>1 DEF InvOK
  <2>2. TypeOK
    BY <1>1
  <2> QED
    BY <2>1, <2>2 DEF NewOK, NewPlaces, ChildOK, ParentPlaces, NextOK, Place, TypeOK,
       DaemonSleeps, Goto, Become, locks, waiting, counts, work, Starts
<1>11. ASSUME NEW x \in Threads PROVE ChildOK(x)'
  <2>1. /\ ChildOK(x) /\ ChildOK(t) /\ OneParent(x, t) /\ NewOK(t) /\ NewOK(x)
        /\ NextOK(t)
    BY <1>1 DEF InvOK
  <2>2. TypeOK
    BY <1>1
  <2> QED
    BY <2>1, <2>2, <1>1 DEF ChildOK, OneParent, ParentPlaces, NewOK, NewPlaces, NextOK,
       Place, TypeOK, DaemonSleeps, Goto, Become, locks, waiting, counts, work, Starts
<1>12. ASSUME NEW x \in Threads, NEW y \in Threads PROVE OneParent(x, y)'
  <2>1. OneParent(x, y) /\ ChildOK(x) /\ ChildOK(y)
    BY <1>1 DEF InvOK
  <2>2. TypeOK
    BY <1>1
  <2> QED
    BY <2>1, <2>2 DEF OneParent, ChildOK, NextOK, TypeOK, DaemonSleeps, Goto, Become,
       locks, waiting, counts, work, Starts
<1>13. ASSUME NEW x \in Threads, NEW y \in Threads PROVE StopOK(x, y)'
  <2>1. /\ StopOK(x, y) /\ StopOK(x, t) /\ NewOK(y) /\ NewOK(t) /\ HeapOK(x)
        /\ HeapOK(t) /\ GcOK(x) /\ ListOK(x) /\ ListOK(t) /\ ChildOK(t)
        /\ NextOK(t) /\ HeldOK(x) /\ OneGc(x, t)
    BY <1>1 DEF InvOK
  <2>2. TypeOK
    BY <1>1
  <2>3. Robbed(y)' <=> Robbed(y)
    BY DEF Robbed, Holders, DaemonSleeps, Goto, Become, locks, waiting, counts, work,
       Starts
  <2>4. /\ y \in held[x] /\ y \in threadList /\ suspendCount[y] = 0 => Robbed(y)
        /\ t \in held[x] /\ t \in threadList /\ suspendCount[t] = 0 => overlapped
    BY <1>2 DEF CountPos
  <2> QED
    BY <2>1, <2>2, <2>3, <2>4, <1>0, <1>1 DEF StopOK, Linking, NewOK, NewPlaces,
       HeapOK, ListOK, ChildOK, ParentPlaces, NextOK, HeldOK, OneParent, Place,
       StopPlaces, ResumePlaces, HeapPlaces, Wholes, Pauses, CollectorStops, InvOK,
       TypeOK, DaemonSleeps, Goto, Become, locks, waiting, counts, work, Starts
<1>14. ASSUME NEW x \in Threads, NEW y \in Threads PROVE SnapOK(x, y)'
  <2>1. /\ SnapOK(x, y) /\ HeldOK(x) /\ ListOK(x) /\ ListOK(t) /\ NewOK(y)
        /\ NextOK(t)
    BY <1>1 DEF InvOK
  <2>2. TypeOK
    BY <1>1
  <2> QED
    BY <2>1, <2>2 DEF SnapOK, HeldOK, ListOK, NewOK, NewPlaces, NextOK,
       TypeOK, DaemonSleeps, Goto, Become, locks, waiting, counts, work, Starts
<1>15. ASSUME NEW x \in Threads PROVE Balanced(x)'
  <2>1. Balanced(x)
    BY <1>1 DEF InvOK
  <2>2. UNCHANGED <<suspendCount, held>> /\ threadList' \subseteq threadList
    BY DEF DaemonSleeps, Goto, Become, locks, waiting, counts, work, Starts
  <2>3. Holders(x)' = Holders(x)
    BY <2>2 DEF Holders
  <2> QED BY <2>1, <2>2, <2>3, <1>0 DEF Balanced, Robbed
<1> QED
  BY <1>0, <1>3, <1>4, <1>5, <1>6, <1>7, <1>8, <1>9, <1>10, <1>11, <1>12, <1>13, <1>14, <1>15
     DEF IInv, InvOK

\* The invariant is kept when the daemon wakes.
LEMMA DaemonWakesInv ==
  ASSUME IInv, Recorded, NEW t \in Threads, DaemonWakes(t)
  PROVE  IInv'
<1> USE NobodyAssumption
<1>1. TypeOK /\ InvOK
  BY DEF IInv
<1>2. CountPos
  BY CountsPositive
<1>0. OverlapOK' /\ (overlapped => overlapped')
  BY RecordedKept
<1>3. TypeOK'
  BY <1>1 DEF TypeOK, Labels, Statuses, Stops, CollectorStops, InvOK, NextOK,
     DaemonWakes, Revive, Goto, Become, Return, waiting, counts, work
<1>4. ASSUME NEW x \in Threads PROVE NextOK(x)'
  <2>1. NextOK(x) /\ NextOK(t)
    BY <1>1 DEF InvOK
  <2>2. TypeOK
    BY <1>1
  <2> QED
    BY <2>1, <2>2 DEF NextOK, TypeOK, DaemonWakes, Revive, Goto, Become, Return,
       waiting, counts, work
<1>5. ASSUME NEW x \in Threads PROVE HeapOK(x)'
  <2>1. HeapOK(x) /\ HeapOK(t) /\ GcOK(t) /\ NextOK(t)
    BY <1>1 DEF InvOK
  <2>2. TypeOK
    BY <1>1
  <2> QED
    BY <2>1, <2>2 DEF HeapOK, GcOK, InGc, NextOK, Place, StopPlaces, ResumePlaces,
       HeapPlaces, Wholes, Pauses, CollectorStops, TypeOK, DaemonWakes, Revive, Goto,
       Become, Return, waiting, counts, work
<1>6. ASSUME NEW x \in Threads PROVE ListOK(x)'
  <2>1. ListOK(x) /\ ListOK(t) /\ NextOK(t)
    BY <1>1 DEF InvOK
  <2>2. TypeOK
    BY <1>1
  <2> QED
    BY <2>1, <2>2 DEF ListOK, NextOK, TypeOK, DaemonWakes, Revive, Goto, Become,
       Return, waiting, counts, work
<1>7. ASSUME NEW x \in Threads PROVE GcOK(x)'
  <2>1. /\ GcOK(x) /\ GcOK(t) /\ OneGc(x, t) /\ HeapOK(t) /\ HeapOK(x)
        /\ NextOK(t)
    BY <1>1 DEF InvOK
  <2>2. TypeOK
    BY <1>1
  <2> QED
    BY <2>1, <2>2 DEF GcOK, InGc, OneGc, HeapOK, NextOK, Place, StopPlaces,
       ResumePlaces, HeapPlaces, Wholes, Pauses, CollectorStops, TypeOK, DaemonWakes,
       Revive, Goto, Become, Return, waiting, counts, work
<1>8. ASSUME NEW x \in Threads, NEW y \in Threads PROVE OneGc(x, y)'
  <2>1. /\ OneGc(x, y) /\ OneGc(x, t) /\ OneGc(t, y) /\ GcOK(x) /\ GcOK(y)
        /\ GcOK(t) /\ NextOK(t)
    BY <1>1 DEF InvOK
  <2>2. TypeOK
    BY <1>1
  <2> QED
    BY <2>1, <2>2 DEF OneGc, GcOK, InGc, NextOK, Place, StopPlaces, ResumePlaces,
       HeapPlaces, Wholes, Pauses, CollectorStops, TypeOK, DaemonWakes, Revive, Goto,
       Become, Return, waiting, counts, work
<1>9. ASSUME NEW x \in Threads PROVE HeldOK(x)'
  <2>1. HeldOK(x) /\ HeldOK(t) /\ ListOK(x) /\ NextOK(t)
    BY <1>1 DEF InvOK
  <2>2. TypeOK
    BY <1>1
  <2> QED
    BY <2>1, <2>2 DEF HeldOK, Suspends, ListOK, NextOK, Place, TypeOK, DaemonWakes, Revive, Goto,
       Become, Return, waiting, counts, work
<1>10. ASSUME NEW x \in Threads PROVE NewOK(x)'
  <2>1. NewOK(x) /\ NewOK(t) /\ ChildOK(t) /\ HeldOK(t) /\ NextOK(t)
    BY <1>1 DEF InvOK
  <2>2. TypeOK
    BY <1>1
  <2> QED
    BY <2>1, <2>2 DEF NewOK, NewPlaces, ChildOK, ParentPlaces, NextOK, Place, TypeOK,
       DaemonWakes, Revive, Goto, Become, Return, waiting, counts, work
<1>11. ASSUME NEW x \in Threads PROVE ChildOK(x)'
  <2>1. /\ ChildOK(x) /\ ChildOK(t) /\ OneParent(x, t) /\ NewOK(t) /\ NewOK(x)
        /\ NextOK(t)
    BY <1>1 DEF InvOK
  <2>2. TypeOK
    BY <1>1
  <2> QED
    BY <2>1, <2>2, <1>1 DEF ChildOK, OneParent, ParentPlaces, NewOK, NewPlaces, NextOK,
       Place, TypeOK, DaemonWakes, Revive, Goto, Become, Return, waiting, counts, work
<1>12. ASSUME NEW x \in Threads, NEW y \in Threads PROVE OneParent(x, y)'
  <2>1. OneParent(x, y) /\ ChildOK(x) /\ ChildOK(y)
    BY <1>1 DEF InvOK
  <2>2. TypeOK
    BY <1>1
  <2> QED
    BY <2>1, <2>2 DEF OneParent, ChildOK, NextOK, TypeOK, DaemonWakes, Revive, Goto,
       Become, Return, waiting, counts, work
<1>13. ASSUME NEW x \in Threads, NEW y \in Threads PROVE StopOK(x, y)'
  <2>1. /\ StopOK(x, y) /\ StopOK(x, t) /\ NewOK(y) /\ NewOK(t) /\ HeapOK(x)
        /\ HeapOK(t) /\ GcOK(x) /\ ListOK(x) /\ ListOK(t) /\ ChildOK(t)
        /\ NextOK(t) /\ HeldOK(x) /\ OneGc(x, t)
    BY <1>1 DEF InvOK
  <2>2. TypeOK
    BY <1>1
  <2>3. Robbed(y)' <=> Robbed(y)
    BY DEF Robbed, Holders, DaemonWakes, Revive, Goto, Become, Return, waiting, counts,
       work
  <2>4. /\ y \in held[x] /\ y \in threadList /\ suspendCount[y] = 0 => Robbed(y)
        /\ t \in held[x] /\ t \in threadList /\ suspendCount[t] = 0 => overlapped
    BY <1>2 DEF CountPos
  <2> QED
    BY <2>1, <2>2, <2>3, <2>4, <1>0, <1>1 DEF StopOK, Linking, NewOK, NewPlaces,
       HeapOK, ListOK, ChildOK, ParentPlaces, NextOK, HeldOK, OneParent, Place,
       StopPlaces, ResumePlaces, HeapPlaces, Wholes, Pauses, CollectorStops, InvOK,
       TypeOK, DaemonWakes, Revive, Goto, Become, Return, waiting, counts, work
<1>14. ASSUME NEW x \in Threads, NEW y \in Threads PROVE SnapOK(x, y)'
  <2>1. /\ SnapOK(x, y) /\ HeldOK(x) /\ ListOK(x) /\ ListOK(t) /\ NewOK(y)
        /\ NextOK(t)
    BY <1>1 DEF InvOK
  <2>2. TypeOK
    BY <1>1
  <2> QED
    BY <2>1, <2>2 DEF SnapOK, HeldOK, ListOK, NewOK, NewPlaces, NextOK,
       TypeOK, DaemonWakes, Revive, Goto, Become, Return, waiting, counts, work
<1>15. ASSUME NEW x \in Threads PROVE Balanced(x)'
  <2>1. Balanced(x)
    BY <1>1 DEF InvOK
  <2>2. UNCHANGED <<suspendCount, held>> /\ threadList' \subseteq threadList
    BY DEF DaemonWakes, Revive, Goto, Become, Return, waiting, counts, work
  <2>3. Holders(x)' = Holders(x)
    BY <2>2 DEF Holders
  <2> QED BY <2>1, <2>2, <2>3, <1>0 DEF Balanced, Robbed
<1> QED
  BY <1>0, <1>3, <1>4, <1>5, <1>6, <1>7, <1>8, <1>9, <1>10, <1>11, <1>12, <1>13, <1>14, <1>15
     DEF IInv, InvOK

\* The invariant is kept when the daemon collects.
LEMMA CollectConcurrentlyInv ==
  ASSUME IInv, Recorded, NEW t \in Threads, CollectConcurrently(t)
  PROVE  IInv'
<1> USE NobodyAssumption
<1>1. TypeOK /\ InvOK
  BY DEF IInv
<1>2. CountPos
  BY CountsPositive
<1>0. OverlapOK' /\ (overlapped => overlapped')
  BY RecordedKept
<1>3. TypeOK'
  BY <1>1 DEF TypeOK, Labels, Statuses, Stops, CollectorStops, InvOK, NextOK,
     CollectConcurrently, StartGc, Goto, locks, waiting, counts
<1>4. ASSUME NEW x \in Threads PROVE NextOK(x)'
  <2>1. NextOK(x) /\ NextOK(t)
    BY <1>1 DEF InvOK
  <2>2. TypeOK
    BY <1>1
  <2> QED
    BY <2>1, <2>2 DEF NextOK, TypeOK, CollectConcurrently, StartGc, Goto, locks,
       waiting, counts
<1>5. ASSUME NEW x \in Threads PROVE HeapOK(x)'
  <2>1. HeapOK(x) /\ HeapOK(t) /\ GcOK(t) /\ NextOK(t)
    BY <1>1 DEF InvOK
  <2>2. TypeOK
    BY <1>1
  <2> QED
    BY <2>1, <2>2 DEF HeapOK, GcOK, InGc, NextOK, Place, StopPlaces, ResumePlaces,
       HeapPlaces, Wholes, Pauses, CollectorStops, TypeOK, CollectConcurrently,
       StartGc, Goto, locks, waiting, counts
<1>6. ASSUME NEW x \in Threads PROVE ListOK(x)'
  <2>1. ListOK(x) /\ ListOK(t) /\ NextOK(t)
    BY <1>1 DEF InvOK
  <2>2. TypeOK
    BY <1>1
  <2> QED
    BY <2>1, <2>2 DEF ListOK, NextOK, TypeOK, CollectConcurrently, StartGc, Goto,
       locks, waiting, counts
<1>7. ASSUME NEW x \in Threads PROVE GcOK(x)'
  <2>1. /\ GcOK(x) /\ GcOK(t) /\ OneGc(x, t) /\ HeapOK(t) /\ HeapOK(x)
        /\ NextOK(t)
    BY <1>1 DEF InvOK
  <2>2. TypeOK
    BY <1>1
  <2> QED
    BY <2>1, <2>2 DEF GcOK, InGc, OneGc, HeapOK, NextOK, Place, StopPlaces,
       ResumePlaces, HeapPlaces, Wholes, Pauses, CollectorStops, TypeOK,
       CollectConcurrently, StartGc, Goto, locks, waiting, counts
<1>8. ASSUME NEW x \in Threads, NEW y \in Threads PROVE OneGc(x, y)'
  <2>1. /\ OneGc(x, y) /\ OneGc(x, t) /\ OneGc(t, y) /\ GcOK(x) /\ GcOK(y)
        /\ GcOK(t) /\ NextOK(t)
    BY <1>1 DEF InvOK
  <2>2. TypeOK
    BY <1>1
  <2> QED
    BY <2>1, <2>2 DEF OneGc, GcOK, InGc, NextOK, Place, StopPlaces, ResumePlaces,
       HeapPlaces, Wholes, Pauses, CollectorStops, TypeOK, CollectConcurrently,
       StartGc, Goto, locks, waiting, counts
<1>9. ASSUME NEW x \in Threads PROVE HeldOK(x)'
  <2>1. HeldOK(x) /\ HeldOK(t) /\ ListOK(x) /\ NextOK(t)
    BY <1>1 DEF InvOK
  <2>2. TypeOK
    BY <1>1
  <2> QED
    BY <2>1, <2>2 DEF HeldOK, Suspends, ListOK, NextOK, Place, TypeOK, CollectConcurrently,
       StartGc, Goto, locks, waiting, counts
<1>10. ASSUME NEW x \in Threads PROVE NewOK(x)'
  <2>1. NewOK(x) /\ NewOK(t) /\ ChildOK(t) /\ HeldOK(t) /\ NextOK(t)
    BY <1>1 DEF InvOK
  <2>2. TypeOK
    BY <1>1
  <2> QED
    BY <2>1, <2>2 DEF NewOK, NewPlaces, ChildOK, ParentPlaces, NextOK, Place, TypeOK,
       CollectConcurrently, StartGc, Goto, locks, waiting, counts
<1>11. ASSUME NEW x \in Threads PROVE ChildOK(x)'
  <2>1. /\ ChildOK(x) /\ ChildOK(t) /\ OneParent(x, t) /\ NewOK(t) /\ NewOK(x)
        /\ NextOK(t)
    BY <1>1 DEF InvOK
  <2>2. TypeOK
    BY <1>1
  <2> QED
    BY <2>1, <2>2, <1>1 DEF ChildOK, OneParent, ParentPlaces, NewOK, NewPlaces, NextOK,
       Place, TypeOK, CollectConcurrently, StartGc, Goto, locks, waiting, counts
<1>12. ASSUME NEW x \in Threads, NEW y \in Threads PROVE OneParent(x, y)'
  <2>1. OneParent(x, y) /\ ChildOK(x) /\ ChildOK(y)
    BY <1>1 DEF InvOK
  <2>2. TypeOK
    BY <1>1
  <2> QED
    BY <2>1, <2>2 DEF OneParent, ChildOK, NextOK, TypeOK, CollectConcurrently, StartGc,
       Goto, locks, waiting, counts
<1>13. ASSUME NEW x \in Threads, NEW y \in Threads PROVE StopOK(x, y)'
  <2>1. /\ StopOK(x, y) /\ StopOK(x, t) /\ NewOK(y) /\ NewOK(t) /\ HeapOK(x)
        /\ HeapOK(t) /\ GcOK(x) /\ ListOK(x) /\ ListOK(t) /\ ChildOK(t)
        /\ NextOK(t) /\ HeldOK(x) /\ OneGc(x, t)
    BY <1>1 DEF InvOK
  <2>2. TypeOK
    BY <1>1
  <2>3. Robbed(y)' <=> Robbed(y)
    BY DEF Robbed, Holders, CollectConcurrently, StartGc, Goto, locks, waiting, counts
  <2>4. /\ y \in held[x] /\ y \in threadList /\ suspendCount[y] = 0 => Robbed(y)
        /\ t \in held[x] /\ t \in threadList /\ suspendCount[t] = 0 => overlapped
    BY <1>2 DEF CountPos
  <2> QED
    BY <2>1, <2>2, <2>3, <2>4, <1>0, <1>1 DEF StopOK, Linking, NewOK, NewPlaces,
       HeapOK, ListOK, ChildOK, ParentPlaces, NextOK, HeldOK, OneParent, Place,
       StopPlaces, ResumePlaces, HeapPlaces, Wholes, Pauses, CollectorStops, InvOK,
       TypeOK, CollectConcurrently, StartGc, Goto, locks, waiting, counts
<1>14. ASSUME NEW x \in Threads, NEW y \in Threads PROVE SnapOK(x, y)'
  <2>1. /\ SnapOK(x, y) /\ HeldOK(x) /\ ListOK(x) /\ ListOK(t) /\ NewOK(y)
        /\ NextOK(t)
    BY <1>1 DEF InvOK
  <2>2. TypeOK
    BY <1>1
  <2> QED
    BY <2>1, <2>2 DEF SnapOK, HeldOK, ListOK, NewOK, NewPlaces, NextOK,
       TypeOK, CollectConcurrently, StartGc, Goto, locks, waiting, counts
<1>15. ASSUME NEW x \in Threads PROVE Balanced(x)'
  <2>1. Balanced(x)
    BY <1>1 DEF InvOK
  <2>2. UNCHANGED <<suspendCount, held>> /\ threadList' \subseteq threadList
    BY DEF CollectConcurrently, StartGc, Goto, locks, waiting, counts
  <2>3. Holders(x)' = Holders(x)
    BY <2>2 DEF Holders
  <2> QED BY <2>1, <2>2, <2>3, <1>0 DEF Balanced, Robbed
<1> QED
  BY <1>0, <1>3, <1>4, <1>5, <1>6, <1>7, <1>8, <1>9, <1>10, <1>11, <1>12, <1>13, <1>14, <1>15
     DEF IInv, InvOK

\* The invariant is kept when a whole collection is done.
LEMMA CollectInv ==
  ASSUME IInv, Recorded, NEW t \in Threads, Collect(t)
  PROVE  IInv'
<1> USE NobodyAssumption
<1>1. TypeOK /\ InvOK
  BY DEF IInv
<1>2. CountPos
  BY CountsPositive
<1>0. OverlapOK' /\ (overlapped => overlapped')
  BY RecordedKept
<1>3. TypeOK'
  BY <1>1 DEF TypeOK, Labels, Statuses, Stops, CollectorStops, InvOK, NextOK, Collect,
     Goto, locks, waiting, counts, work
<1>4. ASSUME NEW x \in Threads PROVE NextOK(x)'
  <2>1. NextOK(x) /\ NextOK(t)
    BY <1>1 DEF InvOK
  <2>2. TypeOK
    BY <1>1
  <2> QED
    BY <2>1, <2>2 DEF NextOK, TypeOK, Collect, Goto, locks, waiting, counts, work
<1>5. ASSUME NEW x \in Threads PROVE HeapOK(x)'
  <2>1. HeapOK(x) /\ HeapOK(t) /\ GcOK(t) /\ NextOK(t)
    BY <1>1 DEF InvOK
  <2>2. TypeOK
    BY <1>1
  <2> QED
    BY <2>1, <2>2 DEF HeapOK, GcOK, InGc, NextOK, Place, StopPlaces, ResumePlaces,
       HeapPlaces, Wholes, Pauses, CollectorStops, TypeOK, Collect, Goto, locks,
       waiting, counts, work
<1>6. ASSUME NEW x \in Threads PROVE ListOK(x)'
  <2>1. ListOK(x) /\ ListOK(t) /\ NextOK(t)
    BY <1>1 DEF InvOK
  <2>2. TypeOK
    BY <1>1
  <2> QED
    BY <2>1, <2>2 DEF ListOK, NextOK, TypeOK, Collect, Goto, locks, waiting, counts,
       work
<1>7. ASSUME NEW x \in Threads PROVE GcOK(x)'
  <2>1. /\ GcOK(x) /\ GcOK(t) /\ OneGc(x, t) /\ HeapOK(t) /\ HeapOK(x)
        /\ NextOK(t)
    BY <1>1 DEF InvOK
  <2>2. TypeOK
    BY <1>1
  <2> QED
    BY <2>1, <2>2 DEF GcOK, InGc, OneGc, HeapOK, NextOK, Place, StopPlaces,
       ResumePlaces, HeapPlaces, Wholes, Pauses, CollectorStops, TypeOK, Collect, Goto,
       locks, waiting, counts, work
<1>8. ASSUME NEW x \in Threads, NEW y \in Threads PROVE OneGc(x, y)'
  <2>1. /\ OneGc(x, y) /\ OneGc(x, t) /\ OneGc(t, y) /\ GcOK(x) /\ GcOK(y)
        /\ GcOK(t) /\ NextOK(t)
    BY <1>1 DEF InvOK
  <2>2. TypeOK
    BY <1>1
  <2> QED
    BY <2>1, <2>2 DEF OneGc, GcOK, InGc, NextOK, Place, StopPlaces, ResumePlaces,
       HeapPlaces, Wholes, Pauses, CollectorStops, TypeOK, Collect, Goto, locks,
       waiting, counts, work
<1>9. ASSUME NEW x \in Threads PROVE HeldOK(x)'
  <2>1. HeldOK(x) /\ HeldOK(t) /\ ListOK(x) /\ NextOK(t)
    BY <1>1 DEF InvOK
  <2>2. TypeOK
    BY <1>1
  <2> QED
    BY <2>1, <2>2 DEF HeldOK, Suspends, ListOK, NextOK, Place, TypeOK, Collect, Goto, locks,
       waiting, counts, work
<1>10. ASSUME NEW x \in Threads PROVE NewOK(x)'
  <2>1. NewOK(x) /\ NewOK(t) /\ ChildOK(t) /\ HeldOK(t) /\ NextOK(t)
    BY <1>1 DEF InvOK
  <2>2. TypeOK
    BY <1>1
  <2> QED
    BY <2>1, <2>2 DEF NewOK, NewPlaces, ChildOK, ParentPlaces, NextOK, Place, TypeOK,
       Collect, Goto, locks, waiting, counts, work
<1>11. ASSUME NEW x \in Threads PROVE ChildOK(x)'
  <2>1. /\ ChildOK(x) /\ ChildOK(t) /\ OneParent(x, t) /\ NewOK(t) /\ NewOK(x)
        /\ NextOK(t)
    BY <1>1 DEF InvOK
  <2>2. TypeOK
    BY <1>1
  <2> QED
    BY <2>1, <2>2, <1>1 DEF ChildOK, OneParent, ParentPlaces, NewOK, NewPlaces, NextOK,
       Place, TypeOK, Collect, Goto, locks, waiting, counts, work
<1>12. ASSUME NEW x \in Threads, NEW y \in Threads PROVE OneParent(x, y)'
  <2>1. OneParent(x, y) /\ ChildOK(x) /\ ChildOK(y)
    BY <1>1 DEF InvOK
  <2>2. TypeOK
    BY <1>1
  <2> QED
    BY <2>1, <2>2 DEF OneParent, ChildOK, NextOK, TypeOK, Collect, Goto, locks,
       waiting, counts, work
<1>13. ASSUME NEW x \in Threads, NEW y \in Threads PROVE StopOK(x, y)'
  <2>1. /\ StopOK(x, y) /\ StopOK(x, t) /\ NewOK(y) /\ NewOK(t) /\ HeapOK(x)
        /\ HeapOK(t) /\ GcOK(x) /\ ListOK(x) /\ ListOK(t) /\ ChildOK(t)
        /\ NextOK(t) /\ HeldOK(x) /\ OneGc(x, t)
    BY <1>1 DEF InvOK
  <2>2. TypeOK
    BY <1>1
  <2>3. Robbed(y)' <=> Robbed(y)
    BY DEF Robbed, Holders, Collect, Goto, locks, waiting, counts, work
  <2>4. /\ y \in held[x] /\ y \in threadList /\ suspendCount[y] = 0 => Robbed(y)
        /\ t \in held[x] /\ t \in threadList /\ suspendCount[t] = 0 => overlapped
    BY <1>2 DEF CountPos
  <2> QED
    BY <2>1, <2>2, <2>3, <2>4, <1>0, <1>1 DEF StopOK, Linking, NewOK, NewPlaces,
       HeapOK, ListOK, ChildOK, ParentPlaces, NextOK, HeldOK, OneParent, Place,
       StopPlaces, ResumePlaces, HeapPlaces, Wholes, Pauses, CollectorStops, InvOK,
       TypeOK, Collect, Goto, locks, waiting, counts, work
<1>14. ASSUME NEW x \in Threads, NEW y \in Threads PROVE SnapOK(x, y)'
  <2>1. /\ SnapOK(x, y) /\ HeldOK(x) /\ ListOK(x) /\ ListOK(t) /\ NewOK(y)
        /\ NextOK(t)
    BY <1>1 DEF InvOK
  <2>2. TypeOK
    BY <1>1
  <2> QED
    BY <2>1, <2>2 DEF SnapOK, HeldOK, ListOK, NewOK, NewPlaces, NextOK,
       TypeOK, Collect, Goto, locks, waiting, counts, work
<1>15. ASSUME NEW x \in Threads PROVE Balanced(x)'
  <2>1. Balanced(x)
    BY <1>1 DEF InvOK
  <2>2. UNCHANGED <<suspendCount, held>> /\ threadList' \subseteq threadList
    BY DEF Collect, Goto, locks, waiting, counts, work
  <2>3. Holders(x)' = Holders(x)
    BY <2>2 DEF Holders
  <2> QED BY <2>1, <2>2, <2>3, <1>0 DEF Balanced, Robbed
<1> QED
  BY <1>0, <1>3, <1>4, <1>5, <1>6, <1>7, <1>8, <1>9, <1>10, <1>11, <1>12, <1>13, <1>14, <1>15
     DEF IInv, InvOK

\* The invariant is kept when a pause is over.
LEMMA MarkStoppedInv ==
  ASSUME IInv, Recorded, NEW t \in Threads, MarkStopped(t)
  PROVE  IInv'
<1> USE NobodyAssumption
<1>1. TypeOK /\ InvOK
  BY DEF IInv
<1>2. CountPos
  BY CountsPositive
<1>0. OverlapOK' /\ (overlapped => overlapped')
  BY RecordedKept
<1>3. TypeOK'
  BY <1>1 DEF TypeOK, Labels, Statuses, Stops, CollectorStops, InvOK, NextOK,
     MarkStopped, Goto, waiting, counts, work
<1>4. ASSUME NEW x \in Threads PROVE NextOK(x)'
  <2>1. NextOK(x) /\ NextOK(t)
    BY <1>1 DEF InvOK
  <2>2. TypeOK
    BY <1>1
  <2> QED
    BY <2>1, <2>2 DEF NextOK, TypeOK, MarkStopped, Goto, waiting, counts, work
<1>5. ASSUME NEW x \in Threads PROVE HeapOK(x)'
  <2>1. HeapOK(x) /\ HeapOK(t) /\ GcOK(t) /\ NextOK(t)
    BY <1>1 DEF InvOK
  <2>2. TypeOK
    BY <1>1
  <2> QED
    BY <2>1, <2>2 DEF HeapOK, GcOK, InGc, NextOK, Place, StopPlaces, ResumePlaces,
       HeapPlaces, Wholes, Pauses, CollectorStops, TypeOK, MarkStopped, Goto, waiting,
       counts, work
<1>6. ASSUME NEW x \in Threads PROVE ListOK(x)'
  <2>1. ListOK(x) /\ ListOK(t) /\ NextOK(t)
    BY <1>1 DEF InvOK
  <2>2. TypeOK
    BY <1>1
  <2> QED
    BY <2>1, <2>2 DEF ListOK, NextOK, TypeOK, MarkStopped, Goto, waiting, counts, work
<1>7. ASSUME NEW x \in Threads PROVE GcOK(x)'
  <2>1. /\ GcOK(x) /\ GcOK(t) /\ OneGc(x, t) /\ HeapOK(t) /\ HeapOK(x)
        /\ NextOK(t)
    BY <1>1 DEF InvOK
  <2>2. TypeOK
    BY <1>1
  <2> QED
    BY <2>1, <2>2 DEF GcOK, InGc, OneGc, HeapOK, NextOK, Place, StopPlaces,
       ResumePlaces, HeapPlaces, Wholes, Pauses, CollectorStops, TypeOK, MarkStopped,
       Goto, waiting, counts, work
<1>8. ASSUME NEW x \in Threads, NEW y \in Threads PROVE OneGc(x, y)'
  <2>1. /\ OneGc(x, y) /\ OneGc(x, t) /\ OneGc(t, y) /\ GcOK(x) /\ GcOK(y)
        /\ GcOK(t) /\ NextOK(t)
    BY <1>1 DEF InvOK
  <2>2. TypeOK
    BY <1>1
  <2> QED
    BY <2>1, <2>2 DEF OneGc, GcOK, InGc, NextOK, Place, StopPlaces, ResumePlaces,
       HeapPlaces, Wholes, Pauses, CollectorStops, TypeOK, MarkStopped, Goto, waiting,
       counts, work
<1>9. ASSUME NEW x \in Threads PROVE HeldOK(x)'
  <2>1. HeldOK(x) /\ HeldOK(t) /\ ListOK(x) /\ NextOK(t)
    BY <1>1 DEF InvOK
  <2>2. TypeOK
    BY <1>1
  <2> QED
    BY <2>1, <2>2 DEF HeldOK, Suspends, ListOK, NextOK, Place, TypeOK, MarkStopped, Goto,
       waiting, counts, work
<1>10. ASSUME NEW x \in Threads PROVE NewOK(x)'
  <2>1. NewOK(x) /\ NewOK(t) /\ ChildOK(t) /\ HeldOK(t) /\ NextOK(t)
    BY <1>1 DEF InvOK
  <2>2. TypeOK
    BY <1>1
  <2> QED
    BY <2>1, <2>2 DEF NewOK, NewPlaces, ChildOK, ParentPlaces, NextOK, Place, TypeOK,
       MarkStopped, Goto, waiting, counts, work
<1>11. ASSUME NEW x \in Threads PROVE ChildOK(x)'
  <2>1. /\ ChildOK(x) /\ ChildOK(t) /\ OneParent(x, t) /\ NewOK(t) /\ NewOK(x)
        /\ NextOK(t)
    BY <1>1 DEF InvOK
  <2>2. TypeOK
    BY <1>1
  <2> QED
    BY <2>1, <2>2, <1>1 DEF ChildOK, OneParent, ParentPlaces, NewOK, NewPlaces, NextOK,
       Place, TypeOK, MarkStopped, Goto, waiting, counts, work
<1>12. ASSUME NEW x \in Threads, NEW y \in Threads PROVE OneParent(x, y)'
  <2>1. OneParent(x, y) /\ ChildOK(x) /\ ChildOK(y)
    BY <1>1 DEF InvOK
  <2>2. TypeOK
    BY <1>1
  <2> QED
    BY <2>1, <2>2 DEF OneParent, ChildOK, NextOK, TypeOK, MarkStopped, Goto, waiting,
       counts, work
<1>13. ASSUME NEW x \in Threads, NEW y \in Threads PROVE StopOK(x, y)'
  <2>1. /\ StopOK(x, y) /\ StopOK(x, t) /\ NewOK(y) /\ NewOK(t) /\ HeapOK(x)
        /\ HeapOK(t) /\ GcOK(x) /\ ListOK(x) /\ ListOK(t) /\ ChildOK(t)
        /\ NextOK(t) /\ HeldOK(x) /\ OneGc(x, t)
    BY <1>1 DEF InvOK
  <2>2. TypeOK
    BY <1>1
  <2>3. Robbed(y)' <=> Robbed(y)
    BY DEF Robbed, Holders, MarkStopped, Goto, waiting, counts, work
  <2>4. /\ y \in held[x] /\ y \in threadList /\ suspendCount[y] = 0 => Robbed(y)
        /\ t \in held[x] /\ t \in threadList /\ suspendCount[t] = 0 => overlapped
    BY <1>2 DEF CountPos
  <2> QED
    BY <2>1, <2>2, <2>3, <2>4, <1>0, <1>1 DEF StopOK, Linking, NewOK, NewPlaces,
       HeapOK, ListOK, ChildOK, ParentPlaces, NextOK, HeldOK, OneParent, Place,
       StopPlaces, ResumePlaces, HeapPlaces, Wholes, Pauses, CollectorStops, InvOK,
       TypeOK, MarkStopped, Goto, waiting, counts, work
<1>14. ASSUME NEW x \in Threads, NEW y \in Threads PROVE SnapOK(x, y)'
  <2>1. /\ SnapOK(x, y) /\ HeldOK(x) /\ ListOK(x) /\ ListOK(t) /\ NewOK(y)
        /\ NextOK(t)
    BY <1>1 DEF InvOK
  <2>2. TypeOK
    BY <1>1
  <2> QED
    BY <2>1, <2>2 DEF SnapOK, HeldOK, ListOK, NewOK, NewPlaces, NextOK,
       TypeOK, MarkStopped, Goto, waiting, counts, work
<1>15. ASSUME NEW x \in Threads PROVE Balanced(x)'
  <2>1. Balanced(x)
    BY <1>1 DEF InvOK
  <2>2. UNCHANGED <<suspendCount, held>> /\ threadList' \subseteq threadList
    BY DEF MarkStopped, Goto, waiting, counts, work
  <2>3. Holders(x)' = Holders(x)
    BY <2>2 DEF Holders
  <2> QED BY <2>1, <2>2, <2>3, <1>0 DEF Balanced, Robbed
<1> QED
  BY <1>0, <1>3, <1>4, <1>5, <1>6, <1>7, <1>8, <1>9, <1>10, <1>11, <1>12, <1>13, <1>14, <1>15
     DEF IInv, InvOK

\* The invariant is kept when a dump begins.
LEMMA DumpStoppedInv ==
  ASSUME IInv, Recorded, NEW t \in Threads, DumpStopped(t)
  PROVE  IInv'
<1> USE NobodyAssumption
<1>1. TypeOK /\ InvOK
  BY DEF IInv
<1>2. CountPos
  BY CountsPositive
<1>0. OverlapOK' /\ (overlapped => overlapped')
  BY RecordedKept
<1>3. TypeOK'
  BY <1>1 DEF TypeOK, Labels, Statuses, Stops, CollectorStops, InvOK, NextOK,
     DumpStopped, WantList, Goto, Become, Return, locks, waiting, counts, work
<1>4. ASSUME NEW x \in Threads PROVE NextOK(x)'
  <2>1. NextOK(x) /\ NextOK(t)
    BY <1>1 DEF InvOK
  <2>2. TypeOK
    BY <1>1
  <2> QED
    BY <2>1, <2>2 DEF NextOK, TypeOK, DumpStopped, WantList, Goto, Become, Return,
       locks, waiting, counts, work
<1>5. ASSUME NEW x \in Threads PROVE HeapOK(x)'
  <2>1. HeapOK(x) /\ HeapOK(t) /\ GcOK(t) /\ NextOK(t)
    BY <1>1 DEF InvOK
  <2>2. TypeOK
    BY <1>1
  <2> QED
    BY <2>1, <2>2 DEF HeapOK, GcOK, InGc, NextOK, Place, StopPlaces, ResumePlaces,
       HeapPlaces, Wholes, Pauses, CollectorStops, TypeOK, DumpStopped, WantList, Goto,
       Become, Return, locks, waiting, counts, work
<1>6. ASSUME NEW x \in Threads PROVE ListOK(x)'
  <2>1. ListOK(x) /\ ListOK(t) /\ NextOK(t)
    BY <1>1 DEF InvOK
  <2>2. TypeOK
    BY <1>1
  <2> QED
    BY <2>1, <2>2 DEF ListOK, NextOK, TypeOK, DumpStopped, WantList, Goto, Become,
       Return, locks, waiting, counts, work
<1>7. ASSUME NEW x \in Threads PROVE GcOK(x)'
  <2>1. /\ GcOK(x) /\ GcOK(t) /\ OneGc(x, t) /\ HeapOK(t) /\ HeapOK(x)
        /\ NextOK(t)
    BY <1>1 DEF InvOK
  <2>2. TypeOK
    BY <1>1
  <2> QED
    BY <2>1, <2>2 DEF GcOK, InGc, OneGc, HeapOK, NextOK, Place, StopPlaces,
       ResumePlaces, HeapPlaces, Wholes, Pauses, CollectorStops, TypeOK, DumpStopped,
       WantList, Goto, Become, Return, locks, waiting, counts, work
<1>8. ASSUME NEW x \in Threads, NEW y \in Threads PROVE OneGc(x, y)'
  <2>1. /\ OneGc(x, y) /\ OneGc(x, t) /\ OneGc(t, y) /\ GcOK(x) /\ GcOK(y)
        /\ GcOK(t) /\ NextOK(t)
    BY <1>1 DEF InvOK
  <2>2. TypeOK
    BY <1>1
  <2> QED
    BY <2>1, <2>2 DEF OneGc, GcOK, InGc, NextOK, Place, StopPlaces, ResumePlaces,
       HeapPlaces, Wholes, Pauses, CollectorStops, TypeOK, DumpStopped, WantList, Goto,
       Become, Return, locks, waiting, counts, work
<1>9. ASSUME NEW x \in Threads PROVE HeldOK(x)'
  <2>1. HeldOK(x) /\ HeldOK(t) /\ ListOK(x) /\ NextOK(t)
    BY <1>1 DEF InvOK
  <2>2. TypeOK
    BY <1>1
  <2> QED
    BY <2>1, <2>2 DEF HeldOK, Suspends, ListOK, NextOK, Place, TypeOK, DumpStopped, WantList,
       Goto, Become, Return, locks, waiting, counts, work
<1>10. ASSUME NEW x \in Threads PROVE NewOK(x)'
  <2>1. NewOK(x) /\ NewOK(t) /\ ChildOK(t) /\ HeldOK(t) /\ NextOK(t)
    BY <1>1 DEF InvOK
  <2>2. TypeOK
    BY <1>1
  <2> QED
    BY <2>1, <2>2 DEF NewOK, NewPlaces, ChildOK, ParentPlaces, NextOK, Place, TypeOK,
       DumpStopped, WantList, Goto, Become, Return, locks, waiting, counts, work
<1>11. ASSUME NEW x \in Threads PROVE ChildOK(x)'
  <2>1. /\ ChildOK(x) /\ ChildOK(t) /\ OneParent(x, t) /\ NewOK(t) /\ NewOK(x)
        /\ NextOK(t)
    BY <1>1 DEF InvOK
  <2>2. TypeOK
    BY <1>1
  <2> QED
    BY <2>1, <2>2, <1>1 DEF ChildOK, OneParent, ParentPlaces, NewOK, NewPlaces, NextOK,
       Place, TypeOK, DumpStopped, WantList, Goto, Become, Return, locks, waiting,
       counts, work
<1>12. ASSUME NEW x \in Threads, NEW y \in Threads PROVE OneParent(x, y)'
  <2>1. OneParent(x, y) /\ ChildOK(x) /\ ChildOK(y)
    BY <1>1 DEF InvOK
  <2>2. TypeOK
    BY <1>1
  <2> QED
    BY <2>1, <2>2 DEF OneParent, ChildOK, NextOK, TypeOK, DumpStopped, WantList, Goto,
       Become, Return, locks, waiting, counts, work
<1>13. ASSUME NEW x \in Threads, NEW y \in Threads PROVE StopOK(x, y)'
  <2>1. /\ StopOK(x, y) /\ StopOK(x, t) /\ NewOK(y) /\ NewOK(t) /\ HeapOK(x)
        /\ HeapOK(t) /\ GcOK(x) /\ ListOK(x) /\ ListOK(t) /\ ChildOK(t)
        /\ NextOK(t) /\ HeldOK(x) /\ OneGc(x, t)
    BY <1>1 DEF InvOK
  <2>2. TypeOK
    BY <1>1
  <2>3. Robbed(y)' <=> Robbed(y)
    BY DEF Robbed, Holders, DumpStopped, WantList, Goto, Become, Return, locks,
       waiting, counts, work
  <2>4. /\ y \in held[x] /\ y \in threadList /\ suspendCount[y] = 0 => Robbed(y)
        /\ t \in held[x] /\ t \in threadList /\ suspendCount[t] = 0 => overlapped
    BY <1>2 DEF CountPos
  <2> QED
    BY <2>1, <2>2, <2>3, <2>4, <1>0, <1>1 DEF StopOK, Linking, NewOK, NewPlaces,
       HeapOK, ListOK, ChildOK, ParentPlaces, NextOK, HeldOK, OneParent, Place,
       StopPlaces, ResumePlaces, HeapPlaces, Wholes, Pauses, CollectorStops, InvOK,
       TypeOK, DumpStopped, WantList, Goto, Become, Return, locks, waiting, counts,
       work
<1>14. ASSUME NEW x \in Threads, NEW y \in Threads PROVE SnapOK(x, y)'
  <2>1. /\ SnapOK(x, y) /\ HeldOK(x) /\ ListOK(x) /\ ListOK(t) /\ NewOK(y)
        /\ NextOK(t)
    BY <1>1 DEF InvOK
  <2>2. TypeOK
    BY <1>1
  <2> QED
    BY <2>1, <2>2 DEF SnapOK, HeldOK, ListOK, NewOK, NewPlaces, NextOK,
       TypeOK, DumpStopped, WantList, Goto, Become, Return, locks, waiting, counts,
       work
<1>15. ASSUME NEW x \in Threads PROVE Balanced(x)'
  <2>1. Balanced(x)
    BY <1>1 DEF InvOK
  <2>2. UNCHANGED <<suspendCount, held>> /\ threadList' \subseteq threadList
    BY DEF DumpStopped, WantList, Goto, Become, Return, locks, waiting, counts, work
  <2>3. Holders(x)' = Holders(x)
    BY <2>2 DEF Holders
  <2> QED BY <2>1, <2>2, <2>3, <1>0 DEF Balanced, Robbed
<1> QED
  BY <1>0, <1>3, <1>4, <1>5, <1>6, <1>7, <1>8, <1>9, <1>10, <1>11, <1>12, <1>13, <1>14, <1>15
     DEF IInv, InvOK

\* The invariant is kept when a dump is done.
LEMMA DumpedInv ==
  ASSUME IInv, Recorded, NEW t \in Threads, Dumped(t)
  PROVE  IInv'
<1> USE NobodyAssumption
<1>1. TypeOK /\ InvOK
  BY DEF IInv
<1>2. CountPos
  BY CountsPositive
<1>0. OverlapOK' /\ (overlapped => overlapped')
  BY RecordedKept
<1>3. TypeOK'
  BY <1>1 DEF TypeOK, Labels, Statuses, Stops, CollectorStops, InvOK, NextOK, Dumped,
     Goto, waiting, counts, work
<1>4. ASSUME NEW x \in Threads PROVE NextOK(x)'
  <2>1. NextOK(x) /\ NextOK(t)
    BY <1>1 DEF InvOK
  <2>2. TypeOK
    BY <1>1
  <2> QED
    BY <2>1, <2>2 DEF NextOK, TypeOK, Dumped, Goto, waiting, counts, work
<1>5. ASSUME NEW x \in Threads PROVE HeapOK(x)'
  <2>1. HeapOK(x) /\ HeapOK(t) /\ GcOK(t) /\ NextOK(t)
    BY <1>1 DEF InvOK
  <2>2. TypeOK
    BY <1>1
  <2> QED
    BY <2>1, <2>2 DEF HeapOK, GcOK, InGc, NextOK, Place, StopPlaces, ResumePlaces,
       HeapPlaces, Wholes, Pauses, CollectorStops, TypeOK, Dumped, Goto, waiting,
       counts, work
<1>6. ASSUME NEW x \in Threads PROVE ListOK(x)'
  <2>1. ListOK(x) /\ ListOK(t) /\ NextOK(t)
    BY <1>1 DEF InvOK
  <2>2. TypeOK
    BY <1>1
  <2> QED
    BY <2>1, <2>2 DEF ListOK, NextOK, TypeOK, Dumped, Goto, waiting, counts, work
<1>7. ASSUME NEW x \in Threads PROVE GcOK(x)'
  <2>1. /\ GcOK(x) /\ GcOK(t) /\ OneGc(x, t) /\ HeapOK(t) /\ HeapOK(x)
        /\ NextOK(t)
    BY <1>1 DEF InvOK
  <2>2. TypeOK
    BY <1>1
  <2> QED
    BY <2>1, <2>2 DEF GcOK, InGc, OneGc, HeapOK, NextOK, Place, StopPlaces,
       ResumePlaces, HeapPlaces, Wholes, Pauses, CollectorStops, TypeOK, Dumped, Goto,
       waiting, counts, work
<1>8. ASSUME NEW x \in Threads, NEW y \in Threads PROVE OneGc(x, y)'
  <2>1. /\ OneGc(x, y) /\ OneGc(x, t) /\ OneGc(t, y) /\ GcOK(x) /\ GcOK(y)
        /\ GcOK(t) /\ NextOK(t)
    BY <1>1 DEF InvOK
  <2>2. TypeOK
    BY <1>1
  <2> QED
    BY <2>1, <2>2 DEF OneGc, GcOK, InGc, NextOK, Place, StopPlaces, ResumePlaces,
       HeapPlaces, Wholes, Pauses, CollectorStops, TypeOK, Dumped, Goto, waiting,
       counts, work
<1>9. ASSUME NEW x \in Threads PROVE HeldOK(x)'
  <2>1. HeldOK(x) /\ HeldOK(t) /\ ListOK(x) /\ NextOK(t)
    BY <1>1 DEF InvOK
  <2>2. TypeOK
    BY <1>1
  <2> QED
    BY <2>1, <2>2 DEF HeldOK, Suspends, ListOK, NextOK, Place, TypeOK, Dumped, Goto, waiting,
       counts, work
<1>10. ASSUME NEW x \in Threads PROVE NewOK(x)'
  <2>1. NewOK(x) /\ NewOK(t) /\ ChildOK(t) /\ HeldOK(t) /\ NextOK(t)
    BY <1>1 DEF InvOK
  <2>2. TypeOK
    BY <1>1
  <2> QED
    BY <2>1, <2>2 DEF NewOK, NewPlaces, ChildOK, ParentPlaces, NextOK, Place, TypeOK,
       Dumped, Goto, waiting, counts, work
<1>11. ASSUME NEW x \in Threads PROVE ChildOK(x)'
  <2>1. /\ ChildOK(x) /\ ChildOK(t) /\ OneParent(x, t) /\ NewOK(t) /\ NewOK(x)
        /\ NextOK(t)
    BY <1>1 DEF InvOK
  <2>2. TypeOK
    BY <1>1
  <2> QED
    BY <2>1, <2>2, <1>1 DEF ChildOK, OneParent, ParentPlaces, NewOK, NewPlaces, NextOK,
       Place, TypeOK, Dumped, Goto, waiting, counts, work
<1>12. ASSUME NEW x \in Threads, NEW y \in Threads PROVE OneParent(x, y)'
  <2>1. OneParent(x, y) /\ ChildOK(x) /\ ChildOK(y)
    BY <1>1 DEF InvOK
  <2>2. TypeOK
    BY <1>1
  <2> QED
    BY <2>1, <2>2 DEF OneParent, ChildOK, NextOK, TypeOK, Dumped, Goto, waiting,
       counts, work
<1>13. ASSUME NEW x \in Threads, NEW y \in Threads PROVE StopOK(x, y)'
  <2>1. /\ StopOK(x, y) /\ StopOK(x, t) /\ NewOK(y) /\ NewOK(t) /\ HeapOK(x)
        /\ HeapOK(t) /\ GcOK(x) /\ ListOK(x) /\ ListOK(t) /\ ChildOK(t)
        /\ NextOK(t) /\ HeldOK(x) /\ OneGc(x, t)
    BY <1>1 DEF InvOK
  <2>2. TypeOK
    BY <1>1
  <2>3. Robbed(y)' <=> Robbed(y)
    BY DEF Robbed, Holders, Dumped, Goto, waiting, counts, work
  <2>4. /\ y \in held[x] /\ y \in threadList /\ suspendCount[y] = 0 => Robbed(y)
        /\ t \in held[x] /\ t \in threadList /\ suspendCount[t] = 0 => overlapped
    BY <1>2 DEF CountPos
  <2> QED
    BY <2>1, <2>2, <2>3, <2>4, <1>0, <1>1 DEF StopOK, Linking, NewOK, NewPlaces,
       HeapOK, ListOK, ChildOK, ParentPlaces, NextOK, HeldOK, OneParent, Place,
       StopPlaces, ResumePlaces, HeapPlaces, Wholes, Pauses, CollectorStops, InvOK,
       TypeOK, Dumped, Goto, waiting, counts, work
<1>14. ASSUME NEW x \in Threads, NEW y \in Threads PROVE SnapOK(x, y)'
  <2>1. /\ SnapOK(x, y) /\ HeldOK(x) /\ ListOK(x) /\ ListOK(t) /\ NewOK(y)
        /\ NextOK(t)
    BY <1>1 DEF InvOK
  <2>2. TypeOK
    BY <1>1
  <2> QED
    BY <2>1, <2>2 DEF SnapOK, HeldOK, ListOK, NewOK, NewPlaces, NextOK,
       TypeOK, Dumped, Goto, waiting, counts, work
<1>15. ASSUME NEW x \in Threads PROVE Balanced(x)'
  <2>1. Balanced(x)
    BY <1>1 DEF InvOK
  <2>2. UNCHANGED <<suspendCount, held>> /\ threadList' \subseteq threadList
    BY DEF Dumped, Goto, waiting, counts, work
  <2>3. Holders(x)' = Holders(x)
    BY <2>2 DEF Holders
  <2> QED BY <2>1, <2>2, <2>3, <1>0 DEF Balanced, Robbed
<1> QED
  BY <1>0, <1>3, <1>4, <1>5, <1>6, <1>7, <1>8, <1>9, <1>10, <1>11, <1>12, <1>13, <1>14, <1>15
     DEF IInv, InvOK

\* The invariant is kept when a dump is asked for.
LEMMA DumpInv ==
  ASSUME IInv, Recorded, NEW t \in Threads, Dump(t)
  PROVE  IInv'
<1> USE NobodyAssumption
<1>1. TypeOK /\ InvOK
  BY DEF IInv
<1>2. CountPos
  BY CountsPositive
<1>0. OverlapOK' /\ (overlapped => overlapped')
  BY RecordedKept
<1>3. TypeOK'
  BY <1>1 DEF TypeOK, Labels, Statuses, Stops, CollectorStops, InvOK, NextOK, Dump,
     Goto, locks, waiting, counts, Starts
<1>4. ASSUME NEW x \in Threads PROVE NextOK(x)'
  <2>1. NextOK(x) /\ NextOK(t)
    BY <1>1 DEF InvOK
  <2>2. TypeOK
    BY <1>1
  <2> QED
    BY <2>1, <2>2 DEF NextOK, TypeOK, Dump, Goto, locks, waiting, counts, Starts
<1>5. ASSUME NEW x \in Threads PROVE HeapOK(x)'
  <2>1. HeapOK(x) /\ HeapOK(t) /\ GcOK(t) /\ NextOK(t)
    BY <1>1 DEF InvOK
  <2>2. TypeOK
    BY <1>1
  <2> QED
    BY <2>1, <2>2 DEF HeapOK, GcOK, InGc, NextOK, Place, StopPlaces, ResumePlaces,
       HeapPlaces, Wholes, Pauses, CollectorStops, TypeOK, Dump, Goto, locks, waiting,
       counts, Starts
<1>6. ASSUME NEW x \in Threads PROVE ListOK(x)'
  <2>1. ListOK(x) /\ ListOK(t) /\ NextOK(t)
    BY <1>1 DEF InvOK
  <2>2. TypeOK
    BY <1>1
  <2> QED
    BY <2>1, <2>2 DEF ListOK, NextOK, TypeOK, Dump, Goto, locks, waiting, counts,
       Starts
<1>7. ASSUME NEW x \in Threads PROVE GcOK(x)'
  <2>1. /\ GcOK(x) /\ GcOK(t) /\ OneGc(x, t) /\ HeapOK(t) /\ HeapOK(x)
        /\ NextOK(t)
    BY <1>1 DEF InvOK
  <2>2. TypeOK
    BY <1>1
  <2> QED
    BY <2>1, <2>2 DEF GcOK, InGc, OneGc, HeapOK, NextOK, Place, StopPlaces,
       ResumePlaces, HeapPlaces, Wholes, Pauses, CollectorStops, TypeOK, Dump, Goto,
       locks, waiting, counts, Starts
<1>8. ASSUME NEW x \in Threads, NEW y \in Threads PROVE OneGc(x, y)'
  <2>1. /\ OneGc(x, y) /\ OneGc(x, t) /\ OneGc(t, y) /\ GcOK(x) /\ GcOK(y)
        /\ GcOK(t) /\ NextOK(t)
    BY <1>1 DEF InvOK
  <2>2. TypeOK
    BY <1>1
  <2> QED
    BY <2>1, <2>2 DEF OneGc, GcOK, InGc, NextOK, Place, StopPlaces, ResumePlaces,
       HeapPlaces, Wholes, Pauses, CollectorStops, TypeOK, Dump, Goto, locks, waiting,
       counts, Starts
<1>9. ASSUME NEW x \in Threads PROVE HeldOK(x)'
  <2>1. HeldOK(x) /\ HeldOK(t) /\ ListOK(x) /\ NextOK(t)
    BY <1>1 DEF InvOK
  <2>2. TypeOK
    BY <1>1
  <2> QED
    BY <2>1, <2>2 DEF HeldOK, Suspends, ListOK, NextOK, Place, TypeOK, Dump, Goto, locks,
       waiting, counts, Starts
<1>10. ASSUME NEW x \in Threads PROVE NewOK(x)'
  <2>1. NewOK(x) /\ NewOK(t) /\ ChildOK(t) /\ HeldOK(t) /\ NextOK(t)
    BY <1>1 DEF InvOK
  <2>2. TypeOK
    BY <1>1
  <2> QED
    BY <2>1, <2>2 DEF NewOK, NewPlaces, ChildOK, ParentPlaces, NextOK, Place, TypeOK,
       Dump, Goto, locks, waiting, counts, Starts
<1>11. ASSUME NEW x \in Threads PROVE ChildOK(x)'
  <2>1. /\ ChildOK(x) /\ ChildOK(t) /\ OneParent(x, t) /\ NewOK(t) /\ NewOK(x)
        /\ NextOK(t)
    BY <1>1 DEF InvOK
  <2>2. TypeOK
    BY <1>1
  <2> QED
    BY <2>1, <2>2, <1>1 DEF ChildOK, OneParent, ParentPlaces, NewOK, NewPlaces, NextOK,
       Place, TypeOK, Dump, Goto, locks, waiting, counts, Starts
<1>12. ASSUME NEW x \in Threads, NEW y \in Threads PROVE OneParent(x, y)'
  <2>1. OneParent(x, y) /\ ChildOK(x) /\ ChildOK(y)
    BY <1>1 DEF InvOK
  <2>2. TypeOK
    BY <1>1
  <2> QED
    BY <2>1, <2>2 DEF OneParent, ChildOK, NextOK, TypeOK, Dump, Goto, locks, waiting,
       counts, Starts
<1>13. ASSUME NEW x \in Threads, NEW y \in Threads PROVE StopOK(x, y)'
  <2>1. /\ StopOK(x, y) /\ StopOK(x, t) /\ NewOK(y) /\ NewOK(t) /\ HeapOK(x)
        /\ HeapOK(t) /\ GcOK(x) /\ ListOK(x) /\ ListOK(t) /\ ChildOK(t)
        /\ NextOK(t) /\ HeldOK(x) /\ OneGc(x, t)
    BY <1>1 DEF InvOK
  <2>2. TypeOK
    BY <1>1
  <2>3. Robbed(y)' <=> Robbed(y)
    BY DEF Robbed, Holders, Dump, Goto, locks, waiting, counts, Starts
  <2>4. /\ y \in held[x] /\ y \in threadList /\ suspendCount[y] = 0 => Robbed(y)
        /\ t \in held[x] /\ t \in threadList /\ suspendCount[t] = 0 => overlapped
    BY <1>2 DEF CountPos
  <2> QED
    BY <2>1, <2>2, <2>3, <2>4, <1>0, <1>1 DEF StopOK, Linking, NewOK, NewPlaces,
       HeapOK, ListOK, ChildOK, ParentPlaces, NextOK, HeldOK, OneParent, Place,
       StopPlaces, ResumePlaces, HeapPlaces, Wholes, Pauses, CollectorStops, InvOK,
       TypeOK, Dump, Goto, locks, waiting, counts, Starts
<1>14. ASSUME NEW x \in Threads, NEW y \in Threads PROVE SnapOK(x, y)'
  <2>1. /\ SnapOK(x, y) /\ HeldOK(x) /\ ListOK(x) /\ ListOK(t) /\ NewOK(y)
        /\ NextOK(t)
    BY <1>1 DEF InvOK
  <2>2. TypeOK
    BY <1>1
  <2> QED
    BY <2>1, <2>2 DEF SnapOK, HeldOK, ListOK, NewOK, NewPlaces, NextOK,
       TypeOK, Dump, Goto, locks, waiting, counts, Starts
<1>15. ASSUME NEW x \in Threads PROVE Balanced(x)'
  <2>1. Balanced(x)
    BY <1>1 DEF InvOK
  <2>2. UNCHANGED <<suspendCount, held>> /\ threadList' \subseteq threadList
    BY DEF Dump, Goto, locks, waiting, counts, Starts
  <2>3. Holders(x)' = Holders(x)
    BY <2>2 DEF Holders
  <2> QED BY <2>1, <2>2, <2>3, <1>0 DEF Balanced, Robbed
<1> QED
  BY <1>0, <1>3, <1>4, <1>5, <1>6, <1>7, <1>8, <1>9, <1>10, <1>11, <1>12, <1>13, <1>14, <1>15
     DEF IInv, InvOK

\* The invariant is kept when the second pause begins.
LEMMA MarkConcurrentlyInv ==
  ASSUME IInv, Recorded, NEW t \in Threads, MarkConcurrently(t)
  PROVE  IInv'
<1> USE NobodyAssumption
<1>1. TypeOK /\ InvOK
  BY DEF IInv
<1>2. CountPos
  BY CountsPositive
<1>0. OverlapOK' /\ (overlapped => overlapped')
  BY RecordedKept
<1>3. TypeOK'
  BY SMTT(30), <1>1 DEF TypeOK, Labels, Statuses, Stops, CollectorStops, InvOK, NextOK,
     MarkConcurrently, LockHeap, Goto, Become, Return, waiting, counts
<1>4. ASSUME NEW x \in Threads PROVE NextOK(x)'
  <2>1. NextOK(x) /\ NextOK(t)
    BY <1>1 DEF InvOK
  <2>2. TypeOK
    BY <1>1
  <2> QED
    BY <2>1, <2>2 DEF NextOK, TypeOK, MarkConcurrently, LockHeap, Goto, Become, Return,
       waiting, counts
<1>5. ASSUME NEW x \in Threads PROVE HeapOK(x)'
  <2>1. HeapOK(x) /\ HeapOK(t) /\ GcOK(t) /\ NextOK(t)
    BY <1>1 DEF InvOK
  <2>2. TypeOK
    BY <1>1
  <2> QED
    BY <2>1, <2>2 DEF HeapOK, GcOK, InGc, NextOK, Place, StopPlaces, ResumePlaces,
       HeapPlaces, Wholes, Pauses, CollectorStops, TypeOK, MarkConcurrently, LockHeap,
       Goto, Become, Return, waiting, counts
<1>6. ASSUME NEW x \in Threads PROVE ListOK(x)'
  <2>1. ListOK(x) /\ ListOK(t) /\ NextOK(t)
    BY <1>1 DEF InvOK
  <2>2. TypeOK
    BY <1>1
  <2> QED
    BY <2>1, <2>2 DEF ListOK, NextOK, TypeOK, MarkConcurrently, LockHeap, Goto, Become,
       Return, waiting, counts
<1>7. ASSUME NEW x \in Threads PROVE GcOK(x)'
  <2>1. /\ GcOK(x) /\ GcOK(t) /\ OneGc(x, t) /\ HeapOK(t) /\ HeapOK(x)
        /\ NextOK(t)
    BY <1>1 DEF InvOK
  <2>2. TypeOK
    BY <1>1
  <2> QED
    BY <2>1, <2>2 DEF GcOK, InGc, OneGc, HeapOK, NextOK, Place, StopPlaces,
       ResumePlaces, HeapPlaces, Wholes, Pauses, CollectorStops, TypeOK,
       MarkConcurrently, LockHeap, Goto, Become, Return, waiting, counts
<1>8. ASSUME NEW x \in Threads, NEW y \in Threads PROVE OneGc(x, y)'
  <2>1. /\ OneGc(x, y) /\ OneGc(x, t) /\ OneGc(t, y) /\ GcOK(x) /\ GcOK(y)
        /\ GcOK(t) /\ NextOK(t)
    BY <1>1 DEF InvOK
  <2>2. TypeOK
    BY <1>1
  <2> QED
    BY <2>1, <2>2 DEF OneGc, GcOK, InGc, NextOK, Place, StopPlaces, ResumePlaces,
       HeapPlaces, Wholes, Pauses, CollectorStops, TypeOK, MarkConcurrently, LockHeap,
       Goto, Become, Return, waiting, counts
<1>9. ASSUME NEW x \in Threads PROVE HeldOK(x)'
  <2>1. HeldOK(x) /\ HeldOK(t) /\ ListOK(x) /\ NextOK(t)
    BY <1>1 DEF InvOK
  <2>2. TypeOK
    BY <1>1
  <2> QED
    BY <2>1, <2>2 DEF HeldOK, Suspends, ListOK, NextOK, Place, TypeOK, MarkConcurrently,
       LockHeap, Goto, Become, Return, waiting, counts
<1>10. ASSUME NEW x \in Threads PROVE NewOK(x)'
  <2>1. NewOK(x) /\ NewOK(t) /\ ChildOK(t) /\ HeldOK(t) /\ NextOK(t)
    BY <1>1 DEF InvOK
  <2>2. TypeOK
    BY <1>1
  <2> QED
    BY <2>1, <2>2 DEF NewOK, NewPlaces, ChildOK, ParentPlaces, NextOK, Place, TypeOK,
       MarkConcurrently, LockHeap, Goto, Become, Return, waiting, counts
<1>11. ASSUME NEW x \in Threads PROVE ChildOK(x)'
  <2>1. /\ ChildOK(x) /\ ChildOK(t) /\ OneParent(x, t) /\ NewOK(t) /\ NewOK(x)
        /\ NextOK(t)
    BY <1>1 DEF InvOK
  <2>2. TypeOK
    BY <1>1
  <2> QED
    BY <2>1, <2>2, <1>1 DEF ChildOK, OneParent, ParentPlaces, NewOK, NewPlaces, NextOK,
       Place, TypeOK, MarkConcurrently, LockHeap, Goto, Become, Return, waiting, counts
<1>12. ASSUME NEW x \in Threads, NEW y \in Threads PROVE OneParent(x, y)'
  <2>1. OneParent(x, y) /\ ChildOK(x) /\ ChildOK(y)
    BY <1>1 DEF InvOK
  <2>2. TypeOK
    BY <1>1
  <2> QED
    BY <2>1, <2>2 DEF OneParent, ChildOK, NextOK, TypeOK, MarkConcurrently, LockHeap,
       Goto, Become, Return, waiting, counts
<1>13. ASSUME NEW x \in Threads, NEW y \in Threads PROVE StopOK(x, y)'
  <2>1. /\ StopOK(x, y) /\ StopOK(x, t) /\ NewOK(y) /\ NewOK(t) /\ HeapOK(x)
        /\ HeapOK(t) /\ GcOK(x) /\ ListOK(x) /\ ListOK(t) /\ ChildOK(t)
        /\ NextOK(t) /\ HeldOK(x) /\ OneGc(x, t)
    BY <1>1 DEF InvOK
  <2>2. TypeOK
    BY <1>1
  <2>3. Robbed(y)' <=> Robbed(y)
    BY DEF Robbed, Holders, MarkConcurrently, LockHeap, Goto, Become, Return, waiting,
       counts
  <2>4. /\ y \in held[x] /\ y \in threadList /\ suspendCount[y] = 0 => Robbed(y)
        /\ t \in held[x] /\ t \in threadList /\ suspendCount[t] = 0 => overlapped
    BY <1>2 DEF CountPos
  <2> QED
    BY <2>1, <2>2, <2>3, <2>4, <1>0, <1>1 DEF StopOK, Linking, NewOK, NewPlaces,
       HeapOK, ListOK, ChildOK, ParentPlaces, NextOK, HeldOK, OneParent, Place,
       StopPlaces, ResumePlaces, HeapPlaces, Wholes, Pauses, CollectorStops, InvOK,
       TypeOK, MarkConcurrently, LockHeap, Goto, Become, Return, waiting, counts
<1>14. ASSUME NEW x \in Threads, NEW y \in Threads PROVE SnapOK(x, y)'
  <2>1. /\ SnapOK(x, y) /\ HeldOK(x) /\ ListOK(x) /\ ListOK(t) /\ NewOK(y)
        /\ NextOK(t)
    BY <1>1 DEF InvOK
  <2>2. TypeOK
    BY <1>1
  <2> QED
    BY <2>1, <2>2 DEF SnapOK, HeldOK, ListOK, NewOK, NewPlaces, NextOK,
       TypeOK, MarkConcurrently, LockHeap, Goto, Become, Return, waiting, counts
<1>15. ASSUME NEW x \in Threads PROVE Balanced(x)'
  <2>1. Balanced(x)
    BY <1>1 DEF InvOK
  <2>2. UNCHANGED <<suspendCount, held>> /\ threadList' \subseteq threadList
    BY DEF MarkConcurrently, LockHeap, Goto, Become, Return, waiting, counts
  <2>3. Holders(x)' = Holders(x)
    BY <2>2 DEF Holders
  <2> QED BY <2>1, <2>2, <2>3, <1>0 DEF Balanced, Robbed
<1> QED
  BY <1>0, <1>3, <1>4, <1>5, <1>6, <1>7, <1>8, <1>9, <1>10, <1>11, <1>12, <1>13, <1>14, <1>15
     DEF IInv, InvOK

\* The invariant is kept when sweeping ends.
LEMMA SweepInv ==
  ASSUME IInv, Recorded, NEW t \in Threads, Sweep(t)
  PROVE  IInv'
<1> USE NobodyAssumption
<1>1. TypeOK /\ InvOK
  BY DEF IInv
<1>2. CountPos
  BY CountsPositive
<1>0. OverlapOK' /\ (overlapped => overlapped')
  BY RecordedKept
<1>3. TypeOK'
  BY <1>1, SMTT(30) DEF TypeOK, Labels, Statuses, Stops, CollectorStops, Sweep,
     LockHeap, Become, Goto, Return, counts, waiting, work
<1>4. ASSUME NEW x \in Threads PROVE NextOK(x)'
  <2>1. NextOK(x) /\ NextOK(t)
    BY <1>1 DEF InvOK
  <2>2. TypeOK
    BY <1>1
  <2> QED
    BY <2>1, <2>2 DEF NextOK, TypeOK, Sweep, LockHeap, Goto, Become, Return, waiting,
       counts, work
<1>5. ASSUME NEW x \in Threads PROVE HeapOK(x)'
  <2>1. HeapOK(x) /\ HeapOK(t) /\ GcOK(t) /\ NextOK(t)
    BY <1>1 DEF InvOK
  <2>2. TypeOK
    BY <1>1
  <2> QED
    BY <2>1, <2>2 DEF HeapOK, GcOK, InGc, NextOK, Place, StopPlaces, ResumePlaces,
       HeapPlaces, Wholes, Pauses, CollectorStops, TypeOK, Sweep, LockHeap, Goto,
       Become, Return, waiting, counts, work
<1>6. ASSUME NEW x \in Threads PROVE ListOK(x)'
  <2>1. ListOK(x) /\ ListOK(t) /\ NextOK(t)
    BY <1>1 DEF InvOK
  <2>2. TypeOK
    BY <1>1
  <2> QED
    BY <2>1, <2>2 DEF ListOK, NextOK, TypeOK, Sweep, LockHeap, Goto, Become, Return,
       waiting, counts, work
<1>7. ASSUME NEW x \in Threads PROVE GcOK(x)'
  <2>1. /\ GcOK(x) /\ GcOK(t) /\ OneGc(x, t) /\ HeapOK(t) /\ HeapOK(x)
        /\ NextOK(t)
    BY <1>1 DEF InvOK
  <2>2. TypeOK
    BY <1>1
  <2> QED
    BY <2>1, <2>2 DEF GcOK, InGc, OneGc, HeapOK, NextOK, Place, StopPlaces,
       ResumePlaces, HeapPlaces, Wholes, Pauses, CollectorStops, TypeOK, Sweep,
       LockHeap, Goto, Become, Return, waiting, counts, work
<1>8. ASSUME NEW x \in Threads, NEW y \in Threads PROVE OneGc(x, y)'
  <2>1. /\ OneGc(x, y) /\ OneGc(x, t) /\ OneGc(t, y) /\ GcOK(x) /\ GcOK(y)
        /\ GcOK(t) /\ NextOK(t)
    BY <1>1 DEF InvOK
  <2>2. TypeOK
    BY <1>1
  <2> QED
    BY <2>1, <2>2 DEF OneGc, GcOK, InGc, NextOK, Place, StopPlaces, ResumePlaces,
       HeapPlaces, Wholes, Pauses, CollectorStops, TypeOK, Sweep, LockHeap, Goto,
       Become, Return, waiting, counts, work
<1>9. ASSUME NEW x \in Threads PROVE HeldOK(x)'
  <2>1. HeldOK(x) /\ HeldOK(t) /\ ListOK(x) /\ NextOK(t)
    BY <1>1 DEF InvOK
  <2>2. TypeOK
    BY <1>1
  <2> QED
    BY <2>1, <2>2 DEF HeldOK, Suspends, ListOK, NextOK, Place, TypeOK, Sweep, LockHeap, Goto,
       Become, Return, waiting, counts, work
<1>10. ASSUME NEW x \in Threads PROVE NewOK(x)'
  <2>1. NewOK(x) /\ NewOK(t) /\ ChildOK(t) /\ HeldOK(t) /\ NextOK(t)
    BY <1>1 DEF InvOK
  <2>2. TypeOK
    BY <1>1
  <2> QED
    BY <2>1, <2>2 DEF NewOK, NewPlaces, ChildOK, ParentPlaces, NextOK, Place, TypeOK,
       Sweep, LockHeap, Goto, Become, Return, waiting, counts, work
<1>11. ASSUME NEW x \in Threads PROVE ChildOK(x)'
  <2>1. /\ ChildOK(x) /\ ChildOK(t) /\ OneParent(x, t) /\ NewOK(t) /\ NewOK(x)
        /\ NextOK(t)
    BY <1>1 DEF InvOK
  <2>2. TypeOK
    BY <1>1
  <2> QED
    BY <2>1, <2>2, <1>1 DEF ChildOK, OneParent, ParentPlaces, NewOK, NewPlaces, NextOK,
       Place, TypeOK, Sweep, LockHeap, Goto, Become, Return, waiting, counts, work
<1>12. ASSUME NEW x \in Threads, NEW y \in Threads PROVE OneParent(x, y)'
  <2>1. OneParent(x, y) /\ ChildOK(x) /\ ChildOK(y)
    BY <1>1 DEF InvOK
  <2>2. TypeOK
    BY <1>1
  <2> QED
    BY <2>1, <2>2 DEF OneParent, ChildOK, NextOK, TypeOK, Sweep, LockHeap, Goto,
       Become, Return, waiting, counts, work
<1>13. ASSUME NEW x \in Threads, NEW y \in Threads PROVE StopOK(x, y)'
  <2>1. /\ StopOK(x, y) /\ StopOK(x, t) /\ NewOK(y) /\ NewOK(t) /\ HeapOK(x)
        /\ HeapOK(t) /\ GcOK(x) /\ ListOK(x) /\ ListOK(t) /\ ChildOK(t)
        /\ NextOK(t) /\ HeldOK(x) /\ OneGc(x, t)
    BY <1>1 DEF InvOK
  <2>2. TypeOK
    BY <1>1
  <2>3. Robbed(y)' <=> Robbed(y)
    BY DEF Robbed, Holders, Sweep, LockHeap, Goto, Become, Return, waiting, counts,
       work
  <2>4. /\ y \in held[x] /\ y \in threadList /\ suspendCount[y] = 0 => Robbed(y)
        /\ t \in held[x] /\ t \in threadList /\ suspendCount[t] = 0 => overlapped
    BY <1>2 DEF CountPos
  <2> QED
    BY <2>1, <2>2, <2>3, <2>4, <1>0, <1>1 DEF StopOK, Linking, NewOK, NewPlaces,
       HeapOK, ListOK, ChildOK, ParentPlaces, NextOK, HeldOK, OneParent, Place,
       StopPlaces, ResumePlaces, HeapPlaces, Wholes, Pauses, CollectorStops, InvOK,
       TypeOK, Sweep, LockHeap, Goto, Become, Return, waiting, counts, work
<1>14. ASSUME NEW x \in Threads, NEW y \in Threads PROVE SnapOK(x, y)'
  <2>1. /\ SnapOK(x, y) /\ HeldOK(x) /\ ListOK(x) /\ ListOK(t) /\ NewOK(y)
        /\ NextOK(t)
    BY <1>1 DEF InvOK
  <2>2. TypeOK
    BY <1>1
  <2> QED
    BY <2>1, <2>2 DEF SnapOK, HeldOK, ListOK, NewOK, NewPlaces, NextOK,
       TypeOK, Sweep, LockHeap, Goto, Become, Return, waiting, counts, work
<1>15. ASSUME NEW x \in Threads PROVE Balanced(x)'
  <2>1. Balanced(x)
    BY <1>1 DEF InvOK
  <2>2. UNCHANGED <<suspendCount, held>> /\ threadList' \subseteq threadList
    BY DEF Sweep, LockHeap, Goto, Become, Return, waiting, counts, work
  <2>3. Holders(x)' = Holders(x)
    BY <2>2 DEF Holders
  <2> QED BY <2>1, <2>2, <2>3, <1>0 DEF Balanced, Robbed
<1> QED
  BY <1>0, <1>3, <1>4, <1>5, <1>6, <1>7, <1>8, <1>9, <1>10, <1>11, <1>12, <1>13, <1>14, <1>15
     DEF IInv, InvOK

\* The invariant is kept when a concurrent collection ends.
LEMMA FinishGcInv ==
  ASSUME IInv, Recorded, NEW t \in Threads, FinishGc(t)
  PROVE  IInv'
<1> USE NobodyAssumption
<1>1. TypeOK /\ InvOK
  BY DEF IInv
<1>2. CountPos
  BY CountsPositive
<1>0. OverlapOK' /\ (overlapped => overlapped')
  BY RecordedKept
<1>3. TypeOK'
  BY ZenonT(60), <1>1 DEF TypeOK, Labels, Statuses, Stops, CollectorStops, InvOK, NextOK, FinishGc,
     Goto, Become, counts, work
<1>4. ASSUME NEW x \in Threads PROVE NextOK(x)'
  <2>1. NextOK(x) /\ NextOK(t)
    BY <1>1 DEF InvOK
  <2>2. TypeOK
    BY <1>1
  <2> QED
    BY <2>1, <2>2 DEF NextOK, TypeOK, FinishGc, Goto, Become, counts, work
<1>5. ASSUME NEW x \in Threads PROVE HeapOK(x)'
  <2>1. HeapOK(x) /\ HeapOK(t) /\ GcOK(t) /\ NextOK(t)
    BY <1>1 DEF InvOK
  <2>2. TypeOK
    BY <1>1
  <2> QED
    BY <2>1, <2>2 DEF HeapOK, GcOK, InGc, NextOK, Place, StopPlaces, ResumePlaces,
       HeapPlaces, Wholes, Pauses, CollectorStops, TypeOK, FinishGc, Goto, Become,
       counts, work
<1>6. ASSUME NEW x \in Threads PROVE ListOK(x)'
  <2>1. ListOK(x) /\ ListOK(t) /\ NextOK(t)
    BY <1>1 DEF InvOK
  <2>2. TypeOK
    BY <1>1
  <2> QED
    BY <2>1, <2>2 DEF ListOK, NextOK, TypeOK, FinishGc, Goto, Become, counts, work
<1>7. ASSUME NEW x \in Threads PROVE GcOK(x)'
  <2>1. /\ GcOK(x) /\ GcOK(t) /\ OneGc(x, t) /\ HeapOK(t) /\ HeapOK(x)
        /\ NextOK(t)
    BY <1>1 DEF InvOK
  <2>2. TypeOK
    BY <1>1
  <2> QED
    BY <2>1, <2>2 DEF GcOK, InGc, OneGc, HeapOK, NextOK, Place, StopPlaces,
       ResumePlaces, HeapPlaces, Wholes, Pauses, CollectorStops, TypeOK, FinishGc,
       Goto, Become, counts, work
<1>8. ASSUME NEW x \in Threads, NEW y \in Threads PROVE OneGc(x, y)'
  <2>1. /\ OneGc(x, y) /\ OneGc(x, t) /\ OneGc(t, y) /\ GcOK(x) /\ GcOK(y)
        /\ GcOK(t) /\ NextOK(t)
    BY <1>1 DEF InvOK
  <2>2. TypeOK
    BY <1>1
  <2> QED
    BY <2>1, <2>2 DEF OneGc, GcOK, InGc, NextOK, Place, StopPlaces, ResumePlaces,
       HeapPlaces, Wholes, Pauses, CollectorStops, TypeOK, FinishGc, Goto, Become,
       counts, work
<1>9. ASSUME NEW x \in Threads PROVE HeldOK(x)'
  <2>1. HeldOK(x) /\ HeldOK(t) /\ ListOK(x) /\ NextOK(t)
    BY <1>1 DEF InvOK
  <2>2. TypeOK
    BY <1>1
  <2> QED
    BY <2>1, <2>2 DEF HeldOK, Suspends, ListOK, NextOK, Place, TypeOK, FinishGc, Goto, Become,
       counts, work
<1>10. ASSUME NEW x \in Threads PROVE NewOK(x)'
  <2>1. NewOK(x) /\ NewOK(t) /\ ChildOK(t) /\ HeldOK(t) /\ NextOK(t)
    BY <1>1 DEF InvOK
  <2>2. TypeOK
    BY <1>1
  <2> QED
    BY <2>1, <2>2 DEF NewOK, NewPlaces, ChildOK, ParentPlaces, NextOK, Place, TypeOK,
       FinishGc, Goto, Become, counts, work
<1>11. ASSUME NEW x \in Threads PROVE ChildOK(x)'
  <2>1. /\ ChildOK(x) /\ ChildOK(t) /\ OneParent(x, t) /\ NewOK(t) /\ NewOK(x)
        /\ NextOK(t)
    BY <1>1 DEF InvOK
  <2>2. TypeOK
    BY <1>1
  <2> QED
    BY <2>1, <2>2, <1>1 DEF ChildOK, OneParent, ParentPlaces, NewOK, NewPlaces, NextOK,
       Place, TypeOK, FinishGc, Goto, Become, counts, work
<1>12. ASSUME NEW x \in Threads, NEW y \in Threads PROVE OneParent(x, y)'
  <2>1. OneParent(x, y) /\ ChildOK(x) /\ ChildOK(y)
    BY <1>1 DEF InvOK
  <2>2. TypeOK
    BY <1>1
  <2> QED
    BY <2>1, <2>2 DEF OneParent, ChildOK, NextOK, TypeOK, FinishGc, Goto, Become,
       counts, work
<1>13. ASSUME NEW x \in Threads, NEW y \in Threads PROVE StopOK(x, y)'
  <2>1. /\ StopOK(x, y) /\ StopOK(x, t) /\ NewOK(y) /\ NewOK(t) /\ HeapOK(x)
        /\ HeapOK(t) /\ GcOK(x) /\ ListOK(x) /\ ListOK(t) /\ ChildOK(t)
        /\ NextOK(t) /\ HeldOK(x) /\ OneGc(x, t)
    BY <1>1 DEF InvOK
  <2>2. TypeOK
    BY <1>1
  <2>3. Robbed(y)' <=> Robbed(y)
    BY DEF Robbed, Holders, FinishGc, Goto, Become, counts, work
  <2>4. /\ y \in held[x] /\ y \in threadList /\ suspendCount[y] = 0 => Robbed(y)
        /\ t \in held[x] /\ t \in threadList /\ suspendCount[t] = 0 => overlapped
    BY <1>2 DEF CountPos
  <2> QED
    BY <2>1, <2>2, <2>3, <2>4, <1>0, <1>1 DEF StopOK, Linking, NewOK, NewPlaces,
       HeapOK, ListOK, ChildOK, ParentPlaces, NextOK, HeldOK, OneParent, Place,
       StopPlaces, ResumePlaces, HeapPlaces, Wholes, Pauses, CollectorStops, InvOK,
       TypeOK, FinishGc, Goto, Become, counts, work
<1>14. ASSUME NEW x \in Threads, NEW y \in Threads PROVE SnapOK(x, y)'
  <2>1. /\ SnapOK(x, y) /\ HeldOK(x) /\ ListOK(x) /\ ListOK(t) /\ NewOK(y)
        /\ NextOK(t)
    BY <1>1 DEF InvOK
  <2>2. TypeOK
    BY <1>1
  <2> QED
    BY <2>1, <2>2 DEF SnapOK, HeldOK, ListOK, NewOK, NewPlaces, NextOK,
       TypeOK, FinishGc, Goto, Become, counts, work
<1>15. ASSUME NEW x \in Threads PROVE Balanced(x)'
  <2>1. Balanced(x)
    BY <1>1 DEF InvOK
  <2>2. UNCHANGED <<suspendCount, held>> /\ threadList' \subseteq threadList
    BY DEF FinishGc, Goto, Become, counts, work
  <2>3. Holders(x)' = Holders(x)
    BY <2>2 DEF Holders
  <2> QED BY <2>1, <2>2, <2>3, <1>0 DEF Balanced, Robbed
<1> QED
  BY <1>0, <1>3, <1>4, <1>5, <1>6, <1>7, <1>8, <1>9, <1>10, <1>11, <1>12, <1>13, <1>14, <1>15
     DEF IInv, InvOK

\* The invariant is kept when a thread attaches.
LEMMA AttachInv ==
  ASSUME IInv, Recorded, NEW t \in Threads, Attach(t)
  PROVE  IInv'
<1> USE NobodyAssumption
<1>1. TypeOK /\ InvOK
  BY DEF IInv
<1>2. CountPos
  BY CountsPositive
<1>0. OverlapOK' /\ (overlapped => overlapped')
  BY RecordedKept
<1>3. TypeOK'
  BY <1>1 DEF TypeOK, Labels, Statuses, Stops, CollectorStops, InvOK, NextOK, Attach,
     Goto, Become, locks, waiting, counts, work
<1>4. ASSUME NEW x \in Threads PROVE NextOK(x)'
  <2>1. NextOK(x) /\ NextOK(t)
    BY <1>1 DEF InvOK
  <2>2. TypeOK
    BY <1>1
  <2> QED
    BY <2>1, <2>2 DEF NextOK, TypeOK, Attach, Goto, Become, locks, waiting, counts,
       work
<1>5. ASSUME NEW x \in Threads PROVE HeapOK(x)'
  <2>1. HeapOK(x) /\ HeapOK(t) /\ GcOK(t) /\ NextOK(t)
    BY <1>1 DEF InvOK
  <2>2. TypeOK
    BY <1>1
  <2> QED
    BY <2>1, <2>2 DEF HeapOK, GcOK, InGc, NextOK, Place, StopPlaces, ResumePlaces,
       HeapPlaces, Wholes, Pauses, CollectorStops, TypeOK, Attach, Goto, Become, locks,
       waiting, counts, work
<1>6. ASSUME NEW x \in Threads PROVE ListOK(x)'
  <2>1. ListOK(x) /\ ListOK(t) /\ NextOK(t)
    BY <1>1 DEF InvOK
  <2>2. TypeOK
    BY <1>1
  <2> QED
    BY <2>1, <2>2 DEF ListOK, NextOK, TypeOK, Attach, Goto, Become, locks, waiting,
       counts, work
<1>7. ASSUME NEW x \in Threads PROVE GcOK(x)'
  <2>1. /\ GcOK(x) /\ GcOK(t) /\ OneGc(x, t) /\ HeapOK(t) /\ HeapOK(x)
        /\ NextOK(t)
    BY <1>1 DEF InvOK
  <2>2. TypeOK
    BY <1>1
  <2> QED
    BY <2>1, <2>2 DEF GcOK, InGc, OneGc, HeapOK, NextOK, Place, StopPlaces,
       ResumePlaces, HeapPlaces, Wholes, Pauses, CollectorStops, TypeOK, Attach, Goto,
       Become, locks, waiting, counts, work
<1>8. ASSUME NEW x \in Threads, NEW y \in Threads PROVE OneGc(x, y)'
  <2>1. /\ OneGc(x, y) /\ OneGc(x, t) /\ OneGc(t, y) /\ GcOK(x) /\ GcOK(y)
        /\ GcOK(t) /\ NextOK(t)
    BY <1>1 DEF InvOK
  <2>2. TypeOK
    BY <1>1
  <2> QED
    BY <2>1, <2>2 DEF OneGc, GcOK, InGc, NextOK, Place, StopPlaces, ResumePlaces,
       HeapPlaces, Wholes, Pauses, CollectorStops, TypeOK, Attach, Goto, Become, locks,
       waiting, counts, work
<1>9. ASSUME NEW x \in Threads PROVE HeldOK(x)'
  <2>1. HeldOK(x) /\ HeldOK(t) /\ ListOK(x) /\ NextOK(t)
    BY <1>1 DEF InvOK
  <2>2. TypeOK
    BY <1>1
  <2> QED
    BY <2>1, <2>2 DEF HeldOK, Suspends, ListOK, NextOK, Place, TypeOK, Attach, Goto, Become,
       locks, waiting, counts, work
<1>10. ASSUME NEW x \in Threads PROVE NewOK(x)'
  <2>1. NewOK(x) /\ NewOK(t) /\ ChildOK(t) /\ HeldOK(t) /\ NextOK(t)
    BY <1>1 DEF InvOK
  <2>2. TypeOK
    BY <1>1
  <2> QED
    BY <2>1, <2>2 DEF NewOK, NewPlaces, ChildOK, ParentPlaces, NextOK, Place, TypeOK,
       Attach, Goto, Become, locks, waiting, counts, work
<1>11. ASSUME NEW x \in Threads PROVE ChildOK(x)'
  <2>1. /\ ChildOK(x) /\ ChildOK(t) /\ OneParent(x, t) /\ NewOK(t) /\ NewOK(x)
        /\ NextOK(t)
    BY <1>1 DEF InvOK
  <2>2. TypeOK
    BY <1>1
  <2> QED
    BY <2>1, <2>2, <1>1 DEF ChildOK, OneParent, ParentPlaces, NewOK, NewPlaces, NextOK,
       Place, TypeOK, Attach, Goto, Become, locks, waiting, counts, work
<1>12. ASSUME NEW x \in Threads, NEW y \in Threads PROVE OneParent(x, y)'
  <2>1. OneParent(x, y) /\ ChildOK(x) /\ ChildOK(y)
    BY <1>1 DEF InvOK
  <2>2. TypeOK
    BY <1>1
  <2> QED
    BY <2>1, <2>2 DEF OneParent, ChildOK, NextOK, TypeOK, Attach, Goto, Become, locks,
       waiting, counts, work
<1>13. ASSUME NEW x \in Threads, NEW y \in Threads PROVE StopOK(x, y)'
  <2>1. /\ StopOK(x, y) /\ StopOK(x, t) /\ NewOK(y) /\ NewOK(t) /\ HeapOK(x)
        /\ HeapOK(t) /\ GcOK(x) /\ ListOK(x) /\ ListOK(t) /\ ChildOK(t)
        /\ NextOK(t) /\ HeldOK(x) /\ OneGc(x, t)
    BY <1>1 DEF InvOK
  <2>2. TypeOK
    BY <1>1
  <2>3. Robbed(y)' <=> Robbed(y)
    BY DEF Robbed, Holders, Attach, Goto, Become, locks, waiting, counts, work
  <2>4. /\ y \in held[x] /\ y \in threadList /\ suspendCount[y] = 0 => Robbed(y)
        /\ t \in held[x] /\ t \in threadList /\ suspendCount[t] = 0 => overlapped
    BY <1>2 DEF CountPos
  <2> QED
    BY <2>1, <2>2, <2>3, <2>4, <1>0, <1>1 DEF StopOK, Linking, NewOK, NewPlaces,
       HeapOK, ListOK, ChildOK, ParentPlaces, NextOK, HeldOK, OneParent, Place,
       StopPlaces, ResumePlaces, HeapPlaces, Wholes, Pauses, CollectorStops, InvOK,
       TypeOK, Attach, Goto, Become, locks, waiting, counts, work
<1>14. ASSUME NEW x \in Threads, NEW y \in Threads PROVE SnapOK(x, y)'
  <2>1. /\ SnapOK(x, y) /\ HeldOK(x) /\ ListOK(x) /\ ListOK(t) /\ NewOK(y)
        /\ NextOK(t)
    BY <1>1 DEF InvOK
  <2>2. TypeOK
    BY <1>1
  <2> QED
    BY <2>1, <2>2 DEF SnapOK, HeldOK, ListOK, NewOK, NewPlaces, NextOK,
       TypeOK, Attach, Goto, Become, locks, waiting, counts, work
<1>15. ASSUME NEW x \in Threads PROVE Balanced(x)'
  <2>1. Balanced(x) /\ HeldOK(t) /\ NewOK(x) /\ ChildOK(t) /\ TypeOK
    BY <1>1 DEF InvOK
  <2>2. IsFiniteSet(Holders(x)) /\ Cardinality(Holders(x)) \in Nat
    BY HoldersFinite
  <2>3. UNCHANGED <<held, suspendCount>> /\ threadList' = threadList \cup {t}
        /\ Holders(x)' = Holders(x)
    BY DEF Attach, counts, Holders
  <2>4. CASE x \in threadList
    BY <1>0, <2>1, <2>3, <2>4 DEF Balanced, Robbed
  <2>5. CASE x \notin threadList /\ x = t
    <3>1. at[x] = "detached"
      BY <2>5 DEF Attach
    <3>2. suspendCount[x] = 0 /\ Holders(x) = {}
      BY <3>1, <2>1, <2>5 DEF NewOK, Holders
    <3> QED BY <2>3, <3>2, FS_EmptySet DEF Balanced, Robbed
  <2>6. CASE x \notin threadList /\ x # t
    BY <2>3, <2>6 DEF Balanced
  <2> QED BY <2>4, <2>5, <2>6
<1> QED
  BY <1>0, <1>3, <1>4, <1>5, <1>6, <1>7, <1>8, <1>9, <1>10, <1>11, <1>12, <1>13, <1>14, <1>15
     DEF IInv, InvOK

\* The invariant is kept when it has waited for the heap lock.
LEMMA PulseHeapLockInv ==
  ASSUME IInv, Recorded, NEW t \in Threads, PulseHeapLock(t)
  PROVE  IInv'
<1> USE NobodyAssumption
<1>1. TypeOK /\ InvOK
  BY DEF IInv
<1>2. CountPos
  BY CountsPositive
<1>0. OverlapOK' /\ (overlapped => overlapped')
  BY RecordedKept
<1>3. TypeOK'
  BY <1>1 DEF TypeOK, Labels, Statuses, Stops, CollectorStops, InvOK, NextOK,
     PulseHeapLock, Revive, Goto, Become, Return, locks, waiting, counts, work
<1>4. ASSUME NEW x \in Threads PROVE NextOK(x)'
  <2>1. NextOK(x) /\ NextOK(t)
    BY <1>1 DEF InvOK
  <2>2. TypeOK
    BY <1>1
  <2> QED
    BY <2>1, <2>2 DEF NextOK, TypeOK, PulseHeapLock, Revive, Goto, Become, Return,
       locks, waiting, counts, work
<1>5. ASSUME NEW x \in Threads PROVE HeapOK(x)'
  <2>1. HeapOK(x) /\ HeapOK(t) /\ GcOK(t) /\ NextOK(t)
    BY <1>1 DEF InvOK
  <2>2. TypeOK
    BY <1>1
  <2> QED
    BY <2>1, <2>2 DEF HeapOK, GcOK, InGc, NextOK, Place, StopPlaces, ResumePlaces,
       HeapPlaces, Wholes, Pauses, CollectorStops, TypeOK, PulseHeapLock, Revive, Goto,
       Become, Return, locks, waiting, counts, work
<1>6. ASSUME NEW x \in Threads PROVE ListOK(x)'
  <2>1. ListOK(x) /\ ListOK(t) /\ NextOK(t)
    BY <1>1 DEF InvOK
  <2>2. TypeOK
    BY <1>1
  <2> QED
    BY <2>1, <2>2 DEF ListOK, NextOK, TypeOK, PulseHeapLock, Revive, Goto, Become,
       Return, locks, waiting, counts, work
<1>7. ASSUME NEW x \in Threads PROVE GcOK(x)'
  <2>1. /\ GcOK(x) /\ GcOK(t) /\ OneGc(x, t) /\ HeapOK(t) /\ HeapOK(x)
        /\ NextOK(t)
    BY <1>1 DEF InvOK
  <2>2. TypeOK
    BY <1>1
  <2> QED
    BY <2>1, <2>2 DEF GcOK, InGc, OneGc, HeapOK, NextOK, Place, StopPlaces,
       ResumePlaces, HeapPlaces, Wholes, Pauses, CollectorStops, TypeOK, PulseHeapLock,
       Revive, Goto, Become, Return, locks, waiting, counts, work
<1>8. ASSUME NEW x \in Threads, NEW y \in Threads PROVE OneGc(x, y)'
  <2>1. /\ OneGc(x, y) /\ OneGc(x, t) /\ OneGc(t, y) /\ GcOK(x) /\ GcOK(y)
        /\ GcOK(t) /\ NextOK(t)
    BY <1>1 DEF InvOK
  <2>2. TypeOK
    BY <1>1
  <2> QED
    BY <2>1, <2>2 DEF OneGc, GcOK, InGc, NextOK, Place, StopPlaces, ResumePlaces,
       HeapPlaces, Wholes, Pauses, CollectorStops, TypeOK, PulseHeapLock, Revive, Goto,
       Become, Return, locks, waiting, counts, work
<1>9. ASSUME NEW x \in Threads PROVE HeldOK(x)'
  <2>1. HeldOK(x) /\ HeldOK(t) /\ ListOK(x) /\ NextOK(t)
    BY <1>1 DEF InvOK
  <2>2. TypeOK
    BY <1>1
  <2> QED
    BY <2>1, <2>2 DEF HeldOK, Suspends, ListOK, NextOK, Place, TypeOK, PulseHeapLock, Revive,
       Goto, Become, Return, locks, waiting, counts, work
<1>10. ASSUME NEW x \in Threads PROVE NewOK(x)'
  <2>1. NewOK(x) /\ NewOK(t) /\ ChildOK(t) /\ HeldOK(t) /\ NextOK(t)
    BY <1>1 DEF InvOK
  <2>2. TypeOK
    BY <1>1
  <2> QED
    BY <2>1, <2>2 DEF NewOK, NewPlaces, ChildOK, ParentPlaces, NextOK, Place, TypeOK,
       PulseHeapLock, Revive, Goto, Become, Return, locks, waiting, counts, work
<1>11. ASSUME NEW x \in Threads PROVE ChildOK(x)'
  <2>1. /\ ChildOK(x) /\ ChildOK(t) /\ OneParent(x, t) /\ NewOK(t) /\ NewOK(x)
        /\ NextOK(t)
    BY <1>1 DEF InvOK
  <2>2. TypeOK
    BY <1>1
  <2> QED
    BY <2>1, <2>2, <1>1 DEF ChildOK, OneParent, ParentPlaces, NewOK, NewPlaces, NextOK,
       Place, TypeOK, PulseHeapLock, Revive, Goto, Become, Return, locks, waiting,
       counts, work
<1>12. ASSUME NEW x \in Threads, NEW y \in Threads PROVE OneParent(x, y)'
  <2>1. OneParent(x, y) /\ ChildOK(x) /\ ChildOK(y)
    BY <1>1 DEF InvOK
  <2>2. TypeOK
    BY <1>1
  <2> QED
    BY <2>1, <2>2 DEF OneParent, ChildOK, NextOK, TypeOK, PulseHeapLock, Revive, Goto,
       Become, Return, locks, waiting, counts, work
<1>13. ASSUME NEW x \in Threads, NEW y \in Threads PROVE StopOK(x, y)'
  <2>1. /\ StopOK(x, y) /\ StopOK(x, t) /\ NewOK(y) /\ NewOK(t) /\ HeapOK(x)
        /\ HeapOK(t) /\ GcOK(x) /\ ListOK(x) /\ ListOK(t) /\ ChildOK(t)
        /\ NextOK(t) /\ HeldOK(x) /\ OneGc(x, t)
    BY <1>1 DEF InvOK
  <2>2. TypeOK
    BY <1>1
  <2>3. Robbed(y)' <=> Robbed(y)
    BY DEF Robbed, Holders, PulseHeapLock, Revive, Goto, Become, Return, locks,
       waiting, counts, work
  <2>4. /\ y \in held[x] /\ y \in threadList /\ suspendCount[y] = 0 => Robbed(y)
        /\ t \in held[x] /\ t \in threadList /\ suspendCount[t] = 0 => overlapped
    BY <1>2 DEF CountPos
  <2> QED
    BY <2>1, <2>2, <2>3, <2>4, <1>0, <1>1 DEF StopOK, Linking, NewOK, NewPlaces,
       HeapOK, ListOK, ChildOK, ParentPlaces, NextOK, HeldOK, OneParent, Place,
       StopPlaces, ResumePlaces, HeapPlaces, Wholes, Pauses, CollectorStops, InvOK,
       TypeOK, PulseHeapLock, Revive, Goto, Become, Return, locks, waiting, counts,
       work
<1>14. ASSUME NEW x \in Threads, NEW y \in Threads PROVE SnapOK(x, y)'
  <2>1. /\ SnapOK(x, y) /\ HeldOK(x) /\ ListOK(x) /\ ListOK(t) /\ NewOK(y)
        /\ NextOK(t)
    BY <1>1 DEF InvOK
  <2>2. TypeOK
    BY <1>1
  <2> QED
    BY <2>1, <2>2 DEF SnapOK, HeldOK, ListOK, NewOK, NewPlaces, NextOK,
       TypeOK, PulseHeapLock, Revive, Goto, Become, Return, locks, waiting, counts,
       work
<1>15. ASSUME NEW x \in Threads PROVE Balanced(x)'
  <2>1. Balanced(x)
    BY <1>1 DEF InvOK
  <2>2. UNCHANGED <<suspendCount, held>> /\ threadList' \subseteq threadList
    BY DEF PulseHeapLock, Revive, Goto, Become, Return, locks, waiting, counts, work
  <2>3. Holders(x)' = Holders(x)
    BY <2>2 DEF Holders
  <2> QED BY <2>1, <2>2, <2>3, <1>0 DEF Balanced, Robbed
<1> QED
  BY <1>0, <1>3, <1>4, <1>5, <1>6, <1>7, <1>8, <1>9, <1>10, <1>11, <1>12, <1>13, <1>14, <1>15
     DEF IInv, InvOK

\* The invariant is kept when a thread detaches.
LEMMA DetachInv ==
  ASSUME IInv, Recorded, NEW t \in Threads, Detach(t)
  PROVE  IInv'
<1> USE NobodyAssumption
<1>1. TypeOK /\ InvOK
  BY DEF IInv
<1>2. CountPos
  BY CountsPositive
<1>0. OverlapOK' /\ (overlapped => overlapped')
  BY RecordedKept
<1>3. TypeOK'
  BY <1>1 DEF TypeOK, Labels, Statuses, Stops, CollectorStops, InvOK, NextOK, Detach,
     Goto, Become, locks, waiting, counts, work, Starts
<1>4. ASSUME NEW x \in Threads PROVE NextOK(x)'
  <2>1. NextOK(x) /\ NextOK(t)
    BY <1>1 DEF InvOK
  <2>2. TypeOK
    BY <1>1
  <2> QED
    BY <2>1, <2>2 DEF NextOK, TypeOK, Detach, Goto, Become, locks, waiting, counts,
       work, Starts
<1>5. ASSUME NEW x \in Threads PROVE HeapOK(x)'
  <2>1. HeapOK(x) /\ HeapOK(t) /\ GcOK(t) /\ NextOK(t)
    BY <1>1 DEF InvOK
  <2>2. TypeOK
    BY <1>1
  <2> QED
    BY <2>1, <2>2 DEF HeapOK, GcOK, InGc, NextOK, Place, StopPlaces, ResumePlaces,
       HeapPlaces, Wholes, Pauses, CollectorStops, TypeOK, Detach, Goto, Become, locks,
       waiting, counts, work, Starts
<1>6. ASSUME NEW x \in Threads PROVE ListOK(x)'
  <2>1. ListOK(x) /\ ListOK(t) /\ NextOK(t)
    BY <1>1 DEF InvOK
  <2>2. TypeOK
    BY <1>1
  <2> QED
    BY <2>1, <2>2 DEF ListOK, NextOK, TypeOK, Detach, Goto, Become, locks, waiting,
       counts, work, Starts
<1>7. ASSUME NEW x \in Threads PROVE GcOK(x)'
  <2>1. /\ GcOK(x) /\ GcOK(t) /\ OneGc(x, t) /\ HeapOK(t) /\ HeapOK(x)
        /\ NextOK(t)
    BY <1>1 DEF InvOK
  <2>2. TypeOK
    BY <1>1
  <2> QED
    BY <2>1, <2>2 DEF GcOK, InGc, OneGc, HeapOK, NextOK, Place, StopPlaces,
       ResumePlaces, HeapPlaces, Wholes, Pauses, CollectorStops, TypeOK, Detach, Goto,
       Become, locks, waiting, counts, work, Starts
<1>8. ASSUME NEW x \in Threads, NEW y \in Threads PROVE OneGc(x, y)'
  <2>1. /\ OneGc(x, y) /\ OneGc(x, t) /\ OneGc(t, y) /\ GcOK(x) /\ GcOK(y)
        /\ GcOK(t) /\ NextOK(t)
    BY <1>1 DEF InvOK
  <2>2. TypeOK
    BY <1>1
  <2> QED
    BY <2>1, <2>2 DEF OneGc, GcOK, InGc, NextOK, Place, StopPlaces, ResumePlaces,
       HeapPlaces, Wholes, Pauses, CollectorStops, TypeOK, Detach, Goto, Become, locks,
       waiting, counts, work, Starts
<1>9. ASSUME NEW x \in Threads PROVE HeldOK(x)'
  <2>1. HeldOK(x) /\ HeldOK(t) /\ ListOK(x) /\ NextOK(t)
    BY <1>1 DEF InvOK
  <2>2. TypeOK
    BY <1>1
  <2> QED
    BY <2>1, <2>2 DEF HeldOK, Suspends, ListOK, NextOK, Place, TypeOK, Detach, Goto, Become,
       locks, waiting, counts, work, Starts
<1>10. ASSUME NEW x \in Threads PROVE NewOK(x)'
  <2>1. NewOK(x) /\ NewOK(t) /\ ChildOK(t) /\ HeldOK(t) /\ NextOK(t)
    BY <1>1 DEF InvOK
  <2>2. TypeOK
    BY <1>1
  <2> QED
    BY <2>1, <2>2 DEF NewOK, NewPlaces, ChildOK, ParentPlaces, NextOK, Place, TypeOK,
       Detach, Goto, Become, locks, waiting, counts, work, Starts
<1>11. ASSUME NEW x \in Threads PROVE ChildOK(x)'
  <2>1. /\ ChildOK(x) /\ ChildOK(t) /\ OneParent(x, t) /\ NewOK(t) /\ NewOK(x)
        /\ NextOK(t)
    BY <1>1 DEF InvOK
  <2>2. TypeOK
    BY <1>1
  <2> QED
    BY <2>1, <2>2, <1>1 DEF ChildOK, OneParent, ParentPlaces, NewOK, NewPlaces, NextOK,
       Place, TypeOK, Detach, Goto, Become, locks, waiting, counts, work, Starts
<1>12. ASSUME NEW x \in Threads, NEW y \in Threads PROVE OneParent(x, y)'
  <2>1. OneParent(x, y) /\ ChildOK(x) /\ ChildOK(y)
    BY <1>1 DEF InvOK
  <2>2. TypeOK
    BY <1>1
  <2> QED
    BY <2>1, <2>2 DEF OneParent, ChildOK, NextOK, TypeOK, Detach, Goto, Become, locks,
       waiting, counts, work, Starts
<1>13. ASSUME NEW x \in Threads, NEW y \in Threads PROVE StopOK(x, y)'
  <2>1. /\ StopOK(x, y) /\ StopOK(x, t) /\ NewOK(y) /\ NewOK(t) /\ HeapOK(x)
        /\ HeapOK(t) /\ GcOK(x) /\ ListOK(x) /\ ListOK(t) /\ ChildOK(t)
        /\ NextOK(t) /\ HeldOK(x) /\ OneGc(x, t)
    BY <1>1 DEF InvOK
  <2>2. TypeOK
    BY <1>1
  <2>3. Robbed(y)' <=> Robbed(y)
    BY DEF Robbed, Holders, Detach, Goto, Become, locks, waiting, counts, work, Starts
  <2>4. /\ y \in held[x] /\ y \in threadList /\ suspendCount[y] = 0 => Robbed(y)
        /\ t \in held[x] /\ t \in threadList /\ suspendCount[t] = 0 => overlapped
    BY <1>2 DEF CountPos
  <2> QED
    BY <2>1, <2>2, <2>3, <2>4, <1>0, <1>1 DEF StopOK, Linking, NewOK, NewPlaces,
       HeapOK, ListOK, ChildOK, ParentPlaces, NextOK, HeldOK, OneParent, Place,
       StopPlaces, ResumePlaces, HeapPlaces, Wholes, Pauses, CollectorStops, InvOK,
       TypeOK, Detach, Goto, Become, locks, waiting, counts, work, Starts
<1>14. ASSUME NEW x \in Threads, NEW y \in Threads PROVE SnapOK(x, y)'
  <2>1. /\ SnapOK(x, y) /\ HeldOK(x) /\ ListOK(x) /\ ListOK(t) /\ NewOK(y)
        /\ NextOK(t)
    BY <1>1 DEF InvOK
  <2>2. TypeOK
    BY <1>1
  <2> QED
    BY <2>1, <2>2 DEF SnapOK, HeldOK, ListOK, NewOK, NewPlaces, NextOK,
       TypeOK, Detach, Goto, Become, locks, waiting, counts, work, Starts
<1>15. ASSUME NEW x \in Threads PROVE Balanced(x)'
  <2>1. Balanced(x)
    BY <1>1 DEF InvOK
  <2>2. UNCHANGED <<suspendCount, held>> /\ threadList' \subseteq threadList
    BY DEF Detach, Goto, Become, locks, waiting, counts, work, Starts
  <2>3. Holders(x)' = Holders(x)
    BY <2>2 DEF Holders
  <2> QED BY <2>1, <2>2, <2>3, <1>0 DEF Balanced, Robbed
<1> QED
  BY <1>0, <1>3, <1>4, <1>5, <1>6, <1>7, <1>8, <1>9, <1>10, <1>11, <1>12, <1>13, <1>14, <1>15
     DEF IInv, InvOK

\* The invariant is kept when it leaves the list.
LEMMA UnlinkInv ==
  ASSUME IInv, Recorded, NEW t \in Threads, Unlink(t)
  PROVE  IInv'
<1> USE NobodyAssumption
<1>1. TypeOK /\ InvOK
  BY DEF IInv
<1>2. CountPos
  BY CountsPositive
<1>0. OverlapOK' /\ (overlapped => overlapped')
  BY RecordedKept
<1>3. TypeOK'
  BY <1>1 DEF TypeOK, Labels, Statuses, Stops, CollectorStops, InvOK, NextOK, Unlink,
     Goto, Become, locks, waiting, counts, work
<1>4. ASSUME NEW x \in Threads PROVE NextOK(x)'
  <2>1. NextOK(x) /\ NextOK(t)
    BY <1>1 DEF InvOK
  <2>2. TypeOK
    BY <1>1
  <2> QED
    BY <2>1, <2>2 DEF NextOK, TypeOK, Unlink, Goto, Become, locks, waiting, counts,
       work
<1>5. ASSUME NEW x \in Threads PROVE HeapOK(x)'
  <2>1. HeapOK(x) /\ HeapOK(t) /\ GcOK(t) /\ NextOK(t)
    BY <1>1 DEF InvOK
  <2>2. TypeOK
    BY <1>1
  <2> QED
    BY <2>1, <2>2 DEF HeapOK, GcOK, InGc, NextOK, Place, StopPlaces, ResumePlaces,
       HeapPlaces, Wholes, Pauses, CollectorStops, TypeOK, Unlink, Goto, Become, locks,
       waiting, counts, work
<1>6. ASSUME NEW x \in Threads PROVE ListOK(x)'
  <2>1. ListOK(x) /\ ListOK(t) /\ NextOK(t)
    BY <1>1 DEF InvOK
  <2>2. TypeOK
    BY <1>1
  <2> QED
    BY <2>1, <2>2 DEF ListOK, NextOK, TypeOK, Unlink, Goto, Become, locks, waiting,
       counts, work
<1>7. ASSUME NEW x \in Threads PROVE GcOK(x)'
  <2>1. /\ GcOK(x) /\ GcOK(t) /\ OneGc(x, t) /\ HeapOK(t) /\ HeapOK(x)
        /\ NextOK(t)
    BY <1>1 DEF InvOK
  <2>2. TypeOK
    BY <1>1
  <2> QED
    BY <2>1, <2>2 DEF GcOK, InGc, OneGc, HeapOK, NextOK, Place, StopPlaces,
       ResumePlaces, HeapPlaces, Wholes, Pauses, CollectorStops, TypeOK, Unlink, Goto,
       Become, locks, waiting, counts, work
<1>8. ASSUME NEW x \in Threads, NEW y \in Threads PROVE OneGc(x, y)'
  <2>1. /\ OneGc(x, y) /\ OneGc(x, t) /\ OneGc(t, y) /\ GcOK(x) /\ GcOK(y)
        /\ GcOK(t) /\ NextOK(t)
    BY <1>1 DEF InvOK
  <2>2. TypeOK
    BY <1>1
  <2> QED
    BY <2>1, <2>2 DEF OneGc, GcOK, InGc, NextOK, Place, StopPlaces, ResumePlaces,
       HeapPlaces, Wholes, Pauses, CollectorStops, TypeOK, Unlink, Goto, Become, locks,
       waiting, counts, work
<1>9. ASSUME NEW x \in Threads PROVE HeldOK(x)'
  <2>1. HeldOK(x) /\ HeldOK(t) /\ ListOK(x) /\ NextOK(t)
    BY <1>1 DEF InvOK
  <2>2. TypeOK
    BY <1>1
  <2> QED
    BY <2>1, <2>2 DEF HeldOK, Suspends, ListOK, NextOK, Place, TypeOK, Unlink, Goto, Become,
       locks, waiting, counts, work
<1>10. ASSUME NEW x \in Threads PROVE NewOK(x)'
  <2>1. NewOK(x) /\ NewOK(t) /\ ChildOK(t) /\ HeldOK(t) /\ NextOK(t)
    BY <1>1 DEF InvOK
  <2>2. TypeOK
    BY <1>1
  <2> QED
    BY <2>1, <2>2 DEF NewOK, NewPlaces, ChildOK, ParentPlaces, NextOK, Place, TypeOK,
       Unlink, Goto, Become, locks, waiting, counts, work
<1>11. ASSUME NEW x \in Threads PROVE ChildOK(x)'
  <2>1. /\ ChildOK(x) /\ ChildOK(t) /\ OneParent(x, t) /\ NewOK(t) /\ NewOK(x)
        /\ NextOK(t)
    BY <1>1 DEF InvOK
  <2>2. TypeOK
    BY <1>1
  <2> QED
    BY <2>1, <2>2, <1>1 DEF ChildOK, OneParent, ParentPlaces, NewOK, NewPlaces, NextOK,
       Place, TypeOK, Unlink, Goto, Become, locks, waiting, counts, work
<1>12. ASSUME NEW x \in Threads, NEW y \in Threads PROVE OneParent(x, y)'
  <2>1. OneParent(x, y) /\ ChildOK(x) /\ ChildOK(y)
    BY <1>1 DEF InvOK
  <2>2. TypeOK
    BY <1>1
  <2> QED
    BY <2>1, <2>2 DEF OneParent, ChildOK, NextOK, TypeOK, Unlink, Goto, Become, locks,
       waiting, counts, work
<1>13. ASSUME NEW x \in Threads, NEW y \in Threads PROVE StopOK(x, y)'
  <2>1. /\ StopOK(x, y) /\ StopOK(x, t) /\ NewOK(y) /\ NewOK(t) /\ HeapOK(x)
        /\ HeapOK(t) /\ GcOK(x) /\ ListOK(x) /\ ListOK(t) /\ ChildOK(t)
        /\ NextOK(t) /\ HeldOK(x) /\ OneGc(x, t)
    BY <1>1 DEF InvOK
  <2>2. TypeOK
    BY <1>1
  <2>3. Robbed(y)' <=> Robbed(y)
    BY DEF Robbed, Holders, Unlink, Goto, Become, locks, waiting, counts, work
  <2>4. /\ y \in held[x] /\ y \in threadList /\ suspendCount[y] = 0 => Robbed(y)
        /\ t \in held[x] /\ t \in threadList /\ suspendCount[t] = 0 => overlapped
    BY <1>2 DEF CountPos
  <2> QED
    BY <2>1, <2>2, <2>3, <2>4, <1>0, <1>1 DEF StopOK, Linking, NewOK, NewPlaces,
       HeapOK, ListOK, ChildOK, ParentPlaces, NextOK, HeldOK, OneParent, Place,
       StopPlaces, ResumePlaces, HeapPlaces, Wholes, Pauses, CollectorStops, InvOK,
       TypeOK, Unlink, Goto, Become, locks, waiting, counts, work
<1>14. ASSUME NEW x \in Threads, NEW y \in Threads PROVE SnapOK(x, y)'
  <2>1. /\ SnapOK(x, y) /\ HeldOK(x) /\ ListOK(x) /\ ListOK(t) /\ NewOK(y)
        /\ NextOK(t)
    BY <1>1 DEF InvOK
  <2>2. TypeOK
    BY <1>1
  <2> QED
    BY <2>1, <2>2 DEF SnapOK, HeldOK, ListOK, NewOK, NewPlaces, NextOK,
       TypeOK, Unlink, Goto, Become, locks, waiting, counts, work
<1>15. ASSUME NEW x \in Threads PROVE Balanced(x)'
  <2>1. Balanced(x)
    BY <1>1 DEF InvOK
  <2>2. UNCHANGED <<suspendCount, held>> /\ threadList' \subseteq threadList
    BY DEF Unlink, Goto, Become, locks, waiting, counts, work
  <2>3. Holders(x)' = Holders(x)
    BY <2>2 DEF Holders
  <2> QED BY <2>1, <2>2, <2>3, <1>0 DEF Balanced, Robbed
<1> QED
  BY <1>0, <1>3, <1>4, <1>5, <1>6, <1>7, <1>8, <1>9, <1>10, <1>11, <1>12, <1>13, <1>14, <1>15
     DEF IInv, InvOK

\* The invariant is kept when a thread is created.
LEMMA CreateInv ==
  ASSUME IInv, Recorded, NEW t \in Threads, Create(t)
  PROVE  IInv'
<1> USE NobodyAssumption
<1>1. TypeOK /\ InvOK
  BY DEF IInv
<1>2. CountPos
  BY CountsPositive
<1>0. OverlapOK' /\ (overlapped => overlapped')
  BY RecordedKept
<1>3. TypeOK'
  BY <1>1 DEF TypeOK, Labels, Statuses, Stops, CollectorStops, InvOK, NextOK, Create,
     WantList, Goto, Become, Return, locks, waiting, counts, work, Starts
<1>4. ASSUME NEW x \in Threads PROVE NextOK(x)'
  <2>1. NextOK(x) /\ NextOK(t)
    BY <1>1 DEF InvOK
  <2>2. TypeOK
    BY <1>1
  <2> QED
    BY <2>1, <2>2 DEF NextOK, TypeOK, Create, WantList, Goto, Become, Return, locks,
       waiting, counts, work, Starts
<1>5. ASSUME NEW x \in Threads PROVE HeapOK(x)'
  <2>1. HeapOK(x) /\ HeapOK(t) /\ GcOK(t) /\ NextOK(t)
    BY <1>1 DEF InvOK
  <2>2. TypeOK
    BY <1>1
  <2> QED
    BY <2>1, <2>2 DEF HeapOK, GcOK, InGc, NextOK, Place, StopPlaces, ResumePlaces,
       HeapPlaces, Wholes, Pauses, CollectorStops, TypeOK, Create, WantList, Goto,
       Become, Return, locks, waiting, counts, work, Starts
<1>6. ASSUME NEW x \in Threads PROVE ListOK(x)'
  <2>1. ListOK(x) /\ ListOK(t) /\ NextOK(t)
    BY <1>1 DEF InvOK
  <2>2. TypeOK
    BY <1>1
  <2> QED
    BY <2>1, <2>2 DEF ListOK, NextOK, TypeOK, Create, WantList, Goto, Become, Return,
       locks, waiting, counts, work, Starts
<1>7. ASSUME NEW x \in Threads PROVE GcOK(x)'
  <2>1. /\ GcOK(x) /\ GcOK(t) /\ OneGc(x, t) /\ HeapOK(t) /\ HeapOK(x)
        /\ NextOK(t)
    BY <1>1 DEF InvOK
  <2>2. TypeOK
    BY <1>1
  <2> QED
    BY <2>1, <2>2 DEF GcOK, InGc, OneGc, HeapOK, NextOK, Place, StopPlaces,
       ResumePlaces, HeapPlaces, Wholes, Pauses, CollectorStops, TypeOK, Create,
       WantList, Goto, Become, Return, locks, waiting, counts, work, Starts
<1>8. ASSUME NEW x \in Threads, NEW y \in Threads PROVE OneGc(x, y)'
  <2>1. /\ OneGc(x, y) /\ OneGc(x, t) /\ OneGc(t, y) /\ GcOK(x) /\ GcOK(y)
        /\ GcOK(t) /\ NextOK(t)
    BY <1>1 DEF InvOK
  <2>2. TypeOK
    BY <1>1
  <2> QED
    BY <2>1, <2>2 DEF OneGc, GcOK, InGc, NextOK, Place, StopPlaces, ResumePlaces,
       HeapPlaces, Wholes, Pauses, CollectorStops, TypeOK, Create, WantList, Goto,
       Become, Return, locks, waiting, counts, work, Starts
<1>9. ASSUME NEW x \in Threads PROVE HeldOK(x)'
  <2>1. HeldOK(x) /\ HeldOK(t) /\ ListOK(x) /\ NextOK(t)
    BY <1>1 DEF InvOK
  <2>2. TypeOK
    BY <1>1
  <2> QED
    BY <2>1, <2>2 DEF HeldOK, Suspends, ListOK, NextOK, Place, TypeOK, Create, WantList, Goto,
       Become, Return, locks, waiting, counts, work, Starts
<1>10. ASSUME NEW x \in Threads PROVE NewOK(x)'
  <2>1. NewOK(x) /\ NewOK(t) /\ ChildOK(t) /\ HeldOK(t) /\ NextOK(t)
    BY <1>1 DEF InvOK
  <2>2. TypeOK
    BY <1>1
  <2> QED
    BY <2>1, <2>2 DEF NewOK, NewPlaces, ChildOK, ParentPlaces, NextOK, Place, TypeOK,
       Create, WantList, Goto, Become, Return, locks, waiting, counts, work, Starts
<1>11. ASSUME NEW x \in Threads PROVE ChildOK(x)'
  <2>1. /\ ChildOK(x) /\ ChildOK(t) /\ OneParent(x, t) /\ NewOK(t) /\ NewOK(x)
        /\ NextOK(t)
    BY <1>1 DEF InvOK
  <2>2. TypeOK
    BY <1>1
  <2> QED
    BY <2>1, <2>2, <1>1 DEF ChildOK, OneParent, ParentPlaces, NewOK, NewPlaces, NextOK,
       Place, TypeOK, Create, WantList, Goto, Become, Return, locks, waiting, counts,
       work, Starts
<1>12. ASSUME NEW x \in Threads, NEW y \in Threads PROVE OneParent(x, y)'
  <2>1. OneParent(x, y) /\ ChildOK(x) /\ ChildOK(y)
    BY <1>1 DEF InvOK
  <2>2. TypeOK
    BY <1>1
  <2> QED
    BY <2>1, <2>2 DEF OneParent, ChildOK, NextOK, TypeOK, Create, WantList, Goto,
       Become, Return, locks, waiting, counts, work, Starts
<1>13. ASSUME NEW x \in Threads, NEW y \in Threads PROVE StopOK(x, y)'
  <2>1. /\ StopOK(x, y) /\ StopOK(x, t) /\ NewOK(y) /\ NewOK(t) /\ HeapOK(x)
        /\ HeapOK(t) /\ GcOK(x) /\ ListOK(x) /\ ListOK(t) /\ ChildOK(t)
        /\ NextOK(t) /\ HeldOK(x) /\ OneGc(x, t)
    BY <1>1 DEF InvOK
  <2>2. TypeOK
    BY <1>1
  <2>3. Robbed(y)' <=> Robbed(y)
    BY DEF Robbed, Holders, Create, WantList, Goto, Become, Return, locks, waiting,
       counts, work, Starts
  <2>4. /\ y \in held[x] /\ y \in threadList /\ suspendCount[y] = 0 => Robbed(y)
        /\ t \in held[x] /\ t \in threadList /\ suspendCount[t] = 0 => overlapped
    BY <1>2 DEF CountPos
  <2> QED
    BY <2>1, <2>2, <2>3, <2>4, <1>0, <1>1 DEF StopOK, Linking, NewOK, NewPlaces,
       HeapOK, ListOK, ChildOK, ParentPlaces, NextOK, HeldOK, OneParent, Place,
       StopPlaces, ResumePlaces, HeapPlaces, Wholes, Pauses, CollectorStops, InvOK,
       TypeOK, Create, WantList, Goto, Become, Return, locks, waiting, counts, work,
       Starts
<1>14. ASSUME NEW x \in Threads, NEW y \in Threads PROVE SnapOK(x, y)'
  <2>1. /\ SnapOK(x, y) /\ HeldOK(x) /\ ListOK(x) /\ ListOK(t) /\ NewOK(y)
        /\ NextOK(t)
    BY <1>1 DEF InvOK
  <2>2. TypeOK
    BY <1>1
  <2> QED
    BY <2>1, <2>2 DEF SnapOK, HeldOK, ListOK, NewOK, NewPlaces, NextOK,
       TypeOK, Create, WantList, Goto, Become, Return, locks, waiting, counts, work,
       Starts
<1>15. ASSUME NEW x \in Threads PROVE Balanced(x)'
  <2>1. Balanced(x)
    BY <1>1 DEF InvOK
  <2>2. UNCHANGED <<suspendCount, held>> /\ threadList' \subseteq threadList
    BY DEF Create, WantList, Goto, Become, Return, locks, waiting, counts, work, Starts
  <2>3. Holders(x)' = Holders(x)
    BY <2>2 DEF Holders
  <2> QED BY <2>1, <2>2, <2>3, <1>0 DEF Balanced, Robbed
<1> QED
  BY <1>0, <1>3, <1>4, <1>5, <1>6, <1>7, <1>8, <1>9, <1>10, <1>11, <1>12, <1>13, <1>14, <1>15
     DEF IInv, InvOK

\* The invariant is kept when it is marked started.
LEMMA MarkStartedInv ==
  ASSUME IInv, Recorded, NEW t \in Threads, NEW c \in Threads, MarkStarted(t, c)
  PROVE  IInv'
<1> USE NobodyAssumption
<1>1. TypeOK /\ InvOK
  BY DEF IInv
<1>2. CountPos
  BY CountsPositive
<1>0. OverlapOK' /\ (overlapped => overlapped')
  BY RecordedKept
<1>3. TypeOK'
  BY <1>1 DEF TypeOK, Labels, Statuses, Stops, CollectorStops, InvOK, NextOK,
     MarkStarted, waiting, counts
<1>4. ASSUME NEW x \in Threads PROVE NextOK(x)'
  <2>1. NextOK(x) /\ NextOK(t)
    BY <1>1 DEF InvOK
  <2>2. TypeOK
    BY <1>1
  <2> QED
    BY <2>1, <2>2 DEF NextOK, TypeOK, MarkStarted, waiting, counts
<1>5. ASSUME NEW x \in Threads PROVE HeapOK(x)'
  <2>1. HeapOK(x) /\ HeapOK(t) /\ GcOK(t) /\ NextOK(t)
    BY <1>1 DEF InvOK
  <2>2. TypeOK
    BY <1>1
  <2> QED
    BY <2>1, <2>2 DEF HeapOK, GcOK, InGc, NextOK, Place, StopPlaces, ResumePlaces,
       HeapPlaces, Wholes, Pauses, CollectorStops, TypeOK, MarkStarted, waiting, counts
<1>6. ASSUME NEW x \in Threads PROVE ListOK(x)'
  <2>1. ListOK(x) /\ ListOK(t) /\ NextOK(t)
    BY <1>1 DEF InvOK
  <2>2. TypeOK
    BY <1>1
  <2> QED
    BY <2>1, <2>2 DEF ListOK, NextOK, TypeOK, MarkStarted, waiting, counts
<1>7. ASSUME NEW x \in Threads PROVE GcOK(x)'
  <2>1. /\ GcOK(x) /\ GcOK(t) /\ OneGc(x, t) /\ HeapOK(t) /\ HeapOK(x)
        /\ NextOK(t)
    BY <1>1 DEF InvOK
  <2>2. TypeOK
    BY <1>1
  <2> QED
    BY <2>1, <2>2 DEF GcOK, InGc, OneGc, HeapOK, NextOK, Place, StopPlaces,
       ResumePlaces, HeapPlaces, Wholes, Pauses, CollectorStops, TypeOK, MarkStarted,
       waiting, counts
<1>8. ASSUME NEW x \in Threads, NEW y \in Threads PROVE OneGc(x, y)'
  <2>1. /\ OneGc(x, y) /\ OneGc(x, t) /\ OneGc(t, y) /\ GcOK(x) /\ GcOK(y)
        /\ GcOK(t) /\ NextOK(t)
    BY <1>1 DEF InvOK
  <2>2. TypeOK
    BY <1>1
  <2> QED
    BY <2>1, <2>2 DEF OneGc, GcOK, InGc, NextOK, Place, StopPlaces, ResumePlaces,
       HeapPlaces, Wholes, Pauses, CollectorStops, TypeOK, MarkStarted, waiting, counts
<1>9. ASSUME NEW x \in Threads PROVE HeldOK(x)'
  <2>1. HeldOK(x) /\ HeldOK(t) /\ ListOK(x) /\ NextOK(t)
    BY <1>1 DEF InvOK
  <2>2. TypeOK
    BY <1>1
  <2> QED
    BY <2>1, <2>2 DEF HeldOK, Suspends, ListOK, NextOK, Place, TypeOK, MarkStarted, waiting,
       counts
<1>10. ASSUME NEW x \in Threads PROVE NewOK(x)'
  <2>1. NewOK(x) /\ NewOK(t) /\ ChildOK(t) /\ HeldOK(t) /\ NextOK(t)
    BY <1>1 DEF InvOK
  <2>2. TypeOK
    BY <1>1
  <2> QED
    BY <2>1, <2>2 DEF NewOK, NewPlaces, ChildOK, ParentPlaces, NextOK, Place, TypeOK,
       MarkStarted, waiting, counts
<1>11. ASSUME NEW x \in Threads PROVE ChildOK(x)'
  <2>1. /\ ChildOK(x) /\ ChildOK(t) /\ OneParent(x, t) /\ NewOK(t) /\ NewOK(x)
        /\ NextOK(t)
    BY <1>1 DEF InvOK
  <2>2. TypeOK
    BY <1>1
  <2> QED
    BY <2>1, <2>2, <1>1 DEF ChildOK, OneParent, ParentPlaces, NewOK, NewPlaces, NextOK,
       Place, TypeOK, MarkStarted, waiting, counts
<1>12. ASSUME NEW x \in Threads, NEW y \in Threads PROVE OneParent(x, y)'
  <2>1. OneParent(x, y) /\ ChildOK(x) /\ ChildOK(y)
    BY <1>1 DEF InvOK
  <2>2. TypeOK
    BY <1>1
  <2> QED
    BY <2>1, <2>2 DEF OneParent, ChildOK, NextOK, TypeOK, MarkStarted, waiting, counts
<1>13. ASSUME NEW x \in Threads, NEW y \in Threads PROVE StopOK(x, y)'
  <2>1. /\ StopOK(x, y) /\ StopOK(x, t) /\ NewOK(y) /\ NewOK(t) /\ HeapOK(x)
        /\ HeapOK(t) /\ GcOK(x) /\ ListOK(x) /\ ListOK(t) /\ ChildOK(t)
        /\ NextOK(t) /\ HeldOK(x) /\ OneGc(x, t)
    BY <1>1 DEF InvOK
  <2>2. TypeOK
    BY <1>1
  <2>3. Robbed(y)' <=> Robbed(y)
    BY DEF Robbed, Holders, MarkStarted, waiting, counts
  <2>4. /\ y \in held[x] /\ y \in threadList /\ suspendCount[y] = 0 => Robbed(y)
        /\ t \in held[x] /\ t \in threadList /\ suspendCount[t] = 0 => overlapped
    BY <1>2 DEF CountPos
  <2> QED
    BY <2>1, <2>2, <2>3, <2>4, <1>0, <1>1 DEF StopOK, Linking, NewOK, NewPlaces,
       HeapOK, ListOK, ChildOK, ParentPlaces, NextOK, HeldOK, OneParent, Place,
       StopPlaces, ResumePlaces, HeapPlaces, Wholes, Pauses, CollectorStops, InvOK,
       TypeOK, MarkStarted, waiting, counts
<1>14. ASSUME NEW x \in Threads, NEW y \in Threads PROVE SnapOK(x, y)'
  <2>1. /\ SnapOK(x, y) /\ HeldOK(x) /\ ListOK(x) /\ ListOK(t) /\ NewOK(y)
        /\ NextOK(t)
    BY <1>1 DEF InvOK
  <2>2. TypeOK
    BY <1>1
  <2> QED
    BY <2>1, <2>2 DEF SnapOK, HeldOK, ListOK, NewOK, NewPlaces, NextOK,
       TypeOK, MarkStarted, waiting, counts
<1>15. ASSUME NEW x \in Threads PROVE Balanced(x)'
  <2>1. Balanced(x)
    BY <1>1 DEF InvOK
  <2>2. UNCHANGED <<suspendCount, held>> /\ threadList' \subseteq threadList
    BY DEF MarkStarted, waiting, counts
  <2>3. Holders(x)' = Holders(x)
    BY <2>2 DEF Holders
  <2> QED BY <2>1, <2>2, <2>3, <1>0 DEF Balanced, Robbed
<1> QED
  BY <1>0, <1>3, <1>4, <1>5, <1>6, <1>7, <1>8, <1>9, <1>10, <1>11, <1>12, <1>13, <1>14, <1>15
     DEF IInv, InvOK

\* The invariant is kept when it was started before.
LEMMA AlreadyStartedInv ==
  ASSUME IInv, Recorded, NEW t \in Threads, AlreadyStarted(t)
  PROVE  IInv'
<1> USE NobodyAssumption
<1>1. TypeOK /\ InvOK
  BY DEF IInv
<1>2. CountPos
  BY CountsPositive
<1>0. OverlapOK' /\ (overlapped => overlapped')
  BY RecordedKept
<1>3. TypeOK'
  BY <1>1 DEF TypeOK, Labels, Statuses, Stops, CollectorStops, InvOK, NextOK,
     AlreadyStarted, Goto, waiting, counts, work
<1>4. ASSUME NEW x \in Threads PROVE NextOK(x)'
  <2>1. NextOK(x) /\ NextOK(t)
    BY <1>1 DEF InvOK
  <2>2. TypeOK
    BY <1>1
  <2> QED
    BY <2>1, <2>2 DEF NextOK, TypeOK, AlreadyStarted, Goto, waiting, counts, work
<1>5. ASSUME NEW x \in Threads PROVE HeapOK(x)'
  <2>1. HeapOK(x) /\ HeapOK(t) /\ GcOK(t) /\ NextOK(t)
    BY <1>1 DEF InvOK
  <2>2. TypeOK
    BY <1>1
  <2> QED
    BY <2>1, <2>2 DEF HeapOK, GcOK, InGc, NextOK, Place, StopPlaces, ResumePlaces,
       HeapPlaces, Wholes, Pauses, CollectorStops, TypeOK, AlreadyStarted, Goto,
       waiting, counts, work
<1>6. ASSUME NEW x \in Threads PROVE ListOK(x)'
  <2>1. ListOK(x) /\ ListOK(t) /\ NextOK(t)
    BY <1>1 DEF InvOK
  <2>2. TypeOK
    BY <1>1
  <2> QED
    BY <2>1, <2>2 DEF ListOK, NextOK, TypeOK, AlreadyStarted, Goto, waiting, counts,
       work
<1>7. ASSUME NEW x \in Threads PROVE GcOK(x)'
  <2>1. /\ GcOK(x) /\ GcOK(t) /\ OneGc(x, t) /\ HeapOK(t) /\ HeapOK(x)
        /\ NextOK(t)
    BY <1>1 DEF InvOK
  <2>2. TypeOK
    BY <1>1
  <2> QED
    BY <2>1, <2>2 DEF GcOK, InGc, OneGc, HeapOK, NextOK, Place, StopPlaces,
       ResumePlaces, HeapPlaces, Wholes, Pauses, CollectorStops, TypeOK,
       AlreadyStarted, Goto, waiting, counts, work
<1>8. ASSUME NEW x \in Threads, NEW y \in Threads PROVE OneGc(x, y)'
  <2>1. /\ OneGc(x, y) /\ OneGc(x, t) /\ OneGc(t, y) /\ GcOK(x) /\ GcOK(y)
        /\ GcOK(t) /\ NextOK(t)
    BY <1>1 DEF InvOK
  <2>2. TypeOK
    BY <1>1
  <2> QED
    BY <2>1, <2>2 DEF OneGc, GcOK, InGc, NextOK, Place, StopPlaces, ResumePlaces,
       HeapPlaces, Wholes, Pauses, CollectorStops, TypeOK, AlreadyStarted, Goto,
       waiting, counts, work
<1>9. ASSUME NEW x \in Threads PROVE HeldOK(x)'
  <2>1. HeldOK(x) /\ HeldOK(t) /\ ListOK(x) /\ NextOK(t)
    BY <1>1 DEF InvOK
  <2>2. TypeOK
    BY <1>1
  <2> QED
    BY <2>1, <2>2 DEF HeldOK, Suspends, ListOK, NextOK, Place, TypeOK, AlreadyStarted, Goto,
       waiting, counts, work
<1>10. ASSUME NEW x \in Threads PROVE NewOK(x)'
  <2>1. NewOK(x) /\ NewOK(t) /\ ChildOK(t) /\ HeldOK(t) /\ NextOK(t)
    BY <1>1 DEF InvOK
  <2>2. TypeOK
    BY <1>1
  <2> QED
    BY <2>1, <2>2 DEF NewOK, NewPlaces, ChildOK, ParentPlaces, NextOK, Place, TypeOK,
       AlreadyStarted, Goto, waiting, counts, work
<1>11. ASSUME NEW x \in Threads PROVE ChildOK(x)'
  <2>1. /\ ChildOK(x) /\ ChildOK(t) /\ OneParent(x, t) /\ NewOK(t) /\ NewOK(x)
        /\ NextOK(t)
    BY <1>1 DEF InvOK
  <2>2. TypeOK
    BY <1>1
  <2> QED
    BY <2>1, <2>2, <1>1 DEF ChildOK, OneParent, ParentPlaces, NewOK, NewPlaces, NextOK,
       Place, TypeOK, AlreadyStarted, Goto, waiting, counts, work
<1>12. ASSUME NEW x \in Threads, NEW y \in Threads PROVE OneParent(x, y)'
  <2>1. OneParent(x, y) /\ ChildOK(x) /\ ChildOK(y)
    BY <1>1 DEF InvOK
  <2>2. TypeOK
    BY <1>1
  <2> QED
    BY <2>1, <2>2 DEF OneParent, ChildOK, NextOK, TypeOK, AlreadyStarted, Goto,
       waiting, counts, work
<1>13. ASSUME NEW x \in Threads, NEW y \in Threads PROVE StopOK(x, y)'
  <2>1. /\ StopOK(x, y) /\ StopOK(x, t) /\ NewOK(y) /\ NewOK(t) /\ HeapOK(x)
        /\ HeapOK(t) /\ GcOK(x) /\ ListOK(x) /\ ListOK(t) /\ ChildOK(t)
        /\ NextOK(t) /\ HeldOK(x) /\ OneGc(x, t)
    BY <1>1 DEF InvOK
  <2>2. TypeOK
    BY <1>1
  <2>3. Robbed(y)' <=> Robbed(y)
    BY DEF Robbed, Holders, AlreadyStarted, Goto, waiting, counts, work
  <2>4. /\ y \in held[x] /\ y \in threadList /\ suspendCount[y] = 0 => Robbed(y)
        /\ t \in held[x] /\ t \in threadList /\ suspendCount[t] = 0 => overlapped
    BY <1>2 DEF CountPos
  <2> QED
    BY <2>1, <2>2, <2>3, <2>4, <1>0, <1>1 DEF StopOK, Linking, NewOK, NewPlaces,
       HeapOK, ListOK, ChildOK, ParentPlaces, NextOK, HeldOK, OneParent, Place,
       StopPlaces, ResumePlaces, HeapPlaces, Wholes, Pauses, CollectorStops, InvOK,
       TypeOK, AlreadyStarted, Goto, waiting, counts, work
<1>14. ASSUME NEW x \in Threads, NEW y \in Threads PROVE SnapOK(x, y)'
  <2>1. /\ SnapOK(x, y) /\ HeldOK(x) /\ ListOK(x) /\ ListOK(t) /\ NewOK(y)
        /\ NextOK(t)
    BY <1>1 DEF InvOK
  <2>2. TypeOK
    BY <1>1
  <2> QED
    BY <2>1, <2>2 DEF SnapOK, HeldOK, ListOK, NewOK, NewPlaces, NextOK,
       TypeOK, AlreadyStarted, Goto, waiting, counts, work
<1>15. ASSUME NEW x \in Threads PROVE Balanced(x)'
  <2>1. Balanced(x)
    BY <1>1 DEF InvOK
  <2>2. UNCHANGED <<suspendCount, held>> /\ threadList' \subseteq threadList
    BY DEF AlreadyStarted, Goto, waiting, counts, work
  <2>3. Holders(x)' = Holders(x)
    BY <2>2 DEF Holders
  <2> QED BY <2>1, <2>2, <2>3, <1>0 DEF Balanced, Robbed
<1> QED
  BY <1>0, <1>3, <1>4, <1>5, <1>6, <1>7, <1>8, <1>9, <1>10, <1>11, <1>12, <1>13, <1>14, <1>15
     DEF IInv, InvOK

\* The invariant is kept when it is spawned.
LEMMA SpawnInv ==
  ASSUME IInv, Recorded, NEW t \in Threads, Spawn(t)
  PROVE  IInv'
<1> USE NobodyAssumption
<1>1. TypeOK /\ InvOK
  BY DEF IInv
<1>2. CountPos
  BY CountsPositive
<1>0. OverlapOK' /\ (overlapped => overlapped')
  BY RecordedKept
<1>3. TypeOK'
  BY <1>1 DEF TypeOK, Labels, Statuses, Stops, CollectorStops, InvOK, NextOK, Spawn,
     Become, locks, waiting, counts, work
<1>4. ASSUME NEW x \in Threads PROVE NextOK(x)'
  <2>1. NextOK(x) /\ NextOK(t)
    BY <1>1 DEF InvOK
  <2>2. TypeOK
    BY <1>1
  <2> QED
    BY <2>1, <2>2 DEF NextOK, TypeOK, Spawn, Become, locks, waiting, counts, work
<1>5. ASSUME NEW x \in Threads PROVE HeapOK(x)'
  <2>1. HeapOK(x) /\ HeapOK(t) /\ GcOK(t) /\ NextOK(t)
    BY <1>1 DEF InvOK
  <2>2. TypeOK
    BY <1>1
  <2> QED
    BY <2>1, <2>2 DEF HeapOK, GcOK, InGc, NextOK, Place, StopPlaces, ResumePlaces,
       HeapPlaces, Wholes, Pauses, CollectorStops, TypeOK, Spawn, Become, locks,
       waiting, counts, work
<1>6. ASSUME NEW x \in Threads PROVE ListOK(x)'
  <2>1. ListOK(x) /\ ListOK(t) /\ NextOK(t)
    BY <1>1 DEF InvOK
  <2>2. TypeOK
    BY <1>1
  <2> QED
    BY <2>1, <2>2 DEF ListOK, NextOK, TypeOK, Spawn, Become, locks, waiting, counts,
       work
<1>7. ASSUME NEW x \in Threads PROVE GcOK(x)'
  <2>1. /\ GcOK(x) /\ GcOK(t) /\ OneGc(x, t) /\ HeapOK(t) /\ HeapOK(x)
        /\ NextOK(t)
    BY <1>1 DEF InvOK
  <2>2. TypeOK
    BY <1>1
  <2> QED
    BY <2>1, <2>2 DEF GcOK, InGc, OneGc, HeapOK, NextOK, Place, StopPlaces,
       ResumePlaces, HeapPlaces, Wholes, Pauses, CollectorStops, TypeOK, Spawn, Become,
       locks, waiting, counts, work
<1>8. ASSUME NEW x \in Threads, NEW y \in Threads PROVE OneGc(x, y)'
  <2>1. /\ OneGc(x, y) /\ OneGc(x, t) /\ OneGc(t, y) /\ GcOK(x) /\ GcOK(y)
        /\ GcOK(t) /\ NextOK(t)
    BY <1>1 DEF InvOK
  <2>2. TypeOK
    BY <1>1
  <2> QED
    BY <2>1, <2>2 DEF OneGc, GcOK, InGc, NextOK, Place, StopPlaces, ResumePlaces,
       HeapPlaces, Wholes, Pauses, CollectorStops, TypeOK, Spawn, Become, locks,
       waiting, counts, work
<1>9. ASSUME NEW x \in Threads PROVE HeldOK(x)'
  <2>1. HeldOK(x) /\ ChildOK(t) /\ TypeOK
    BY <1>1 DEF InvOK
  <2>2. at[t] = "spawn" /\ child[t] \in Threads /\ at[child[t]] = "started"
    BY <2>1 DEF ChildOK, ParentPlaces, Place, Spawn, TypeOK
  <2>3. UNCHANGED <<held, threadList, todo, next>>
    BY DEF Spawn, counts, work
  <2>4. CASE x \in {t, child[t]}
    <3>1. held[x] = {}
      BY <2>1, <2>2, <2>4 DEF HeldOK, Suspends, Place
    <3>2. at'[x] \in {"spawned", "prepare"}
      BY <2>1, <2>2, <2>4 DEF Spawn, TypeOK
    <3> QED BY <2>3, <3>1, <3>2 DEF HeldOK
  <2>5. CASE x \notin {t, child[t]}
    <3>1. at'[x] = at[x]
      BY <2>1, <2>2, <2>5 DEF Spawn, TypeOK
    <3> QED BY <2>1, <2>3, <3>1 DEF HeldOK, Suspends, Place
  <2> QED BY <2>4, <2>5
<1>10. ASSUME NEW x \in Threads PROVE NewOK(x)'
  <2>1. NewOK(x) /\ NewOK(t) /\ ChildOK(t) /\ HeldOK(t) /\ NextOK(t)
    BY <1>1 DEF InvOK
  <2>2. TypeOK
    BY <1>1
  <2> QED
    BY <2>1, <2>2 DEF NewOK, NewPlaces, ChildOK, ParentPlaces, NextOK, Place, TypeOK,
       Spawn, Become, locks, waiting, counts, work
<1>11. ASSUME NEW x \in Threads PROVE ChildOK(x)'
  <2>1. /\ ChildOK(x) /\ ChildOK(t) /\ OneParent(x, t) /\ NewOK(t) /\ NewOK(x)
        /\ NextOK(t)
    BY <1>1 DEF InvOK
  <2>2. TypeOK
    BY <1>1
  <2> QED
    BY <2>1, <2>2, <1>1 DEF ChildOK, OneParent, ParentPlaces, NewOK, NewPlaces, NextOK,
       Place, TypeOK, Spawn, Become, locks, waiting, counts, work
<1>12. ASSUME NEW x \in Threads, NEW y \in Threads PROVE OneParent(x, y)'
  <2>1. OneParent(x, y) /\ ChildOK(x) /\ ChildOK(y)
    BY <1>1 DEF InvOK
  <2>2. TypeOK
    BY <1>1
  <2> QED
    BY <2>1, <2>2 DEF OneParent, ChildOK, NextOK, TypeOK, Spawn, Become, locks,
       waiting, counts, work
<1>13. ASSUME NEW x \in Threads, NEW y \in Threads PROVE StopOK(x, y)'
  <2>1. StopOK(x, y) /\ NewOK(y) /\ ChildOK(t) /\ TypeOK
    BY <1>1 DEF InvOK
  <2>2. at[t] = "spawn" /\ child[t] \in Threads /\ at[child[t]] = "started"
    BY <2>1 DEF ChildOK, ParentPlaces, Place, Spawn, TypeOK
  <2>3. Robbed(y)' <=> Robbed(y)
    BY DEF Robbed, Holders, Spawn, counts
  <2>4. SUFFICES ASSUME at'[x] \in {"await", "stopped"}, stop[x] # "dump", y # x,
                        y \in threadList
                 PROVE  IF y \in held[x]
                          THEN \/ y \in todo[x] \/ status'[y] # "RUNNING"
                               \/ at'[y] = "check" \/ escaped[y] \/ Robbed(y)'
                          ELSE at'[y] = "pulse" \/ Linking(x, y)' \/ overlapped'
    BY DEF StopOK, Spawn, counts, work
  <2>5. at[x] = at'[x] /\ y # child[t]
    BY <2>1, <2>2, <2>4 DEF Spawn, TypeOK, NewOK, NewPlaces
  <2>6. CASE y = t
    BY <1>0, <2>1, <2>2, <2>4, <2>5, <2>6 DEF StopOK, Linking, Spawn, Become, TypeOK
  <2>7. CASE y # t
    <3>1. status'[y] = status[y] /\ at'[y] = at[y] /\ UNCHANGED <<held, child, next>>
      BY <2>1, <2>5, <2>7 DEF Spawn, Become, TypeOK, counts, work
    <3>2. Linking(x, y) => Linking(x, y)'
      <4> SUFFICES ASSUME Linking(x, y) PROVE Linking(x, y)'
        OBVIOUS
      <4>1. PICK p \in held[x] : /\ child[p] = y /\ at[p] \in {"check", "asleep"}
                                 /\ next[p] = "linked"
        BY DEF Linking
      <4>2. p \in Threads /\ at'[p] = at[p]
        BY <4>1, <2>1, <2>2 DEF Spawn, TypeOK
      <4> QED BY <3>1, <4>1, <4>2 DEF Linking
    <3> QED BY <1>0, <2>3, <3>1, <3>2, <2>1, <2>4, <2>5 DEF StopOK
  <2> QED BY <2>6, <2>7
<1>14. ASSUME NEW x \in Threads, NEW y \in Threads PROVE SnapOK(x, y)'
  <2>1. SnapOK(x, y) /\ NewOK(y) /\ ChildOK(t) /\ TypeOK
    BY <1>1 DEF InvOK
  <2>2. at[t] = "spawn" /\ child[t] \in Threads /\ at[child[t]] = "started"
    BY <2>1 DEF ChildOK, ParentPlaces, Place, Spawn, TypeOK
  <2>3. /\ at'[x] \in {"awaitOne", "snapshot"} => at'[x] = at[x]
        /\ status'[y] = "RUNNING" => status[y] = "RUNNING"
        /\ y # t /\ y # child[t] => at'[y] = at[y]
        /\ UNCHANGED <<held, suspendCount>>
        /\ status'[t] = "VMWAIT"
    BY <2>1, <2>2 DEF Spawn, Become, TypeOK, counts
  <2>4. y = child[t] => status[y] # "RUNNING"
    BY <2>1, <2>2 DEF NewOK, NewPlaces
  <2> QED BY <2>1, <2>3, <2>4 DEF SnapOK
<1>15. ASSUME NEW x \in Threads PROVE Balanced(x)'
  <2>1. Balanced(x)
    BY <1>1 DEF InvOK
  <2>2. UNCHANGED <<suspendCount, held>> /\ threadList' \subseteq threadList
    BY DEF Spawn, Become, locks, waiting, counts, work
  <2>3. Holders(x)' = Holders(x)
    BY <2>2 DEF Holders
  <2> QED BY <2>1, <2>2, <2>3, <1>0 DEF Balanced, Robbed
<1> QED
  BY <1>0, <1>3, <1>4, <1>5, <1>6, <1>7, <1>8, <1>9, <1>10, <1>11, <1>12, <1>13, <1>14, <1>15
     DEF IInv, InvOK

\* The invariant is kept when the parent returns.
LEMMA SpawnedInv ==
  ASSUME IInv, Recorded, NEW t \in Threads, Spawned(t)
  PROVE  IInv'
<1> USE NobodyAssumption
<1>1. TypeOK /\ InvOK
  BY DEF IInv
<1>2. CountPos
  BY CountsPositive
<1>0. OverlapOK' /\ (overlapped => overlapped')
  BY RecordedKept
<1>3. TypeOK'
  BY <1>1 DEF TypeOK, Labels, Statuses, Stops, CollectorStops, InvOK, NextOK, Spawned,
     Revive, Goto, Become, Return, locks, waiting, counts, work
<1>4. ASSUME NEW x \in Threads PROVE NextOK(x)'
  <2>1. NextOK(x) /\ NextOK(t)
    BY <1>1 DEF InvOK
  <2>2. TypeOK
    BY <1>1
  <2> QED
    BY <2>1, <2>2 DEF NextOK, TypeOK, Spawned, Revive, Goto, Become, Return, locks,
       waiting, counts, work
<1>5. ASSUME NEW x \in Threads PROVE HeapOK(x)'
  <2>1. HeapOK(x) /\ HeapOK(t) /\ GcOK(t) /\ NextOK(t)
    BY <1>1 DEF InvOK
  <2>2. TypeOK
    BY <1>1
  <2> QED
    BY <2>1, <2>2 DEF HeapOK, GcOK, InGc, NextOK, Place, StopPlaces, ResumePlaces,
       HeapPlaces, Wholes, Pauses, CollectorStops, TypeOK, Spawned, Revive, Goto,
       Become, Return, locks, waiting, counts, work
<1>6. ASSUME NEW x \in Threads PROVE ListOK(x)'
  <2>1. ListOK(x) /\ ListOK(t) /\ NextOK(t)
    BY <1>1 DEF InvOK
  <2>2. TypeOK
    BY <1>1
  <2> QED
    BY <2>1, <2>2 DEF ListOK, NextOK, TypeOK, Spawned, Revive, Goto, Become, Return,
       locks, waiting, counts, work
<1>7. ASSUME NEW x \in Threads PROVE GcOK(x)'
  <2>1. /\ GcOK(x) /\ GcOK(t) /\ OneGc(x, t) /\ HeapOK(t) /\ HeapOK(x)
        /\ NextOK(t)
    BY <1>1 DEF InvOK
  <2>2. TypeOK
    BY <1>1
  <2> QED
    BY <2>1, <2>2 DEF GcOK, InGc, OneGc, HeapOK, NextOK, Place, StopPlaces,
       ResumePlaces, HeapPlaces, Wholes, Pauses, CollectorStops, TypeOK, Spawned,
       Revive, Goto, Become, Return, locks, waiting, counts, work
<1>8. ASSUME NEW x \in Threads, NEW y \in Threads PROVE OneGc(x, y)'
  <2>1. /\ OneGc(x, y) /\ OneGc(x, t) /\ OneGc(t, y) /\ GcOK(x) /\ GcOK(y)
        /\ GcOK(t) /\ NextOK(t)
    BY <1>1 DEF InvOK
  <2>2. TypeOK
    BY <1>1
  <2> QED
    BY <2>1, <2>2 DEF OneGc, GcOK, InGc, NextOK, Place, StopPlaces, ResumePlaces,
       HeapPlaces, Wholes, Pauses, CollectorStops, TypeOK, Spawned, Revive, Goto,
       Become, Return, locks, waiting, counts, work
<1>9. ASSUME NEW x \in Threads PROVE HeldOK(x)'
  <2>1. HeldOK(x) /\ HeldOK(t) /\ ListOK(x) /\ NextOK(t)
    BY <1>1 DEF InvOK
  <2>2. TypeOK
    BY <1>1
  <2> QED
    BY <2>1, <2>2 DEF HeldOK, Suspends, ListOK, NextOK, Place, TypeOK, Spawned, Revive, Goto,
       Become, Return, locks, waiting, counts, work
<1>10. ASSUME NEW x \in Threads PROVE NewOK(x)'
  <2>1. NewOK(x) /\ NewOK(t) /\ ChildOK(t) /\ HeldOK(t) /\ NextOK(t)
    BY <1>1 DEF InvOK
  <2>2. TypeOK
    BY <1>1
  <2> QED
    BY <2>1, <2>2 DEF NewOK, NewPlaces, ChildOK, ParentPlaces, NextOK, Place, TypeOK,
       Spawned, Revive, Goto, Become, Return, locks, waiting, counts, work
<1>11. ASSUME NEW x \in Threads PROVE ChildOK(x)'
  <2>1. /\ ChildOK(x) /\ ChildOK(t) /\ OneParent(x, t) /\ NewOK(t) /\ NewOK(x)
        /\ NextOK(t)
    BY <1>1 DEF InvOK
  <2>2. TypeOK
    BY <1>1
  <2> QED
    BY <2>1, <2>2, <1>1 DEF ChildOK, OneParent, ParentPlaces, NewOK, NewPlaces, NextOK,
       Place, TypeOK, Spawned, Revive, Goto, Become, Return, locks, waiting, counts,
       work
<1>12. ASSUME NEW x \in Threads, NEW y \in Threads PROVE OneParent(x, y)'
  <2>1. OneParent(x, y) /\ ChildOK(x) /\ ChildOK(y)
    BY <1>1 DEF InvOK
  <2>2. TypeOK
    BY <1>1
  <2> QED
    BY <2>1, <2>2 DEF OneParent, ChildOK, NextOK, TypeOK, Spawned, Revive, Goto,
       Become, Return, locks, waiting, counts, work
<1>13. ASSUME NEW x \in Threads, NEW y \in Threads PROVE StopOK(x, y)'
  <2>1. /\ StopOK(x, y) /\ StopOK(x, t) /\ NewOK(y) /\ NewOK(t) /\ HeapOK(x)
        /\ HeapOK(t) /\ GcOK(x) /\ ListOK(x) /\ ListOK(t) /\ ChildOK(t)
        /\ NextOK(t) /\ HeldOK(x) /\ OneGc(x, t)
    BY <1>1 DEF InvOK
  <2>2. TypeOK
    BY <1>1
  <2>3. Robbed(y)' <=> Robbed(y)
    BY DEF Robbed, Holders, Spawned, Revive, Goto, Become, Return, locks, waiting,
       counts, work
  <2>4. /\ y \in held[x] /\ y \in threadList /\ suspendCount[y] = 0 => Robbed(y)
        /\ t \in held[x] /\ t \in threadList /\ suspendCount[t] = 0 => overlapped
    BY <1>2 DEF CountPos
  <2> QED
    BY <2>1, <2>2, <2>3, <2>4, <1>0, <1>1 DEF StopOK, Linking, NewOK, NewPlaces,
       HeapOK, ListOK, ChildOK, ParentPlaces, NextOK, HeldOK, OneParent, Place,
       StopPlaces, ResumePlaces, HeapPlaces, Wholes, Pauses, CollectorStops, InvOK,
       TypeOK, Spawned, Revive, Goto, Become, Return, locks, waiting, counts, work
<1>14. ASSUME NEW x \in Threads, NEW y \in Threads PROVE SnapOK(x, y)'
  <2>1. /\ SnapOK(x, y) /\ HeldOK(x) /\ ListOK(x) /\ ListOK(t) /\ NewOK(y)
        /\ NextOK(t)
    BY <1>1 DEF InvOK
  <2>2. TypeOK
    BY <1>1
  <2> QED
    BY <2>1, <2>2 DEF SnapOK, HeldOK, ListOK, NewOK, NewPlaces, NextOK,
       TypeOK, Spawned, Revive, Goto, Become, Return, locks, waiting, counts, work
<1>15. ASSUME NEW x \in Threads PROVE Balanced(x)'
  <2>1. Balanced(x)
    BY <1>1 DEF InvOK
  <2>2. UNCHANGED <<suspendCount, held>> /\ threadList' \subseteq threadList
    BY DEF Spawned, Revive, Goto, Become, Return, locks, waiting, counts, work
  <2>3. Holders(x)' = Holders(x)
    BY <2>2 DEF Holders
  <2> QED BY <2>1, <2>2, <2>3, <1>0 DEF Balanced, Robbed
<1> QED
  BY <1>0, <1>3, <1>4, <1>5, <1>6, <1>7, <1>8, <1>9, <1>10, <1>11, <1>12, <1>13, <1>14, <1>15
     DEF IInv, InvOK

\* The invariant is kept when the parent waits.
LEMMA JoinInv ==
  ASSUME IInv, Recorded, NEW t \in Threads, Join(t)
  PROVE  IInv'
<1> USE NobodyAssumption
<1>1. TypeOK /\ InvOK
  BY DEF IInv
<1>2. CountPos
  BY CountsPositive
<1>0. OverlapOK' /\ (overlapped => overlapped')
  BY RecordedKept
<1>3. TypeOK'
  BY <1>1 DEF TypeOK, Labels, Statuses, Stops, CollectorStops, InvOK, NextOK, Join,
     Goto, Become, locks, waiting, counts, work
<1>4. ASSUME NEW x \in Threads PROVE NextOK(x)'
  <2>1. NextOK(x) /\ NextOK(t)
    BY <1>1 DEF InvOK
  <2>2. TypeOK
    BY <1>1
  <2> QED
    BY <2>1, <2>2 DEF NextOK, TypeOK, Join, Goto, Become, locks, waiting, counts, work
<1>5. ASSUME NEW x \in Threads PROVE HeapOK(x)'
  <2>1. HeapOK(x) /\ HeapOK(t) /\ GcOK(t) /\ NextOK(t)
    BY <1>1 DEF InvOK
  <2>2. TypeOK
    BY <1>1
  <2> QED
    BY <2>1, <2>2 DEF HeapOK, GcOK, InGc, NextOK, Place, StopPlaces, ResumePlaces,
       HeapPlaces, Wholes, Pauses, CollectorStops, TypeOK, Join, Goto, Become, locks,
       waiting, counts, work
<1>6. ASSUME NEW x \in Threads PROVE ListOK(x)'
  <2>1. ListOK(x) /\ ListOK(t) /\ NextOK(t)
    BY <1>1 DEF InvOK
  <2>2. TypeOK
    BY <1>1
  <2> QED
    BY <2>1, <2>2 DEF ListOK, NextOK, TypeOK, Join, Goto, Become, locks, waiting,
       counts, work
<1>7. ASSUME NEW x \in Threads PROVE GcOK(x)'
  <2>1. /\ GcOK(x) /\ GcOK(t) /\ OneGc(x, t) /\ HeapOK(t) /\ HeapOK(x)
        /\ NextOK(t)
    BY <1>1 DEF InvOK
  <2>2. TypeOK
    BY <1>1
  <2> QED
    BY <2>1, <2>2 DEF GcOK, InGc, OneGc, HeapOK, NextOK, Place, StopPlaces,
       ResumePlaces, HeapPlaces, Wholes, Pauses, CollectorStops, TypeOK, Join, Goto,
       Become, locks, waiting, counts, work
<1>8. ASSUME NEW x \in Threads, NEW y \in Threads PROVE OneGc(x, y)'
  <2>1. /\ OneGc(x, y) /\ OneGc(x, t) /\ OneGc(t, y) /\ GcOK(x) /\ GcOK(y)
        /\ GcOK(t) /\ NextOK(t)
    BY <1>1 DEF InvOK
  <2>2. TypeOK
    BY <1>1
  <2> QED
    BY <2>1, <2>2 DEF OneGc, GcOK, InGc, NextOK, Place, StopPlaces, ResumePlaces,
       HeapPlaces, Wholes, Pauses, CollectorStops, TypeOK, Join, Goto, Become, locks,
       waiting, counts, work
<1>9. ASSUME NEW x \in Threads PROVE HeldOK(x)'
  <2>1. HeldOK(x) /\ HeldOK(t) /\ ListOK(x) /\ NextOK(t)
    BY <1>1 DEF InvOK
  <2>2. TypeOK
    BY <1>1
  <2> QED
    BY <2>1, <2>2 DEF HeldOK, Suspends, ListOK, NextOK, Place, TypeOK, Join, Goto, Become, locks,
       waiting, counts, work
<1>10. ASSUME NEW x \in Threads PROVE NewOK(x)'
  <2>1. NewOK(x) /\ NewOK(t) /\ ChildOK(t) /\ HeldOK(t) /\ NextOK(t)
    BY <1>1 DEF InvOK
  <2>2. TypeOK
    BY <1>1
  <2> QED
    BY <2>1, <2>2 DEF NewOK, NewPlaces, ChildOK, ParentPlaces, NextOK, Place, TypeOK,
       Join, Goto, Become, locks, waiting, counts, work
<1>11. ASSUME NEW x \in Threads PROVE ChildOK(x)'
  <2>1. /\ ChildOK(x) /\ ChildOK(t) /\ OneParent(x, t) /\ NewOK(t) /\ NewOK(x)
        /\ NextOK(t)
    BY <1>1 DEF InvOK
  <2>2. TypeOK
    BY <1>1
  <2> QED
    BY <2>1, <2>2, <1>1 DEF ChildOK, OneParent, ParentPlaces, NewOK, NewPlaces, NextOK,
       Place, TypeOK, Join, Goto, Become, locks, waiting, counts, work
<1>12. ASSUME NEW x \in Threads, NEW y \in Threads PROVE OneParent(x, y)'
  <2>1. OneParent(x, y) /\ ChildOK(x) /\ ChildOK(y)
    BY <1>1 DEF InvOK
  <2>2. TypeOK
    BY <1>1
  <2> QED
    BY <2>1, <2>2 DEF OneParent, ChildOK, NextOK, TypeOK, Join, Goto, Become, locks,
       waiting, counts, work
<1>13. ASSUME NEW x \in Threads, NEW y \in Threads PROVE StopOK(x, y)'
  <2>1. /\ StopOK(x, y) /\ StopOK(x, t) /\ NewOK(y) /\ NewOK(t) /\ HeapOK(x)
        /\ HeapOK(t) /\ GcOK(x) /\ ListOK(x) /\ ListOK(t) /\ ChildOK(t)
        /\ NextOK(t) /\ HeldOK(x) /\ OneGc(x, t)
    BY <1>1 DEF InvOK
  <2>2. TypeOK
    BY <1>1
  <2>3. Robbed(y)' <=> Robbed(y)
    BY DEF Robbed, Holders, Join, Goto, Become, locks, waiting, counts, work
  <2>4. /\ y \in held[x] /\ y \in threadList /\ suspendCount[y] = 0 => Robbed(y)
        /\ t \in held[x] /\ t \in threadList /\ suspendCount[t] = 0 => overlapped
    BY <1>2 DEF CountPos
  <2> QED
    BY <2>1, <2>2, <2>3, <2>4, <1>0, <1>1 DEF StopOK, Linking, NewOK, NewPlaces,
       HeapOK, ListOK, ChildOK, ParentPlaces, NextOK, HeldOK, OneParent, Place,
       StopPlaces, ResumePlaces, HeapPlaces, Wholes, Pauses, CollectorStops, InvOK,
       TypeOK, Join, Goto, Become, locks, waiting, counts, work
<1>14. ASSUME NEW x \in Threads, NEW y \in Threads PROVE SnapOK(x, y)'
  <2>1. /\ SnapOK(x, y) /\ HeldOK(x) /\ ListOK(x) /\ ListOK(t) /\ NewOK(y)
        /\ NextOK(t)
    BY <1>1 DEF InvOK
  <2>2. TypeOK
    BY <1>1
  <2> QED
    BY <2>1, <2>2 DEF SnapOK, HeldOK, ListOK, NewOK, NewPlaces, NextOK,
       TypeOK, Join, Goto, Become, locks, waiting, counts, work
<1>15. ASSUME NEW x \in Threads PROVE Balanced(x)'
  <2>1. Balanced(x)
    BY <1>1 DEF InvOK
  <2>2. UNCHANGED <<suspendCount, held>> /\ threadList' \subseteq threadList
    BY DEF Join, Goto, Become, locks, waiting, counts, work
  <2>3. Holders(x)' = Holders(x)
    BY <2>2 DEF Holders
  <2> QED BY <2>1, <2>2, <2>3, <1>0 DEF Balanced, Robbed
<1> QED
  BY <1>0, <1>3, <1>4, <1>5, <1>6, <1>7, <1>8, <1>9, <1>10, <1>11, <1>12, <1>13, <1>14, <1>15
     DEF IInv, InvOK

\* The invariant is kept when the parent waits again.
LEMMA WaitForChildInv ==
  ASSUME IInv, Recorded, NEW t \in Threads, WaitForChild(t)
  PROVE  IInv'
<1> USE NobodyAssumption
<1>1. TypeOK /\ InvOK
  BY DEF IInv
<1>2. CountPos
  BY CountsPositive
<1>0. OverlapOK' /\ (overlapped => overlapped')
  BY RecordedKept
<1>3. TypeOK'
  BY <1>1 DEF TypeOK, Labels, Statuses, Stops, CollectorStops, InvOK, NextOK,
     WaitForChild, AwaitStatus, locks, counts, work
<1>4. ASSUME NEW x \in Threads PROVE NextOK(x)'
  <2>1. NextOK(x) /\ NextOK(t)
    BY <1>1 DEF InvOK
  <2>2. TypeOK
    BY <1>1
  <2> QED
    BY <2>1, <2>2 DEF NextOK, TypeOK, WaitForChild, AwaitStatus, locks, counts, work
<1>5. ASSUME NEW x \in Threads PROVE HeapOK(x)'
  <2>1. HeapOK(x) /\ HeapOK(t) /\ GcOK(t) /\ NextOK(t)
    BY <1>1 DEF InvOK
  <2>2. TypeOK
    BY <1>1
  <2> QED
    BY <2>1, <2>2 DEF HeapOK, GcOK, InGc, NextOK, Place, StopPlaces, ResumePlaces,
       HeapPlaces, Wholes, Pauses, CollectorStops, TypeOK, WaitForChild, AwaitStatus,
       locks, counts, work
<1>6. ASSUME NEW x \in Threads PROVE ListOK(x)'
  <2>1. ListOK(x) /\ ListOK(t) /\ NextOK(t)
    BY <1>1 DEF InvOK
  <2>2. TypeOK
    BY <1>1
  <2> QED
    BY <2>1, <2>2 DEF ListOK, NextOK, TypeOK, WaitForChild, AwaitStatus, locks, counts,
       work
<1>7. ASSUME NEW x \in Threads PROVE GcOK(x)'
  <2>1. /\ GcOK(x) /\ GcOK(t) /\ OneGc(x, t) /\ HeapOK(t) /\ HeapOK(x)
        /\ NextOK(t)
    BY <1>1 DEF InvOK
  <2>2. TypeOK
    BY <1>1
  <2> QED
    BY <2>1, <2>2 DEF GcOK, InGc, OneGc, HeapOK, NextOK, Place, StopPlaces,
       ResumePlaces, HeapPlaces, Wholes, Pauses, CollectorStops, TypeOK, WaitForChild,
       AwaitStatus, locks, counts, work
<1>8. ASSUME NEW x \in Threads, NEW y \in Threads PROVE OneGc(x, y)'
  <2>1. /\ OneGc(x, y) /\ OneGc(x, t) /\ OneGc(t, y) /\ GcOK(x) /\ GcOK(y)
        /\ GcOK(t) /\ NextOK(t)
    BY <1>1 DEF InvOK
  <2>2. TypeOK
    BY <1>1
  <2> QED
    BY <2>1, <2>2 DEF OneGc, GcOK, InGc, NextOK, Place, StopPlaces, ResumePlaces,
       HeapPlaces, Wholes, Pauses, CollectorStops, TypeOK, WaitForChild, AwaitStatus,
       locks, counts, work
<1>9. ASSUME NEW x \in Threads PROVE HeldOK(x)'
  <2>1. HeldOK(x) /\ HeldOK(t) /\ ListOK(x) /\ NextOK(t)
    BY <1>1 DEF InvOK
  <2>2. TypeOK
    BY <1>1
  <2> QED
    BY <2>1, <2>2 DEF HeldOK, Suspends, ListOK, NextOK, Place, TypeOK, WaitForChild, AwaitStatus,
       locks, counts, work
<1>10. ASSUME NEW x \in Threads PROVE NewOK(x)'
  <2>1. NewOK(x) /\ NewOK(t) /\ ChildOK(t) /\ HeldOK(t) /\ NextOK(t)
    BY <1>1 DEF InvOK
  <2>2. TypeOK
    BY <1>1
  <2> QED
    BY <2>1, <2>2 DEF NewOK, NewPlaces, ChildOK, ParentPlaces, NextOK, Place, TypeOK,
       WaitForChild, AwaitStatus, locks, counts, work
<1>11. ASSUME NEW x \in Threads PROVE ChildOK(x)'
  <2>1. /\ ChildOK(x) /\ ChildOK(t) /\ OneParent(x, t) /\ NewOK(t) /\ NewOK(x)
        /\ NextOK(t)
    BY <1>1 DEF InvOK
  <2>2. TypeOK
    BY <1>1
  <2> QED
    BY <2>1, <2>2, <1>1 DEF ChildOK, OneParent, ParentPlaces, NewOK, NewPlaces, NextOK,
       Place, TypeOK, WaitForChild, AwaitStatus, locks, counts, work
<1>12. ASSUME NEW x \in Threads, NEW y \in Threads PROVE OneParent(x, y)'
  <2>1. OneParent(x, y) /\ ChildOK(x) /\ ChildOK(y)
    BY <1>1 DEF InvOK
  <2>2. TypeOK
    BY <1>1
  <2> QED
    BY <2>1, <2>2 DEF OneParent, ChildOK, NextOK, TypeOK, WaitForChild, AwaitStatus,
       locks, counts, work
<1>13. ASSUME NEW x \in Threads, NEW y \in Threads PROVE StopOK(x, y)'
  <2>1. /\ StopOK(x, y) /\ StopOK(x, t) /\ NewOK(y) /\ NewOK(t) /\ HeapOK(x)
        /\ HeapOK(t) /\ GcOK(x) /\ ListOK(x) /\ ListOK(t) /\ ChildOK(t)
        /\ NextOK(t) /\ HeldOK(x) /\ OneGc(x, t)
    BY <1>1 DEF InvOK
  <2>2. TypeOK
    BY <1>1
  <2>3. Robbed(y)' <=> Robbed(y)
    BY DEF Robbed, Holders, WaitForChild, AwaitStatus, locks, counts, work
  <2>4. /\ y \in held[x] /\ y \in threadList /\ suspendCount[y] = 0 => Robbed(y)
        /\ t \in held[x] /\ t \in threadList /\ suspendCount[t] = 0 => overlapped
    BY <1>2 DEF CountPos
  <2> QED
    BY <2>1, <2>2, <2>3, <2>4, <1>0, <1>1 DEF StopOK, Linking, NewOK, NewPlaces,
       HeapOK, ListOK, ChildOK, ParentPlaces, NextOK, HeldOK, OneParent, Place,
       StopPlaces, ResumePlaces, HeapPlaces, Wholes, Pauses, CollectorStops, InvOK,
       TypeOK, WaitForChild, AwaitStatus, locks, counts, work
<1>14. ASSUME NEW x \in Threads, NEW y \in Threads PROVE SnapOK(x, y)'
  <2>1. /\ SnapOK(x, y) /\ HeldOK(x) /\ ListOK(x) /\ ListOK(t) /\ NewOK(y)
        /\ NextOK(t)
    BY <1>1 DEF InvOK
  <2>2. TypeOK
    BY <1>1
  <2> QED
    BY <2>1, <2>2 DEF SnapOK, HeldOK, ListOK, NewOK, NewPlaces, NextOK,
       TypeOK, WaitForChild, AwaitStatus, locks, counts, work
<1>15. ASSUME NEW x \in Threads PROVE Balanced(x)'
  <2>1. Balanced(x)
    BY <1>1 DEF InvOK
  <2>2. UNCHANGED <<suspendCount, held>> /\ threadList' \subseteq threadList
    BY DEF WaitForChild, AwaitStatus, locks, counts, work
  <2>3. Holders(x)' = Holders(x)
    BY <2>2 DEF Holders
  <2> QED BY <2>1, <2>2, <2>3, <1>0 DEF Balanced, Robbed
<1> QED
  BY <1>0, <1>3, <1>4, <1>5, <1>6, <1>7, <1>8, <1>9, <1>10, <1>11, <1>12, <1>13, <1>14, <1>15
     DEF IInv, InvOK

\* The invariant is kept when the child waits again.
LEMMA WaitForParentInv ==
  ASSUME IInv, Recorded, NEW t \in Threads, WaitForParent(t)
  PROVE  IInv'
<1> USE NobodyAssumption
<1>1. TypeOK /\ InvOK
  BY DEF IInv
<1>2. CountPos
  BY CountsPositive
<1>0. OverlapOK' /\ (overlapped => overlapped')
  BY RecordedKept
<1>3. TypeOK'
  BY <1>1 DEF TypeOK, Labels, Statuses, Stops, CollectorStops, InvOK, NextOK,
     WaitForParent, AwaitStatus, locks, counts, work
<1>4. ASSUME NEW x \in Threads PROVE NextOK(x)'
  <2>1. NextOK(x) /\ NextOK(t)
    BY <1>1 DEF InvOK
  <2>2. TypeOK
    BY <1>1
  <2> QED
    BY <2>1, <2>2 DEF NextOK, TypeOK, WaitForParent, AwaitStatus, locks, counts, work
<1>5. ASSUME NEW x \in Threads PROVE HeapOK(x)'
  <2>1. HeapOK(x) /\ HeapOK(t) /\ GcOK(t) /\ NextOK(t)
    BY <1>1 DEF InvOK
  <2>2. TypeOK
    BY <1>1
  <2> QED
    BY <2>1, <2>2 DEF HeapOK, GcOK, InGc, NextOK, Place, StopPlaces, ResumePlaces,
       HeapPlaces, Wholes, Pauses, CollectorStops, TypeOK, WaitForParent, AwaitStatus,
       locks, counts, work
<1>6. ASSUME NEW x \in Threads PROVE ListOK(x)'
  <2>1. ListOK(x) /\ ListOK(t) /\ NextOK(t)
    BY <1>1 DEF InvOK
  <2>2. TypeOK
    BY <1>1
  <2> QED
    BY <2>1, <2>2 DEF ListOK, NextOK, TypeOK, WaitForParent, AwaitStatus, locks,
       counts, work
<1>7. ASSUME NEW x \in Threads PROVE GcOK(x)'
  <2>1. /\ GcOK(x) /\ GcOK(t) /\ OneGc(x, t) /\ HeapOK(t) /\ HeapOK(x)
        /\ NextOK(t)
    BY <1>1 DEF InvOK
  <2>2. TypeOK
    BY <1>1
  <2> QED
    BY <2>1, <2>2 DEF GcOK, InGc, OneGc, HeapOK, NextOK, Place, StopPlaces,
       ResumePlaces, HeapPlaces, Wholes, Pauses, CollectorStops, TypeOK, WaitForParent,
       AwaitStatus, locks, counts, work
<1>8. ASSUME NEW x \in Threads, NEW y \in Threads PROVE OneGc(x, y)'
  <2>1. /\ OneGc(x, y) /\ OneGc(x, t) /\ OneGc(t, y) /\ GcOK(x) /\ GcOK(y)
        /\ GcOK(t) /\ NextOK(t)
    BY <1>1 DEF InvOK
  <2>2. TypeOK
    BY <1>1
  <2> QED
    BY <2>1, <2>2 DEF OneGc, GcOK, InGc, NextOK, Place, StopPlaces, ResumePlaces,
       HeapPlaces, Wholes, Pauses, CollectorStops, TypeOK, WaitForParent, AwaitStatus,
       locks, counts, work
<1>9. ASSUME NEW x \in Threads PROVE HeldOK(x)'
  <2>1. HeldOK(x) /\ HeldOK(t) /\ ListOK(x) /\ NextOK(t)
    BY <1>1 DEF InvOK
  <2>2. TypeOK
    BY <1>1
  <2> QED
    BY <2>1, <2>2 DEF HeldOK, Suspends, ListOK, NextOK, Place, TypeOK, WaitForParent,
       AwaitStatus, locks, counts, work
<1>10. ASSUME NEW x \in Threads PROVE NewOK(x)'
  <2>1. NewOK(x) /\ NewOK(t) /\ ChildOK(t) /\ HeldOK(t) /\ NextOK(t)
    BY <1>1 DEF InvOK
  <2>2. TypeOK
    BY <1>1
  <2> QED
    BY <2>1, <2>2 DEF NewOK, NewPlaces, ChildOK, ParentPlaces, NextOK, Place, TypeOK,
       WaitForParent, AwaitStatus, locks, counts, work
<1>11. ASSUME NEW x \in Threads PROVE ChildOK(x)'
  <2>1. /\ ChildOK(x) /\ ChildOK(t) /\ OneParent(x, t) /\ NewOK(t) /\ NewOK(x)
        /\ NextOK(t)
    BY <1>1 DEF InvOK
  <2>2. TypeOK
    BY <1>1
  <2> QED
    BY <2>1, <2>2, <1>1 DEF ChildOK, OneParent, ParentPlaces, NewOK, NewPlaces, NextOK,
       Place, TypeOK, WaitForParent, AwaitStatus, locks, counts, work
<1>12. ASSUME NEW x \in Threads, NEW y \in Threads PROVE OneParent(x, y)'
  <2>1. OneParent(x, y) /\ ChildOK(x) /\ ChildOK(y)
    BY <1>1 DEF InvOK
  <2>2. TypeOK
    BY <1>1
  <2> QED
    BY <2>1, <2>2 DEF OneParent, ChildOK, NextOK, TypeOK, WaitForParent, AwaitStatus,
       locks, counts, work
<1>13. ASSUME NEW x \in Threads, NEW y \in Threads PROVE StopOK(x, y)'
  <2>1. /\ StopOK(x, y) /\ StopOK(x, t) /\ NewOK(y) /\ NewOK(t) /\ HeapOK(x)
        /\ HeapOK(t) /\ GcOK(x) /\ ListOK(x) /\ ListOK(t) /\ ChildOK(t)
        /\ NextOK(t) /\ HeldOK(x) /\ OneGc(x, t)
    BY <1>1 DEF InvOK
  <2>2. TypeOK
    BY <1>1
  <2>3. Robbed(y)' <=> Robbed(y)
    BY DEF Robbed, Holders, WaitForParent, AwaitStatus, locks, counts, work
  <2>4. /\ y \in held[x] /\ y \in threadList /\ suspendCount[y] = 0 => Robbed(y)
        /\ t \in held[x] /\ t \in threadList /\ suspendCount[t] = 0 => overlapped
    BY <1>2 DEF CountPos
  <2> QED
    BY <2>1, <2>2, <2>3, <2>4, <1>0, <1>1 DEF StopOK, Linking, NewOK, NewPlaces,
       HeapOK, ListOK, ChildOK, ParentPlaces, NextOK, HeldOK, OneParent, Place,
       StopPlaces, ResumePlaces, HeapPlaces, Wholes, Pauses, CollectorStops, InvOK,
       TypeOK, WaitForParent, AwaitStatus, locks, counts, work
<1>14. ASSUME NEW x \in Threads, NEW y \in Threads PROVE SnapOK(x, y)'
  <2>1. /\ SnapOK(x, y) /\ HeldOK(x) /\ ListOK(x) /\ ListOK(t) /\ NewOK(y)
        /\ NextOK(t)
    BY <1>1 DEF InvOK
  <2>2. TypeOK
    BY <1>1
  <2> QED
    BY <2>1, <2>2 DEF SnapOK, HeldOK, ListOK, NewOK, NewPlaces, NextOK,
       TypeOK, WaitForParent, AwaitStatus, locks, counts, work
<1>15. ASSUME NEW x \in Threads PROVE Balanced(x)'
  <2>1. Balanced(x)
    BY <1>1 DEF InvOK
  <2>2. UNCHANGED <<suspendCount, held>> /\ threadList' \subseteq threadList
    BY DEF WaitForParent, AwaitStatus, locks, counts, work
  <2>3. Holders(x)' = Holders(x)
    BY <2>2 DEF Holders
  <2> QED BY <2>1, <2>2, <2>3, <1>0 DEF Balanced, Robbed
<1> QED
  BY <1>0, <1>3, <1>4, <1>5, <1>6, <1>7, <1>8, <1>9, <1>10, <1>11, <1>12, <1>13, <1>14, <1>15
     DEF IInv, InvOK

\* The invariant is kept when the child is linked.
LEMMA LinkChildInv ==
  ASSUME IInv, Recorded, NEW t \in Threads, LinkChild(t)
  PROVE  IInv'
<1> USE NobodyAssumption
<1>1. TypeOK /\ InvOK
  BY DEF IInv
<1>2. CountPos
  BY CountsPositive
<1>0. OverlapOK' /\ (overlapped => overlapped')
  BY RecordedKept
<1>3. TypeOK'
  <2>1. child[t] \in Threads
    BY <1>1 DEF InvOK, ChildOK, ParentPlaces, Place, LinkChild, TypeOK
  <2> QED BY <1>1, <2>1 DEF TypeOK, Labels, Statuses, LinkChild, counts, locks, waiting, work, Revive,
           Become, Goto, Return
<1>4. ASSUME NEW x \in Threads PROVE NextOK(x)'
  <2>1. NextOK(x) /\ NextOK(t)
    BY <1>1 DEF InvOK
  <2>2. TypeOK
    BY <1>1
  <2> QED
    BY <2>1, <2>2 DEF NextOK, TypeOK, LinkChild, Revive, Goto, Become, Return, locks,
       waiting, counts, work
<1>5. ASSUME NEW x \in Threads PROVE HeapOK(x)'
  <2>1. HeapOK(x) /\ HeapOK(t) /\ GcOK(t) /\ NextOK(t)
    BY <1>1 DEF InvOK
  <2>2. TypeOK
    BY <1>1
  <2> QED
    BY <2>1, <2>2 DEF HeapOK, GcOK, InGc, NextOK, Place, StopPlaces, ResumePlaces,
       HeapPlaces, Wholes, Pauses, CollectorStops, TypeOK, LinkChild, Revive, Goto,
       Become, Return, locks, waiting, counts, work
<1>6. ASSUME NEW x \in Threads PROVE ListOK(x)'
  <2>1. ListOK(x) /\ ListOK(t) /\ NextOK(t)
    BY <1>1 DEF InvOK
  <2>2. TypeOK
    BY <1>1
  <2> QED
    BY <2>1, <2>2 DEF ListOK, NextOK, TypeOK, LinkChild, Revive, Goto, Become, Return,
       locks, waiting, counts, work
<1>7. ASSUME NEW x \in Threads PROVE GcOK(x)'
  <2>1. /\ GcOK(x) /\ GcOK(t) /\ OneGc(x, t) /\ HeapOK(t) /\ HeapOK(x)
        /\ NextOK(t)
    BY <1>1 DEF InvOK
  <2>2. TypeOK
    BY <1>1
  <2> QED
    BY <2>1, <2>2 DEF GcOK, InGc, OneGc, HeapOK, NextOK, Place, StopPlaces,
       ResumePlaces, HeapPlaces, Wholes, Pauses, CollectorStops, TypeOK, LinkChild,
       Revive, Goto, Become, Return, locks, waiting, counts, work
<1>8. ASSUME NEW x \in Threads, NEW y \in Threads PROVE OneGc(x, y)'
  <2>1. /\ OneGc(x, y) /\ OneGc(x, t) /\ OneGc(t, y) /\ GcOK(x) /\ GcOK(y)
        /\ GcOK(t) /\ NextOK(t)
    BY <1>1 DEF InvOK
  <2>2. TypeOK
    BY <1>1
  <2> QED
    BY <2>1, <2>2 DEF OneGc, GcOK, InGc, NextOK, Place, StopPlaces, ResumePlaces,
       HeapPlaces, Wholes, Pauses, CollectorStops, TypeOK, LinkChild, Revive, Goto,
       Become, Return, locks, waiting, counts, work
<1>9. ASSUME NEW x \in Threads PROVE HeldOK(x)'
  <2>1. HeldOK(x) /\ HeldOK(t) /\ ListOK(x) /\ NextOK(t)
    BY <1>1 DEF InvOK
  <2>2. TypeOK
    BY <1>1
  <2> QED
    BY <2>1, <2>2 DEF HeldOK, Suspends, ListOK, NextOK, Place, TypeOK, LinkChild, Revive, Goto,
       Become, Return, locks, waiting, counts, work
<1>10. ASSUME NEW x \in Threads PROVE NewOK(x)'
  <2>1. NewOK(x) /\ NewOK(t) /\ ChildOK(t) /\ HeldOK(t) /\ NextOK(t)
    BY <1>1 DEF InvOK
  <2>2. TypeOK
    BY <1>1
  <2> QED
    BY <2>1, <2>2 DEF NewOK, NewPlaces, ChildOK, ParentPlaces, NextOK, Place, TypeOK,
       LinkChild, Revive, Goto, Become, Return, locks, waiting, counts, work
<1>11. ASSUME NEW x \in Threads PROVE ChildOK(x)'
  <2>1. ChildOK(x) /\ ChildOK(t) /\ OneParent(x, t) /\ TypeOK
    BY <1>1 DEF InvOK
  <2>2. /\ at[t] = "joining" /\ child[t] \in Threads /\ status[child[t]] = "STARTING"
        /\ UNCHANGED child /\ threadList' = threadList \cup {child[t]}
    BY <2>1 DEF ChildOK, ParentPlaces, Place, LinkChild, TypeOK, work
  <2>3. NewOK(child[t])
    BY <1>1, <2>2 DEF InvOK
  <2>4. at[child[t]] = "starting" /\ child[t] # t
    BY <2>2, <2>3 DEF NewOK
  <2>5. /\ status' = [status EXCEPT ![t] = "RUNNING"] /\ at' = [at EXCEPT ![t] = "check"]
        /\ next' = [next EXCEPT ![t] = "linked"]
    BY DEF LinkChild, Revive, Become, Goto, Return
  <2>6. CASE x = t
    <3>1. at'[t] = "check" /\ next'[t] = "linked" /\ at'[child[t]] = "starting"
          /\ status'[child[t]] = "STARTING"
      BY <2>1, <2>2, <2>4, <2>5 DEF TypeOK
    <3> QED BY <2>2, <2>6, <3>1, NobodyAssumption DEF ChildOK, ParentPlaces, Place
  <2>7. CASE x # t
    <3>1. at'[x] = at[x] /\ next'[x] = next[x]
      BY <2>1, <2>5, <2>7 DEF TypeOK
    <3>2. child[x] # Nobody => /\ child[x] \in Threads /\ child[x] # t
                              /\ at'[child[x]] = at[child[x]]
                              /\ status'[child[x]] = status[child[x]]
      BY <2>1, <2>2, <2>5 DEF ChildOK, TypeOK
    <3> QED BY <2>1, <2>2, <3>1, <3>2 DEF ChildOK, ParentPlaces, Place
  <2> QED BY <2>6, <2>7
<1>12. ASSUME NEW x \in Threads, NEW y \in Threads PROVE OneParent(x, y)'
  <2>1. OneParent(x, y) /\ ChildOK(x) /\ ChildOK(y)
    BY <1>1 DEF InvOK
  <2>2. TypeOK
    BY <1>1
  <2> QED
    BY <2>1, <2>2 DEF OneParent, ChildOK, NextOK, TypeOK, LinkChild, Revive, Goto,
       Become, Return, locks, waiting, counts, work
<1>13. ASSUME NEW x \in Threads, NEW y \in Threads PROVE StopOK(x, y)'
  <2>1. /\ StopOK(x, y) /\ StopOK(x, t) /\ NewOK(y) /\ NewOK(t) /\ HeapOK(x)
        /\ HeapOK(t) /\ GcOK(x) /\ ListOK(x) /\ ListOK(t) /\ ChildOK(t)
        /\ NextOK(t) /\ HeldOK(x) /\ OneGc(x, t)
    BY <1>1 DEF InvOK
  <2>2. TypeOK
    BY <1>1
  <2>3. Robbed(y)' <=> Robbed(y)
    BY DEF Robbed, Holders, LinkChild, Revive, Goto, Become, Return, locks, waiting,
       counts, work
  <2>4. /\ y \in held[x] /\ y \in threadList /\ suspendCount[y] = 0 => Robbed(y)
        /\ t \in held[x] /\ t \in threadList /\ suspendCount[t] = 0 => overlapped
    BY <1>2 DEF CountPos
  <2> QED
    BY <2>1, <2>2, <2>3, <2>4, <1>0, <1>1 DEF StopOK, Linking, NewOK, NewPlaces,
       HeapOK, ListOK, ChildOK, ParentPlaces, NextOK, HeldOK, OneParent, Place,
       StopPlaces, ResumePlaces, HeapPlaces, Wholes, Pauses, CollectorStops, InvOK,
       TypeOK, LinkChild, Revive, Goto, Become, Return, locks, waiting, counts, work
<1>14. ASSUME NEW x \in Threads, NEW y \in Threads PROVE SnapOK(x, y)'
  <2>1. /\ SnapOK(x, y) /\ HeldOK(x) /\ ListOK(x) /\ ListOK(t) /\ NewOK(y)
        /\ NextOK(t)
    BY <1>1 DEF InvOK
  <2>2. TypeOK
    BY <1>1
  <2> QED
    BY <2>1, <2>2 DEF SnapOK, HeldOK, ListOK, NewOK, NewPlaces, NextOK,
       TypeOK, LinkChild, Revive, Goto, Become, Return, locks, waiting, counts, work
<1>15. ASSUME NEW x \in Threads PROVE Balanced(x)'
  <2>1. Balanced(x) /\ HeldOK(t) /\ NewOK(x) /\ ChildOK(t) /\ TypeOK
    BY <1>1 DEF InvOK
  <2>2. IsFiniteSet(Holders(x)) /\ Cardinality(Holders(x)) \in Nat
    BY HoldersFinite
  <2>3. UNCHANGED <<held, suspendCount>> /\ threadList' = threadList \cup {child[t]}
        /\ Holders(x)' = Holders(x)
    BY DEF LinkChild, counts, Holders
  <2>4. CASE x \in threadList
    BY <1>0, <2>1, <2>3, <2>4 DEF Balanced, Robbed
  <2>5. CASE x \notin threadList /\ x = child[t]
    <3>1. status[x] = "STARTING"
      BY <2>5 DEF LinkChild
    <3>2. suspendCount[x] = 0 /\ Holders(x) = {}
      BY <3>1, <2>1, <2>5 DEF NewOK, Holders
    <3> QED BY <2>3, <3>2, FS_EmptySet DEF Balanced, Robbed
  <2>6. CASE x \notin threadList /\ x # child[t]
    BY <2>3, <2>6 DEF Balanced
  <2> QED BY <2>4, <2>5, <2>6
<1> QED
  BY <1>0, <1>3, <1>4, <1>5, <1>6, <1>7, <1>8, <1>9, <1>10, <1>11, <1>12, <1>13, <1>14, <1>15
     DEF IInv, InvOK

\* The invariant is kept when the parent wants the list.
LEMMA LinkedInv ==
  ASSUME IInv, Recorded, NEW t \in Threads, Linked(t)
  PROVE  IInv'
<1> USE NobodyAssumption
<1>1. TypeOK /\ InvOK
  BY DEF IInv
<1>2. CountPos
  BY CountsPositive
<1>0. OverlapOK' /\ (overlapped => overlapped')
  BY RecordedKept
<1>3. TypeOK'
  BY <1>1 DEF TypeOK, Labels, Statuses, Stops, CollectorStops, InvOK, NextOK, Linked,
     WantList, Goto, Become, Return, locks, waiting, counts, work
<1>4. ASSUME NEW x \in Threads PROVE NextOK(x)'
  <2>1. NextOK(x) /\ NextOK(t)
    BY <1>1 DEF InvOK
  <2>2. TypeOK
    BY <1>1
  <2> QED
    BY <2>1, <2>2 DEF NextOK, TypeOK, Linked, WantList, Goto, Become, Return, locks,
       waiting, counts, work
<1>5. ASSUME NEW x \in Threads PROVE HeapOK(x)'
  <2>1. HeapOK(x) /\ HeapOK(t) /\ GcOK(t) /\ NextOK(t)
    BY <1>1 DEF InvOK
  <2>2. TypeOK
    BY <1>1
  <2> QED
    BY <2>1, <2>2 DEF HeapOK, GcOK, InGc, NextOK, Place, StopPlaces, ResumePlaces,
       HeapPlaces, Wholes, Pauses, CollectorStops, TypeOK, Linked, WantList, Goto,
       Become, Return, locks, waiting, counts, work
<1>6. ASSUME NEW x \in Threads PROVE ListOK(x)'
  <2>1. ListOK(x) /\ ListOK(t) /\ NextOK(t)
    BY <1>1 DEF InvOK
  <2>2. TypeOK
    BY <1>1
  <2> QED
    BY <2>1, <2>2 DEF ListOK, NextOK, TypeOK, Linked, WantList, Goto, Become, Return,
       locks, waiting, counts, work
<1>7. ASSUME NEW x \in Threads PROVE GcOK(x)'
  <2>1. /\ GcOK(x) /\ GcOK(t) /\ OneGc(x, t) /\ HeapOK(t) /\ HeapOK(x)
        /\ NextOK(t)
    BY <1>1 DEF InvOK
  <2>2. TypeOK
    BY <1>1
  <2> QED
    BY <2>1, <2>2 DEF GcOK, InGc, OneGc, HeapOK, NextOK, Place, StopPlaces,
       ResumePlaces, HeapPlaces, Wholes, Pauses, CollectorStops, TypeOK, Linked,
       WantList, Goto, Become, Return, locks, waiting, counts, work
<1>8. ASSUME NEW x \in Threads, NEW y \in Threads PROVE OneGc(x, y)'
  <2>1. /\ OneGc(x, y) /\ OneGc(x, t) /\ OneGc(t, y) /\ GcOK(x) /\ GcOK(y)
        /\ GcOK(t) /\ NextOK(t)
    BY <1>1 DEF InvOK
  <2>2. TypeOK
    BY <1>1
  <2> QED
    BY <2>1, <2>2 DEF OneGc, GcOK, InGc, NextOK, Place, StopPlaces, ResumePlaces,
       HeapPlaces, Wholes, Pauses, CollectorStops, TypeOK, Linked, WantList, Goto,
       Become, Return, locks, waiting, counts, work
<1>9. ASSUME NEW x \in Threads PROVE HeldOK(x)'
  <2>1. HeldOK(x) /\ HeldOK(t) /\ ListOK(x) /\ NextOK(t)
    BY <1>1 DEF InvOK
  <2>2. TypeOK
    BY <1>1
  <2> QED
    BY <2>1, <2>2 DEF HeldOK, Suspends, ListOK, NextOK, Place, TypeOK, Linked, WantList, Goto,
       Become, Return, locks, waiting, counts, work
<1>10. ASSUME NEW x \in Threads PROVE NewOK(x)'
  <2>1. NewOK(x) /\ NewOK(t) /\ ChildOK(t) /\ HeldOK(t) /\ NextOK(t)
    BY <1>1 DEF InvOK
  <2>2. TypeOK
    BY <1>1
  <2> QED
    BY <2>1, <2>2 DEF NewOK, NewPlaces, ChildOK, ParentPlaces, NextOK, Place, TypeOK,
       Linked, WantList, Goto, Become, Return, locks, waiting, counts, work
<1>11. ASSUME NEW x \in Threads PROVE ChildOK(x)'
  <2>1. /\ ChildOK(x) /\ ChildOK(t) /\ OneParent(x, t) /\ NewOK(t) /\ NewOK(x)
        /\ NextOK(t)
    BY <1>1 DEF InvOK
  <2>2. TypeOK
    BY <1>1
  <2> QED
    BY <2>1, <2>2, <1>1 DEF ChildOK, OneParent, ParentPlaces, NewOK, NewPlaces, NextOK,
       Place, TypeOK, Linked, WantList, Goto, Become, Return, locks, waiting, counts,
       work
<1>12. ASSUME NEW x \in Threads, NEW y \in Threads PROVE OneParent(x, y)'
  <2>1. OneParent(x, y) /\ ChildOK(x) /\ ChildOK(y)
    BY <1>1 DEF InvOK
  <2>2. TypeOK
    BY <1>1
  <2> QED
    BY <2>1, <2>2 DEF OneParent, ChildOK, NextOK, TypeOK, Linked, WantList, Goto,
       Become, Return, locks, waiting, counts, work
<1>13. ASSUME NEW x \in Threads, NEW y \in Threads PROVE StopOK(x, y)'
  <2>1. /\ StopOK(x, y) /\ StopOK(x, t) /\ NewOK(y) /\ NewOK(t) /\ HeapOK(x)
        /\ HeapOK(t) /\ GcOK(x) /\ ListOK(x) /\ ListOK(t) /\ ChildOK(t)
        /\ NextOK(t) /\ HeldOK(x) /\ OneGc(x, t)
    BY <1>1 DEF InvOK
  <2>2. TypeOK
    BY <1>1
  <2>3. Robbed(y)' <=> Robbed(y)
    BY DEF Robbed, Holders, Linked, WantList, Goto, Become, Return, locks, waiting,
       counts, work
  <2>4. /\ y \in held[x] /\ y \in threadList /\ suspendCount[y] = 0 => Robbed(y)
        /\ t \in held[x] /\ t \in threadList /\ suspendCount[t] = 0 => overlapped
    BY <1>2 DEF CountPos
  <2> QED
    BY <2>1, <2>2, <2>3, <2>4, <1>0, <1>1 DEF StopOK, Linking, NewOK, NewPlaces,
       HeapOK, ListOK, ChildOK, ParentPlaces, NextOK, HeldOK, OneParent, Place,
       StopPlaces, ResumePlaces, HeapPlaces, Wholes, Pauses, CollectorStops, InvOK,
       TypeOK, Linked, WantList, Goto, Become, Return, locks, waiting, counts, work
<1>14. ASSUME NEW x \in Threads, NEW y \in Threads PROVE SnapOK(x, y)'
  <2>1. /\ SnapOK(x, y) /\ HeldOK(x) /\ ListOK(x) /\ ListOK(t) /\ NewOK(y)
        /\ NextOK(t)
    BY <1>1 DEF InvOK
  <2>2. TypeOK
    BY <1>1
  <2> QED
    BY <2>1, <2>2 DEF SnapOK, HeldOK, ListOK, NewOK, NewPlaces, NextOK,
       TypeOK, Linked, WantList, Goto, Become, Return, locks, waiting, counts, work
<1>15. ASSUME NEW x \in Threads PROVE Balanced(x)'
  <2>1. Balanced(x)
    BY <1>1 DEF InvOK
  <2>2. UNCHANGED <<suspendCount, held>> /\ threadList' \subseteq threadList
    BY DEF Linked, WantList, Goto, Become, Return, locks, waiting, counts, work
  <2>3. Holders(x)' = Holders(x)
    BY <2>2 DEF Holders
  <2> QED BY <2>1, <2>2, <2>3, <1>0 DEF Balanced, Robbed
<1> QED
  BY <1>0, <1>3, <1>4, <1>5, <1>6, <1>7, <1>8, <1>9, <1>10, <1>11, <1>12, <1>13, <1>14, <1>15
     DEF IInv, InvOK

\* The invariant is kept when the child is released.
LEMMA ReleaseChildInv ==
  ASSUME IInv, Recorded, NEW t \in Threads, ReleaseChild(t)
  PROVE  IInv'
<1> USE NobodyAssumption
<1>1. TypeOK /\ InvOK
  BY DEF IInv
<1>2. CountPos
  BY CountsPositive
<1>0. OverlapOK' /\ (overlapped => overlapped')
  BY RecordedKept
<1>3. TypeOK'
  BY ZenonT(60), <1>1 DEF TypeOK, Labels, Statuses, Stops, CollectorStops, InvOK, NextOK,
     ReleaseChild, Goto, Become, counts
<1>4. ASSUME NEW x \in Threads PROVE NextOK(x)'
  <2>1. NextOK(x) /\ NextOK(t)
    BY <1>1 DEF InvOK
  <2>2. TypeOK
    BY <1>1
  <2> QED
    BY <2>1, <2>2 DEF NextOK, TypeOK, ReleaseChild, Goto, Become, counts
<1>5. ASSUME NEW x \in Threads PROVE HeapOK(x)'
  <2>1. HeapOK(x) /\ HeapOK(t) /\ GcOK(t) /\ NextOK(t)
    BY <1>1 DEF InvOK
  <2>2. TypeOK
    BY <1>1
  <2> QED
    BY <2>1, <2>2 DEF HeapOK, GcOK, InGc, NextOK, Place, StopPlaces, ResumePlaces,
       HeapPlaces, Wholes, Pauses, CollectorStops, TypeOK, ReleaseChild, Goto, Become,
       counts
<1>6. ASSUME NEW x \in Threads PROVE ListOK(x)'
  <2>1. ListOK(x) /\ ListOK(t) /\ NextOK(t)
    BY <1>1 DEF InvOK
  <2>2. TypeOK
    BY <1>1
  <2> QED
    BY <2>1, <2>2 DEF ListOK, NextOK, TypeOK, ReleaseChild, Goto, Become, counts
<1>7. ASSUME NEW x \in Threads PROVE GcOK(x)'
  <2>1. /\ GcOK(x) /\ GcOK(t) /\ OneGc(x, t) /\ HeapOK(t) /\ HeapOK(x)
        /\ NextOK(t)
    BY <1>1 DEF InvOK
  <2>2. TypeOK
    BY <1>1
  <2> QED
    BY <2>1, <2>2 DEF GcOK, InGc, OneGc, HeapOK, NextOK, Place, StopPlaces,
       ResumePlaces, HeapPlaces, Wholes, Pauses, CollectorStops, TypeOK, ReleaseChild,
       Goto, Become, counts
<1>8. ASSUME NEW x \in Threads, NEW y \in Threads PROVE OneGc(x, y)'
  <2>1. /\ OneGc(x, y) /\ OneGc(x, t) /\ OneGc(t, y) /\ GcOK(x) /\ GcOK(y)
        /\ GcOK(t) /\ NextOK(t)
    BY <1>1 DEF InvOK
  <2>2. TypeOK
    BY <1>1
  <2> QED
    BY <2>1, <2>2 DEF OneGc, GcOK, InGc, NextOK, Place, StopPlaces, ResumePlaces,
       HeapPlaces, Wholes, Pauses, CollectorStops, TypeOK, ReleaseChild, Goto, Become,
       counts
<1>9. ASSUME NEW x \in Threads PROVE HeldOK(x)'
  <2>1. HeldOK(x) /\ HeldOK(t) /\ ListOK(x) /\ NextOK(t)
    BY <1>1 DEF InvOK
  <2>2. TypeOK
    BY <1>1
  <2> QED
    BY <2>1, <2>2 DEF HeldOK, Suspends, ListOK, NextOK, Place, TypeOK, ReleaseChild, Goto,
       Become, counts
<1>10. ASSUME NEW x \in Threads PROVE NewOK(x)'
  <2>1. NewOK(x) /\ NewOK(t) /\ ChildOK(t) /\ HeldOK(t) /\ NextOK(t)
    BY <1>1 DEF InvOK
  <2>2. TypeOK
    BY <1>1
  <2> QED
    BY <2>1, <2>2 DEF NewOK, NewPlaces, ChildOK, ParentPlaces, NextOK, Place, TypeOK,
       ReleaseChild, Goto, Become, counts
<1>11. ASSUME NEW x \in Threads PROVE ChildOK(x)'
  <2>1. /\ ChildOK(x) /\ ChildOK(t) /\ OneParent(x, t) /\ NewOK(t) /\ NewOK(x)
        /\ NextOK(t)
    BY <1>1 DEF InvOK
  <2>2. TypeOK
    BY <1>1
  <2> QED
    BY <2>1, <2>2, <1>1 DEF ChildOK, OneParent, ParentPlaces, NewOK, NewPlaces, NextOK,
       Place, TypeOK, ReleaseChild, Goto, Become, counts
<1>12. ASSUME NEW x \in Threads, NEW y \in Threads PROVE OneParent(x, y)'
  <2>1. OneParent(x, y) /\ ChildOK(x) /\ ChildOK(y)
    BY <1>1 DEF InvOK
  <2>2. TypeOK
    BY <1>1
  <2> QED
    BY <2>1, <2>2 DEF OneParent, ChildOK, NextOK, TypeOK, ReleaseChild, Goto, Become,
       counts
<1>13. ASSUME NEW x \in Threads, NEW y \in Threads PROVE StopOK(x, y)'
  <2>1. /\ StopOK(x, y) /\ StopOK(x, t) /\ NewOK(y) /\ NewOK(t) /\ HeapOK(x)
        /\ HeapOK(t) /\ GcOK(x) /\ ListOK(x) /\ ListOK(t) /\ ChildOK(t)
        /\ NextOK(t) /\ HeldOK(x) /\ OneGc(x, t)
    BY <1>1 DEF InvOK
  <2>2. TypeOK
    BY <1>1
  <2>3. Robbed(y)' <=> Robbed(y)
    BY DEF Robbed, Holders, ReleaseChild, Goto, Become, counts
  <2>4. /\ y \in held[x] /\ y \in threadList /\ suspendCount[y] = 0 => Robbed(y)
        /\ t \in held[x] /\ t \in threadList /\ suspendCount[t] = 0 => overlapped
    BY <1>2 DEF CountPos
  <2> QED
    BY <2>1, <2>2, <2>3, <2>4, <1>0, <1>1 DEF StopOK, Linking, NewOK, NewPlaces,
       HeapOK, ListOK, ChildOK, ParentPlaces, NextOK, HeldOK, OneParent, Place,
       StopPlaces, ResumePlaces, HeapPlaces, Wholes, Pauses, CollectorStops, InvOK,
       TypeOK, ReleaseChild, Goto, Become, counts
<1>14. ASSUME NEW x \in Threads, NEW y \in Threads PROVE SnapOK(x, y)'
  <2>1. /\ SnapOK(x, y) /\ HeldOK(x) /\ ListOK(x) /\ ListOK(t) /\ NewOK(y)
        /\ NextOK(t)
    BY <1>1 DEF InvOK
  <2>2. TypeOK
    BY <1>1
  <2> QED
    BY <2>1, <2>2 DEF SnapOK, HeldOK, ListOK, NewOK, NewPlaces, NextOK,
       TypeOK, ReleaseChild, Goto, Become, counts
<1>15. ASSUME NEW x \in Threads PROVE Balanced(x)'
  <2>1. Balanced(x)
    BY <1>1 DEF InvOK
  <2>2. UNCHANGED <<suspendCount, held>> /\ threadList' \subseteq threadList
    BY DEF ReleaseChild, Goto, Become, counts
  <2>3. Holders(x)' = Holders(x)
    BY <2>2 DEF Holders
  <2> QED BY <2>1, <2>2, <2>3, <1>0 DEF Balanced, Robbed
<1> QED
  BY <1>0, <1>3, <1>4, <1>5, <1>6, <1>7, <1>8, <1>9, <1>10, <1>11, <1>12, <1>13, <1>14, <1>15
     DEF IInv, InvOK

\* The invariant is kept when the child is STARTING.
LEMMA PrepareInv ==
  ASSUME IInv, Recorded, NEW t \in Threads, Prepare(t)
  PROVE  IInv'
<1> USE NobodyAssumption
<1>1. TypeOK /\ InvOK
  BY DEF IInv
<1>2. CountPos
  BY CountsPositive
<1>0. OverlapOK' /\ (overlapped => overlapped')
  BY RecordedKept
<1>3. TypeOK'
  BY <1>1 DEF TypeOK, Labels, Statuses, Stops, CollectorStops, InvOK, NextOK, Prepare,
     Goto, Become, locks, counts, work
<1>4. ASSUME NEW x \in Threads PROVE NextOK(x)'
  <2>1. NextOK(x) /\ NextOK(t)
    BY <1>1 DEF InvOK
  <2>2. TypeOK
    BY <1>1
  <2> QED
    BY <2>1, <2>2 DEF NextOK, TypeOK, Prepare, Goto, Become, locks, counts, work
<1>5. ASSUME NEW x \in Threads PROVE HeapOK(x)'
  <2>1. HeapOK(x) /\ HeapOK(t) /\ GcOK(t) /\ NextOK(t)
    BY <1>1 DEF InvOK
  <2>2. TypeOK
    BY <1>1
  <2> QED
    BY <2>1, <2>2 DEF HeapOK, GcOK, InGc, NextOK, Place, StopPlaces, ResumePlaces,
       HeapPlaces, Wholes, Pauses, CollectorStops, TypeOK, Prepare, Goto, Become,
       locks, counts, work
<1>6. ASSUME NEW x \in Threads PROVE ListOK(x)'
  <2>1. ListOK(x) /\ ListOK(t) /\ NextOK(t)
    BY <1>1 DEF InvOK
  <2>2. TypeOK
    BY <1>1
  <2> QED
    BY <2>1, <2>2 DEF ListOK, NextOK, TypeOK, Prepare, Goto, Become, locks, counts,
       work
<1>7. ASSUME NEW x \in Threads PROVE GcOK(x)'
  <2>1. /\ GcOK(x) /\ GcOK(t) /\ OneGc(x, t) /\ HeapOK(t) /\ HeapOK(x)
        /\ NextOK(t)
    BY <1>1 DEF InvOK
  <2>2. TypeOK
    BY <1>1
  <2> QED
    BY <2>1, <2>2 DEF GcOK, InGc, OneGc, HeapOK, NextOK, Place, StopPlaces,
       ResumePlaces, HeapPlaces, Wholes, Pauses, CollectorStops, TypeOK, Prepare, Goto,
       Become, locks, counts, work
<1>8. ASSUME NEW x \in Threads, NEW y \in Threads PROVE OneGc(x, y)'
  <2>1. /\ OneGc(x, y) /\ OneGc(x, t) /\ OneGc(t, y) /\ GcOK(x) /\ GcOK(y)
        /\ GcOK(t) /\ NextOK(t)
    BY <1>1 DEF InvOK
  <2>2. TypeOK
    BY <1>1
  <2> QED
    BY <2>1, <2>2 DEF OneGc, GcOK, InGc, NextOK, Place, StopPlaces, ResumePlaces,
       HeapPlaces, Wholes, Pauses, CollectorStops, TypeOK, Prepare, Goto, Become,
       locks, counts, work
<1>9. ASSUME NEW x \in Threads PROVE HeldOK(x)'
  <2>1. HeldOK(x) /\ HeldOK(t) /\ ListOK(x) /\ NextOK(t)
    BY <1>1 DEF InvOK
  <2>2. TypeOK
    BY <1>1
  <2> QED
    BY <2>1, <2>2 DEF HeldOK, Suspends, ListOK, NextOK, Place, TypeOK, Prepare, Goto, Become,
       locks, counts, work
<1>10. ASSUME NEW x \in Threads PROVE NewOK(x)'
  <2>1. NewOK(x) /\ NewOK(t) /\ ChildOK(t) /\ HeldOK(t) /\ NextOK(t)
    BY <1>1 DEF InvOK
  <2>2. TypeOK
    BY <1>1
  <2> QED
    BY <2>1, <2>2 DEF NewOK, NewPlaces, ChildOK, ParentPlaces, NextOK, Place, TypeOK,
       Prepare, Goto, Become, locks, counts, work
<1>11. ASSUME NEW x \in Threads PROVE ChildOK(x)'
  <2>1. /\ ChildOK(x) /\ ChildOK(t) /\ OneParent(x, t) /\ NewOK(t) /\ NewOK(x)
        /\ NextOK(t)
    BY <1>1 DEF InvOK
  <2>2. TypeOK
    BY <1>1
  <2> QED
    BY <2>1, <2>2, <1>1 DEF ChildOK, OneParent, ParentPlaces, NewOK, NewPlaces, NextOK,
       Place, TypeOK, Prepare, Goto, Become, locks, counts, work
<1>12. ASSUME NEW x \in Threads, NEW y \in Threads PROVE OneParent(x, y)'
  <2>1. OneParent(x, y) /\ ChildOK(x) /\ ChildOK(y)
    BY <1>1 DEF InvOK
  <2>2. TypeOK
    BY <1>1
  <2> QED
    BY <2>1, <2>2 DEF OneParent, ChildOK, NextOK, TypeOK, Prepare, Goto, Become, locks,
       counts, work
<1>13. ASSUME NEW x \in Threads, NEW y \in Threads PROVE StopOK(x, y)'
  <2>1. /\ StopOK(x, y) /\ StopOK(x, t) /\ NewOK(y) /\ NewOK(t) /\ HeapOK(x)
        /\ HeapOK(t) /\ GcOK(x) /\ ListOK(x) /\ ListOK(t) /\ ChildOK(t)
        /\ NextOK(t) /\ HeldOK(x) /\ OneGc(x, t)
    BY <1>1 DEF InvOK
  <2>2. TypeOK
    BY <1>1
  <2>3. Robbed(y)' <=> Robbed(y)
    BY DEF Robbed, Holders, Prepare, Goto, Become, locks, counts, work
  <2>4. /\ y \in held[x] /\ y \in threadList /\ suspendCount[y] = 0 => Robbed(y)
        /\ t \in held[x] /\ t \in threadList /\ suspendCount[t] = 0 => overlapped
    BY <1>2 DEF CountPos
  <2> QED
    BY <2>1, <2>2, <2>3, <2>4, <1>0, <1>1 DEF StopOK, Linking, NewOK, NewPlaces,
       HeapOK, ListOK, ChildOK, ParentPlaces, NextOK, HeldOK, OneParent, Place,
       StopPlaces, ResumePlaces, HeapPlaces, Wholes, Pauses, CollectorStops, InvOK,
       TypeOK, Prepare, Goto, Become, locks, counts, work
<1>14. ASSUME NEW x \in Threads, NEW y \in Threads PROVE SnapOK(x, y)'
  <2>1. /\ SnapOK(x, y) /\ HeldOK(x) /\ ListOK(x) /\ ListOK(t) /\ NewOK(y)
        /\ NextOK(t)
    BY <1>1 DEF InvOK
  <2>2. TypeOK
    BY <1>1
  <2> QED
    BY <2>1, <2>2 DEF SnapOK, HeldOK, ListOK, NewOK, NewPlaces, NextOK,
       TypeOK, Prepare, Goto, Become, locks, counts, work
<1>15. ASSUME NEW x \in Threads PROVE Balanced(x)'
  <2>1. Balanced(x)
    BY <1>1 DEF InvOK
  <2>2. UNCHANGED <<suspendCount, held>> /\ threadList' \subseteq threadList
    BY DEF Prepare, Goto, Become, locks, counts, work
  <2>3. Holders(x)' = Holders(x)
    BY <2>2 DEF Holders
  <2> QED BY <2>1, <2>2, <2>3, <1>0 DEF Balanced, Robbed
<1> QED
  BY <1>0, <1>3, <1>4, <1>5, <1>6, <1>7, <1>8, <1>9, <1>10, <1>11, <1>12, <1>13, <1>14, <1>15
     DEF IInv, InvOK

\* The invariant is kept when the child runs.
LEMMA ReleasedInv ==
  ASSUME IInv, Recorded, NEW t \in Threads, Released(t)
  PROVE  IInv'
<1> USE NobodyAssumption
<1>1. TypeOK /\ InvOK
  BY DEF IInv
<1>2. CountPos
  BY CountsPositive
<1>0. OverlapOK' /\ (overlapped => overlapped')
  BY RecordedKept
<1>3. TypeOK'
  BY <1>1 DEF TypeOK, Labels, Statuses, Stops, CollectorStops, InvOK, NextOK, Released,
     Revive, Goto, Become, Return, locks, waiting, counts, work
<1>4. ASSUME NEW x \in Threads PROVE NextOK(x)'
  <2>1. NextOK(x) /\ NextOK(t)
    BY <1>1 DEF InvOK
  <2>2. TypeOK
    BY <1>1
  <2> QED
    BY <2>1, <2>2 DEF NextOK, TypeOK, Released, Revive, Goto, Become, Return, locks,
       waiting, counts, work
<1>5. ASSUME NEW x \in Threads PROVE HeapOK(x)'
  <2>1. HeapOK(x) /\ HeapOK(t) /\ GcOK(t) /\ NextOK(t)
    BY <1>1 DEF InvOK
  <2>2. TypeOK
    BY <1>1
  <2> QED
    BY <2>1, <2>2 DEF HeapOK, GcOK, InGc, NextOK, Place, StopPlaces, ResumePlaces,
       HeapPlaces, Wholes, Pauses, CollectorStops, TypeOK, Released, Revive, Goto,
       Become, Return, locks, waiting, counts, work
<1>6. ASSUME NEW x \in Threads PROVE ListOK(x)'
  <2>1. ListOK(x) /\ ListOK(t) /\ NextOK(t)
    BY <1>1 DEF InvOK
  <2>2. TypeOK
    BY <1>1
  <2> QED
    BY <2>1, <2>2 DEF ListOK, NextOK, TypeOK, Released, Revive, Goto, Become, Return,
       locks, waiting, counts, work
<1>7. ASSUME NEW x \in Threads PROVE GcOK(x)'
  <2>1. /\ GcOK(x) /\ GcOK(t) /\ OneGc(x, t) /\ HeapOK(t) /\ HeapOK(x)
        /\ NextOK(t)
    BY <1>1 DEF InvOK
  <2>2. TypeOK
    BY <1>1
  <2> QED
    BY <2>1, <2>2 DEF GcOK, InGc, OneGc, HeapOK, NextOK, Place, StopPlaces,
       ResumePlaces, HeapPlaces, Wholes, Pauses, CollectorStops, TypeOK, Released,
       Revive, Goto, Become, Return, locks, waiting, counts, work
<1>8. ASSUME NEW x \in Threads, NEW y \in Threads PROVE OneGc(x, y)'
  <2>1. /\ OneGc(x, y) /\ OneGc(x, t) /\ OneGc(t, y) /\ GcOK(x) /\ GcOK(y)
        /\ GcOK(t) /\ NextOK(t)
    BY <1>1 DEF InvOK
  <2>2. TypeOK
    BY <1>1
  <2> QED
    BY <2>1, <2>2 DEF OneGc, GcOK, InGc, NextOK, Place, StopPlaces, ResumePlaces,
       HeapPlaces, Wholes, Pauses, CollectorStops, TypeOK, Released, Revive, Goto,
       Become, Return, locks, waiting, counts, work
<1>9. ASSUME NEW x \in Threads PROVE HeldOK(x)'
  <2>1. HeldOK(x) /\ HeldOK(t) /\ ListOK(x) /\ NextOK(t)
    BY <1>1 DEF InvOK
  <2>2. TypeOK
    BY <1>1
  <2> QED
    BY <2>1, <2>2 DEF HeldOK, Suspends, ListOK, NextOK, Place, TypeOK, Released, Revive, Goto,
       Become, Return, locks, waiting, counts, work
<1>10. ASSUME NEW x \in Threads PROVE NewOK(x)'
  <2>1. NewOK(x) /\ NewOK(t) /\ ChildOK(t) /\ HeldOK(t) /\ NextOK(t)
    BY <1>1 DEF InvOK
  <2>2. TypeOK
    BY <1>1
  <2> QED
    BY <2>1, <2>2 DEF NewOK, NewPlaces, ChildOK, ParentPlaces, NextOK, Place, TypeOK,
       Released, Revive, Goto, Become, Return, locks, waiting, counts, work
<1>11. ASSUME NEW x \in Threads PROVE ChildOK(x)'
  <2>1. /\ ChildOK(x) /\ ChildOK(t) /\ OneParent(x, t) /\ NewOK(t) /\ NewOK(x)
        /\ NextOK(t)
    BY <1>1 DEF InvOK
  <2>2. TypeOK
    BY <1>1
  <2> QED
    BY <2>1, <2>2, <1>1 DEF ChildOK, OneParent, ParentPlaces, NewOK, NewPlaces, NextOK,
       Place, TypeOK, Released, Revive, Goto, Become, Return, locks, waiting, counts,
       work
<1>12. ASSUME NEW x \in Threads, NEW y \in Threads PROVE OneParent(x, y)'
  <2>1. OneParent(x, y) /\ ChildOK(x) /\ ChildOK(y)
    BY <1>1 DEF InvOK
  <2>2. TypeOK
    BY <1>1
  <2> QED
    BY <2>1, <2>2 DEF OneParent, ChildOK, NextOK, TypeOK, Released, Revive, Goto,
       Become, Return, locks, waiting, counts, work
<1>13. ASSUME NEW x \in Threads, NEW y \in Threads PROVE StopOK(x, y)'
  <2>1. /\ StopOK(x, y) /\ StopOK(x, t) /\ NewOK(y) /\ NewOK(t) /\ HeapOK(x)
        /\ HeapOK(t) /\ GcOK(x) /\ ListOK(x) /\ ListOK(t) /\ ChildOK(t)
        /\ NextOK(t) /\ HeldOK(x) /\ OneGc(x, t)
    BY <1>1 DEF InvOK
  <2>2. TypeOK
    BY <1>1
  <2>3. Robbed(y)' <=> Robbed(y)
    BY DEF Robbed, Holders, Released, Revive, Goto, Become, Return, locks, waiting,
       counts, work
  <2>4. /\ y \in held[x] /\ y \in threadList /\ suspendCount[y] = 0 => Robbed(y)
        /\ t \in held[x] /\ t \in threadList /\ suspendCount[t] = 0 => overlapped
    BY <1>2 DEF CountPos
  <2> QED
    BY <2>1, <2>2, <2>3, <2>4, <1>0, <1>1 DEF StopOK, Linking, NewOK, NewPlaces,
       HeapOK, ListOK, ChildOK, ParentPlaces, NextOK, HeldOK, OneParent, Place,
       StopPlaces, ResumePlaces, HeapPlaces, Wholes, Pauses, CollectorStops, InvOK,
       TypeOK, Released, Revive, Goto, Become, Return, locks, waiting, counts, work
<1>14. ASSUME NEW x \in Threads, NEW y \in Threads PROVE SnapOK(x, y)'
  <2>1. /\ SnapOK(x, y) /\ HeldOK(x) /\ ListOK(x) /\ ListOK(t) /\ NewOK(y)
        /\ NextOK(t)
    BY <1>1 DEF InvOK
  <2>2. TypeOK
    BY <1>1
  <2> QED
    BY <2>1, <2>2 DEF SnapOK, HeldOK, ListOK, NewOK, NewPlaces, NextOK,
       TypeOK, Released, Revive, Goto, Become, Return, locks, waiting, counts, work
<1>15. ASSUME NEW x \in Threads PROVE Balanced(x)'
  <2>1. Balanced(x)
    BY <1>1 DEF InvOK
  <2>2. UNCHANGED <<suspendCount, held>> /\ threadList' \subseteq threadList
    BY DEF Released, Revive, Goto, Become, Return, locks, waiting, counts, work
  <2>3. Holders(x)' = Holders(x)
    BY <2>2 DEF Holders
  <2> QED BY <2>1, <2>2, <2>3, <1>0 DEF Balanced, Robbed
<1> QED
  BY <1>0, <1>3, <1>4, <1>5, <1>6, <1>7, <1>8, <1>9, <1>10, <1>11, <1>12, <1>13, <1>14, <1>15
     DEF IInv, InvOK

(***************************************************************************)
(* The theorems.                                                           *)
(***************************************************************************)
\* The invariant holds when the VM has started.
LEMMA InitInv == MCInit => IInv
<1> SUFFICES ASSUME MCInit PROVE IInv
  OBVIOUS
<1>0. Init /\ overlapped = FALSE
  BY DEF MCInit
<1> USE NobodyAssumption
<1>1. TypeOK
  <2>1. status \in [Threads -> Statuses]
    BY <1>0 DEF Init, Statuses
  <2>2. at \in [Threads -> Labels] /\ next \in [Threads -> Labels]
    BY <1>0 DEF Init, Labels
  <2>3. /\ suspendCount \in [Threads -> Nat] /\ sumSuspendCount \in Int
        /\ todo \in [Threads -> SUBSET Threads] /\ held \in [Threads -> SUBSET Threads]
    BY <1>0 DEF Init
  <2>4. /\ child \in [Threads -> Threads \cup {Nobody}] /\ escaped \in [Threads -> BOOLEAN]
        /\ stop \in [Threads -> Stops]
    BY <1>0 DEF Init, Stops
  <2> QED BY <1>0, <2>1, <2>2, <2>3, <2>4 DEF Init, TypeOK
<1>2. ASSUME NEW t \in Threads
      PROVE  /\ at[t] \in {"detached", "unborn", "run"} /\ held[t] = {}
             /\ child[t] = Nobody /\ suspendCount[t] = 0
             /\ (t \in threadList) <=> (at[t] = "run")
             /\ at[t] = "run" => status[t] = "RUNNING"
             /\ at[t] # "run" => status[t] = "INITIALIZING"
  BY <1>0 DEF Init, New
<1>3. ASSUME NEW t \in Threads
      PROVE  /\ NextOK(t) /\ HeapOK(t) /\ ListOK(t) /\ GcOK(t) /\ HeldOK(t)
             /\ NewOK(t) /\ ChildOK(t)
  BY <1>1, <1>2 DEF NextOK, HeapOK, ListOK, GcOK, InGc, HeldOK, NewOK, ChildOK, ParentPlaces,
           NewPlaces, Place, StopPlaces, ResumePlaces, HeapPlaces, TypeOK
<1>4. ASSUME NEW s \in Threads, NEW t \in Threads
      PROVE  /\ OneGc(s, t) /\ OneParent(s, t) /\ StopOK(s, t) /\ SnapOK(s, t)
  BY <1>1, <1>2 DEF OneGc, InGc, OneParent, StopOK, SnapOK, Place, StopPlaces, ResumePlaces
<1>5. ASSUME NEW t \in Threads PROVE Balanced(t)
  <2>1. Holders(t) = {}
    BY <1>1, <1>2 DEF Holders, TypeOK
  <2> QED BY <1>2, <2>1, FS_EmptySet DEF Balanced, Robbed
<1>6. OverlapOK
  BY <1>0, <1>2 DEF OverlapOK, Overlap, Suspends
<1> QED BY <1>1, <1>3, <1>4, <1>5, <1>6 DEF IInv, InvOK

\* The invariant is kept by suspension as the suspended thread sees it.
LEMMA SuspensionInv ==
  ASSUME IInv, Recorded, NEW t \in Threads, Suspension(t)
  PROVE  IInv'
<1>1. CASE Checked(t)
  BY <1>1, CheckedInv
<1>2. CASE SuspendedAtCheck(t)
  BY <1>2, SuspendedAtCheckInv
<1>3. CASE SuspendedAtLock(t)
  BY <1>3, SuspendedAtLockInv
<1>4. CASE Resumed(t)
  BY <1>4, ResumedInv
<1>5. CASE SleepAgain(t)
  BY <1>5, SleepAgainInv
<1> QED
  BY <1>1, <1>2, <1>3, <1>4, <1>5 DEF Suspension

\* The invariant is kept by a use of the thread list.
LEMMA ListUseInv ==
  ASSUME IInv, Recorded, NEW t \in Threads, ListUse(t)
  PROVE  IInv'
<1>1. CASE AcquireList(t)
  BY <1>1, AcquireListInv
<1>2. CASE LeaveList(t)
  BY <1>2, LeaveListInv
<1>3. ASSUME NEW u \in Threads, SuspendOne(t, u) PROVE IInv'
  BY <1>3, SuspendOneInv
<1>4. CASE AwaitOne(t)
  BY <1>4, AwaitOneInv
<1>5. CASE ResumeOne(t)
  BY <1>5, ResumeOneInv
<1> QED
  BY <1>1, <1>2, <1>3, <1>4, <1>5 DEF ListUse

\* The invariant is kept by a stop of the world.
LEMMA StopTheWorldInv ==
  ASSUME IInv, Recorded, NEW t \in Threads, StopTheWorld(t)
  PROVE  IInv'
<1>1. CASE TrySuspendLock(t)
  BY <1>1, TrySuspendLockInv
<1>2. CASE CountAll(t)
  BY <1>2, CountAllInv
<1>3. ASSUME NEW u \in Threads, AwaitStop(t, u) PROVE IInv'
  BY <1>3, AwaitStopInv
<1>4. CASE WorldStops(t)
  BY <1>4, WorldStopsInv
<1>5. CASE UncountAll(t)
  BY <1>5, UncountAllInv
<1>6. CASE ReleaseSuspendLock(t)
  BY <1>6, ReleaseSuspendLockInv
<1>7. CASE Broadcast(t)
  BY <1>7, BroadcastInv
<1> QED
  BY <1>1, <1>2, <1>3, <1>4, <1>5, <1>6, <1>7 DEF StopTheWorld

\* The invariant is kept by a use of the heap.
LEMMA HeapUseInv ==
  ASSUME IInv, Recorded, NEW t \in Threads, HeapUse(t)
  PROVE  IInv'
<1>1. CASE AcquireHeap(t)
  BY <1>1, AcquireHeapInv
<1>2. CASE Allocated(t)
  BY <1>2, AllocatedInv
<1>3. CASE WaitForGc(t)
  BY <1>3, WaitForGcInv
<1>4. CASE GcOver(t)
  BY <1>4, GcOverInv
<1>5. CASE CollectForMalloc(t)
  BY <1>5, CollectForMallocInv
<1>6. CASE DaemonWakes(t)
  BY <1>6, DaemonWakesInv
<1>7. CASE CollectConcurrently(t)
  BY <1>7, CollectConcurrentlyInv
<1>8. CASE Collect(t)
  BY <1>8, CollectInv
<1>9. CASE MarkStopped(t)
  BY <1>9, MarkStoppedInv
<1>10. CASE DumpStopped(t)
  BY <1>10, DumpStoppedInv
<1>11. CASE Dumped(t)
  BY <1>11, DumpedInv
<1>12. CASE MarkConcurrently(t)
  BY <1>12, MarkConcurrentlyInv
<1>13. CASE Sweep(t)
  BY <1>13, SweepInv
<1>14. CASE FinishGc(t)
  BY <1>14, FinishGcInv
<1> QED
  BY <1>1, <1>2, <1>3, <1>4, <1>5, <1>6, <1>7, <1>8, <1>9, <1>10, <1>11, <1>12, <1>13,
     <1>14 DEF HeapUse

\* The invariant is kept by a thread that comes or goes.
LEMMA LifetimeInv ==
  ASSUME IInv, Recorded, NEW t \in Threads, Lifetime(t)
  PROVE  IInv'
<1>1. CASE PulseHeapLock(t)
  BY <1>1, PulseHeapLockInv
<1>2. CASE Unlink(t)
  BY <1>2, UnlinkInv
<1>3. ASSUME NEW c \in Threads, MarkStarted(t, c) PROVE IInv'
  BY <1>3, MarkStartedInv
<1>4. CASE AlreadyStarted(t)
  BY <1>4, AlreadyStartedInv
<1>5. CASE Spawn(t)
  BY <1>5, SpawnInv
<1>6. CASE Spawned(t)
  BY <1>6, SpawnedInv
<1>7. CASE Join(t)
  BY <1>7, JoinInv
<1>8. CASE WaitForChild(t)
  BY <1>8, WaitForChildInv
<1>9. CASE LinkChild(t)
  BY <1>9, LinkChildInv
<1>10. CASE Linked(t)
  BY <1>10, LinkedInv
<1>11. CASE ReleaseChild(t)
  BY <1>11, ReleaseChildInv
<1>12. CASE Prepare(t)
  BY <1>12, PrepareInv
<1>13. CASE WaitForParent(t)
  BY <1>13, WaitForParentInv
<1>14. CASE Released(t)
  BY <1>14, ReleasedInv
<1> QED
  BY <1>1, <1>2, <1>3, <1>4, <1>5, <1>6, <1>7, <1>8, <1>9, <1>10, <1>11, <1>12, <1>13,
     <1>14 DEF Lifetime

\* The invariant is kept by an operation that begins.
LEMMA BeginInv ==
  ASSUME IInv, Recorded, NEW t \in Threads, Begin(t)
  PROVE  IInv'
<1>1. CASE ToNative(t)
  BY <1>1, ToNativeInv
<1>2. CASE FromNative(t)
  BY <1>2, FromNativeInv
<1>3. CASE UseList(t)
  BY <1>3, UseListInv
<1>4. CASE Allocate(t)
  BY <1>4, AllocateInv
<1>5. CASE DaemonSleeps(t)
  BY <1>5, DaemonSleepsInv
<1>6. CASE Dump(t)
  BY <1>6, DumpInv
<1>7. CASE Attach(t)
  BY <1>7, AttachInv
<1>8. CASE Detach(t)
  BY <1>8, DetachInv
<1>9. CASE Create(t)
  BY <1>9, CreateInv
<1> QED
  BY <1>1, <1>2, <1>3, <1>4, <1>5, <1>6, <1>7, <1>8, <1>9 DEF Begin

\* The invariant is kept while nothing but the waiters for a start changes.
LEMMA StillInv ==
  ASSUME IInv, OverlapOK', overlapped => overlapped',
         starters' \subseteq starters,
         UNCHANGED <<status, counts, threadList, locks, gcRunning, sleepers, gcWaiters,
                     at, next, work, escaped>>
  PROVE  IInv'
<1> USE DEF counts, locks, work
<1>1. TypeOK'
  BY DEF IInv, TypeOK
<1>2. ASSUME NEW t \in Threads
      PROVE  /\ NextOK(t)' /\ HeapOK(t)' /\ ListOK(t)' /\ GcOK(t)' /\ HeldOK(t)'
             /\ NewOK(t)' /\ ChildOK(t)'
  BY DEF IInv, InvOK, NextOK, HeapOK, ListOK, GcOK, InGc, HeldOK, Suspends, NewOK,
     ChildOK, Place
<1>3. ASSUME NEW s \in Threads, NEW t \in Threads
      PROVE  OneGc(s, t)' /\ OneParent(s, t)' /\ SnapOK(s, t)'
  BY DEF IInv, InvOK, OneGc, InGc, OneParent, SnapOK, Place
<1>4. ASSUME NEW t \in Threads PROVE Balanced(t)' /\ (Robbed(t)' <=> Robbed(t))
  BY DEF IInv, InvOK, Balanced, Robbed, Holders
<1>5. ASSUME NEW s \in Threads, NEW t \in Threads PROVE StopOK(s, t)'
  BY <1>4 DEF IInv, InvOK, StopOK, Linking
<1> QED BY <1>1, <1>2, <1>3, <1>4, <1>5 DEF IInv, InvOK

\* Every step keeps the invariant.
LEMMA StepInv ==
  ASSUME IInv, [MCNext]_<<vars, overlapped>>
  PROVE  IInv'
<1>1. CASE UNCHANGED <<vars, overlapped>>
  <2>1. OverlapOK'
    BY <1>1 DEF IInv, OverlapOK, Overlap, Suspends, vars
  <2> QED BY <1>1, <2>1, StillInv DEF vars, waiting
<1>2. CASE MCNext
  <2>1. Next /\ Recorded
    BY <1>2 DEF MCNext, Recorded
  <2>2. ASSUME NEW t \in Threads, SafePoint(t) PROVE IInv'
    BY <2>1, <2>2, SafePointInv
  <2>3. ASSUME NEW t \in Threads, Begin(t) PROVE IInv'
    BY <2>1, <2>3, BeginInv
  <2>4. ASSUME NEW t \in Threads, Continue(t) PROVE IInv'
    BY <2>1, <2>4, SuspensionInv, ListUseInv, StopTheWorldInv, HeapUseInv, LifetimeInv
       DEF Continue
  <2>5. CASE OthersStart
    BY <2>1, <2>5, RecordedKept, StillInv DEF OthersStart
  <2> QED BY <2>1, <2>2, <2>3, <2>4, <2>5 DEF Next
<1> QED BY <1>1, <1>2

\* The invariant holds throughout.
THEOREM Invariance == MCSpec => []IInv
<1>1. MCInit => IInv
  BY InitInv
<1>2. IInv /\ [MCNext]_<<vars, overlapped>> => IInv'
  BY StepInv
<1> QED BY <1>1, <1>2, PTL DEF MCSpec

\* Every thread stays in a place of the code, with a status, a count that is never
\* negative, and locks that have one owner (TypeOK).
THEOREM TypeCorrect == MCSpec => []TypeOK
<1>1. IInv => TypeOK
  BY DEF IInv
<1> QED BY <1>1, Invariance, PTL

\* While a collector has the world stopped nobody else executes, save who came back
\* from dvmLockThreadList(), was resumed by another's dvmResumeAllThreads() or, after two
\* stops have overlapped, joined since the collector counted (dvmSuspendAllThreads,
\* dvmChangeStatus, dvmAttachCurrentThread, dvmCreateInterpThread).
THEOREM WorldStaysStopped == MCSpec => []WorldStopped
<1>1. ASSUME IInv, NEW s \in Threads, NEW t \in Threads,
             StoppedForGc(s), t # s, Executing(t)
      PROVE  escaped[t] \/ Robbed(t) \/ (overlapped /\ t \notin held[s])
  <2>1. /\ at[s] = "stopped" /\ stop[s] # "dump"
        /\ status[t] = "RUNNING" /\ at[t] # "check"
    BY <1>1 DEF StoppedForGc, Executing, CollectorStops
  <2>2. NewOK(t) /\ HeldOK(s) /\ StopOK(s, t)
    BY <1>1 DEF IInv, InvOK
  <2>3. t \in threadList /\ todo[s] = {} /\ at[t] # "pulse"
    BY <2>1, <2>2 DEF NewOK, HeldOK
  <2>4. ~Linking(s, t)
    BY <2>1 DEF Linking
  <2> QED BY <1>1, <2>1, <2>2, <2>3, <2>4 DEF StopOK
<1>2. IInv => WorldStopped
  BY <1>1 DEF WorldStopped
<1> QED BY <1>2, Invariance, PTL

\* The thread whose stack VMStack copies does not execute meanwhile (dvmSuspendThread,
\* waitForThreadSuspend, getTraceBuf).
THEOREM SnapshotsStill == MCSpec => []SnapshotStill
<1>1. IInv => SnapshotStill
  BY DEF IInv, InvOK, SnapOK, SnapshotStill, Executing
<1> QED BY <1>1, Invariance, PTL

\* No thread of the list is suspended more often than there are suspensions to be
\* undone, and less often only once two stops of the world have overlapped
\* (dvmSuspendAllThreads, dvmResumeAllThreads, dvmSuspendThread, dvmResumeThread).
THEOREM CountsStayBalanced == MCSpec => []CountsBalanced
<1>1. IInv => CountsBalanced
  BY DEF IInv, InvOK, Balanced, CountsBalanced, TypeOK
<1> QED BY <1>1, Invariance, PTL
=============================================================================
