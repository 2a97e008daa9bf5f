------------------------------- MODULE MarkSweep -------------------------------
(***************************************************************************)
(* The collector of Dalvik's heap (vm/alloc): dvmCollectGarbageInternal()  *)
(* with marking, the card table, Reference objects and sweeping.  A        *)
(* concurrent collection stops the threads twice, for the roots and for    *)
(* what they changed in the meantime (how they are stopped is module       *)
(* ThreadSuspend's subject: here it is one step, possible only at their    *)
(* safe points).  In between they go on loading and storing references     *)
(* while the collector reads one field after another.                      *)
(*                                                                         *)
(* Addresses matter in two ways: Word says which word of the bitmaps has   *)
(* an object's bit, CardOf which byte of the card table stands for it.     *)
(* Classes are left out as objects (they are roots here), and so are       *)
(* interned strings, weak JNI globals, the queues that cleared References  *)
(* are put on, and the stores by which the collector chains References:    *)
(* they dirty cards, which only adds work.                                 *)
(***************************************************************************)
EXTENDS Naturals

CONSTANTS
  Threads, Objects, Zygote, Null, Fields, Zombie, Kinds, \* see ObjectHeap
  WordCount,
  Word,     \* the word of an object's bit
  Cards,
  CardOf

ASSUME HeapAssumption == /\ Null \notin Objects /\ Zygote \subseteq Objects /\ Zombie \in Fields
                         /\ Kinds \in [Objects -> SUBSET {"plain", "soft", "weak", "finalizer",
                                                           "phantom"}]
ASSUME WordAssumption == WordCount \in Nat /\ Word \in [Objects -> 0..WordCount - 1]
ASSUME CardAssumption == CardOf \in [Objects -> Cards]

VARIABLES
  used, kind, field, referent, root, \* see ObjectHeap
  barrier,  \* the object t has stored a reference to and not yet dirtied the card of
  card,     \* the dirty cards
  live,     \* GcHeap.heapSource->liveBits
  mark,     \* and markBits
  gc,       \* the GcSpec of the collection, if there is one
  phase,    \* how far it has got
  stopped,  \* whether the threads are suspended
  finger,   \* GcMarkContext.finger, in words
  batch,    \* objects the current loop has yet to visit
  stack,    \* GcMarkContext.stack, in any order
  cur,      \* the object being scanned
  left,     \* and those of its fields not yet read
  pending,  \* the References on one of the lists of GcHeap
  odd       \* preserveSomeSoftReferences()'s counter & 1

heap  == <<used, kind, field, referent, root>>
scan  == <<batch, stack, cur, left>>
vars  == <<heap, barrier, card, live, mark, gc, phase, stopped, finger, scan, pending, odd>>

Heap == INSTANCE ObjectHeap
Ref  == Objects \cup {Null}

Concurrent == [partial |-> TRUE,  concurrent |-> TRUE,  preserve |-> TRUE]
ForMalloc  == [partial |-> TRUE,  concurrent |-> FALSE, preserve |-> TRUE]
Explicit   == [partial |-> FALSE, concurrent |-> TRUE,  preserve |-> TRUE]
BeforeOom  == [partial |-> FALSE, concurrent |-> FALSE, preserve |-> FALSE]
GcSpecs    == {Concurrent, ForMalloc, Explicit, BeforeOom}
Phases == {"idle", "walk", "trace", "cards", "soft", "finalize", "zombies", "swap", "sweep"}

Init ==
  /\ Heap!Init
  /\ barrier = [t \in Threads |-> Null]
  /\ card = {} /\ live = Zygote /\ mark = {}
  /\ gc = Concurrent
  /\ phase = "idle" /\ stopped = FALSE
  /\ finger = 0 /\ batch = {} /\ stack = {} /\ cur = Null /\ left = {}
  /\ pending = {} /\ odd = FALSE

collector == <<live, mark, gc, phase, stopped, finger, scan, pending, odd>>

(***************************************************************************)
(* The threads.  A reference is stored first and its object's card dirtied *)
(* next; there is no safe point in between.  The header of a new object    *)
(* (DVM_OBJECT_INIT) is such a store too, and is all the barrier a clone's *)
(* fields get.                                                             *)
(***************************************************************************)
Runs(t) == ~stopped /\ barrier[t] = Null
SafePoint == \A t \in Threads : barrier[t] = Null

New(t, o) ==
  /\ barrier' = [barrier EXCEPT ![t] = o]
  /\ live' = live \cup {o}
  /\ UNCHANGED <<card, mark, gc, phase, stopped, finger, scan, pending, odd>>
Allocate(t, o, k) == Runs(t) /\ o \notin Zygote /\ Heap!Allocate(t, o, k) /\ New(t, o)
Clone(t, o, p)    == Runs(t) /\ o \notin Zygote /\ Heap!Clone(t, o, p) /\ New(t, o)

Load(t, o, f) == Runs(t) /\ Heap!Load(t, o, f) /\ UNCHANGED <<barrier, card, collector>>
Get(t, o)     == Runs(t) /\ Heap!Get(t, o)     /\ UNCHANGED <<barrier, card, collector>>
Drop(t, o)    == Runs(t) /\ Heap!Drop(t, o)    /\ UNCHANGED <<barrier, card, collector>>
Clear(t, o)   == Runs(t) /\ Heap!Clear(t, o)   /\ UNCHANGED <<barrier, card, collector>>

\* Mutant: a store is not told to the collector.
StoreUnseen(t, o, f, v) ==
  /\ Runs(t) /\ Heap!Store(t, o, f, v)
  /\ UNCHANGED <<barrier, card, collector>>
Store(t, o, f, v) ==
  /\ Runs(t) /\ Heap!Store(t, o, f, v)
  /\ barrier' = [barrier EXCEPT ![t] = IF v = Null THEN Null ELSE o]
  /\ UNCHANGED <<card, collector>>
SetReferent(t, o, r) ==
  /\ Runs(t) /\ Heap!SetReferent(t, o, r)
  /\ barrier' = [barrier EXCEPT ![t] = o]
  /\ UNCHANGED <<card, collector>>
MarkCard(t) ==
  /\ barrier[t] # Null
  /\ card' = card \cup {CardOf[barrier[t]]}
  /\ barrier' = [barrier EXCEPT ![t] = Null]
  /\ UNCHANGED <<heap, collector>>

(***************************************************************************)
(* Marking.                                                                *)
(***************************************************************************)
White(o) == o # Null /\ o \notin mark

\* Mutant: whether the object was marked before is not asked.
PushMarked(S) == stack' = stack \cup {o \in S : Word[o] < finger}
\* markObject(): what the finger has passed goes on the stack
Push(S) == stack' = stack \cup {o \in S : o \notin mark /\ Word[o] < finger}
MarkAll(S) == mark' = mark \cup S /\ Push(S)

\* the loops of the present phase are done
Idle == cur = Null /\ batch = {} /\ stack = {}

\* the first pause: immune objects and roots are marked, none is scanned
Begin(spec) ==
  /\ phase = "idle" /\ SafePoint
  /\ gc' = spec /\ phase' = "walk" /\ finger' = 0
  /\ mark' = mark \cup Heap!Roots \cup (IF spec.partial THEN live \cap Zygote ELSE {})
  /\ stopped' = ~spec.concurrent
  /\ card' = IF spec.concurrent THEN {} ELSE card
  /\ UNCHANGED <<heap, barrier, live, scan, pending, odd>>

\* dvmHeapBitmapScanWalk(): the next word of the bitmap is read
WalkWord ==
  /\ phase = "walk" /\ cur = Null /\ batch = {} /\ finger < WordCount
  /\ batch' = {o \in mark : Word[o] = finger}
  /\ finger' = finger + 1
  /\ UNCHANGED <<heap, barrier, card, live, mark, gc, phase, stopped, stack, cur, left,
                 pending, odd>>
WalkEnds ==
  /\ phase = "walk" /\ cur = Null /\ batch = {} /\ finger = WordCount
  /\ phase' = "trace"
  /\ UNCHANGED <<heap, barrier, card, live, mark, gc, stopped, finger, scan, pending, odd>>

Visit(o) == cur' = o /\ left' = Fields
ScanNext(o) ==
  /\ phase \in {"walk", "cards"} /\ cur = Null /\ o \in batch
  /\ Visit(o) /\ batch' = batch \ {o}
  /\ UNCHANGED <<heap, barrier, card, live, mark, gc, phase, stopped, finger, stack, pending,
                 odd>>
\* processMarkStack()
Pop(o) ==
  /\ phase \in {"trace", "cards", "soft", "zombies"}
  /\ cur = Null /\ batch = {} /\ o \in stack
  /\ Visit(o) /\ stack' = stack \ {o}
  /\ UNCHANGED <<heap, barrier, card, live, mark, gc, phase, stopped, finger, batch, pending,
                 odd>>

\* scanFields(), a field at a time
ScanField(f) ==
  /\ cur # Null /\ f \in left
  /\ left' = left \ {f}
  /\ MarkAll({field[cur][f]} \ {Null})
  /\ UNCHANGED <<heap, barrier, card, live, gc, phase, stopped, finger, batch, cur, pending,
                 odd>>
\* delayReferenceReferent()
ScanEnds ==
  /\ cur # Null /\ left = {}
  /\ pending' = pending \cup {o \in {cur} : kind[o] # "plain" /\ White(referent[o])}
  /\ cur' = Null
  /\ UNCHANGED <<heap, barrier, card, live, mark, gc, phase, stopped, finger, batch, stack,
                 left, odd>>

\* Mutant: the roots are not marked again.
RemarkCardsOnly ==
  /\ phase = "trace" /\ gc.concurrent /\ Idle /\ SafePoint
  /\ stopped' = TRUE /\ phase' = "cards"
  /\ batch' = {o \in mark : CardOf[o] \in card}
  /\ UNCHANGED <<heap, barrier, card, live, mark, gc, finger, stack, cur, left, pending, odd>>
\* the second pause: roots again, and what is marked on dirty cards is scanned again
Remark ==
  /\ phase = "trace" /\ gc.concurrent /\ Idle /\ SafePoint
  /\ stopped' = TRUE /\ phase' = "cards"
  /\ MarkAll(Heap!Roots)
  /\ batch' = {o \in mark : CardOf[o] \in card}
  /\ UNCHANGED <<heap, barrier, card, live, gc, finger, cur, left, pending, odd>>

(***************************************************************************)
(* dvmHeapProcessReferences().                                             *)
(***************************************************************************)
OfKind(S) == {o \in pending : kind[o] \in S}

BeginReferences ==
  /\ phase = (IF gc.concurrent THEN "cards" ELSE "trace") /\ Idle
  /\ phase' = "soft"
  /\ batch' = IF gc.preserve THEN OfKind({"soft"}) ELSE {}
  /\ UNCHANGED <<heap, barrier, card, live, mark, gc, stopped, finger, stack, cur, left,
                 pending, odd>>
\* preserveSomeSoftReferences(): every other white referent is saved
Preserve(o) ==
  /\ phase = "soft" /\ o \in batch
  /\ batch' = batch \ {o}
  /\ odd' = IF White(referent[o]) THEN ~odd ELSE odd
  /\ LET saved == White(referent[o]) /\ ~odd IN
       /\ MarkAll(IF saved THEN {referent[o]} ELSE {})
       /\ pending' = IF saved \/ ~White(referent[o]) THEN pending \ {o} ELSE pending
  /\ UNCHANGED <<heap, barrier, card, live, gc, phase, stopped, finger, cur, left>>

\* clearWhiteReferences()
ClearWhite(S) ==
  /\ Heap!Forget({o \in OfKind(S) : White(referent[o])})
  /\ pending' = pending \ OfKind(S)
  /\ odd' = FALSE
  /\ UNCHANGED <<used, kind, field, root, barrier, card, live, mark, gc, stopped, finger, scan>>
ClearSoftAndWeak ==
  /\ phase = "soft" /\ Idle /\ phase' = "finalize"
  /\ ClearWhite({"soft", "weak"})

\* enqueueFinalizerReferences()
EnqueueFinalizers ==
  /\ phase = "finalize" /\ phase' = "zombies"
  /\ \E R \in SUBSET OfKind({"finalizer"}) :
       LET saved == {referent[o] : o \in R} IN
       /\ \A o \in R : White(referent[o])
       /\ \A o, p \in R : referent[o] = referent[p] => o = p
       /\ saved = {referent[o] : o \in OfKind({"finalizer"})} \ (mark \cup {Null})
       /\ MarkAll(saved)
       /\ field' = [o \in Objects |-> IF o \in R
                                      THEN [field[o] EXCEPT ![Zombie] = referent[o]]
                                      ELSE field[o]]
       /\ Heap!Forget(R)
  /\ pending' = pending \ OfKind({"finalizer"})
  /\ UNCHANGED <<used, kind, root, barrier, card, live, gc, stopped, finger, batch, cur, left,
                 odd>>
ClearRest ==
  /\ phase = "zombies" /\ Idle /\ phase' = "swap"
  /\ ClearWhite({"soft", "weak", "phantom"})

(***************************************************************************)
(* Sweeping: what has a bit in the old live bits and none in the new ones. *)
(***************************************************************************)
Swap ==
  /\ phase = "swap" /\ phase' = "sweep"
  /\ live' = mark /\ mark' = live
  /\ stopped' = ~gc.concurrent
  /\ finger' = 0
  /\ UNCHANGED <<heap, barrier, card, gc, scan, pending, odd>>
SweepWord ==
  /\ phase = "sweep" /\ finger < WordCount
  /\ finger' = finger + 1
  /\ batch' = batch \cup {o \in mark \ live : Word[o] = finger}
  /\ UNCHANGED <<heap, barrier, card, live, mark, gc, phase, stopped, stack, cur, left,
                 pending, odd>>
\* sweepBitmapCallback(); the chunks of the zygote's heaps are only accounted for
FreeList ==
  /\ phase = "sweep" /\ batch # {}
  /\ Heap!Free(batch) /\ batch' = {}
  /\ UNCHANGED <<barrier, card, live, mark, gc, phase, stopped,
                 finger, stack, cur, left, pending, odd>>
\* Mutant: the mark bits are left as they are.
FinishUnzeroed ==
  /\ phase = "sweep" /\ finger = WordCount /\ batch = {}
  /\ phase' = "idle" /\ gc' = Concurrent /\ stopped' = FALSE /\ finger' = 0
  /\ UNCHANGED <<heap, barrier, card, live, mark, scan, pending, odd>>
Finish ==
  /\ phase = "sweep" /\ finger = WordCount /\ batch = {}
  /\ phase' = "idle" /\ gc' = Concurrent /\ stopped' = FALSE /\ mark' = {} /\ finger' = 0
  /\ UNCHANGED <<heap, barrier, card, live, scan, pending, odd>>

(***************************************************************************)
(* The specification.                                                      *)
(***************************************************************************)
Mutate(t) ==
  \/ \E o \in Objects :
       \/ \E k \in Heap!AllKinds : Allocate(t, o, k)
       \/ \E p \in Objects : Clone(t, o, p) \/ SetReferent(t, o, p)
       \/ \E f \in Fields : Load(t, o, f) \/ (\E v \in Ref : Store(t, o, f, v))
       \/ Get(t, o) \/ Drop(t, o) \/ Clear(t, o)
  \/ MarkCard(t)
Mark ==
  \/ WalkWord \/ WalkEnds \/ ScanEnds \/ Remark
  \/ \E o \in Objects : ScanNext(o) \/ Pop(o)
  \/ \E f \in Fields : ScanField(f)
Collect ==
  \/ Mark \/ BeginReferences \/ ClearSoftAndWeak \/ EnqueueFinalizers \/ ClearRest
  \/ \E o \in Objects : Preserve(o)
  \/ Swap \/ SweepWord \/ FreeList \/ Finish
Next == (\E t \in Threads : Mutate(t)) \/ Collect \/ (\E spec \in GcSpecs : Begin(spec))

\* what has begun goes on, and threads that are asked to stop do (ThreadSuspend)
Fairness == /\ WF_vars(Collect) /\ SF_vars(Remark)
            /\ \A t \in Threads : WF_vars(MarkCard(t))
Spec == Init /\ [][Next]_vars /\ Fairness

(***************************************************************************)
(* Properties.                                                             *)
(***************************************************************************)
\* Every variable holds a value of its kind.
TypeOK ==
  /\ used \in SUBSET Objects
  /\ kind \in [Objects -> Heap!AllKinds]
  /\ field \in [Objects -> [Fields -> Ref]]
  /\ referent \in [Objects -> Ref]
  /\ root \in [Threads -> SUBSET Objects]
  /\ barrier \in [Threads -> Ref]
  /\ card \in SUBSET Cards
  /\ live \in SUBSET Objects /\ mark \in SUBSET Objects
  /\ gc \in GcSpecs /\ phase \in Phases /\ stopped \in BOOLEAN
  /\ finger \in 0..WordCount
  /\ batch \in SUBSET Objects /\ stack \in SUBSET Objects
  /\ cur \in Ref /\ left \in SUBSET Fields
  /\ pending \in SUBSET Objects /\ odd \in BOOLEAN

\* The check the VM can make of its card table (dvmVerifyCardTable): once the roots are
\* marked again, a marked object with a reference to an unmarked one is on a dirty card
\* or about to be scanned.
GrayOnDirtyCards ==
  phase = "cards" =>
    \A o \in mark, f \in Fields : White(field[o][f]) =>
      CardOf[o] \in card \/ o \in stack \/ o = cur

\* What the program sees is a heap that loses only what it cannot reach: no reachable
\* object is freed or forgotten by a Reference, whatever the threads do while marking
\* and sweeping go on (dvmCollectGarbageInternal).
Implements == Heap!Spec

\* A collection with the threads stopped keeps no more than it must: the immune objects,
\* the roots, and what they lead to, References that are soft included.
KeptForAReason ==
  phase = "swap" /\ ~gc.concurrent =>
    \A S \in SUBSET Objects :
      /\ Heap!Roots \subseteq S
      /\ gc.partial => live \cap Zygote \subseteq S
      /\ Heap!Closed(S)
      /\ \A o \in S : kind[o] = "soft" => referent[o] \in S \cup {Null}
      => mark \subseteq S

\* A collection ends, however long the threads go on changing the heap.
CollectionEnds == phase # "idle" ~> phase = "idle"
=============================================================================
