--------------------------- MODULE MarkSweep_proofs ---------------------------
(***************************************************************************)
(* The collector implements the abstract heap, for any number of objects,  *)
(* fields, threads, words and cards.  The invariant has a part for the     *)
(* control of the collection and parts about every object: the live bits   *)
(* hold what can be reached (HeapOK), the mark bits and lists lie within   *)
(* them (MarkOK), garbage stays garbage until it is swept (SweepOK), a     *)
(* marked object's references are marked, or will be looked at (FieldOK,   *)
(* ReferentOK), and once the threads have stopped the roots are marked     *)
(* (RootOK).                                                               *)
(***************************************************************************)
EXTENDS MarkSweep, TLAPS

Marking == phase \in {"walk", "trace", "cards", "soft", "finalize", "zombies"}

ControlOK ==
  /\ stopped <=> phase # "idle" /\ (gc.concurrent => phase \in {"cards", "soft", "finalize",
                                                                "zombies", "swap"})
  /\ stopped => SafePoint
  /\ phase \in {"trace", "cards", "soft", "finalize", "zombies"} => finger = WordCount
  /\ phase \in {"idle", "trace", "finalize", "zombies", "swap"} => batch = {}
  /\ phase \in {"idle", "finalize", "swap", "sweep"} => cur = Null /\ stack = {}
  /\ phase = "idle" => mark = {} /\ finger = 0
  /\ phase = "cards" => gc.concurrent /\ \A o \in batch : CardOf[o] \in card

\* the live bits hold what the threads can reach, and nothing in them refers elsewhere
HeapOK(o) ==
  /\ o \in Heap!Roots => o \in live
  /\ o \in live => /\ o \in used
                   /\ \A f \in Fields : field[o][f] \in live \cup {Null}
                   /\ referent[o] \in live \cup {Null}
  /\ kind[o] = "plain" => referent[o] = Null

MarkOK(o) ==
  /\ phase # "sweep" => /\ o \in mark => o \in live
                        /\ o \in stack \/ o \in batch \/ o = cur => o \in mark
  /\ o \in pending => /\ Marking /\ o \in mark /\ kind[o] # "plain"
                      /\ phase = "zombies" => kind[o] # "finalizer"

SweepOK(o) ==
  phase = "sweep" => /\ o \in batch => o \in used /\ o \notin live /\ Word[o] < finger
                     /\ o \in mark /\ finger <= Word[o] => o \in used

\* o will be looked at
Coming(o) ==
  \/ o \in stack
  \/ phase = "walk" /\ (o \in batch \/ finger <= Word[o])
  \/ phase = "cards" /\ o \in batch
\* as it was changed, o will be looked at in the second pause
Told(o) ==
  /\ phase \in {"walk", "trace"} /\ gc.concurrent
  /\ CardOf[o] \in card \/ \E t \in Threads : barrier[t] = o

FieldOK(o) ==
  Marking /\ o \in mark =>
    \A f \in Fields : \/ field[o][f] \in mark \cup {Null}
                      \/ Coming(o) \/ Told(o)
                      \/ o = cur /\ f \in left
ReferentOK(o) ==
  Marking /\ o \in mark =>
    \/ referent[o] \in mark \cup {Null}
    \/ o \in pending \/ o = cur \/ Coming(o) \/ Told(o)

RootOK(o) ==
  (Marking \/ phase = "swap") /\ stopped /\ o \in Heap!Roots => o \in mark

\* no FinalizerReference can turn up once their list has been gone through
FinalOK(o) ==
  phase \in {"zombies", "swap"} /\ kind[o] = "finalizer" => referent[o] \in mark \cup {Null}

\* what is marked refers to what is marked
SwapOK(o) ==
  phase = "swap" /\ o \in mark =>
    /\ \A f \in Fields : field[o][f] \in mark \cup {Null}
    /\ referent[o] \in mark \cup {Null}

Everything == \A o \in Objects :
  /\ HeapOK(o) /\ MarkOK(o) /\ SweepOK(o) /\ FieldOK(o) /\ ReferentOK(o)
  /\ RootOK(o) /\ FinalOK(o) /\ SwapOK(o)

IInv == TypeOK /\ ControlOK /\ Everything

\* The invariant is kept when an object is allocated.
LEMMA AllocateInv ==
  ASSUME IInv, NEW t \in Threads, NEW p \in Objects, NEW k \in Heap!AllKinds, Allocate(t, p, k)
  PROVE  IInv'
<1> USE HeapAssumption, WordAssumption, CardAssumption
<1>1. TypeOK /\ ControlOK /\ Everything
  BY DEF IInv
<1>2. TypeOK'
  BY <1>1 DEF TypeOK, Phases, Ref, Heap!AllKinds, GcSpecs, Allocate, Heap!Allocate,
     Heap!New, Heap!Empty, New, scan, Runs
<1>3. ControlOK'
  BY <1>1, <1>2 DEF ControlOK, SafePoint, Phases, Allocate, Heap!Allocate, Heap!New,
     Heap!Empty, New, scan, Runs, TypeOK, Ref, Everything, MarkOK
<1>4. ASSUME NEW o \in Objects PROVE HeapOK(o)'
  BY <1>1, <1>2 DEF Everything, HeapOK, ControlOK, RootOK, SwapOK, SweepOK, MarkOK,
     Marking, Heap!Roots, Heap!Listed, Allocate, Heap!Allocate, Heap!New, Heap!Empty,
     New, scan, Runs, TypeOK, Ref
<1>5. ASSUME NEW o \in Objects PROVE MarkOK(o)'
  BY <1>1, <1>2 DEF Everything, MarkOK, HeapOK, ControlOK, Marking, Phases, Heap!Roots,
     Heap!Listed, FinalOK, Allocate, Heap!Allocate, Heap!New, Heap!Empty, New, scan,
     Runs, TypeOK, Ref
<1>6. ASSUME NEW o \in Objects PROVE SweepOK(o)'
  BY <1>1, <1>2 DEF Everything, SweepOK, ControlOK, MarkOK, HeapOK, Allocate,
     Heap!Allocate, Heap!New, Heap!Empty, New, scan, Runs, TypeOK, Ref
<1>7. ASSUME NEW o \in Objects PROVE FieldOK(o)'
  BY <1>1, <1>2 DEF Everything, FieldOK, Coming, Told, ControlOK, MarkOK, HeapOK,
     Marking, Allocate, Heap!Allocate, Heap!New, Heap!Empty, New, scan, Runs, TypeOK,
     Ref
<1>8. ASSUME NEW o \in Objects PROVE ReferentOK(o)'
  BY <1>1, <1>2 DEF Everything, ReferentOK, Coming, Told, ControlOK, MarkOK, HeapOK,
     Marking, Allocate, Heap!Allocate, Heap!New, Heap!Empty, New, scan, Runs, TypeOK,
     Ref
<1>9. ASSUME NEW o \in Objects PROVE RootOK(o)'
  BY <1>1, <1>2 DEF Everything, RootOK, Heap!Roots, Heap!Listed, ControlOK, Marking,
     Allocate, Heap!Allocate, Heap!New, Heap!Empty, New, scan, Runs, TypeOK, Ref
<1>10. ASSUME NEW o \in Objects PROVE FinalOK(o)'
  BY <1>1, <1>2 DEF Everything, FinalOK, ReferentOK, RootOK, Heap!Roots, Heap!Listed,
     ControlOK, Coming, Told, Marking, MarkOK, HeapOK, Allocate, Heap!Allocate,
     Heap!New, Heap!Empty, New, scan, Runs, TypeOK, Ref
<1>11. ASSUME NEW o \in Objects PROVE SwapOK(o)'
  BY <1>1, <1>2 DEF Everything, SwapOK, Phases, FieldOK, ReferentOK, FinalOK, Coming,
     Told, ControlOK, MarkOK, HeapOK, Marking, Allocate, Heap!Allocate, Heap!New,
     Heap!Empty, New, scan, Runs, TypeOK, Ref
<1> QED
  BY <1>2, <1>3, <1>4, <1>5, <1>6, <1>7, <1>8, <1>9, <1>10, <1>11 DEF IInv, Everything

\* The invariant is kept when an object is cloned.
LEMMA CloneInv ==
  ASSUME IInv, NEW t \in Threads, NEW p \in Objects, NEW q \in Objects, Clone(t, p, q)
  PROVE  IInv'
<1> USE HeapAssumption, WordAssumption, CardAssumption
<1>1. TypeOK /\ ControlOK /\ Everything
  BY DEF IInv
<1>2. TypeOK'
  BY <1>1 DEF TypeOK, Phases, Ref, Heap!AllKinds, GcSpecs, Clone, Heap!Clone, Heap!New,
     New, scan, Runs
<1>3. ControlOK'
  BY <1>1, <1>2 DEF ControlOK, SafePoint, Phases, Clone, Heap!Clone, Heap!New, New,
     scan, Runs, TypeOK, Ref, Everything, MarkOK
<1>4. ASSUME NEW o \in Objects PROVE HeapOK(o)'
  BY <1>1, <1>2 DEF Everything, HeapOK, ControlOK, RootOK, SwapOK, SweepOK, MarkOK,
     Marking, Heap!Roots, Heap!Listed, Clone, Heap!Clone, Heap!New, New, scan, Runs,
     TypeOK, Ref
<1>5. ASSUME NEW o \in Objects PROVE MarkOK(o)'
  BY <1>1, <1>2 DEF Everything, MarkOK, HeapOK, ControlOK, Marking, Phases, Heap!Roots,
     Heap!Listed, FinalOK, Clone, Heap!Clone, Heap!New, New, scan, Runs, TypeOK, Ref
<1>6. ASSUME NEW o \in Objects PROVE SweepOK(o)'
  BY <1>1, <1>2 DEF Everything, SweepOK, ControlOK, MarkOK, HeapOK, Clone, Heap!Clone,
     Heap!New, New, scan, Runs, TypeOK, Ref
<1>7. ASSUME NEW o \in Objects PROVE FieldOK(o)'
  BY <1>1, <1>2 DEF Everything, FieldOK, Coming, Told, ControlOK, MarkOK, HeapOK,
     Marking, Clone, Heap!Clone, Heap!New, New, scan, Runs, TypeOK, Ref
<1>8. ASSUME NEW o \in Objects PROVE ReferentOK(o)'
  BY <1>1, <1>2 DEF Everything, ReferentOK, Coming, Told, ControlOK, MarkOK, HeapOK,
     Marking, Clone, Heap!Clone, Heap!New, New, scan, Runs, TypeOK, Ref
<1>9. ASSUME NEW o \in Objects PROVE RootOK(o)'
  BY <1>1, <1>2 DEF Everything, RootOK, Heap!Roots, Heap!Listed, ControlOK, Marking,
     Clone, Heap!Clone, Heap!New, New, scan, Runs, TypeOK, Ref
<1>10. ASSUME NEW o \in Objects PROVE FinalOK(o)'
  BY <1>1, <1>2 DEF Everything, FinalOK, ReferentOK, RootOK, Heap!Roots, Heap!Listed,
     ControlOK, Coming, Told, Marking, MarkOK, HeapOK, Clone, Heap!Clone, Heap!New,
     New, scan, Runs, TypeOK, Ref
<1>11. ASSUME NEW o \in Objects PROVE SwapOK(o)'
  BY <1>1, <1>2 DEF Everything, SwapOK, Phases, FieldOK, ReferentOK, FinalOK, Coming,
     Told, ControlOK, MarkOK, HeapOK, Marking, Clone, Heap!Clone, Heap!New, New, scan,
     Runs, TypeOK, Ref
<1> QED
  BY <1>2, <1>3, <1>4, <1>5, <1>6, <1>7, <1>8, <1>9, <1>10, <1>11 DEF IInv, Everything

\* The invariant is kept when a Reference is constructed.
LEMMA SetReferentInv ==
  ASSUME IInv, NEW t \in Threads, NEW p \in Objects, NEW q \in Objects, SetReferent(t, p, q)
  PROVE  IInv'
<1> USE HeapAssumption, WordAssumption, CardAssumption
<1>1. TypeOK /\ ControlOK /\ Everything
  BY DEF IInv
<1>2. TypeOK'
  BY <1>1 DEF TypeOK, Phases, Ref, Heap!AllKinds, GcSpecs, SetReferent,
     Heap!SetReferent, Runs, collector, scan
<1>3. ControlOK'
  BY <1>1, <1>2 DEF ControlOK, SafePoint, Phases, SetReferent, Heap!SetReferent, Runs,
     collector, scan, TypeOK, Ref, Everything, MarkOK
<1>4. ASSUME NEW o \in Objects PROVE HeapOK(o)'
  BY <1>1, <1>2 DEF Everything, HeapOK, ControlOK, RootOK, SwapOK, SweepOK, MarkOK,
     Marking, Heap!Roots, Heap!Listed, SetReferent, Heap!SetReferent, Runs, collector,
     scan, TypeOK, Ref
<1>5. ASSUME NEW o \in Objects PROVE MarkOK(o)'
  BY <1>1, <1>2 DEF Everything, MarkOK, HeapOK, ControlOK, Marking, Phases, Heap!Roots,
     Heap!Listed, FinalOK, SetReferent, Heap!SetReferent, Runs, collector, scan,
     TypeOK, Ref
<1>6. ASSUME NEW o \in Objects PROVE SweepOK(o)'
  BY <1>1, <1>2 DEF Everything, SweepOK, ControlOK, MarkOK, HeapOK, SetReferent,
     Heap!SetReferent, Runs, collector, scan, TypeOK, Ref
<1>7. ASSUME NEW o \in Objects PROVE FieldOK(o)'
  BY <1>1, <1>2 DEF Everything, FieldOK, Coming, Told, ControlOK, MarkOK, HeapOK,
     Marking, SetReferent, Heap!SetReferent, Runs, collector, scan, TypeOK, Ref
<1>8. ASSUME NEW o \in Objects PROVE ReferentOK(o)'
  BY <1>1, <1>2 DEF Everything, ReferentOK, Coming, Told, ControlOK, MarkOK, HeapOK,
     Marking, SetReferent, Heap!SetReferent, Runs, collector, scan, TypeOK, Ref
<1>9. ASSUME NEW o \in Objects PROVE RootOK(o)'
  BY <1>1, <1>2 DEF Everything, RootOK, Heap!Roots, Heap!Listed, ControlOK, Marking,
     SetReferent, Heap!SetReferent, Runs, collector, scan, TypeOK, Ref
<1>10. ASSUME NEW o \in Objects PROVE FinalOK(o)'
  BY <1>1, <1>2 DEF Everything, FinalOK, ReferentOK, RootOK, Heap!Roots, Heap!Listed,
     ControlOK, Coming, Told, Marking, MarkOK, HeapOK, SetReferent, Heap!SetReferent,
     Runs, collector, scan, TypeOK, Ref
<1>11. ASSUME NEW o \in Objects PROVE SwapOK(o)'
  BY <1>1, <1>2 DEF Everything, SwapOK, Phases, FieldOK, ReferentOK, FinalOK, Coming,
     Told, ControlOK, MarkOK, HeapOK, Marking, SetReferent, Heap!SetReferent, Runs,
     collector, scan, TypeOK, Ref
<1> QED
  BY <1>2, <1>3, <1>4, <1>5, <1>6, <1>7, <1>8, <1>9, <1>10, <1>11 DEF IInv, Everything

\* The invariant is kept when a reference is loaded.
LEMMA LoadInv ==
  ASSUME IInv, NEW t \in Threads, NEW p \in Objects, NEW f \in Fields, Load(t, p, f)
  PROVE  IInv'
<1> USE HeapAssumption, WordAssumption, CardAssumption
<1>1. TypeOK /\ ControlOK /\ Everything
  BY DEF IInv
<1>2. TypeOK'
  BY <1>1 DEF TypeOK, Phases, Ref, Heap!AllKinds, GcSpecs, Load, Heap!Load, Runs,
     collector, scan
<1>3. ControlOK'
  BY <1>1, <1>2 DEF ControlOK, SafePoint, Phases, Load, Heap!Load, Runs, collector,
     scan, TypeOK, Ref, Everything, MarkOK
<1>4. ASSUME NEW o \in Objects PROVE HeapOK(o)'
  BY <1>1, <1>2 DEF Everything, HeapOK, ControlOK, RootOK, SwapOK, SweepOK, MarkOK,
     Marking, Heap!Roots, Heap!Listed, Load, Heap!Load, Runs, collector, scan, TypeOK,
     Ref
<1>5. ASSUME NEW o \in Objects PROVE MarkOK(o)'
  BY <1>1, <1>2 DEF Everything, MarkOK, HeapOK, ControlOK, Marking, Phases, Heap!Roots,
     Heap!Listed, FinalOK, Load, Heap!Load, Runs, collector, scan, TypeOK, Ref
<1>6. ASSUME NEW o \in Objects PROVE SweepOK(o)'
  BY <1>1, <1>2 DEF Everything, SweepOK, ControlOK, MarkOK, HeapOK, Load, Heap!Load,
     Runs, collector, scan, TypeOK, Ref
<1>7. ASSUME NEW o \in Objects PROVE FieldOK(o)'
  BY <1>1, <1>2 DEF Everything, FieldOK, Coming, Told, ControlOK, MarkOK, HeapOK,
     Marking, Load, Heap!Load, Runs, collector, scan, TypeOK, Ref
<1>8. ASSUME NEW o \in Objects PROVE ReferentOK(o)'
  BY <1>1, <1>2 DEF Everything, ReferentOK, Coming, Told, ControlOK, MarkOK, HeapOK,
     Marking, Load, Heap!Load, Runs, collector, scan, TypeOK, Ref
<1>9. ASSUME NEW o \in Objects PROVE RootOK(o)'
  BY <1>1, <1>2 DEF Everything, RootOK, Heap!Roots, Heap!Listed, ControlOK, Marking,
     Load, Heap!Load, Runs, collector, scan, TypeOK, Ref
<1>10. ASSUME NEW o \in Objects PROVE FinalOK(o)'
  BY <1>1, <1>2 DEF Everything, FinalOK, ReferentOK, RootOK, Heap!Roots, Heap!Listed,
     ControlOK, Coming, Told, Marking, MarkOK, HeapOK, Load, Heap!Load, Runs,
     collector, scan, TypeOK, Ref
<1>11. ASSUME NEW o \in Objects PROVE SwapOK(o)'
  BY <1>1, <1>2 DEF Everything, SwapOK, Phases, FieldOK, ReferentOK, FinalOK, Coming,
     Told, ControlOK, MarkOK, HeapOK, Marking, Load, Heap!Load, Runs, collector, scan,
     TypeOK, Ref
<1> QED
  BY <1>2, <1>3, <1>4, <1>5, <1>6, <1>7, <1>8, <1>9, <1>10, <1>11 DEF IInv, Everything

\* The invariant is kept when a reference is stored.
LEMMA StoreInv ==
  ASSUME IInv, NEW t \in Threads, NEW p \in Objects, NEW f \in Fields, NEW v \in Ref, Store(t, p, f, v)
  PROVE  IInv'
<1> USE HeapAssumption, WordAssumption, CardAssumption
<1>1. TypeOK /\ ControlOK /\ Everything
  BY DEF IInv
<1>2. TypeOK'
  BY <1>1 DEF TypeOK, Phases, Ref, Heap!AllKinds, GcSpecs, Store, Heap!Store, Runs,
     collector, scan
<1>3. ControlOK'
  BY <1>1, <1>2 DEF ControlOK, SafePoint, Phases, Store, Heap!Store, Runs, collector,
     scan, TypeOK, Ref, Everything, MarkOK
<1>4. ASSUME NEW o \in Objects PROVE HeapOK(o)'
  BY <1>1, <1>2 DEF Everything, HeapOK, ControlOK, RootOK, SwapOK, SweepOK, MarkOK,
     Marking, Heap!Roots, Heap!Listed, Store, Heap!Store, Runs, collector, scan,
     TypeOK, Ref
<1>5. ASSUME NEW o \in Objects PROVE MarkOK(o)'
  BY <1>1, <1>2 DEF Everything, MarkOK, HeapOK, ControlOK, Marking, Phases, Heap!Roots,
     Heap!Listed, FinalOK, Store, Heap!Store, Runs, collector, scan, TypeOK, Ref
<1>6. ASSUME NEW o \in Objects PROVE SweepOK(o)'
  BY <1>1, <1>2 DEF Everything, SweepOK, ControlOK, MarkOK, HeapOK, Store, Heap!Store,
     Runs, collector, scan, TypeOK, Ref
<1>7. ASSUME NEW o \in Objects PROVE FieldOK(o)'
  BY <1>1, <1>2 DEF Everything, FieldOK, Coming, Told, ControlOK, MarkOK, HeapOK,
     Marking, Store, Heap!Store, Runs, collector, scan, TypeOK, Ref
<1>8. ASSUME NEW o \in Objects PROVE ReferentOK(o)'
  BY <1>1, <1>2 DEF Everything, ReferentOK, Coming, Told, ControlOK, MarkOK, HeapOK,
     Marking, Store, Heap!Store, Runs, collector, scan, TypeOK, Ref
<1>9. ASSUME NEW o \in Objects PROVE RootOK(o)'
  BY <1>1, <1>2 DEF Everything, RootOK, Heap!Roots, Heap!Listed, ControlOK, Marking,
     Store, Heap!Store, Runs, collector, scan, TypeOK, Ref
<1>10. ASSUME NEW o \in Objects PROVE FinalOK(o)'
  BY <1>1, <1>2 DEF Everything, FinalOK, ReferentOK, RootOK, Heap!Roots, Heap!Listed,
     ControlOK, Coming, Told, Marking, MarkOK, HeapOK, Store, Heap!Store, Runs,
     collector, scan, TypeOK, Ref
<1>11. ASSUME NEW o \in Objects PROVE SwapOK(o)'
  BY <1>1, <1>2 DEF Everything, SwapOK, Phases, FieldOK, ReferentOK, FinalOK, Coming,
     Told, ControlOK, MarkOK, HeapOK, Marking, Store, Heap!Store, Runs, collector,
     scan, TypeOK, Ref
<1> QED
  BY <1>2, <1>3, <1>4, <1>5, <1>6, <1>7, <1>8, <1>9, <1>10, <1>11 DEF IInv, Everything

\* The invariant is kept when a reference is dropped.
LEMMA DropInv ==
  ASSUME IInv, NEW t \in Threads, NEW p \in Objects, Drop(t, p)
  PROVE  IInv'
<1> USE HeapAssumption, WordAssumption, CardAssumption
<1>1. TypeOK /\ ControlOK /\ Everything
  BY DEF IInv
<1>2. TypeOK'
  BY <1>1 DEF TypeOK, Phases, Ref, Heap!AllKinds, GcSpecs, Drop, Heap!Drop, Runs,
     collector, scan
<1>3. ControlOK'
  BY <1>1, <1>2 DEF ControlOK, SafePoint, Phases, Drop, Heap!Drop, Runs, collector,
     scan, TypeOK, Ref, Everything, MarkOK
<1>4. ASSUME NEW o \in Objects PROVE HeapOK(o)'
  BY <1>1, <1>2 DEF Everything, HeapOK, ControlOK, RootOK, SwapOK, SweepOK, MarkOK,
     Marking, Heap!Roots, Heap!Listed, Drop, Heap!Drop, Runs, collector, scan, TypeOK,
     Ref
<1>5. ASSUME NEW o \in Objects PROVE MarkOK(o)'
  BY <1>1, <1>2 DEF Everything, MarkOK, HeapOK, ControlOK, Marking, Phases, Heap!Roots,
     Heap!Listed, FinalOK, Drop, Heap!Drop, Runs, collector, scan, TypeOK, Ref
<1>6. ASSUME NEW o \in Objects PROVE SweepOK(o)'
  BY <1>1, <1>2 DEF Everything, SweepOK, ControlOK, MarkOK, HeapOK, Drop, Heap!Drop,
     Runs, collector, scan, TypeOK, Ref
<1>7. ASSUME NEW o \in Objects PROVE FieldOK(o)'
  BY <1>1, <1>2 DEF Everything, FieldOK, Coming, Told, ControlOK, MarkOK, HeapOK,
     Marking, Drop, Heap!Drop, Runs, collector, scan, TypeOK, Ref
<1>8. ASSUME NEW o \in Objects PROVE ReferentOK(o)'
  BY <1>1, <1>2 DEF Everything, ReferentOK, Coming, Told, ControlOK, MarkOK, HeapOK,
     Marking, Drop, Heap!Drop, Runs, collector, scan, TypeOK, Ref
<1>9. ASSUME NEW o \in Objects PROVE RootOK(o)'
  BY <1>1, <1>2 DEF Everything, RootOK, Heap!Roots, Heap!Listed, ControlOK, Marking,
     Drop, Heap!Drop, Runs, collector, scan, TypeOK, Ref
<1>10. ASSUME NEW o \in Objects PROVE FinalOK(o)'
  BY <1>1, <1>2 DEF Everything, FinalOK, ReferentOK, RootOK, Heap!Roots, Heap!Listed,
     ControlOK, Coming, Told, Marking, MarkOK, HeapOK, Drop, Heap!Drop, Runs,
     collector, scan, TypeOK, Ref
<1>11. ASSUME NEW o \in Objects PROVE SwapOK(o)'
  BY <1>1, <1>2 DEF Everything, SwapOK, Phases, FieldOK, ReferentOK, FinalOK, Coming,
     Told, ControlOK, MarkOK, HeapOK, Marking, Drop, Heap!Drop, Runs, collector, scan,
     TypeOK, Ref
<1> QED
  BY <1>2, <1>3, <1>4, <1>5, <1>6, <1>7, <1>8, <1>9, <1>10, <1>11 DEF IInv, Everything

\* The invariant is kept when a referent is asked for.
LEMMA GetInv ==
  ASSUME IInv, NEW t \in Threads, NEW p \in Objects, Get(t, p)
  PROVE  IInv'
<1> USE HeapAssumption, WordAssumption, CardAssumption
<1>1. TypeOK /\ ControlOK /\ Everything
  BY DEF IInv
<1>2. TypeOK'
  BY <1>1 DEF TypeOK, Phases, Ref, Heap!AllKinds, GcSpecs, Get, Heap!Get, Runs,
     collector, scan
<1>3. ControlOK'
  BY <1>1, <1>2 DEF ControlOK, SafePoint, Phases, Get, Heap!Get, Runs, collector, scan,
     TypeOK, Ref, Everything, MarkOK
<1>4. ASSUME NEW o \in Objects PROVE HeapOK(o)'
  BY <1>1, <1>2 DEF Everything, HeapOK, ControlOK, RootOK, SwapOK, SweepOK, MarkOK,
     Marking, Heap!Roots, Heap!Listed, Get, Heap!Get, Runs, collector, scan, TypeOK,
     Ref
<1>5. ASSUME NEW o \in Objects PROVE MarkOK(o)'
  BY <1>1, <1>2 DEF Everything, MarkOK, HeapOK, ControlOK, Marking, Phases, Heap!Roots,
     Heap!Listed, FinalOK, Get, Heap!Get, Runs, collector, scan, TypeOK, Ref
<1>6. ASSUME NEW o \in Objects PROVE SweepOK(o)'
  BY <1>1, <1>2 DEF Everything, SweepOK, ControlOK, MarkOK, HeapOK, Get, Heap!Get,
     Runs, collector, scan, TypeOK, Ref
<1>7. ASSUME NEW o \in Objects PROVE FieldOK(o)'
  BY <1>1, <1>2 DEF Everything, FieldOK, Coming, Told, ControlOK, MarkOK, HeapOK,
     Marking, Get, Heap!Get, Runs, collector, scan, TypeOK, Ref
<1>8. ASSUME NEW o \in Objects PROVE ReferentOK(o)'
  BY <1>1, <1>2 DEF Everything, ReferentOK, Coming, Told, ControlOK, MarkOK, HeapOK,
     Marking, Get, Heap!Get, Runs, collector, scan, TypeOK, Ref
<1>9. ASSUME NEW o \in Objects PROVE RootOK(o)'
  BY <1>1, <1>2 DEF Everything, RootOK, Heap!Roots, Heap!Listed, ControlOK, Marking,
     Get, Heap!Get, Runs, collector, scan, TypeOK, Ref
<1>10. ASSUME NEW o \in Objects PROVE FinalOK(o)'
  BY <1>1, <1>2 DEF Everything, FinalOK, ReferentOK, RootOK, Heap!Roots, Heap!Listed,
     ControlOK, Coming, Told, Marking, MarkOK, HeapOK, Get, Heap!Get, Runs, collector,
     scan, TypeOK, Ref
<1>11. ASSUME NEW o \in Objects PROVE SwapOK(o)'
  BY <1>1, <1>2 DEF Everything, SwapOK, Phases, FieldOK, ReferentOK, FinalOK, Coming,
     Told, ControlOK, MarkOK, HeapOK, Marking, Get, Heap!Get, Runs, collector, scan,
     TypeOK, Ref
<1> QED
  BY <1>2, <1>3, <1>4, <1>5, <1>6, <1>7, <1>8, <1>9, <1>10, <1>11 DEF IInv, Everything

\* The invariant is kept when a referent is cleared.
LEMMA ClearInv ==
  ASSUME IInv, NEW t \in Threads, NEW p \in Objects, Clear(t, p)
  PROVE  IInv'
<1> USE HeapAssumption, WordAssumption, CardAssumption
<1>1. TypeOK /\ ControlOK /\ Everything
  BY DEF IInv
<1>2. TypeOK'
  BY <1>1 DEF TypeOK, Phases, Ref, Heap!AllKinds, GcSpecs, Clear, Heap!Clear, Runs,
     collector, scan
<1>3. ControlOK'
  BY <1>1, <1>2 DEF ControlOK, SafePoint, Phases, Clear, Heap!Clear, Runs, collector,
     scan, TypeOK, Ref, Everything, MarkOK
<1>4. ASSUME NEW o \in Objects PROVE HeapOK(o)'
  BY <1>1, <1>2 DEF Everything, HeapOK, ControlOK, RootOK, SwapOK, SweepOK, MarkOK,
     Marking, Heap!Roots, Heap!Listed, Clear, Heap!Clear, Runs, collector, scan,
     TypeOK, Ref
<1>5. ASSUME NEW o \in Objects PROVE MarkOK(o)'
  BY <1>1, <1>2 DEF Everything, MarkOK, HeapOK, ControlOK, Marking, Phases, Heap!Roots,
     Heap!Listed, FinalOK, Clear, Heap!Clear, Runs, collector, scan, TypeOK, Ref
<1>6. ASSUME NEW o \in Objects PROVE SweepOK(o)'
  BY <1>1, <1>2 DEF Everything, SweepOK, ControlOK, MarkOK, HeapOK, Clear, Heap!Clear,
     Runs, collector, scan, TypeOK, Ref
<1>7. ASSUME NEW o \in Objects PROVE FieldOK(o)'
  BY <1>1, <1>2 DEF Everything, FieldOK, Coming, Told, ControlOK, MarkOK, HeapOK,
     Marking, Clear, Heap!Clear, Runs, collector, scan, TypeOK, Ref
<1>8. ASSUME NEW o \in Objects PROVE ReferentOK(o)'
  BY <1>1, <1>2 DEF Everything, ReferentOK, Coming, Told, ControlOK, MarkOK, HeapOK,
     Marking, Clear, Heap!Clear, Runs, collector, scan, TypeOK, Ref
<1>9. ASSUME NEW o \in Objects PROVE RootOK(o)'
  BY <1>1, <1>2 DEF Everything, RootOK, Heap!Roots, Heap!Listed, ControlOK, Marking,
     Clear, Heap!Clear, Runs, collector, scan, TypeOK, Ref
<1>10. ASSUME NEW o \in Objects PROVE FinalOK(o)'
  BY <1>1, <1>2 DEF Everything, FinalOK, ReferentOK, RootOK, Heap!Roots, Heap!Listed,
     ControlOK, Coming, Told, Marking, MarkOK, HeapOK, Clear, Heap!Clear, Runs,
     collector, scan, TypeOK, Ref
<1>11. ASSUME NEW o \in Objects PROVE SwapOK(o)'
  BY <1>1, <1>2 DEF Everything, SwapOK, Phases, FieldOK, ReferentOK, FinalOK, Coming,
     Told, ControlOK, MarkOK, HeapOK, Marking, Clear, Heap!Clear, Runs, collector,
     scan, TypeOK, Ref
<1> QED
  BY <1>2, <1>3, <1>4, <1>5, <1>6, <1>7, <1>8, <1>9, <1>10, <1>11 DEF IInv, Everything

\* The invariant is kept when a card is dirtied.
LEMMA MarkCardInv ==
  ASSUME IInv, NEW t \in Threads, MarkCard(t)
  PROVE  IInv'
<1> USE HeapAssumption, WordAssumption, CardAssumption
<1>1. TypeOK /\ ControlOK /\ Everything
  BY DEF IInv
<1>2. TypeOK'
  BY <1>1 DEF TypeOK, Phases, Ref, Heap!AllKinds, GcSpecs, MarkCard, collector, scan,
     heap
<1>3. ControlOK'
  BY <1>1, <1>2 DEF ControlOK, SafePoint, Phases, MarkCard, collector, scan, heap,
     TypeOK, Ref, Everything, MarkOK
<1>4. ASSUME NEW o \in Objects PROVE HeapOK(o)'
  BY <1>1, <1>2 DEF Everything, HeapOK, ControlOK, RootOK, SwapOK, SweepOK, MarkOK,
     Marking, Heap!Roots, Heap!Listed, MarkCard, collector, scan, heap, TypeOK, Ref
<1>5. ASSUME NEW o \in Objects PROVE MarkOK(o)'
  BY <1>1, <1>2 DEF Everything, MarkOK, HeapOK, ControlOK, Marking, Phases, Heap!Roots,
     Heap!Listed, FinalOK, MarkCard, collector, scan, heap, TypeOK, Ref
<1>6. ASSUME NEW o \in Objects PROVE SweepOK(o)'
  BY <1>1, <1>2 DEF Everything, SweepOK, ControlOK, MarkOK, HeapOK, MarkCard,
     collector, scan, heap, TypeOK, Ref
<1>7. ASSUME NEW o \in Objects PROVE FieldOK(o)'
  BY <1>1, <1>2 DEF Everything, FieldOK, Coming, Told, ControlOK, MarkOK, HeapOK,
     Marking, MarkCard, collector, scan, heap, TypeOK, Ref
<1>8. ASSUME NEW o \in Objects PROVE ReferentOK(o)'
  BY <1>1, <1>2 DEF Everything, ReferentOK, Coming, Told, ControlOK, MarkOK, HeapOK,
     Marking, MarkCard, collector, scan, heap, TypeOK, Ref
<1>9. ASSUME NEW o \in Objects PROVE RootOK(o)'
  BY <1>1, <1>2 DEF Everything, RootOK, Heap!Roots, Heap!Listed, ControlOK, Marking,
     MarkCard, collector, scan, heap, TypeOK, Ref
<1>10. ASSUME NEW o \in Objects PROVE FinalOK(o)'
  BY <1>1, <1>2 DEF Everything, FinalOK, ReferentOK, RootOK, Heap!Roots, Heap!Listed,
     ControlOK, Coming, Told, Marking, MarkOK, HeapOK, MarkCard, collector, scan, heap,
     TypeOK, Ref
<1>11. ASSUME NEW o \in Objects PROVE SwapOK(o)'
  BY <1>1, <1>2 DEF Everything, SwapOK, Phases, FieldOK, ReferentOK, FinalOK, Coming,
     Told, ControlOK, MarkOK, HeapOK, Marking, MarkCard, collector, scan, heap, TypeOK,
     Ref
<1> QED
  BY <1>2, <1>3, <1>4, <1>5, <1>6, <1>7, <1>8, <1>9, <1>10, <1>11 DEF IInv, Everything

\* The invariant is kept when a collection begins.
LEMMA BeginInv ==
  ASSUME IInv, NEW spec \in GcSpecs, Begin(spec)
  PROVE  IInv'
<1> USE HeapAssumption, WordAssumption, CardAssumption
<1>1. TypeOK /\ ControlOK /\ Everything
  BY DEF IInv
<1>2. TypeOK'
  BY <1>1 DEF TypeOK, Phases, Ref, Heap!AllKinds, GcSpecs, Begin, Heap!Roots,
     Heap!Listed, SafePoint, scan, heap
<1>3. ControlOK'
  BY <1>1, <1>2 DEF ControlOK, SafePoint, Phases, Begin, Heap!Roots, Heap!Listed, scan,
     heap, TypeOK, Ref, Everything, MarkOK
<1>4. ASSUME NEW o \in Objects PROVE HeapOK(o)'
  BY <1>1, <1>2 DEF Everything, HeapOK, ControlOK, RootOK, SwapOK, SweepOK, MarkOK,
     Marking, Heap!Roots, Heap!Listed, Begin, SafePoint, scan, heap, TypeOK, Ref
<1>5. ASSUME NEW o \in Objects PROVE MarkOK(o)'
  BY <1>1, <1>2 DEF Everything, MarkOK, HeapOK, ControlOK, Marking, Phases, Heap!Roots,
     Heap!Listed, FinalOK, Begin, SafePoint, scan, heap, TypeOK, Ref
<1>6. ASSUME NEW o \in Objects PROVE SweepOK(o)'
  BY <1>1, <1>2 DEF Everything, SweepOK, ControlOK, MarkOK, HeapOK, Begin, Heap!Roots,
     Heap!Listed, SafePoint, scan, heap, TypeOK, Ref
<1>7. ASSUME NEW o \in Objects PROVE FieldOK(o)'
  BY <1>1, <1>2 DEF Everything, FieldOK, Coming, Told, ControlOK, MarkOK, HeapOK,
     Marking, Begin, Heap!Roots, Heap!Listed, SafePoint, scan, heap, TypeOK, Ref
<1>8. ASSUME NEW o \in Objects PROVE ReferentOK(o)'
  BY <1>1, <1>2 DEF Everything, ReferentOK, Coming, Told, ControlOK, MarkOK, HeapOK,
     Marking, Begin, Heap!Roots, Heap!Listed, SafePoint, scan, heap, TypeOK, Ref
<1>9. ASSUME NEW o \in Objects PROVE RootOK(o)'
  BY <1>1, <1>2 DEF Everything, RootOK, Heap!Roots, Heap!Listed, ControlOK, Marking,
     Begin, SafePoint, scan, heap, TypeOK, Ref
<1>10. ASSUME NEW o \in Objects PROVE FinalOK(o)'
  BY <1>1, <1>2 DEF Everything, FinalOK, ReferentOK, RootOK, Heap!Roots, Heap!Listed,
     ControlOK, Coming, Told, Marking, MarkOK, HeapOK, Begin, SafePoint, scan, heap,
     TypeOK, Ref
<1>11. ASSUME NEW o \in Objects PROVE SwapOK(o)'
  BY <1>1, <1>2 DEF Everything, SwapOK, Phases, FieldOK, ReferentOK, FinalOK, Coming,
     Told, ControlOK, MarkOK, HeapOK, Marking, Begin, Heap!Roots, Heap!Listed,
     SafePoint, scan, heap, TypeOK, Ref
<1> QED
  BY <1>2, <1>3, <1>4, <1>5, <1>6, <1>7, <1>8, <1>9, <1>10, <1>11 DEF IInv, Everything

\* The invariant is kept when a word of the bitmap is read.
LEMMA WalkWordInv ==
  ASSUME IInv, WalkWord
  PROVE  IInv'
<1> USE HeapAssumption, WordAssumption, CardAssumption
<1>1. TypeOK /\ ControlOK /\ Everything
  BY DEF IInv
<1>2. TypeOK'
  BY <1>1 DEF TypeOK, Phases, Ref, Heap!AllKinds, GcSpecs, WalkWord, heap
<1>3. ControlOK'
  BY <1>1, <1>2 DEF ControlOK, SafePoint, Phases, WalkWord, heap, TypeOK, Ref,
     Everything, MarkOK
<1>4. ASSUME NEW o \in Objects PROVE HeapOK(o)'
  BY <1>1, <1>2 DEF Everything, HeapOK, ControlOK, RootOK, SwapOK, SweepOK, MarkOK,
     Marking, Heap!Roots, Heap!Listed, WalkWord, heap, TypeOK, Ref
<1>5. ASSUME NEW o \in Objects PROVE MarkOK(o)'
  BY <1>1, <1>2 DEF Everything, MarkOK, HeapOK, ControlOK, Marking, Phases, Heap!Roots,
     Heap!Listed, FinalOK, WalkWord, heap, TypeOK, Ref
<1>6. ASSUME NEW o \in Objects PROVE SweepOK(o)'
  BY <1>1, <1>2 DEF Everything, SweepOK, ControlOK, MarkOK, HeapOK, WalkWord, heap,
     TypeOK, Ref
<1>7. ASSUME NEW o \in Objects PROVE FieldOK(o)'
  <2>1. /\ finger' = finger + 1 /\ batch' = {p \in mark : Word[p] = finger}
        /\ phase = "walk" /\ cur = Null /\ batch = {}
        /\ UNCHANGED <<field, referent, mark, phase, cur, left, stack, gc, card, barrier, pending>>
    BY DEF WalkWord, heap
  <2>2. finger <= Word[o] => Word[o] = finger \/ finger + 1 <= Word[o]
    <3>1. finger \in 0..WordCount
      BY <1>1 DEF TypeOK
    <3>2. Word[o] \in 0..WordCount - 1 /\ WordCount \in Nat
      BY WordAssumption
    <3> HIDE HeapAssumption, WordAssumption, CardAssumption
    <3> QED BY <3>1, <3>2
  <2>3. Coming(o) /\ o \in mark => Coming(o)'
    BY <2>1, <2>2 DEF Coming
  <2>4. FieldOK(o)
    BY <1>1 DEF Everything
  <2> QED BY <2>1, <2>3, <2>4 DEF FieldOK, Told, Marking
<1>8. ASSUME NEW o \in Objects PROVE ReferentOK(o)'
  <2>1. /\ finger' = finger + 1 /\ batch' = {p \in mark : Word[p] = finger}
        /\ phase = "walk" /\ cur = Null /\ batch = {}
        /\ UNCHANGED <<field, referent, mark, phase, cur, left, stack, gc, card, barrier, pending>>
    BY DEF WalkWord, heap
  <2>2. finger <= Word[o] => Word[o] = finger \/ finger + 1 <= Word[o]
    <3>1. finger \in 0..WordCount
      BY <1>1 DEF TypeOK
    <3>2. Word[o] \in 0..WordCount - 1 /\ WordCount \in Nat
      BY WordAssumption
    <3> HIDE HeapAssumption, WordAssumption, CardAssumption
    <3> QED BY <3>1, <3>2
  <2>3. Coming(o) /\ o \in mark => Coming(o)'
    BY <2>1, <2>2 DEF Coming
  <2>4. ReferentOK(o)
    BY <1>1 DEF Everything
  <2> QED BY <2>1, <2>3, <2>4 DEF ReferentOK, Told, Marking
<1>9. ASSUME NEW o \in Objects PROVE RootOK(o)'
  BY <1>1, <1>2 DEF Everything, RootOK, Heap!Roots, Heap!Listed, ControlOK, Marking,
     WalkWord, heap, TypeOK, Ref
<1>10. ASSUME NEW o \in Objects PROVE FinalOK(o)'
  BY <1>1, <1>2 DEF Everything, FinalOK, ReferentOK, RootOK, Heap!Roots, Heap!Listed,
     ControlOK, Coming, Told, Marking, MarkOK, HeapOK, WalkWord, heap, TypeOK, Ref
<1>11. ASSUME NEW o \in Objects PROVE SwapOK(o)'
  BY <1>1, <1>2 DEF Everything, SwapOK, Phases, FieldOK, ReferentOK, FinalOK, Coming,
     Told, ControlOK, MarkOK, HeapOK, Marking, WalkWord, heap, TypeOK, Ref
<1> QED
  BY <1>2, <1>3, <1>4, <1>5, <1>6, <1>7, <1>8, <1>9, <1>10, <1>11 DEF IInv, Everything

\* The invariant is kept when the bitmap has been walked.
LEMMA WalkEndsInv ==
  ASSUME IInv, WalkEnds
  PROVE  IInv'
<1> USE HeapAssumption, WordAssumption, CardAssumption
<1>1. TypeOK /\ ControlOK /\ Everything
  BY DEF IInv
<1>2. TypeOK'
  BY <1>1 DEF TypeOK, Phases, Ref, Heap!AllKinds, GcSpecs, WalkEnds, scan, heap
<1>3. ControlOK'
  BY <1>1, <1>2 DEF ControlOK, SafePoint, Phases, WalkEnds, scan, heap, TypeOK, Ref,
     Everything, MarkOK
<1>4. ASSUME NEW o \in Objects PROVE HeapOK(o)'
  BY <1>1, <1>2 DEF Everything, HeapOK, ControlOK, RootOK, SwapOK, SweepOK, MarkOK,
     Marking, Heap!Roots, Heap!Listed, WalkEnds, scan, heap, TypeOK, Ref
<1>5. ASSUME NEW o \in Objects PROVE MarkOK(o)'
  BY <1>1, <1>2 DEF Everything, MarkOK, HeapOK, ControlOK, Marking, Phases, Heap!Roots,
     Heap!Listed, FinalOK, WalkEnds, scan, heap, TypeOK, Ref
<1>6. ASSUME NEW o \in Objects PROVE SweepOK(o)'
  BY <1>1, <1>2 DEF Everything, SweepOK, ControlOK, MarkOK, HeapOK, WalkEnds, scan,
     heap, TypeOK, Ref
<1>7. ASSUME NEW o \in Objects PROVE FieldOK(o)'
  BY <1>1, <1>2 DEF Everything, FieldOK, Coming, Told, ControlOK, MarkOK, HeapOK,
     Marking, WalkEnds, scan, heap, TypeOK, Ref
<1>8. ASSUME NEW o \in Objects PROVE ReferentOK(o)'
  BY <1>1, <1>2 DEF Everything, ReferentOK, Coming, Told, ControlOK, MarkOK, HeapOK,
     Marking, WalkEnds, scan, heap, TypeOK, Ref
<1>9. ASSUME NEW o \in Objects PROVE RootOK(o)'
  BY <1>1, <1>2 DEF Everything, RootOK, Heap!Roots, Heap!Listed, ControlOK, Marking,
     WalkEnds, scan, heap, TypeOK, Ref
<1>10. ASSUME NEW o \in Objects PROVE FinalOK(o)'
  BY <1>1, <1>2 DEF Everything, FinalOK, ReferentOK, RootOK, Heap!Roots, Heap!Listed,
     ControlOK, Coming, Told, Marking, MarkOK, HeapOK, WalkEnds, scan, heap, TypeOK,
     Ref
<1>11. ASSUME NEW o \in Objects PROVE SwapOK(o)'
  BY <1>1, <1>2 DEF Everything, SwapOK, Phases, FieldOK, ReferentOK, FinalOK, Coming,
     Told, ControlOK, MarkOK, HeapOK, Marking, WalkEnds, scan, heap, TypeOK, Ref
<1> QED
  BY <1>2, <1>3, <1>4, <1>5, <1>6, <1>7, <1>8, <1>9, <1>10, <1>11 DEF IInv, Everything

\* The invariant is kept when an object is scanned.
LEMMA ScanNextInv ==
  ASSUME IInv, NEW p \in Objects, ScanNext(p)
  PROVE  IInv'
<1> USE HeapAssumption, WordAssumption, CardAssumption
<1>1. TypeOK /\ ControlOK /\ Everything
  BY DEF IInv
<1>2. TypeOK'
  BY <1>1 DEF TypeOK, Phases, Ref, Heap!AllKinds, GcSpecs, ScanNext, heap, Visit
<1>3. ControlOK'
  BY <1>1, <1>2 DEF ControlOK, SafePoint, Phases, ScanNext, heap, Visit, TypeOK, Ref,
     Everything, MarkOK
<1>4. ASSUME NEW o \in Objects PROVE HeapOK(o)'
  BY <1>1, <1>2 DEF Everything, HeapOK, ControlOK, RootOK, SwapOK, SweepOK, MarkOK,
     Marking, Heap!Roots, Heap!Listed, ScanNext, heap, Visit, TypeOK, Ref
<1>5. ASSUME NEW o \in Objects PROVE MarkOK(o)'
  BY <1>1, <1>2 DEF Everything, MarkOK, HeapOK, ControlOK, Marking, Phases, Heap!Roots,
     Heap!Listed, FinalOK, ScanNext, heap, Visit, TypeOK, Ref
<1>6. ASSUME NEW o \in Objects PROVE SweepOK(o)'
  BY <1>1, <1>2 DEF Everything, SweepOK, ControlOK, MarkOK, HeapOK, ScanNext, heap,
     Visit, TypeOK, Ref
<1>7. ASSUME NEW o \in Objects PROVE FieldOK(o)'
  BY <1>1, <1>2 DEF Everything, FieldOK, Coming, Told, ControlOK, MarkOK, HeapOK,
     Marking, ScanNext, heap, Visit, TypeOK, Ref
<1>8. ASSUME NEW o \in Objects PROVE ReferentOK(o)'
  BY <1>1, <1>2 DEF Everything, ReferentOK, Coming, Told, ControlOK, MarkOK, HeapOK,
     Marking, ScanNext, heap, Visit, TypeOK, Ref
<1>9. ASSUME NEW o \in Objects PROVE RootOK(o)'
  BY <1>1, <1>2 DEF Everything, RootOK, Heap!Roots, Heap!Listed, ControlOK, Marking,
     ScanNext, heap, Visit, TypeOK, Ref
<1>10. ASSUME NEW o \in Objects PROVE FinalOK(o)'
  BY <1>1, <1>2 DEF Everything, FinalOK, ReferentOK, RootOK, Heap!Roots, Heap!Listed,
     ControlOK, Coming, Told, Marking, MarkOK, HeapOK, ScanNext, heap, Visit, TypeOK,
     Ref
<1>11. ASSUME NEW o \in Objects PROVE SwapOK(o)'
  BY <1>1, <1>2 DEF Everything, SwapOK, Phases, FieldOK, ReferentOK, FinalOK, Coming,
     Told, ControlOK, MarkOK, HeapOK, Marking, ScanNext, heap, Visit, TypeOK, Ref
<1> QED
  BY <1>2, <1>3, <1>4, <1>5, <1>6, <1>7, <1>8, <1>9, <1>10, <1>11 DEF IInv, Everything

\* The invariant is kept when an object is popped.
LEMMA PopInv ==
  ASSUME IInv, NEW p \in Objects, Pop(p)
  PROVE  IInv'
<1> USE HeapAssumption, WordAssumption, CardAssumption
<1>1. TypeOK /\ ControlOK /\ Everything
  BY DEF IInv
<1>2. TypeOK'
  BY <1>1 DEF TypeOK, Phases, Ref, Heap!AllKinds, GcSpecs, Pop, heap, Visit
<1>3. ControlOK'
  BY <1>1, <1>2 DEF ControlOK, SafePoint, Phases, Pop, heap, Visit, TypeOK, Ref,
     Everything, MarkOK
<1>4. ASSUME NEW o \in Objects PROVE HeapOK(o)'
  BY <1>1, <1>2 DEF Everything, HeapOK, ControlOK, RootOK, SwapOK, SweepOK, MarkOK,
     Marking, Heap!Roots, Heap!Listed, Pop, heap, Visit, TypeOK, Ref
<1>5. ASSUME NEW o \in Objects PROVE MarkOK(o)'
  BY <1>1, <1>2 DEF Everything, MarkOK, HeapOK, ControlOK, Marking, Phases, Heap!Roots,
     Heap!Listed, FinalOK, Pop, heap, Visit, TypeOK, Ref
<1>6. ASSUME NEW o \in Objects PROVE SweepOK(o)'
  BY <1>1, <1>2 DEF Everything, SweepOK, ControlOK, MarkOK, HeapOK, Pop, heap, Visit,
     TypeOK, Ref
<1>7. ASSUME NEW o \in Objects PROVE FieldOK(o)'
  BY <1>1, <1>2 DEF Everything, FieldOK, Coming, Told, ControlOK, MarkOK, HeapOK,
     Marking, Pop, heap, Visit, TypeOK, Ref
<1>8. ASSUME NEW o \in Objects PROVE ReferentOK(o)'
  BY <1>1, <1>2 DEF Everything, ReferentOK, Coming, Told, ControlOK, MarkOK, HeapOK,
     Marking, Pop, heap, Visit, TypeOK, Ref
<1>9. ASSUME NEW o \in Objects PROVE RootOK(o)'
  BY <1>1, <1>2 DEF Everything, RootOK, Heap!Roots, Heap!Listed, ControlOK, Marking,
     Pop, heap, Visit, TypeOK, Ref
<1>10. ASSUME NEW o \in Objects PROVE FinalOK(o)'
  BY <1>1, <1>2 DEF Everything, FinalOK, ReferentOK, RootOK, Heap!Roots, Heap!Listed,
     ControlOK, Coming, Told, Marking, MarkOK, HeapOK, Pop, heap, Visit, TypeOK, Ref
<1>11. ASSUME NEW o \in Objects PROVE SwapOK(o)'
  BY <1>1, <1>2 DEF Everything, SwapOK, Phases, FieldOK, ReferentOK, FinalOK, Coming,
     Told, ControlOK, MarkOK, HeapOK, Marking, Pop, heap, Visit, TypeOK, Ref
<1> QED
  BY <1>2, <1>3, <1>4, <1>5, <1>6, <1>7, <1>8, <1>9, <1>10, <1>11 DEF IInv, Everything

\* The invariant is kept when a field is read.
LEMMA ScanFieldInv ==
  ASSUME IInv, NEW f \in Fields, ScanField(f)
  PROVE  IInv'
<1> USE HeapAssumption, WordAssumption, CardAssumption
<1>1. TypeOK /\ ControlOK /\ Everything
  BY DEF IInv
<1>2. TypeOK'
  BY <1>1 DEF TypeOK, Phases, Ref, Heap!AllKinds, GcSpecs, ScanField, heap, MarkAll,
     Push
<1>3. ControlOK'
  BY <1>1, <1>2 DEF ControlOK, SafePoint, Phases, ScanField, heap, MarkAll, Push,
     TypeOK, Ref, Everything, MarkOK
<1>4. ASSUME NEW o \in Objects PROVE HeapOK(o)'
  BY <1>1, <1>2 DEF Everything, HeapOK, ControlOK, RootOK, SwapOK, SweepOK, MarkOK,
     Marking, Heap!Roots, Heap!Listed, ScanField, heap, MarkAll, Push, TypeOK, Ref
<1>5. ASSUME NEW o \in Objects PROVE MarkOK(o)'
  BY <1>1, <1>2 DEF Everything, MarkOK, HeapOK, ControlOK, Marking, Phases, Heap!Roots,
     Heap!Listed, FinalOK, ScanField, heap, MarkAll, Push, TypeOK, Ref
<1>6. ASSUME NEW o \in Objects PROVE SweepOK(o)'
  BY <1>1, <1>2 DEF Everything, SweepOK, ControlOK, MarkOK, HeapOK, ScanField, heap,
     MarkAll, Push, TypeOK, Ref
<1>7. ASSUME NEW o \in Objects PROVE FieldOK(o)'
  BY <1>1, <1>2 DEF Everything, FieldOK, Coming, Told, ControlOK, MarkOK, HeapOK,
     Marking, ScanField, heap, MarkAll, Push, TypeOK, Ref
<1>8. ASSUME NEW o \in Objects PROVE ReferentOK(o)'
  BY <1>1, <1>2 DEF Everything, ReferentOK, Coming, Told, ControlOK, MarkOK, HeapOK,
     Marking, ScanField, heap, MarkAll, Push, TypeOK, Ref
<1>9. ASSUME NEW o \in Objects PROVE RootOK(o)'
  BY <1>1, <1>2 DEF Everything, RootOK, Heap!Roots, Heap!Listed, ControlOK, Marking,
     ScanField, heap, MarkAll, Push, TypeOK, Ref
<1>10. ASSUME NEW o \in Objects PROVE FinalOK(o)'
  BY <1>1, <1>2 DEF Everything, FinalOK, ReferentOK, RootOK, Heap!Roots, Heap!Listed,
     ControlOK, Coming, Told, Marking, MarkOK, HeapOK, ScanField, heap, MarkAll, Push,
     TypeOK, Ref
<1>11. ASSUME NEW o \in Objects PROVE SwapOK(o)'
  BY <1>1, <1>2 DEF Everything, SwapOK, Phases, FieldOK, ReferentOK, FinalOK, Coming,
     Told, ControlOK, MarkOK, HeapOK, Marking, ScanField, heap, MarkAll, Push, TypeOK,
     Ref
<1> QED
  BY <1>2, <1>3, <1>4, <1>5, <1>6, <1>7, <1>8, <1>9, <1>10, <1>11 DEF IInv, Everything

\* The invariant is kept when a Reference is put on its list.
LEMMA ScanEndsInv ==
  ASSUME IInv, ScanEnds
  PROVE  IInv'
<1> USE HeapAssumption, WordAssumption, CardAssumption
<1>1. TypeOK /\ ControlOK /\ Everything
  BY DEF IInv
<1>2. TypeOK'
  BY <1>1 DEF TypeOK, Phases, Ref, Heap!AllKinds, GcSpecs, ScanEnds, heap, White
<1>3. ControlOK'
  BY <1>1, <1>2 DEF ControlOK, SafePoint, Phases, ScanEnds, heap, White, TypeOK, Ref,
     Everything, MarkOK
<1>4. ASSUME NEW o \in Objects PROVE HeapOK(o)'
  BY <1>1, <1>2 DEF Everything, HeapOK, ControlOK, RootOK, SwapOK, SweepOK, MarkOK,
     Marking, Heap!Roots, Heap!Listed, ScanEnds, heap, White, TypeOK, Ref
<1>5. ASSUME NEW o \in Objects PROVE MarkOK(o)'
  BY <1>1, <1>2 DEF Everything, MarkOK, HeapOK, ControlOK, Marking, Phases, Heap!Roots,
     Heap!Listed, FinalOK, ScanEnds, heap, White, TypeOK, Ref
<1>6. ASSUME NEW o \in Objects PROVE SweepOK(o)'
  BY <1>1, <1>2 DEF Everything, SweepOK, ControlOK, MarkOK, HeapOK, ScanEnds, heap,
     White, TypeOK, Ref
<1>7. ASSUME NEW o \in Objects PROVE FieldOK(o)'
  BY <1>1, <1>2 DEF Everything, FieldOK, Coming, Told, ControlOK, MarkOK, HeapOK,
     Marking, ScanEnds, heap, White, TypeOK, Ref
<1>8. ASSUME NEW o \in Objects PROVE ReferentOK(o)'
  BY <1>1, <1>2 DEF Everything, ReferentOK, Coming, Told, ControlOK, MarkOK, HeapOK,
     Marking, ScanEnds, heap, White, TypeOK, Ref
<1>9. ASSUME NEW o \in Objects PROVE RootOK(o)'
  BY <1>1, <1>2 DEF Everything, RootOK, Heap!Roots, Heap!Listed, ControlOK, Marking,
     ScanEnds, heap, White, TypeOK, Ref
<1>10. ASSUME NEW o \in Objects PROVE FinalOK(o)'
  BY <1>1, <1>2 DEF Everything, FinalOK, ReferentOK, RootOK, Heap!Roots, Heap!Listed,
     ControlOK, Coming, Told, Marking, MarkOK, HeapOK, ScanEnds, heap, White, TypeOK,
     Ref
<1>11. ASSUME NEW o \in Objects PROVE SwapOK(o)'
  BY <1>1, <1>2 DEF Everything, SwapOK, Phases, FieldOK, ReferentOK, FinalOK, Coming,
     Told, ControlOK, MarkOK, HeapOK, Marking, ScanEnds, heap, White, TypeOK, Ref
<1> QED
  BY <1>2, <1>3, <1>4, <1>5, <1>6, <1>7, <1>8, <1>9, <1>10, <1>11 DEF IInv, Everything

\* The invariant is kept when the second pause begins.
LEMMA RemarkInv ==
  ASSUME IInv, Remark
  PROVE  IInv'
<1> USE HeapAssumption, WordAssumption, CardAssumption
<1>1. TypeOK /\ ControlOK /\ Everything
  BY DEF IInv
<1>2. TypeOK'
  BY <1>1 DEF TypeOK, Phases, Ref, Heap!AllKinds, GcSpecs, Remark, Heap!Roots,
     Heap!Listed, SafePoint, heap, MarkAll, Push, Idle
<1>3. ControlOK'
  BY <1>1, <1>2 DEF ControlOK, SafePoint, Phases, Remark, Heap!Roots, Heap!Listed,
     heap, MarkAll, Push, Idle, TypeOK, Ref, Everything, MarkOK
<1>4. ASSUME NEW o \in Objects PROVE HeapOK(o)'
  BY <1>1, <1>2 DEF Everything, HeapOK, ControlOK, RootOK, SwapOK, SweepOK, MarkOK,
     Marking, Heap!Roots, Heap!Listed, Remark, SafePoint, heap, MarkAll, Push, Idle,
     TypeOK, Ref
<1>5. ASSUME NEW o \in Objects PROVE MarkOK(o)'
  BY <1>1, <1>2 DEF Everything, MarkOK, HeapOK, ControlOK, Marking, Phases, Heap!Roots,
     Heap!Listed, FinalOK, Remark, SafePoint, heap, MarkAll, Push, Idle, TypeOK, Ref
<1>6. ASSUME NEW o \in Objects PROVE SweepOK(o)'
  BY <1>1, <1>2 DEF Everything, SweepOK, ControlOK, MarkOK, HeapOK, Remark, Heap!Roots,
     Heap!Listed, SafePoint, heap, MarkAll, Push, Idle, TypeOK, Ref
<1>7. ASSUME NEW o \in Objects PROVE FieldOK(o)'
  BY <1>1, <1>2 DEF Everything, FieldOK, Coming, Told, ControlOK, MarkOK, HeapOK,
     Marking, Remark, Heap!Roots, Heap!Listed, SafePoint, heap, MarkAll, Push, Idle,
     TypeOK, Ref
<1>8. ASSUME NEW o \in Objects PROVE ReferentOK(o)'
  BY <1>1, <1>2 DEF Everything, ReferentOK, Coming, Told, ControlOK, MarkOK, HeapOK,
     Marking, Remark, Heap!Roots, Heap!Listed, SafePoint, heap, MarkAll, Push, Idle,
     TypeOK, Ref
<1>9. ASSUME NEW o \in Objects PROVE RootOK(o)'
  BY <1>1, <1>2 DEF Everything, RootOK, Heap!Roots, Heap!Listed, ControlOK, Marking,
     Remark, SafePoint, heap, MarkAll, Push, Idle, TypeOK, Ref
<1>10. ASSUME NEW o \in Objects PROVE FinalOK(o)'
  BY <1>1, <1>2 DEF Everything, FinalOK, ReferentOK, RootOK, Heap!Roots, Heap!Listed,
     ControlOK, Coming, Told, Marking, MarkOK, HeapOK, Remark, SafePoint, heap,
     MarkAll, Push, Idle, TypeOK, Ref
<1>11. ASSUME NEW o \in Objects PROVE SwapOK(o)'
  BY <1>1, <1>2 DEF Everything, SwapOK, Phases, FieldOK, ReferentOK, FinalOK, Coming,
     Told, ControlOK, MarkOK, HeapOK, Marking, Remark, Heap!Roots, Heap!Listed,
     SafePoint, heap, MarkAll, Push, Idle, TypeOK, Ref
<1> QED
  BY <1>2, <1>3, <1>4, <1>5, <1>6, <1>7, <1>8, <1>9, <1>10, <1>11 DEF IInv, Everything

\* The invariant is kept when the lists are gone through.
LEMMA BeginReferencesInv ==
  ASSUME IInv, BeginReferences
  PROVE  IInv'
<1> USE HeapAssumption, WordAssumption, CardAssumption
<1>1. TypeOK /\ ControlOK /\ Everything
  BY DEF IInv
<1>2. TypeOK'
  BY <1>1 DEF TypeOK, Phases, Ref, Heap!AllKinds, GcSpecs, BeginReferences, heap,
     OfKind, Idle
<1>3. ControlOK'
  BY <1>1, <1>2 DEF ControlOK, SafePoint, Phases, BeginReferences, heap, OfKind, Idle,
     TypeOK, Ref, Everything, MarkOK
<1>4. ASSUME NEW o \in Objects PROVE HeapOK(o)'
  BY <1>1, <1>2 DEF Everything, HeapOK, ControlOK, RootOK, SwapOK, SweepOK, MarkOK,
     Marking, Heap!Roots, Heap!Listed, BeginReferences, heap, OfKind, Idle, TypeOK, Ref
<1>5. ASSUME NEW o \in Objects PROVE MarkOK(o)'
  BY <1>1, <1>2 DEF Everything, MarkOK, HeapOK, ControlOK, Marking, Phases, Heap!Roots,
     Heap!Listed, FinalOK, BeginReferences, heap, OfKind, Idle, TypeOK, Ref
<1>6. ASSUME NEW o \in Objects PROVE SweepOK(o)'
  BY <1>1, <1>2 DEF Everything, SweepOK, ControlOK, MarkOK, HeapOK, BeginReferences,
     heap, OfKind, Idle, TypeOK, Ref
<1>7. ASSUME NEW o \in Objects PROVE FieldOK(o)'
  BY <1>1, <1>2 DEF Everything, FieldOK, Coming, Told, ControlOK, MarkOK, HeapOK,
     Marking, BeginReferences, heap, OfKind, Idle, TypeOK, Ref
<1>8. ASSUME NEW o \in Objects PROVE ReferentOK(o)'
  BY <1>1, <1>2 DEF Everything, ReferentOK, Coming, Told, ControlOK, MarkOK, HeapOK,
     Marking, BeginReferences, heap, OfKind, Idle, TypeOK, Ref
<1>9. ASSUME NEW o \in Objects PROVE RootOK(o)'
  BY <1>1, <1>2 DEF Everything, RootOK, Heap!Roots, Heap!Listed, ControlOK, Marking,
     BeginReferences, heap, OfKind, Idle, TypeOK, Ref
<1>10. ASSUME NEW o \in Objects PROVE FinalOK(o)'
  BY <1>1, <1>2 DEF Everything, FinalOK, ReferentOK, RootOK, Heap!Roots, Heap!Listed,
     ControlOK, Coming, Told, Marking, MarkOK, HeapOK, BeginReferences, heap, OfKind,
     Idle, TypeOK, Ref
<1>11. ASSUME NEW o \in Objects PROVE SwapOK(o)'
  BY <1>1, <1>2 DEF Everything, SwapOK, Phases, FieldOK, ReferentOK, FinalOK, Coming,
     Told, ControlOK, MarkOK, HeapOK, Marking, BeginReferences, heap, OfKind, Idle,
     TypeOK, Ref
<1> QED
  BY <1>2, <1>3, <1>4, <1>5, <1>6, <1>7, <1>8, <1>9, <1>10, <1>11 DEF IInv, Everything

\* The invariant is kept when a soft reference is looked at.
LEMMA PreserveInv ==
  ASSUME IInv, NEW p \in Objects, Preserve(p)
  PROVE  IInv'
<1> USE HeapAssumption, WordAssumption, CardAssumption
<1>1. TypeOK /\ ControlOK /\ Everything
  BY DEF IInv
<1>2. TypeOK'
  BY <1>1 DEF TypeOK, Phases, Ref, Preserve, heap, MarkAll, Push, White
<1>3. ControlOK'
  BY <1>1, <1>2 DEF ControlOK, SafePoint, Phases, Preserve, heap, MarkAll, Push, White,
     TypeOK, Ref, Everything, MarkOK
<1>4. ASSUME NEW o \in Objects PROVE HeapOK(o)'
  BY <1>1, <1>2 DEF Everything, HeapOK, ControlOK, RootOK, SwapOK, SweepOK, MarkOK,
     Marking, Heap!Roots, Heap!Listed, Preserve, heap, MarkAll, Push, White, TypeOK,
     Ref
<1>5. ASSUME NEW o \in Objects PROVE MarkOK(o)'
  BY <1>1, <1>2 DEF Everything, MarkOK, HeapOK, ControlOK, Marking, Phases, Heap!Roots,
     Heap!Listed, FinalOK, Preserve, heap, MarkAll, Push, White, TypeOK, Ref
<1>6. ASSUME NEW o \in Objects PROVE SweepOK(o)'
  BY <1>1, <1>2 DEF Everything, SweepOK, ControlOK, MarkOK, HeapOK, Preserve, heap,
     MarkAll, Push, White, TypeOK, Ref
<1>7. ASSUME NEW o \in Objects PROVE FieldOK(o)'
  BY <1>1, <1>2 DEF Everything, FieldOK, Coming, Told, ControlOK, MarkOK, HeapOK,
     Marking, Preserve, heap, MarkAll, Push, White, TypeOK, Ref
<1>8. ASSUME NEW o \in Objects PROVE ReferentOK(o)'
  BY <1>1, <1>2 DEF Everything, ReferentOK, Coming, Told, ControlOK, MarkOK, HeapOK,
     Marking, Preserve, heap, MarkAll, Push, White, TypeOK, Ref
<1>9. ASSUME NEW o \in Objects PROVE RootOK(o)'
  BY <1>1, <1>2 DEF Everything, RootOK, Heap!Roots, Heap!Listed, ControlOK, Marking,
     Preserve, heap, MarkAll, Push, White, TypeOK, Ref
<1>10. ASSUME NEW o \in Objects PROVE FinalOK(o)'
  BY <1>1, <1>2 DEF Everything, FinalOK, ReferentOK, RootOK, Heap!Roots, Heap!Listed,
     ControlOK, Coming, Told, Marking, MarkOK, HeapOK, Preserve, heap, MarkAll, Push,
     White, TypeOK, Ref
<1>11. ASSUME NEW o \in Objects PROVE SwapOK(o)'
  BY <1>1, <1>2 DEF Everything, SwapOK, Phases, FieldOK, ReferentOK, FinalOK, Coming,
     Told, ControlOK, MarkOK, HeapOK, Marking, Preserve, heap, MarkAll, Push, White,
     TypeOK, Ref
<1> QED
  BY <1>2, <1>3, <1>4, <1>5, <1>6, <1>7, <1>8, <1>9, <1>10, <1>11 DEF IInv, Everything

\* The invariant is kept when soft and weak references are cleared.
LEMMA ClearSoftAndWeakInv ==
  ASSUME IInv, ClearSoftAndWeak
  PROVE  IInv'
<1> USE HeapAssumption, WordAssumption, CardAssumption
<1>1. TypeOK /\ ControlOK /\ Everything
  BY DEF IInv
<1>2. TypeOK'
  BY <1>1 DEF TypeOK, Phases, Ref, Heap!AllKinds, GcSpecs, ClearSoftAndWeak,
     ClearWhite, Heap!Forget, scan, White, OfKind, Idle
<1>3. ControlOK'
  BY <1>1, <1>2 DEF ControlOK, SafePoint, Phases, ClearSoftAndWeak, ClearWhite,
     Heap!Forget, scan, White, OfKind, Idle, TypeOK, Ref, Everything, MarkOK
<1>4. ASSUME NEW o \in Objects PROVE HeapOK(o)'
  BY <1>1, <1>2 DEF Everything, HeapOK, ControlOK, RootOK, SwapOK, SweepOK, MarkOK,
     Marking, Heap!Roots, Heap!Listed, ClearSoftAndWeak, ClearWhite, Heap!Forget, scan,
     White, OfKind, Idle, TypeOK, Ref
<1>5. ASSUME NEW o \in Objects PROVE MarkOK(o)'
  BY <1>1, <1>2 DEF Everything, MarkOK, HeapOK, ControlOK, Marking, Phases, Heap!Roots,
     Heap!Listed, FinalOK, ClearSoftAndWeak, ClearWhite, Heap!Forget, scan, White,
     OfKind, Idle, TypeOK, Ref
<1>6. ASSUME NEW o \in Objects PROVE SweepOK(o)'
  BY <1>1, <1>2 DEF Everything, SweepOK, ControlOK, MarkOK, HeapOK, ClearSoftAndWeak,
     ClearWhite, Heap!Forget, scan, White, OfKind, Idle, TypeOK, Ref
<1>7. ASSUME NEW o \in Objects PROVE FieldOK(o)'
  BY <1>1, <1>2 DEF Everything, FieldOK, Coming, Told, ControlOK, MarkOK, HeapOK,
     Marking, ClearSoftAndWeak, ClearWhite, Heap!Forget, scan, White, OfKind, Idle,
     TypeOK, Ref
<1>8. ASSUME NEW o \in Objects PROVE ReferentOK(o)'
  BY <1>1, <1>2 DEF Everything, ReferentOK, Coming, Told, ControlOK, MarkOK, HeapOK,
     Marking, ClearSoftAndWeak, ClearWhite, Heap!Forget, scan, White, OfKind, Idle,
     TypeOK, Ref
<1>9. ASSUME NEW o \in Objects PROVE RootOK(o)'
  BY <1>1, <1>2 DEF Everything, RootOK, Heap!Roots, Heap!Listed, ControlOK, Marking,
     ClearSoftAndWeak, ClearWhite, Heap!Forget, scan, White, OfKind, Idle, TypeOK, Ref
<1>10. ASSUME NEW o \in Objects PROVE FinalOK(o)'
  BY <1>1, <1>2 DEF Everything, FinalOK, ReferentOK, RootOK, Heap!Roots, Heap!Listed,
     ControlOK, Coming, Told, Marking, MarkOK, HeapOK, ClearSoftAndWeak, ClearWhite,
     Heap!Forget, scan, White, OfKind, Idle, TypeOK, Ref
<1>11. ASSUME NEW o \in Objects PROVE SwapOK(o)'
  BY <1>1, <1>2 DEF Everything, SwapOK, Phases, FieldOK, ReferentOK, FinalOK, Coming,
     Told, ControlOK, MarkOK, HeapOK, Marking, ClearSoftAndWeak, ClearWhite,
     Heap!Forget, scan, White, OfKind, Idle, TypeOK, Ref
<1> QED
  BY <1>2, <1>3, <1>4, <1>5, <1>6, <1>7, <1>8, <1>9, <1>10, <1>11 DEF IInv, Everything

\* The invariant is kept when zombies are saved.
LEMMA EnqueueFinalizersInv ==
  ASSUME IInv, EnqueueFinalizers
  PROVE  IInv'
<1> USE HeapAssumption, WordAssumption, CardAssumption
<1>1. TypeOK /\ ControlOK /\ Everything
  BY DEF IInv
<1>2. TypeOK'
  BY <1>1 DEF TypeOK, Phases, Ref, Heap!AllKinds, GcSpecs, EnqueueFinalizers,
     Heap!Forget, MarkAll, Push, White, OfKind
<1>3. ControlOK'
  BY <1>1, <1>2 DEF ControlOK, SafePoint, Phases, EnqueueFinalizers, Heap!Forget,
     MarkAll, Push, White, OfKind, TypeOK, Ref, Everything, MarkOK
<1>4. ASSUME NEW o \in Objects PROVE HeapOK(o)'
  BY <1>1, <1>2 DEF Everything, HeapOK, ControlOK, RootOK, SwapOK, SweepOK, MarkOK,
     Marking, Heap!Roots, Heap!Listed, EnqueueFinalizers, Heap!Forget, MarkAll, Push,
     White, OfKind, TypeOK, Ref
<1>5. ASSUME NEW o \in Objects PROVE MarkOK(o)'
  BY <1>1, <1>2 DEF Everything, MarkOK, HeapOK, ControlOK, Marking, Phases, Heap!Roots,
     Heap!Listed, FinalOK, EnqueueFinalizers, Heap!Forget, MarkAll, Push, White,
     OfKind, TypeOK, Ref
<1>6. ASSUME NEW o \in Objects PROVE SweepOK(o)'
  BY <1>1, <1>2 DEF Everything, SweepOK, ControlOK, MarkOK, HeapOK, EnqueueFinalizers,
     Heap!Forget, MarkAll, Push, White, OfKind, TypeOK, Ref
<1>7. ASSUME NEW o \in Objects PROVE FieldOK(o)'
  BY <1>1, <1>2 DEF Everything, FieldOK, Coming, Told, ControlOK, MarkOK, HeapOK,
     Marking, EnqueueFinalizers, Heap!Forget, MarkAll, Push, White, OfKind, TypeOK, Ref
<1>8. ASSUME NEW o \in Objects PROVE ReferentOK(o)'
  BY <1>1, <1>2 DEF Everything, ReferentOK, Coming, Told, ControlOK, MarkOK, HeapOK,
     Marking, EnqueueFinalizers, Heap!Forget, MarkAll, Push, White, OfKind, TypeOK, Ref
<1>9. ASSUME NEW o \in Objects PROVE RootOK(o)'
  BY <1>1, <1>2 DEF Everything, RootOK, Heap!Roots, Heap!Listed, ControlOK, Marking,
     EnqueueFinalizers, Heap!Forget, MarkAll, Push, White, OfKind, TypeOK, Ref
<1>10. ASSUME NEW o \in Objects PROVE FinalOK(o)'
  BY SMTT(30), <1>1, <1>2 DEF Everything, FinalOK, ReferentOK, RootOK, Heap!Roots, Heap!Listed,
     ControlOK, Coming, Told, Marking, MarkOK, HeapOK, EnqueueFinalizers, Heap!Forget,
     MarkAll, Push, White, OfKind, TypeOK, Ref
<1>11. ASSUME NEW o \in Objects PROVE SwapOK(o)'
  BY <1>1, <1>2 DEF Everything, SwapOK, Phases, FieldOK, ReferentOK, FinalOK, Coming,
     Told, ControlOK, MarkOK, HeapOK, Marking, EnqueueFinalizers, Heap!Forget, MarkAll,
     Push, White, OfKind, TypeOK, Ref
<1> QED
  BY <1>2, <1>3, <1>4, <1>5, <1>6, <1>7, <1>8, <1>9, <1>10, <1>11 DEF IInv, Everything

\* The invariant is kept when the lists are emptied.
LEMMA ClearRestInv ==
  ASSUME IInv, ClearRest
  PROVE  IInv'
<1> USE HeapAssumption, WordAssumption, CardAssumption
<1>1. TypeOK /\ ControlOK /\ Everything
  BY DEF IInv
<1>2. TypeOK'
  BY <1>1 DEF TypeOK, Phases, Ref, Heap!AllKinds, GcSpecs, ClearRest, ClearWhite,
     Heap!Forget, scan, White, OfKind, Idle
<1>3. ControlOK'
  BY <1>1, <1>2 DEF ControlOK, SafePoint, Phases, ClearRest, ClearWhite, Heap!Forget,
     scan, White, OfKind, Idle, TypeOK, Ref, Everything, MarkOK
<1>4. ASSUME NEW o \in Objects PROVE HeapOK(o)'
  BY <1>1, <1>2 DEF Everything, HeapOK, ControlOK, RootOK, SwapOK, SweepOK, MarkOK,
     Marking, Heap!Roots, Heap!Listed, ClearRest, ClearWhite, Heap!Forget, scan, White,
     OfKind, Idle, TypeOK, Ref
<1>5. ASSUME NEW o \in Objects PROVE MarkOK(o)'
  <2>1. /\ phase = "zombies" /\ phase' = "swap" /\ batch = {} /\ batch' = {}
        /\ pending' = pending \ {p \in pending : kind[p] \in {"soft", "weak", "phantom"}}
        /\ UNCHANGED <<kind, mark, live, stack, cur>>
    BY <1>1 DEF ClearRest, ClearWhite, OfKind, ControlOK, Idle, scan
  <2>2. MarkOK(o) /\ kind[o] \in Heap!AllKinds
    BY <1>1 DEF Everything, TypeOK
  <2>3. o \notin pending'
    BY <2>1, <2>2 DEF MarkOK, Heap!AllKinds
  <2> QED BY <2>1, <2>2, <2>3 DEF MarkOK
<1>6. ASSUME NEW o \in Objects PROVE SweepOK(o)'
  BY <1>1, <1>2 DEF Everything, SweepOK, ControlOK, MarkOK, HeapOK, ClearRest,
     ClearWhite, Heap!Forget, scan, White, OfKind, Idle, TypeOK, Ref
<1>7. ASSUME NEW o \in Objects PROVE FieldOK(o)'
  BY <1>1, <1>2 DEF Everything, FieldOK, Coming, Told, ControlOK, MarkOK, HeapOK,
     Marking, ClearRest, ClearWhite, Heap!Forget, scan, White, OfKind, Idle, TypeOK,
     Ref
<1>8. ASSUME NEW o \in Objects PROVE ReferentOK(o)'
  BY <1>1, <1>2 DEF Everything, ReferentOK, Coming, Told, ControlOK, MarkOK, HeapOK,
     Marking, ClearRest, ClearWhite, Heap!Forget, scan, White, OfKind, Idle, TypeOK,
     Ref
<1>9. ASSUME NEW o \in Objects PROVE RootOK(o)'
  BY <1>1, <1>2 DEF Everything, RootOK, Heap!Roots, Heap!Listed, ControlOK, Marking,
     ClearRest, ClearWhite, Heap!Forget, scan, White, OfKind, Idle, TypeOK, Ref
<1>10. ASSUME NEW o \in Objects PROVE FinalOK(o)'
  BY <1>1, <1>2 DEF Everything, FinalOK, ReferentOK, RootOK, Heap!Roots, Heap!Listed,
     ControlOK, Coming, Told, Marking, MarkOK, HeapOK, ClearRest, ClearWhite,
     Heap!Forget, scan, White, OfKind, Idle, TypeOK, Ref
<1>11. ASSUME NEW o \in Objects PROVE SwapOK(o)'
  <2>1. /\ phase = "zombies" /\ batch = {} /\ cur = Null /\ stack = {}
        /\ mark' = mark /\ field' = field
        /\ referent' = [p \in Objects |->
                          IF p \in {q \in OfKind({"soft", "weak", "phantom"}) : White(referent[q])}
                          THEN Null ELSE referent[p]]
    BY <1>1 DEF ClearRest, ClearWhite, ControlOK, Idle, Heap!Forget
  <2>2. MarkOK(o) /\ FieldOK(o) /\ ReferentOK(o) /\ kind[o] \in Heap!AllKinds
    BY <1>1 DEF Everything, TypeOK
  <2>3. ~Coming(o) /\ ~Told(o) /\ o # cur /\ Marking
    BY <2>1 DEF Coming, Told, Marking
  <2>4. o \in mark => \A f \in Fields : field[o][f] \in mark \cup {Null}
    BY <2>2, <2>3 DEF FieldOK
  <2>5. o \in mark => referent[o] \in mark \cup {Null} \/ o \in pending
    BY <2>2, <2>3 DEF ReferentOK
  <2>6. o \in pending => kind[o] \in {"soft", "weak", "phantom"}
    BY <2>1, <2>2 DEF MarkOK, Heap!AllKinds
  <2>7. o \in mark => referent'[o] \in mark \cup {Null}
    BY <2>1, <2>5, <2>6 DEF OfKind, White
  <2> QED BY <2>1, <2>4, <2>7 DEF SwapOK
<1> QED
  BY <1>2, <1>3, <1>4, <1>5, <1>6, <1>7, <1>8, <1>9, <1>10, <1>11 DEF IInv, Everything

\* The invariant is kept when the bitmaps are swapped.
LEMMA SwapInv ==
  ASSUME IInv, Swap
  PROVE  IInv'
<1> USE HeapAssumption, WordAssumption, CardAssumption
<1>1. TypeOK /\ ControlOK /\ Everything
  BY DEF IInv
<1>2. TypeOK'
  BY <1>1 DEF TypeOK, Phases, Ref, Heap!AllKinds, GcSpecs, Swap, scan, heap
<1>3. ControlOK'
  BY <1>1, <1>2 DEF ControlOK, SafePoint, Phases, Swap, scan, heap, TypeOK, Ref,
     Everything, MarkOK
<1>4. ASSUME NEW o \in Objects PROVE HeapOK(o)'
  BY <1>1, <1>2 DEF Everything, HeapOK, ControlOK, RootOK, SwapOK, SweepOK, MarkOK,
     Marking, Heap!Roots, Heap!Listed, Swap, scan, heap, TypeOK, Ref
<1>5. ASSUME NEW o \in Objects PROVE MarkOK(o)'
  BY <1>1, <1>2 DEF Everything, MarkOK, HeapOK, ControlOK, Marking, Phases, Heap!Roots,
     Heap!Listed, FinalOK, Swap, scan, heap, TypeOK, Ref
<1>6. ASSUME NEW o \in Objects PROVE SweepOK(o)'
  BY <1>1, <1>2 DEF Everything, SweepOK, ControlOK, MarkOK, HeapOK, Swap, scan, heap,
     TypeOK, Ref
<1>7. ASSUME NEW o \in Objects PROVE FieldOK(o)'
  BY <1>1, <1>2 DEF Everything, FieldOK, Coming, Told, ControlOK, MarkOK, HeapOK,
     Marking, Swap, scan, heap, TypeOK, Ref
<1>8. ASSUME NEW o \in Objects PROVE ReferentOK(o)'
  BY <1>1, <1>2 DEF Everything, ReferentOK, Coming, Told, ControlOK, MarkOK, HeapOK,
     Marking, Swap, scan, heap, TypeOK, Ref
<1>9. ASSUME NEW o \in Objects PROVE RootOK(o)'
  BY <1>1, <1>2 DEF Everything, RootOK, Heap!Roots, Heap!Listed, ControlOK, Marking,
     Swap, scan, heap, TypeOK, Ref
<1>10. ASSUME NEW o \in Objects PROVE FinalOK(o)'
  BY <1>1, <1>2 DEF Everything, FinalOK, ReferentOK, RootOK, Heap!Roots, Heap!Listed,
     ControlOK, Coming, Told, Marking, MarkOK, HeapOK, Swap, scan, heap, TypeOK, Ref
<1>11. ASSUME NEW o \in Objects PROVE SwapOK(o)'
  BY <1>1, <1>2 DEF Everything, SwapOK, Phases, FieldOK, ReferentOK, FinalOK, Coming,
     Told, ControlOK, MarkOK, HeapOK, Marking, Swap, scan, heap, TypeOK, Ref
<1> QED
  BY <1>2, <1>3, <1>4, <1>5, <1>6, <1>7, <1>8, <1>9, <1>10, <1>11 DEF IInv, Everything

\* The invariant is kept when a word is swept.
LEMMA SweepWordInv ==
  ASSUME IInv, SweepWord
  PROVE  IInv'
<1> USE HeapAssumption, WordAssumption, CardAssumption
<1>1. TypeOK /\ ControlOK /\ Everything
  BY DEF IInv
<1>2. TypeOK'
  BY <1>1 DEF TypeOK, Phases, Ref, Heap!AllKinds, GcSpecs, SweepWord, heap
<1>3. ControlOK'
  BY <1>1, <1>2 DEF ControlOK, SafePoint, Phases, SweepWord, heap, TypeOK, Ref,
     Everything, MarkOK
<1>4. ASSUME NEW o \in Objects PROVE HeapOK(o)'
  BY <1>1, <1>2 DEF Everything, HeapOK, ControlOK, RootOK, SwapOK, SweepOK, MarkOK,
     Marking, Heap!Roots, Heap!Listed, SweepWord, heap, TypeOK, Ref
<1>5. ASSUME NEW o \in Objects PROVE MarkOK(o)'
  BY <1>1, <1>2 DEF Everything, MarkOK, HeapOK, ControlOK, Marking, Phases, Heap!Roots,
     Heap!Listed, FinalOK, SweepWord, heap, TypeOK, Ref
<1>6. ASSUME NEW o \in Objects PROVE SweepOK(o)'
  BY <1>1, <1>2 DEF Everything, SweepOK, ControlOK, MarkOK, HeapOK, SweepWord, heap,
     TypeOK, Ref
<1>7. ASSUME NEW o \in Objects PROVE FieldOK(o)'
  BY <1>1, <1>2 DEF Everything, FieldOK, Coming, Told, ControlOK, MarkOK, HeapOK,
     Marking, SweepWord, heap, TypeOK, Ref
<1>8. ASSUME NEW o \in Objects PROVE ReferentOK(o)'
  BY <1>1, <1>2 DEF Everything, ReferentOK, Coming, Told, ControlOK, MarkOK, HeapOK,
     Marking, SweepWord, heap, TypeOK, Ref
<1>9. ASSUME NEW o \in Objects PROVE RootOK(o)'
  BY <1>1, <1>2 DEF Everything, RootOK, Heap!Roots, Heap!Listed, ControlOK, Marking,
     SweepWord, heap, TypeOK, Ref
<1>10. ASSUME NEW o \in Objects PROVE FinalOK(o)'
  BY <1>1, <1>2 DEF Everything, FinalOK, ReferentOK, RootOK, Heap!Roots, Heap!Listed,
     ControlOK, Coming, Told, Marking, MarkOK, HeapOK, SweepWord, heap, TypeOK, Ref
<1>11. ASSUME NEW o \in Objects PROVE SwapOK(o)'
  BY <1>1, <1>2 DEF Everything, SwapOK, Phases, FieldOK, ReferentOK, FinalOK, Coming,
     Told, ControlOK, MarkOK, HeapOK, Marking, SweepWord, heap, TypeOK, Ref
<1> QED
  BY <1>2, <1>3, <1>4, <1>5, <1>6, <1>7, <1>8, <1>9, <1>10, <1>11 DEF IInv, Everything

\* The invariant is kept when chunks are freed.
LEMMA FreeListInv ==
  ASSUME IInv, FreeList
  PROVE  IInv'
<1> USE HeapAssumption, WordAssumption, CardAssumption
<1>1. TypeOK /\ ControlOK /\ Everything
  BY DEF IInv
<1>2. TypeOK'
  BY <1>1 DEF TypeOK, Phases, Ref, Heap!AllKinds, GcSpecs, FreeList, Heap!Free,
     Heap!Empty
<1>3. ControlOK'
  BY <1>1, <1>2 DEF ControlOK, SafePoint, Phases, FreeList, Heap!Free, Heap!Empty,
     TypeOK, Ref, Everything, MarkOK
<1>4. ASSUME NEW o \in Objects PROVE HeapOK(o)'
  BY <1>1, <1>2 DEF Everything, HeapOK, ControlOK, RootOK, SwapOK, SweepOK, MarkOK,
     Marking, Heap!Roots, Heap!Listed, FreeList, Heap!Free, Heap!Empty, TypeOK, Ref
<1>5. ASSUME NEW o \in Objects PROVE MarkOK(o)'
  BY <1>1, <1>2 DEF Everything, MarkOK, HeapOK, ControlOK, Marking, Phases, Heap!Roots,
     Heap!Listed, FinalOK, FreeList, Heap!Free, Heap!Empty, TypeOK, Ref
<1>6. ASSUME NEW o \in Objects PROVE SweepOK(o)'
  BY <1>1, <1>2 DEF Everything, SweepOK, ControlOK, MarkOK, HeapOK, FreeList,
     Heap!Free, Heap!Empty, TypeOK, Ref
<1>7. ASSUME NEW o \in Objects PROVE FieldOK(o)'
  BY <1>1, <1>2 DEF Everything, FieldOK, Coming, Told, ControlOK, MarkOK, HeapOK,
     Marking, FreeList, Heap!Free, Heap!Empty, TypeOK, Ref
<1>8. ASSUME NEW o \in Objects PROVE ReferentOK(o)'
  BY <1>1, <1>2 DEF Everything, ReferentOK, Coming, Told, ControlOK, MarkOK, HeapOK,
     Marking, FreeList, Heap!Free, Heap!Empty, TypeOK, Ref
<1>9. ASSUME NEW o \in Objects PROVE RootOK(o)'
  BY <1>1, <1>2 DEF Everything, RootOK, Heap!Roots, Heap!Listed, ControlOK, Marking,
     FreeList, Heap!Free, Heap!Empty, TypeOK, Ref
<1>10. ASSUME NEW o \in Objects PROVE FinalOK(o)'
  BY <1>1, <1>2 DEF Everything, FinalOK, ReferentOK, RootOK, Heap!Roots, Heap!Listed,
     ControlOK, Coming, Told, Marking, MarkOK, HeapOK, FreeList, Heap!Free, Heap!Empty,
     TypeOK, Ref
<1>11. ASSUME NEW o \in Objects PROVE SwapOK(o)'
  BY <1>1, <1>2 DEF Everything, SwapOK, Phases, FieldOK, ReferentOK, FinalOK, Coming,
     Told, ControlOK, MarkOK, HeapOK, Marking, FreeList, Heap!Free, Heap!Empty, TypeOK,
     Ref
<1> QED
  BY <1>2, <1>3, <1>4, <1>5, <1>6, <1>7, <1>8, <1>9, <1>10, <1>11 DEF IInv, Everything

\* The invariant is kept when a collection ends.
LEMMA FinishInv ==
  ASSUME IInv, Finish
  PROVE  IInv'
<1> USE HeapAssumption, WordAssumption, CardAssumption
<1>1. TypeOK /\ ControlOK /\ Everything
  BY DEF IInv
<1>2. TypeOK'
  <2>1. gc' \in GcSpecs /\ finger' \in 0..WordCount
    BY DEF Finish, GcSpecs
  <2> QED
    BY <1>1, <2>1 DEF TypeOK, Phases, Ref, Finish, scan, heap
<1>3. ControlOK'
  BY <1>1, <1>2 DEF ControlOK, SafePoint, Phases, Finish, scan, heap, TypeOK, Ref,
     Everything, MarkOK
<1>4. ASSUME NEW o \in Objects PROVE HeapOK(o)'
  BY <1>1, <1>2 DEF Everything, HeapOK, ControlOK, RootOK, SwapOK, SweepOK, MarkOK,
     Marking, Heap!Roots, Heap!Listed, Finish, scan, heap, TypeOK, Ref
<1>5. ASSUME NEW o \in Objects PROVE MarkOK(o)'
  BY <1>1, <1>2 DEF Everything, MarkOK, HeapOK, ControlOK, Marking, Phases, Heap!Roots,
     Heap!Listed, FinalOK, Finish, scan, heap, TypeOK, Ref
<1>6. ASSUME NEW o \in Objects PROVE SweepOK(o)'
  BY <1>1, <1>2 DEF Everything, SweepOK, ControlOK, MarkOK, HeapOK, Finish, scan, heap,
     TypeOK, Ref
<1>7. ASSUME NEW o \in Objects PROVE FieldOK(o)'
  BY <1>1, <1>2 DEF Everything, FieldOK, Coming, Told, ControlOK, MarkOK, HeapOK,
     Marking, Finish, scan, heap, TypeOK, Ref
<1>8. ASSUME NEW o \in Objects PROVE ReferentOK(o)'
  BY <1>1, <1>2 DEF Everything, ReferentOK, Coming, Told, ControlOK, MarkOK, HeapOK,
     Marking, Finish, scan, heap, TypeOK, Ref
<1>9. ASSUME NEW o \in Objects PROVE RootOK(o)'
  BY <1>1, <1>2 DEF Everything, RootOK, Heap!Roots, Heap!Listed, ControlOK, Marking,
     Finish, scan, heap, TypeOK, Ref
<1>10. ASSUME NEW o \in Objects PROVE FinalOK(o)'
  BY <1>1, <1>2 DEF Everything, FinalOK, ReferentOK, RootOK, Heap!Roots, Heap!Listed,
     ControlOK, Coming, Told, Marking, MarkOK, HeapOK, Finish, scan, heap, TypeOK, Ref
<1>11. ASSUME NEW o \in Objects PROVE SwapOK(o)'
  BY <1>1, <1>2 DEF Everything, SwapOK, Phases, FieldOK, ReferentOK, FinalOK, Coming,
     Told, ControlOK, MarkOK, HeapOK, Marking, Finish, scan, heap, TypeOK, Ref
<1> QED
  BY <1>2, <1>3, <1>4, <1>5, <1>6, <1>7, <1>8, <1>9, <1>10, <1>11 DEF IInv, Everything

\* The invariant holds at first.
LEMMA InitInv == Init => IInv
<1> USE HeapAssumption, WordAssumption, CardAssumption
<1> SUFFICES ASSUME Init PROVE IInv
  OBVIOUS
<1>1. TypeOK
  <2>1. gc \in GcSpecs /\ finger \in 0..WordCount
    BY DEF Init, GcSpecs
  <2> QED BY <2>1 DEF Init, Heap!Init, TypeOK, Ref, Phases, Heap!AllKinds, Heap!Empty
<1>2. ControlOK
  BY DEF Init, ControlOK
<1>3. ASSUME NEW o \in Objects
      PROVE  /\ HeapOK(o) /\ MarkOK(o) /\ SweepOK(o) /\ FieldOK(o) /\ ReferentOK(o)
             /\ RootOK(o) /\ FinalOK(o) /\ SwapOK(o)
  <2>1. HeapOK(o)
    BY DEF Init, Heap!Init, HeapOK, Heap!Roots, Heap!Listed, Heap!Empty
  <2> QED
    BY <2>1 DEF Init, MarkOK, SweepOK, FieldOK, ReferentOK, RootOK, FinalOK, SwapOK, Marking
<1> QED BY <1>1, <1>2, <1>3 DEF IInv, Everything

\* Every step keeps the invariant.
LEMMA NextInv == IInv /\ [Next]_vars => IInv'
<1> SUFFICES ASSUME IInv, [Next]_vars PROVE IInv'
  OBVIOUS
<1>1. ASSUME NEW t \in Threads, NEW p \in Objects, NEW k \in Heap!AllKinds, Allocate(t, p, k) PROVE IInv'
  BY <1>1, AllocateInv
<1>2. ASSUME NEW t \in Threads, NEW p \in Objects, NEW q \in Objects, Clone(t, p, q) PROVE IInv'
  BY <1>2, CloneInv
<1>3. ASSUME NEW t \in Threads, NEW p \in Objects, NEW q \in Objects, SetReferent(t, p, q) PROVE IInv'
  BY <1>3, SetReferentInv
<1>4. ASSUME NEW t \in Threads, NEW p \in Objects, NEW f \in Fields, Load(t, p, f) PROVE IInv'
  BY <1>4, LoadInv
<1>5. ASSUME NEW t \in Threads, NEW p \in Objects, NEW f \in Fields, NEW v \in Ref, Store(t, p, f, v) PROVE IInv'
  BY <1>5, StoreInv
<1>6. ASSUME NEW t \in Threads, NEW p \in Objects, Drop(t, p) PROVE IInv'
  BY <1>6, DropInv
<1>7. ASSUME NEW t \in Threads, NEW p \in Objects, Get(t, p) PROVE IInv'
  BY <1>7, GetInv
<1>8. ASSUME NEW t \in Threads, NEW p \in Objects, Clear(t, p) PROVE IInv'
  BY <1>8, ClearInv
<1>9. ASSUME NEW t \in Threads, MarkCard(t) PROVE IInv'
  BY <1>9, MarkCardInv
<1>10. ASSUME NEW t \in Threads, Mutate(t) PROVE IInv'
  BY <1>10, <1>1, <1>2, <1>3, <1>4, <1>5, <1>6, <1>7, <1>8, <1>9 DEF Mutate
<1>11. ASSUME WalkWord PROVE IInv'
  BY <1>11, WalkWordInv
<1>12. ASSUME WalkEnds PROVE IInv'
  BY <1>12, WalkEndsInv
<1>13. ASSUME NEW p \in Objects, ScanNext(p) PROVE IInv'
  BY <1>13, ScanNextInv
<1>14. ASSUME NEW p \in Objects, Pop(p) PROVE IInv'
  BY <1>14, PopInv
<1>15. ASSUME NEW f \in Fields, ScanField(f) PROVE IInv'
  BY <1>15, ScanFieldInv
<1>16. ASSUME ScanEnds PROVE IInv'
  BY <1>16, ScanEndsInv
<1>17. ASSUME Remark PROVE IInv'
  BY <1>17, RemarkInv
<1>18. ASSUME BeginReferences PROVE IInv'
  BY <1>18, BeginReferencesInv
<1>19. ASSUME NEW p \in Objects, Preserve(p) PROVE IInv'
  BY <1>19, PreserveInv
<1>20. ASSUME ClearSoftAndWeak PROVE IInv'
  BY <1>20, ClearSoftAndWeakInv
<1>21. ASSUME EnqueueFinalizers PROVE IInv'
  BY <1>21, EnqueueFinalizersInv
<1>22. ASSUME ClearRest PROVE IInv'
  BY <1>22, ClearRestInv
<1>23. ASSUME Swap PROVE IInv'
  BY <1>23, SwapInv
<1>24. ASSUME SweepWord PROVE IInv'
  BY <1>24, SweepWordInv
<1>25. ASSUME FreeList PROVE IInv'
  BY <1>25, FreeListInv
<1>26. ASSUME Finish PROVE IInv'
  BY <1>26, FinishInv
<1>27. CASE Collect
  BY <1>27, <1>11, <1>12, <1>13, <1>14, <1>15, <1>16, <1>17, <1>18, <1>19, <1>20,
     <1>21, <1>22, <1>23, <1>24, <1>25, <1>26 DEF Collect, Mark
<1>28. ASSUME NEW spec \in GcSpecs, Begin(spec) PROVE IInv'
  BY <1>28, BeginInv
<1>29. CASE UNCHANGED vars
  <2>1. TypeOK' /\ ControlOK'
    BY <1>29 DEF IInv, vars, heap, scan, TypeOK, ControlOK, SafePoint
  <2>2. Everything'
    BY <1>29 DEF IInv, vars, heap, scan, Everything, HeapOK, MarkOK, SweepOK, FieldOK, ReferentOK,
                 RootOK, FinalOK, SwapOK, Marking, Coming, Told, Heap!Roots, Heap!Listed
  <2> QED BY <2>1, <2>2 DEF IInv
<1> QED BY <1>10, <1>27, <1>28, <1>29 DEF Next

(***************************************************************************)
(* The theorems.                                                           *)
(***************************************************************************)
\* The inductive invariant holds in every state of every collection.
THEOREM Invariance == Spec => []IInv
BY InitInv, NextInv, PTL DEF Spec

\* Every variable holds a value of its kind.
THEOREM TypeCorrect == Spec => []TypeOK
<1>1. IInv => TypeOK
  BY DEF IInv
<1> QED BY <1>1, Invariance, PTL

\* The VM's check of its card table (dvmVerifyCardTable) never aborts.
THEOREM CardTableVerified == Spec => []GrayOnDirtyCards
<1>1. IInv => GrayOnDirtyCards
  <2> SUFFICES ASSUME IInv, phase = "cards", NEW o \in mark, NEW f \in Fields,
                      White(field[o][f])
               PROVE  CardOf[o] \in card \/ o \in stack \/ o = cur
    BY DEF GrayOnDirtyCards
  <2>1. o \in Objects /\ FieldOK(o) /\ ControlOK
    BY DEF IInv, TypeOK, Everything
  <2> QED BY <2>1 DEF FieldOK, ControlOK, White, Coming, Told, Marking
<1> QED BY <1>1, Invariance, PTL

\* The lists of References are empty when they have been processed and between
\* collections, as the assertions say (MarkSweep.cpp:817-820, Heap.cpp:493-496): a
\* FinalizerReference that is reached only by way of a zombie has no white referent.
ListsEmpty == phase \in {"swap", "sweep", "idle"} => pending = {}
THEOREM ListsAreEmpty == Spec => []ListsEmpty
<1>1. IInv => ListsEmpty
  BY DEF IInv, Everything, MarkOK, Marking, ListsEmpty, TypeOK
<1> QED BY <1>1, Invariance, PTL

\* After the bitmaps are swapped nothing that a thread can reach is swept, and nothing
\* that is live refers to it (dvmHeapSweepUnmarkedObjects, allocations included).
SweptAreGarbage == phase = "sweep" =>
  /\ batch \cap Heap!Roots = {}
  /\ \A o \in live, f \in Fields : field[o][f] \notin batch /\ referent[o] \notin batch
THEOREM SweepIsSafe == Spec => []SweptAreGarbage
<1>1. IInv => SweptAreGarbage
  BY HeapAssumption DEF IInv, Everything, HeapOK, SweepOK, SweptAreGarbage, TypeOK
<1> QED BY <1>1, Invariance, PTL

(***************************************************************************)
(* Refinement: every step is one of the abstract heap, or leaves it alone. *)
(***************************************************************************)
\* What is outside a closed set that holds the roots is out of reach.
LEMMA OutOfReach ==
  ASSUME NEW S \in SUBSET Objects, Heap!Roots \subseteq S, Heap!Closed(S),
         NEW o, o \notin S
  PROVE  ~Heap!Reachable(o)
BY DEF Heap!Reachable

\* Once all is marked, what is not marked is out of reach.
LEMMA WhiteOutOfReach ==
  ASSUME IInv, phase \in {"soft", "finalize", "zombies"}, Idle, NEW o, o \notin mark
  PROVE  ~Heap!Reachable(o)
<1>1. Heap!Roots \subseteq mark
  <2> SUFFICES ASSUME NEW p \in Heap!Roots PROVE p \in mark
    OBVIOUS
  <2>1. p \in Objects
    BY DEF IInv, TypeOK, Heap!Roots, Heap!Listed
  <2>2. RootOK(p) /\ ControlOK
    BY <2>1 DEF IInv, Everything
  <2> QED BY <2>2 DEF RootOK, ControlOK, Marking
<1>2. Heap!Closed(mark)
  <2> SUFFICES ASSUME NEW p \in mark, NEW f \in Fields PROVE field[p][f] \in mark \cup {Null}
    BY DEF Heap!Closed
  <2>1. p \in Objects /\ FieldOK(p)
    BY DEF IInv, Everything, TypeOK
  <2>2. cur = Null /\ p # cur
    BY <2>1, HeapAssumption DEF Idle
  <2> QED BY <2>1, <2>2 DEF FieldOK, Idle, Coming, Told, Marking
<1>3. mark \in SUBSET Objects
  BY DEF IInv, TypeOK
<1> QED BY <1>1, <1>2, <1>3, OutOfReach

\* Clearing References with white referents is clearing what is out of reach.
LEMMA ClearImplements ==
  ASSUME IInv, NEW S, ClearWhite(S), phase \in {"soft", "zombies"}, Idle
  PROVE  Heap!Next
<1> DEFINE R == {o \in OfKind(S) : White(referent[o])}
<1>1. R \in SUBSET used
  <2> SUFFICES ASSUME NEW o \in R PROVE o \in used
    OBVIOUS
  <2>1. o \in Objects /\ o \in pending
    BY DEF IInv, TypeOK, OfKind
  <2>2. MarkOK(o) /\ HeapOK(o)
    BY <2>1 DEF IInv, Everything
  <2> QED BY <2>1, <2>2 DEF MarkOK, HeapOK
<1>2. \A o \in R : ~Heap!Reachable(referent[o])
  BY WhiteOutOfReach DEF White
<1>3. Heap!Forget(R) /\ UNCHANGED <<used, kind, field, root>>
  BY DEF ClearWhite
<1>4. Heap!ClearReferents
  <2> HIDE DEF R
  <2> QED BY <1>1, <1>2, <1>3 DEF Heap!ClearReferents
<1> QED BY <1>4 DEF Heap!Next

\* Saving zombies is finalizing what is out of reach.
LEMMA FinalizeImplements ==
  ASSUME IInv, EnqueueFinalizers
  PROVE  Heap!Next
<1>1. PICK R \in SUBSET OfKind({"finalizer"}) :
        /\ \A o \in R : White(referent[o])
        /\ field' = [o \in Objects |-> IF o \in R
                                       THEN [field[o] EXCEPT ![Zombie] = referent[o]]
                                       ELSE field[o]]
        /\ Heap!Forget(R)
  BY DEF EnqueueFinalizers
<1>2. Idle /\ phase = "finalize" /\ UNCHANGED <<used, kind, root>>
  BY DEF IInv, ControlOK, EnqueueFinalizers, Idle
<1>3. ASSUME NEW o \in R
      PROVE  /\ o \in used /\ kind[o] = "finalizer" /\ referent[o] \in used
             /\ ~Heap!Reachable(referent[o])
  <2>1. o \in Objects /\ o \in pending /\ kind[o] = "finalizer"
    BY DEF IInv, TypeOK, OfKind
  <2>2. MarkOK(o) /\ HeapOK(o)
    BY <2>1 DEF IInv, Everything
  <2>3. referent[o] \in live /\ o \in live
    BY <1>1, <1>2, <2>1, <2>2 DEF MarkOK, HeapOK, White
  <2>4. referent[o] \in Objects /\ HeapOK(referent[o])
    BY <2>3 DEF IInv, TypeOK, Everything
  <2>5. ~Heap!Reachable(referent[o])
    BY <1>1, <1>2, WhiteOutOfReach DEF White
  <2> QED BY <2>1, <2>2, <2>3, <2>4, <2>5 DEF HeapOK
<1>4. R \in SUBSET used
  BY <1>3
<1>5. Heap!Finalize
  BY <1>1, <1>2, <1>3, <1>4 DEF Heap!Finalize
<1> QED BY <1>5 DEF Heap!Next

\* Freeing what is swept is reclaiming what is out of reach.
LEMMA FreeImplements ==
  ASSUME IInv, FreeList
  PROVE  Heap!Next
<1>1. Heap!Roots \subseteq live
  <2> SUFFICES ASSUME NEW p \in Heap!Roots PROVE p \in live
    OBVIOUS
  <2>1. p \in Objects
    BY DEF IInv, TypeOK, Heap!Roots, Heap!Listed
  <2> QED BY <2>1 DEF IInv, Everything, HeapOK
<1>2. Heap!Closed(live)
  BY DEF IInv, TypeOK, Everything, HeapOK, Heap!Closed
<1>3. ASSUME NEW o \in batch PROVE o \in used /\ o \notin live /\ ~Heap!Reachable(o)
  <2>1. o \in Objects /\ SweepOK(o) /\ phase = "sweep"
    BY DEF IInv, TypeOK, Everything, FreeList
  <2>2. o \in used /\ o \notin live
    BY <2>1 DEF SweepOK
  <2>3. live \in SUBSET Objects
    BY DEF IInv, TypeOK
  <2> QED BY <1>1, <1>2, <2>2, <2>3, OutOfReach
<1>4. ASSUME NEW o \in used, Heap!Reachable(o) PROVE referent[o] \notin batch
  <2>1. live \in SUBSET Objects /\ o \in Objects
    BY DEF IInv, TypeOK
  <2>2. o \in live
    BY <1>1, <1>2, <1>4, <2>1, OutOfReach
  <2>3. referent[o] \in live \cup {Null}
    BY <2>1, <2>2 DEF IInv, Everything, HeapOK
  <2>4. Null \notin batch
    BY HeapAssumption DEF IInv, TypeOK
  <2> QED BY <1>3, <2>3, <2>4
<1>5. Heap!Free(batch)
  BY DEF FreeList
<1>6. Heap!Reclaim
  <2>1. batch \in SUBSET used
    BY <1>3
  <2> QED BY <1>3, <1>4, <1>5, <2>1 DEF Heap!Reclaim
<1> QED BY <1>6 DEF Heap!Next

\* Every step of the VM is a step of the abstract heap, or none.
LEMMA StepImplements == IInv /\ [Next]_vars => [Heap!Next]_(Heap!heap)
<1> SUFFICES ASSUME IInv, [Next]_vars PROVE Heap!Next \/ UNCHANGED Heap!heap
  OBVIOUS
<1>1. ASSUME NEW t \in Threads, NEW p \in Objects, NEW k \in Heap!AllKinds, Allocate(t, p, k) PROVE Heap!Next
  BY <1>1 DEF Allocate, Heap!Next
<1>2. ASSUME NEW t \in Threads, NEW p \in Objects, NEW q \in Objects, Clone(t, p, q) PROVE Heap!Next
  BY <1>2 DEF Clone, Heap!Next
<1>3. ASSUME NEW t \in Threads, NEW p \in Objects, NEW q \in Objects, SetReferent(t, p, q) PROVE Heap!Next
  BY <1>3 DEF SetReferent, Heap!Next
<1>4. ASSUME NEW t \in Threads, NEW p \in Objects, NEW f \in Fields, Load(t, p, f) PROVE Heap!Next
  BY <1>4 DEF Load, Heap!Next
<1>5. ASSUME NEW t \in Threads, NEW p \in Objects, NEW f \in Fields, NEW v \in Ref, Store(t, p, f, v) PROVE Heap!Next
  BY <1>5 DEF Store, Heap!Next, Heap!Ref, Ref
<1>6. ASSUME NEW t \in Threads, NEW p \in Objects, Drop(t, p) PROVE Heap!Next
  BY <1>6 DEF Drop, Heap!Next
<1>7. ASSUME NEW t \in Threads, NEW p \in Objects, Get(t, p) PROVE Heap!Next
  BY <1>7 DEF Get, Heap!Next
<1>8. ASSUME NEW t \in Threads, NEW p \in Objects, Clear(t, p) PROVE Heap!Next
  BY <1>8 DEF Clear, Heap!Next
<1>9. ASSUME NEW t \in Threads, MarkCard(t) PROVE UNCHANGED Heap!heap
  BY <1>9 DEF MarkCard, heap, Heap!heap
<1>10. ASSUME NEW t \in Threads, Mutate(t) PROVE Heap!Next \/ UNCHANGED Heap!heap
  BY <1>10, <1>1, <1>2, <1>3, <1>4, <1>5, <1>6, <1>7, <1>8, <1>9 DEF Mutate
<1>11. ASSUME WalkWord PROVE UNCHANGED Heap!heap
  BY <1>11 DEF WalkWord, heap, Heap!heap
<1>12. ASSUME WalkEnds PROVE UNCHANGED Heap!heap
  BY <1>12 DEF WalkEnds, heap, Heap!heap
<1>13. ASSUME NEW p \in Objects, ScanNext(p) PROVE UNCHANGED Heap!heap
  BY <1>13 DEF ScanNext, heap, Heap!heap
<1>14. ASSUME NEW p \in Objects, Pop(p) PROVE UNCHANGED Heap!heap
  BY <1>14 DEF Pop, heap, Heap!heap
<1>15. ASSUME NEW f \in Fields, ScanField(f) PROVE UNCHANGED Heap!heap
  BY <1>15 DEF ScanField, heap, Heap!heap
<1>16. ASSUME ScanEnds PROVE UNCHANGED Heap!heap
  BY <1>16 DEF ScanEnds, heap, Heap!heap
<1>17. ASSUME Remark PROVE UNCHANGED Heap!heap
  BY <1>17 DEF Remark, heap, Heap!heap
<1>18. ASSUME BeginReferences PROVE UNCHANGED Heap!heap
  BY <1>18 DEF BeginReferences, heap, Heap!heap
<1>19. ASSUME NEW p \in Objects, Preserve(p) PROVE UNCHANGED Heap!heap
  BY <1>19 DEF Preserve, heap, Heap!heap
<1>20. ASSUME ClearSoftAndWeak PROVE Heap!Next
  BY <1>20, ClearImplements DEF ClearSoftAndWeak
<1>21. ASSUME EnqueueFinalizers PROVE Heap!Next
  BY <1>21, FinalizeImplements
<1>22. ASSUME ClearRest PROVE Heap!Next
  BY <1>22, ClearImplements DEF ClearRest
<1>23. ASSUME Swap PROVE UNCHANGED Heap!heap
  BY <1>23 DEF Swap, heap, Heap!heap
<1>24. ASSUME SweepWord PROVE UNCHANGED Heap!heap
  BY <1>24 DEF SweepWord, heap, Heap!heap
<1>25. ASSUME FreeList PROVE Heap!Next
  BY <1>25, FreeImplements
<1>26. ASSUME Finish PROVE UNCHANGED Heap!heap
  BY <1>26 DEF Finish, heap, Heap!heap
<1>27. CASE Collect
  BY <1>27, <1>11, <1>12, <1>13, <1>14, <1>15, <1>16, <1>17, <1>18, <1>19, <1>20,
     <1>21, <1>22, <1>23, <1>24, <1>25, <1>26 DEF Collect, Mark
<1>28. ASSUME NEW spec \in GcSpecs, Begin(spec) PROVE UNCHANGED Heap!heap
  BY <1>28 DEF Begin, heap, Heap!heap
<1>29. CASE UNCHANGED vars
  BY <1>29 DEF vars, heap, Heap!heap
<1> QED BY <1>10, <1>27, <1>28, <1>29 DEF Next

\* The collector implements the abstract heap: a program cannot tell that objects it does
\* not reach are freed, cleared and finalized while it runs (dvmCollectGarbageInternal).
THEOREM CollectorImplementsHeap == Spec => Implements
<1>1. Init => Heap!Init
  BY DEF Init
<1> QED BY <1>1, StepImplements, Invariance, PTL DEF Spec, Implements, Heap!Spec

(***************************************************************************)
(* Nothing is kept without a reason.  While a collection with the threads  *)
(* stopped marks, every set that holds the roots, the immune objects, what *)
(* its members refer to and the referents that their soft References have  *)
(* marked already, holds what is marked: a soft Reference that has not     *)
(* been saved from yet may still be cleared, and asks for nothing.         *)
(***************************************************************************)
Accounts(S) ==
  /\ Heap!Roots \subseteq S
  /\ gc.partial => live \cap Zygote \subseteq S
  /\ Heap!Closed(S)
  /\ \A o \in S : kind[o] = "soft" /\ referent[o] \in mark => referent[o] \in S
AccountedFor ==
  ~gc.concurrent /\ (Marking \/ phase = "swap") =>
    \A S \in SUBSET Objects : Accounts(S) => mark \subseteq S

\* only soft referents are saved, and a zombie is not overwritten by the next one: what it
\* leads to would lose its reason to be marked
ReferenceOK(o) ==
  /\ phase = "soft" /\ o \in batch => kind[o] = "soft"
  /\ kind[o] = "finalizer" /\ referent[o] # Null => field[o][Zombie] = Null

KeepInv == AccountedFor /\ \A o \in Objects : ReferenceOK(o)

\* The threads leave References as they should be.
LEMMA MutateReferences ==
  ASSUME IInv, NEW t \in Threads, Mutate(t), \A o \in Objects : ReferenceOK(o),
         NEW o \in Objects
  PROVE  ReferenceOK(o)'
<1> USE HeapAssumption
<1>1. TypeOK /\ (phase = "soft" => ~Runs(t)) /\ \A p \in Objects : ReferenceOK(p)
  BY DEF IInv, ControlOK, Runs
<1>2. ASSUME NEW p \in Objects, NEW k \in Heap!AllKinds, Allocate(t, p, k)
      PROVE  ReferenceOK(o)'
  BY <1>1, <1>2 DEF ReferenceOK, TypeOK, Allocate, New, Heap!Allocate, Heap!New, scan
<1>3. ASSUME NEW p \in Objects, NEW q \in Objects, Clone(t, p, q)
      PROVE  ReferenceOK(o)'
  BY <1>1, <1>3 DEF ReferenceOK, TypeOK, Clone, New, Heap!Clone, Heap!New, scan
<1>4. ASSUME NEW p \in Objects, NEW q \in Objects, SetReferent(t, p, q)
      PROVE  ReferenceOK(o)'
  BY <1>1, <1>4 DEF ReferenceOK, TypeOK, SetReferent, Heap!SetReferent, collector, scan
<1>5. ASSUME NEW p \in Objects, NEW f \in Fields, Load(t, p, f)
      PROVE  ReferenceOK(o)'
  BY <1>1, <1>5 DEF ReferenceOK, TypeOK, Load, Heap!Load, collector, scan
<1>6. ASSUME NEW p \in Objects, NEW f \in Fields, NEW v \in Ref, Store(t, p, f, v)
      PROVE  ReferenceOK(o)'
  BY <1>1, <1>6 DEF ReferenceOK, TypeOK, Store, Heap!Store, collector, scan
<1>7. ASSUME NEW p \in Objects, Get(t, p) \/ Drop(t, p)
      PROVE  ReferenceOK(o)'
  BY <1>1, <1>7 DEF ReferenceOK, TypeOK, Get, Heap!Get, Drop, Heap!Drop, collector, scan
<1>8. ASSUME NEW p \in Objects, Clear(t, p)
      PROVE  ReferenceOK(o)'
  BY <1>1, <1>8 DEF ReferenceOK, TypeOK, Clear, Heap!Clear, collector, scan
<1>9. ASSUME MarkCard(t)
      PROVE  ReferenceOK(o)'
  BY <1>1, <1>9 DEF ReferenceOK, TypeOK, MarkCard, heap, collector, scan
<1> QED BY <1>2, <1>3, <1>4, <1>5, <1>6, <1>7, <1>8, <1>9 DEF Mutate

\* So does the collector.
LEMMA CollectReferences ==
  ASSUME IInv, Collect \/ \E spec \in GcSpecs : Begin(spec),
         \A o \in Objects : ReferenceOK(o), NEW o \in Objects
  PROVE  ReferenceOK(o)'
<1> USE HeapAssumption
<1>1. TypeOK /\ ControlOK /\ \A p \in Objects : ReferenceOK(p)
  BY DEF IInv
<1>2. ASSUME \/ WalkWord \/ WalkEnds \/ ScanEnds \/ Remark \/ BeginReferences
             \/ \E p \in Objects : ScanNext(p) \/ Pop(p)
             \/ \E f \in Fields : ScanField(f)
             \/ \E spec \in GcSpecs : Begin(spec)
      PROVE  ReferenceOK(o)'
  BY <1>1, <1>2 DEF ReferenceOK, WalkWord, WalkEnds, ScanEnds, Remark, BeginReferences,
     OfKind, ScanNext, Pop, ScanField, Begin, heap, scan
<1>3. ASSUME NEW p \in Objects, Preserve(p)
      PROVE  ReferenceOK(o)'
  BY <1>1, <1>3 DEF ReferenceOK, Preserve, heap
<1>4. ASSUME ClearSoftAndWeak \/ ClearRest
      PROVE  ReferenceOK(o)'
  BY <1>1, <1>4 DEF ReferenceOK, TypeOK, ClearSoftAndWeak, ClearRest, ClearWhite,
     Heap!Forget, scan
<1>5. ASSUME EnqueueFinalizers
      PROVE  ReferenceOK(o)'
  BY <1>1, <1>5 DEF ReferenceOK, TypeOK, EnqueueFinalizers, Heap!Forget
<1>6. ASSUME Swap \/ SweepWord \/ Finish
      PROVE  ReferenceOK(o)'
  BY <1>1, <1>6 DEF ReferenceOK, Swap, SweepWord, Finish, heap, scan
<1>7. ASSUME FreeList
      PROVE  ReferenceOK(o)'
  BY <1>1, <1>7 DEF ReferenceOK, TypeOK, FreeList, Heap!Free
<1> QED BY <1>2, <1>3, <1>4, <1>5, <1>6, <1>7 DEF Collect, Mark

\* A collection that stops the threads has stopped them while it marks.
LEMMA HaltedWhileMarking ==
  ASSUME IInv, NEW t \in Threads, Mutate(t)
  PROVE  AccountedFor'
<1>1. ControlOK /\ ~(stopped /\ SafePoint)
  <2>1. Runs(t) \/ barrier[t] # Null
    BY DEF Mutate, Allocate, Clone, SetReferent, Load, Store, Get, Drop, Clear, MarkCard
  <2> QED BY <2>1 DEF IInv, ControlOK, Runs, SafePoint
<1>2. ~stopped /\ UNCHANGED <<gc, phase>>
  BY <1>1 DEF ControlOK, Mutate, Allocate, Clone, New, SetReferent, Load, Store, Get, Drop,
     Clear, MarkCard, collector
<1> QED BY <1>1, <1>2 DEF AccountedFor, ControlOK, Marking

\* Begin marks the immune objects and the roots, and nothing else.
LEMMA BeginAccounts ==
  ASSUME IInv, NEW spec \in GcSpecs, Begin(spec)
  PROVE  AccountedFor'
<1>1. mark = {}
  BY DEF IInv, ControlOK, Begin
<1>2. UNCHANGED <<heap, live>> /\ gc' = spec
      /\ mark' = Heap!Roots \cup (IF spec.partial THEN live \cap Zygote ELSE {})
  BY <1>1 DEF Begin
<1> SUFFICES ASSUME NEW S \in SUBSET Objects, Accounts(S)' PROVE mark' \subseteq S
  BY DEF AccountedFor
<1>3. Heap!Roots \subseteq S /\ (spec.partial => live \cap Zygote \subseteq S)
  BY <1>2 DEF Accounts, heap, Heap!Roots, Heap!Listed
<1> QED BY <1>2, <1>3

\* A step that marks nothing and leaves the heap alone asks for no other reasons.
LEMMA MarksNothing ==
  ASSUME AccountedFor, UNCHANGED <<heap, live, mark, gc>>,
         (Marking \/ phase = "swap")' => Marking \/ phase = "swap"
  PROVE  AccountedFor'
<1> SUFFICES ASSUME ~gc'.concurrent, (Marking \/ phase = "swap")', NEW S \in SUBSET Objects,
                    Accounts(S)'
             PROVE  mark' \subseteq S
  BY DEF AccountedFor
<1>1. Accounts(S)
  BY DEF Accounts, heap, Heap!Roots, Heap!Listed, Heap!Closed
<1> QED BY <1>1 DEF AccountedFor

\* What a member refers to, or a soft member has saved, is asked for.
LEMMA MarksMore ==
  ASSUME AccountedFor, UNCHANGED <<heap, live, gc>>, mark \subseteq mark',
         Marking,
         \A S \in SUBSET Objects : Accounts(S)' /\ mark \subseteq S => mark' \subseteq S
  PROVE  AccountedFor'
<1> SUFFICES ASSUME ~gc'.concurrent, NEW S \in SUBSET Objects, Accounts(S)'
             PROVE  mark' \subseteq S
  BY DEF AccountedFor
<1>1. Accounts(S)
  BY DEF Accounts, heap, Heap!Roots, Heap!Listed, Heap!Closed
<1> QED BY <1>1 DEF AccountedFor

LEMMA ScanFieldAccounts ==
  ASSUME IInv, AccountedFor, NEW f \in Fields, ScanField(f)
  PROVE  AccountedFor'
<1>1. cur \in Objects /\ cur \in mark /\ Marking
  BY HeapAssumption DEF IInv, TypeOK, ControlOK, Everything, MarkOK, Ref, ScanField, Phases,
     Marking
<1>2. UNCHANGED <<heap, live, gc>> /\ mark' = mark \cup ({field[cur][f]} \ {Null})
  BY DEF ScanField, MarkAll
<1>3. ASSUME NEW S \in SUBSET Objects, Accounts(S)', mark \subseteq S PROVE mark' \subseteq S
  <2>1. field[cur][f] \in S \cup {Null}
    BY <1>1, <1>2, <1>3 DEF Accounts, heap, Heap!Closed
  <2> QED BY <1>2, <1>3, <2>1
<1> QED BY <1>1, <1>2, <1>3, MarksMore

LEMMA PreserveAccounts ==
  ASSUME IInv, KeepInv, NEW o \in Objects, Preserve(o)
  PROVE  AccountedFor'
<1>1. o \in mark /\ kind[o] = "soft" /\ Marking
  BY DEF IInv, Everything, MarkOK, KeepInv, ReferenceOK, Preserve, Marking
<1>2. UNCHANGED <<heap, live, gc>> /\ mark' \in {mark, mark \cup {referent[o]}}
  BY DEF Preserve, MarkAll
<1>3. ASSUME NEW S \in SUBSET Objects, Accounts(S)', mark \subseteq S PROVE mark' \subseteq S
  <2>1. referent[o] \in mark' => referent[o] \in S
    BY <1>1, <1>2, <1>3 DEF Accounts, heap
  <2> QED BY <1>2, <1>3, <2>1
<1> QED BY <1>1, <1>2, <1>3, MarksMore DEF KeepInv

\* A Reference that is cleared had a referent that is not marked, and asked for nothing.
LEMMA ClearAccounts ==
  ASSUME IInv, AccountedFor, NEW S, "finalizer" \notin S, ClearWhite(S), Marking
  PROVE  AccountedFor'
<1> USE HeapAssumption
<1>1. TypeOK
  BY DEF IInv
<1>2. UNCHANGED <<kind, field, root, live, mark, gc>>
  BY DEF ClearWhite
<1>3. ASSUME NEW o \in Objects
      PROVE  \/ referent'[o] = referent[o]
             \/ referent'[o] = Null /\ referent[o] \notin mark /\ kind[o] # "finalizer"
  <2> DEFINE R == {p \in OfKind(S) : White(referent[p])}
  <2>1. referent'[o] = IF o \in R THEN Null ELSE referent[o]
    BY DEF ClearWhite, Heap!Forget
  <2>2. o \in R => kind[o] # "finalizer" /\ referent[o] \notin mark
    BY DEF OfKind, White
  <2> QED BY <2>1, <2>2
<1> SUFFICES ASSUME ~gc.concurrent, NEW T \in SUBSET Objects, Accounts(T)'
             PROVE  mark \subseteq T
  BY <1>2 DEF AccountedFor
<1>4. Heap!Listed \subseteq Heap!Listed'
  BY <1>2, <1>3 DEF Heap!Listed
<1>5. Heap!Roots \subseteq T
  BY <1>2, <1>4 DEF Accounts, Heap!Roots
<1>6. Accounts(T)
  BY <1>2, <1>3, <1>5 DEF Accounts, Heap!Closed
<1> QED BY <1>6 DEF AccountedFor

\* A FinalizerReference on its list is a root; its zombie is what it refers to.
LEMMA FinalizeAccounts ==
  ASSUME IInv, KeepInv, EnqueueFinalizers
  PROVE  AccountedFor'
<1> USE HeapAssumption
<1>1. TypeOK /\ Marking
  BY DEF IInv, EnqueueFinalizers, Marking
<1>2. UNCHANGED <<kind, root, live, gc>>
  BY DEF EnqueueFinalizers
<1>3. PICK R \in SUBSET OfKind({"finalizer"}) :
        /\ \A o \in R : White(referent[o])
        /\ mark' = mark \cup {referent[o] : o \in R}
        /\ field' = [o \in Objects |-> IF o \in R
                                       THEN [field[o] EXCEPT ![Zombie] = referent[o]]
                                       ELSE field[o]]
        /\ Heap!Forget(R)
  BY DEF EnqueueFinalizers, MarkAll
<1>4. ASSUME NEW o \in R
      PROVE  /\ o \in Heap!Listed
             /\ referent[o] # Null /\ field[o][Zombie] = Null
             /\ field'[o] = [field[o] EXCEPT ![Zombie] = referent[o]]
  <2>1. o \in Objects /\ kind[o] = "finalizer" /\ referent[o] # Null
    BY <1>1, <1>3 DEF OfKind, TypeOK, White
  <2> QED BY <1>3, <2>1 DEF Heap!Listed, KeepInv, ReferenceOK
<1>5. ASSUME NEW o \in Objects, o \notin R
      PROVE  field'[o] = field[o] /\ referent'[o] = referent[o]
  BY <1>3, <1>5 DEF Heap!Forget
<1>6. ASSUME NEW o \in R PROVE field'[o][Zombie] = referent[o] /\ kind[o] = "finalizer"
  BY <1>1, <1>3, <1>4 DEF OfKind, TypeOK
<1>7. Heap!Listed \subseteq Heap!Listed'
  BY <1>2, <1>4, <1>5, <1>6 DEF Heap!Listed
<1> SUFFICES ASSUME ~gc.concurrent, NEW S \in SUBSET Objects, Accounts(S)'
             PROVE  mark' \subseteq S
  BY <1>2 DEF AccountedFor
<1>8. Heap!Roots \subseteq S
  BY <1>2, <1>7 DEF Accounts, Heap!Roots
<1>9. R \subseteq S
  BY <1>4, <1>8 DEF Heap!Roots
<1>10. Heap!Closed(S)
  <2> SUFFICES ASSUME NEW o \in S, NEW f \in Fields PROVE field[o][f] \in S \cup {Null}
    BY DEF Heap!Closed
  <2>1. field'[o][f] \in S \cup {Null}
    BY DEF Accounts, Heap!Closed
  <2>2. field[o][f] \in {field'[o][f], Null}
    <3>1. CASE o \in R
      <4>1. field[o] \in [Fields -> Ref]
        BY <1>1 DEF TypeOK
      <4>2. field[o][Zombie] = Null /\ field'[o] = [field[o] EXCEPT ![Zombie] = referent[o]]
        BY <1>4, <3>1
      <4> QED BY <4>1, <4>2
    <3>2. CASE o \notin R
      BY <1>5, <3>2
    <3> QED BY <3>1, <3>2
  <2> QED BY <2>1, <2>2
<1>11. ASSUME NEW o \in S, kind[o] = "soft", referent[o] \in mark PROVE referent[o] \in S
  BY <1>2, <1>3, <1>5, <1>6, <1>11 DEF Accounts
<1>12. mark \subseteq S
  BY <1>1, <1>2, <1>8, <1>10, <1>11 DEF Accounts, KeepInv, AccountedFor
<1>13. ASSUME NEW o \in R PROVE referent[o] \in S
  <2>1. field'[o][Zombie] \in S \cup {Null}
    BY <1>9 DEF Accounts, Heap!Closed
  <2> QED BY <1>4, <1>6, <2>1
<1> QED BY <1>3, <1>12, <1>13

\* Every step keeps this invariant.
LEMMA KeepNext == IInv /\ KeepInv /\ [Next]_vars => KeepInv'
<1> SUFFICES ASSUME IInv, KeepInv, [Next]_vars PROVE KeepInv'
  OBVIOUS
<1>1. AccountedFor /\ \A o \in Objects : ReferenceOK(o)
  BY DEF KeepInv
<1>2. ASSUME NEW t \in Threads, Mutate(t) PROVE KeepInv'
  BY <1>1, <1>2, MutateReferences, HaltedWhileMarking DEF KeepInv
<1>3. ASSUME NEW spec \in GcSpecs, Begin(spec) PROVE AccountedFor'
  BY <1>3, BeginAccounts
<1>4. ASSUME \/ WalkWord \/ WalkEnds \/ ScanEnds \/ BeginReferences
             \/ \E o \in Objects : ScanNext(o) \/ Pop(o)
      PROVE  AccountedFor'
  <2>1. UNCHANGED <<heap, live, mark, gc>> /\ (Marking \/ phase = "swap")
    <3>1. cur = Null \/ Marking
      BY DEF IInv, TypeOK, ControlOK, Phases, Marking
    <3> QED BY <1>4, <3>1 DEF WalkWord, WalkEnds, ScanEnds, BeginReferences, ScanNext, Pop,
            Marking
  <2> QED BY <1>1, <2>1, MarksNothing
<1>5. ASSUME Remark PROVE AccountedFor'
  BY <1>5 DEF Remark, AccountedFor
<1>6. ASSUME NEW f \in Fields, ScanField(f) PROVE AccountedFor'
  BY <1>1, <1>6, ScanFieldAccounts
<1>7. ASSUME NEW o \in Objects, Preserve(o) PROVE AccountedFor'
  BY <1>7, PreserveAccounts
<1>8. ASSUME ClearSoftAndWeak \/ ClearRest PROVE AccountedFor'
  BY <1>1, <1>8, ClearAccounts DEF ClearSoftAndWeak, ClearRest, Marking
<1>9. ASSUME EnqueueFinalizers PROVE AccountedFor'
  BY <1>9, FinalizeAccounts
<1>10. ASSUME Swap \/ SweepWord \/ FreeList \/ Finish PROVE AccountedFor'
  BY <1>10 DEF Swap, SweepWord, FreeList, Finish, AccountedFor, Marking
<1>11. ASSUME Collect PROVE AccountedFor'
  BY <1>4, <1>5, <1>6, <1>7, <1>8, <1>9, <1>10, <1>11 DEF Collect, Mark
<1>12. CASE Collect \/ \E spec \in GcSpecs : Begin(spec)
  BY <1>1, <1>3, <1>11, <1>12, CollectReferences DEF KeepInv
<1>13. CASE UNCHANGED vars
  <2>1. AccountedFor'
    BY <1>1, <1>13, MarksNothing DEF vars, heap, scan, Marking
  <2>2. \A o \in Objects : ReferenceOK(o)'
    BY <1>1, <1>13 DEF vars, heap, scan, ReferenceOK
  <2> QED BY <2>1, <2>2 DEF KeepInv
<1> QED BY <1>2, <1>12, <1>13 DEF Next

\* A collection with the threads stopped keeps nothing but the immune objects, the roots
\* and what they lead to, soft References included (dvmCollectGarbageInternal).
THEOREM NothingKeptInVain == Spec => []KeptForAReason
<1>1. Init => KeepInv
  BY DEF Init, Heap!Init, KeepInv, AccountedFor, ReferenceOK, Marking
<1>2. IInv /\ KeepInv => KeptForAReason
  <2> SUFFICES ASSUME IInv, KeepInv, phase = "swap", ~gc.concurrent,
                      NEW S \in SUBSET Objects,
                      Heap!Roots \subseteq S, gc.partial => live \cap Zygote \subseteq S,
                      Heap!Closed(S),
                      \A o \in S : kind[o] = "soft" => referent[o] \in S \cup {Null}
               PROVE  mark \subseteq S
    BY DEF KeptForAReason
  <2>1. Null \notin mark
    BY HeapAssumption DEF IInv, TypeOK
  <2>2. Accounts(S)
    BY <2>1 DEF Accounts
  <2> QED BY <2>2 DEF KeepInv, AccountedFor
<1> QED BY <1>1, <1>2, KeepNext, Invariance, PTL DEF Spec
=============================================================================
