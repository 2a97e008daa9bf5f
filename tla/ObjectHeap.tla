------------------------------ MODULE ObjectHeap ------------------------------
(***************************************************************************)
(* The managed heap as a program sees it: threads allocate objects, follow *)
(* and store references, and ask Reference objects for their referents.    *)
(* Storage goes away, and referents are cleared or handed to a finalizer,  *)
(* only when nobody can reach the object any more.  Module MarkSweep       *)
(* implements this with a collector that works while the threads run.      *)
(***************************************************************************)
CONSTANTS
  Threads,
  Objects,  \* chunks of storage
  Zygote,   \* those in use when the process is forked from the zygote
  Null,
  Fields,   \* the fields of an object that hold strong references
  Zombie,   \* FinalizerReference.zombie, one of them
  Kinds     \* bound: Kinds[o] are the kinds of objects that are allocated in chunk o

AllKinds == {"plain", "soft", "weak", "finalizer", "phantom"}

VARIABLES
  used,     \* the chunks in use
  kind,     \* "plain", or which subclass of Reference the object is of
  field,    \* its strong references
  referent, \* Reference.referent
  root      \* root[t]: what the registers, stack and locals of t refer to
heap == <<used, kind, field, referent, root>>

Ref == Objects \cup {Null}

Empty == [f \in Fields |-> Null]

Init ==
  /\ used = Zygote
  /\ kind = [o \in Objects |-> "plain"]
  /\ field = [o \in Objects |-> Empty]
  /\ referent = [o \in Objects |-> Null]
  /\ root = [t \in Threads |-> Zygote]

(***************************************************************************)
(* What the threads do.                                                    *)
(***************************************************************************)
New(t, o, k, fs) ==
  /\ o \notin used
  /\ used' = used \cup {o}
  /\ kind' = [kind EXCEPT ![o] = k]
  /\ field' = [field EXCEPT ![o] = fs]
  /\ referent' = [referent EXCEPT ![o] = Null]
  /\ root' = [root EXCEPT ![t] = root[t] \cup {o}]

Allocate(t, o, k) == k \in Kinds[o] /\ New(t, o, k, Empty)
Clone(t, o, p) ==
  /\ p \in root[t] /\ kind[p] = "plain" /\ "plain" \in Kinds[o]
  /\ New(t, o, "plain", field[p])
\* Reference's constructor, some time after the allocation; that it may run again after a
\* clear() only adds behaviours, but never does one whose referent is a zombie get another
SetReferent(t, o, r) ==
  /\ o \in root[t] /\ kind[o] # "plain" /\ referent[o] = Null /\ r \in root[t]
  /\ kind[o] = "finalizer" => field[o][Zombie] = Null
  /\ referent' = [referent EXCEPT ![o] = r]
  /\ UNCHANGED <<used, kind, field, root>>

Load(t, o, f) ==
  /\ o \in root[t] /\ field[o][f] # Null
  /\ root' = [root EXCEPT ![t] = root[t] \cup {field[o][f]}]
  /\ UNCHANGED <<used, kind, field, referent>>
\* a zombie is only taken away
Store(t, o, f, v) ==
  /\ o \in root[t] /\ v \in root[t] \cup {Null}
  /\ kind[o] = "finalizer" /\ f = Zombie => v = Null
  /\ field' = [field EXCEPT ![o] = [field[o] EXCEPT ![f] = v]]
  /\ UNCHANGED <<used, kind, referent, root>>
Drop(t, o) ==
  /\ o \in root[t]
  /\ root' = [root EXCEPT ![t] = root[t] \ {o}]
  /\ UNCHANGED <<used, kind, field, referent>>

\* Reference.get(); PhantomReference's answers null, FinalizerReference's its zombie
Get(t, o) ==
  /\ o \in root[t] /\ kind[o] \in {"soft", "weak"} /\ referent[o] # Null
  /\ root' = [root EXCEPT ![t] = root[t] \cup {referent[o]}]
  /\ UNCHANGED <<used, kind, field, referent>>
\* Reference.clear(); FinalizerReference's takes the zombie away
Clear(t, o) ==
  /\ o \in root[t] /\ kind[o] # "finalizer"
  /\ referent' = [referent EXCEPT ![o] = Null]
  /\ UNCHANGED <<used, kind, field, root>>

(***************************************************************************)
(* What happens to objects nobody can reach.                               *)
(***************************************************************************)
Closed(S) == \A o \in S, f \in Fields : field[o][f] \in S \cup {Null}

\* FinalizerReference's static list: those whose referents have not been finalized
Listed == {o \in Objects :
             kind[o] = "finalizer" /\ (referent[o] # Null \/ field[o][Zombie] # Null)}
Roots == Listed \cup UNION {root[t] : t \in Threads}

\* in every set that holds the roots and what its members refer to
Reachable(o) == \A S \in SUBSET Objects : Roots \subseteq S /\ Closed(S) => o \in S

\* storage is freed; its contents are lost, they are cleared when it is used again
Free(S) ==
  /\ used' = used \ S
  /\ kind' = [o \in Objects |-> IF o \in S THEN "plain" ELSE kind[o]]
  /\ field' = [o \in Objects |-> IF o \in S THEN Empty ELSE field[o]]
  /\ referent' = [o \in Objects |-> IF o \in S THEN Null ELSE referent[o]]
  /\ UNCHANGED root

\* the storage of some of them, if no Reference that can be reached still has them
Reclaim ==
  \E S \in SUBSET used :
    /\ \A o \in S : ~Reachable(o)
    /\ \A o \in used : Reachable(o) => referent[o] \notin S
    /\ Free(S)

\* References whose referents are in R lose them
Forget(R) == referent' = [o \in Objects |-> IF o \in R THEN Null ELSE referent[o]]

ClearReferents ==
  /\ \E R \in SUBSET used :
       /\ \A o \in R : referent[o] = Null \/ ~Reachable(referent[o])
       /\ Forget(R)
  /\ UNCHANGED <<used, kind, field, root>>

\* FinalizerReferences keep theirs as zombies, for the finalizer
Finalize ==
  /\ \E R \in SUBSET used :
       /\ \A o \in R : kind[o] = "finalizer" /\ referent[o] \in used /\ ~Reachable(referent[o])
       /\ field' = [o \in Objects |-> IF o \in R
                                      THEN [field[o] EXCEPT ![Zombie] = referent[o]]
                                      ELSE field[o]]
       /\ Forget(R)
  /\ UNCHANGED <<used, kind, root>>

Next ==
  \/ \E t \in Threads, o \in Objects :
       \/ \E k \in AllKinds : Allocate(t, o, k)
       \/ \E p \in Objects : Clone(t, o, p) \/ SetReferent(t, o, p)
       \/ \E f \in Fields : Load(t, o, f) \/ (\E v \in Ref : Store(t, o, f, v))
       \/ Drop(t, o) \/ Get(t, o) \/ Clear(t, o)
  \/ Reclaim \/ ClearReferents \/ Finalize

Spec == Init /\ [][Next]_heap
=============================================================================
