------------------------------ MODULE CacheEntry ------------------------------
(***************************************************************************)
(* An entry of the VM's lock-free caches (vm/AtomicCache.h, .cpp), the     *)
(* threads that use it, and what they may rely on.  How they read and      *)
(* update it is module AtomicCache's subject.                              *)
(***************************************************************************)
EXTENDS Naturals

CONSTANTS
  Users,        \* the threads
  Lookups,      \* pairs of keys that hash to the entry
  Calc,         \* ATOMIC_CACHE_CALC: what each of them should return
  Empty         \* the keys of an entry never filled

ASSUME LookupAssumption ==
  /\ \A k \in Lookups : k = <<k[1], k[2]>> /\ k[1] # Empty /\ k[2] # Empty
  /\ Calc \in [Lookups -> Nat]

VARIABLES
  entry,    \* key1, key2, value
  version,  \* its count, and its bit 31, ATOMIC_LOCK_FLAG
  at,       \* where each thread is
  keys,     \* the keys it looks up
  first,    \* firstVersion
  left,     \* fields it has yet to load or store
  got       \* the fields it has loaded; in the end, the value it returns

Fields  == {"key1", "key2", "value"}
Blank   == [key1 |-> Empty, key2 |-> Empty, value |-> 0]
Written(k) == [key1 |-> k[1], key2 |-> k[2], value |-> Calc[k]]
Even(v) == v.count % 2 = 0

\* nobody but t has changed the version since t made it even again
Mine(t) == version = [count |-> first[t].count + 2, lock |-> TRUE]

\* What a lookup returns is what the computation would: no reader is taken in by fields
\* of two updates, whatever writers do between its loads (AtomicCache.h:117).
LookupCorrect == \A t \in Users : at[t] = "return" => got[t].value = Calc[keys[t]]

\* The update is sound from inside, as its assertions and comments have it: who has the
\* lock began at an even version, finds the version as it left it, and does not call
\* dvmAbort(); "the state is always consistent when the version number is even", also
\* while the lock is held before and after the stores (AtomicCache.cpp:137).
UpdatesExclude ==
  /\ \A t \in Users :
       /\ at[t] \in {"begin", "write", "unlock"} => Even(first[t]) /\ version.lock
       /\ at[t] = "unlock" => Mine(t)
       /\ at[t] # "abort"
  /\ Even(version) => entry = Blank \/ \E k \in Lookups : entry = Written(k)
=============================================================================
