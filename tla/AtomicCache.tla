------------------------------ MODULE AtomicCache ------------------------------
(***************************************************************************)
(* An entry of the VM's lock-free caches (vm/AtomicCache.h, .cpp), which   *)
(* remember the results of instanceof and of interface method lookup.      *)
(* Readers take no lock: they read the entry's version before and after    *)
(* its fields.  A writer locks others out with a flag in the version, and  *)
(* makes it odd while it stores.                                           *)
(*                                                                         *)
(* The fields are loaded and stored in any order, but not across the       *)
(* accesses to the version: that is what the acquire loads and release     *)
(* stores of the code guarantee on a processor that reorders the rest.     *)
(* Entries are independent, so the module has one, and the lookups whose   *)
(* keys hash to it.                                                        *)
(***************************************************************************)
EXTENDS CacheEntry

CONSTANTS
  Runner,       \* the thread whose progress is looked at
  NullAllowed,  \* ATOMIC_CACHE_NULL_ALLOWED
  MaxVersion    \* bound: no lookup starts at a version above it

ASSUME RunnerAssumption == Runner \in Users /\ NullAllowed \in BOOLEAN /\ MaxVersion \in Nat

vars == <<entry, version, at, keys, first, left, got>>

Init ==
  /\ entry = Blank /\ version = [count |-> 0, lock |-> FALSE]
  /\ at = [t \in Users |-> "idle"]
  /\ keys \in [Users -> Lookups]
  /\ first = [t \in Users |-> [count |-> 0, lock |-> FALSE]]
  /\ left = [t \in Users |-> {}]
  /\ got = [t \in Users |-> Blank]

Goto(t, place) == at' = [at EXCEPT ![t] = place]
Answer(t, v)   == got' = [got EXCEPT ![t] = [Blank EXCEPT !.value = v]]

(***************************************************************************)
(* ATOMIC_CACHE_LOOKUP.                                                    *)
(***************************************************************************)
Lookup(t) ==
  /\ at[t] = "idle" /\ version.count <= MaxVersion
  /\ Goto(t, "read")
  /\ keys' \in {[keys EXCEPT ![t] = k] : k \in Lookups}
  /\ first' = [first EXCEPT ![t] = version]
  /\ left' = [left EXCEPT ![t] = Fields]
  /\ UNCHANGED <<entry, version, got>>

Read(t) ==
  /\ at[t] = "read"
  /\ \E f \in left[t] :
       /\ left' = [left EXCEPT ![t] = @ \ {f}]
       /\ got' = [got EXCEPT ![t][f] = entry[f]]
  /\ UNCHANGED <<entry, version, at, keys, first>>

Matches(t) == got[t].key1 = keys[t][1] /\ got[t].key2 = keys[t][2]
\* Mutant: the version is not read a second time
ClashedOnce(t) == ~Even(first[t])
Clashed(t) == ~Even(first[t]) \/ first[t] # version

\* the fields match: the version says whether they belong together
Hit(t) ==
  /\ at[t] = "read" /\ left[t] = {} /\ Matches(t) /\ ~Clashed(t)
  /\ Goto(t, "return") /\ Answer(t, got[t].value)
  /\ UNCHANGED <<entry, version, keys, first, left>>
\* Mutant: a reader that clashes waits for the writer and tries again
ClashSpins(t) ==
  /\ at[t] = "read" /\ left[t] = {} /\ Matches(t) /\ Clashed(t)
  /\ first' = [first EXCEPT ![t] = version]
  /\ left' = [left EXCEPT ![t] = Fields]
  /\ UNCHANGED <<entry, version, at, keys, got>>
Clash(t) ==
  /\ at[t] = "read" /\ left[t] = {} /\ Matches(t) /\ Clashed(t)
  /\ Goto(t, "return") /\ Answer(t, Calc[keys[t]])
  /\ UNCHANGED <<entry, version, keys, first, left>>

\* they do not: the result is computed and, if the macro's condition holds, stored
Miss(t) ==
  /\ at[t] = "read" /\ {"key1", "key2"} \cap left[t] = {} /\ ~Matches(t)
  /\ Answer(t, Calc[keys[t]])
  /\ Goto(t, IF Calc[keys[t]] = 0 /\ NullAllowed THEN "lock" ELSE "return")
  /\ left' = [left EXCEPT ![t] = {}]
  /\ UNCHANGED <<entry, version, keys, first>>

Return(t) ==
  /\ at[t] = "return"
  /\ Goto(t, "idle")
  /\ got' = [got EXCEPT ![t] = Blank]
  /\ UNCHANGED <<entry, version, keys, first, left>>

(***************************************************************************)
(* dvmUpdateAtomicCache().                                                 *)
(***************************************************************************)
Skip(t) ==
  /\ at[t] = "lock" /\ (first[t].lock \/ version # first[t])
  /\ Goto(t, "return")
  /\ UNCHANGED <<entry, version, keys, first, left, got>>
\* Mutant: the lock flag in firstVersion is not looked at
LockAnyway(t) ==
  /\ at[t] = "lock" /\ version = first[t]
  /\ version' = [version EXCEPT !.lock = TRUE]
  /\ Goto(t, "begin")
  /\ UNCHANGED <<entry, keys, first, left, got>>
Lock(t) ==
  /\ at[t] = "lock" /\ ~first[t].lock /\ version = first[t]
  /\ version' = [version EXCEPT !.lock = TRUE]
  /\ Goto(t, "begin")
  /\ UNCHANGED <<entry, keys, first, left, got>>

\* version = (firstVersion | ATOMIC_LOCK_FLAG) + 1
BeginUpdate(t) ==
  /\ at[t] = "begin"
  /\ version' = [count |-> first[t].count + 1, lock |-> TRUE]
  /\ left' = [left EXCEPT ![t] = Fields]
  /\ Goto(t, "write")
  /\ UNCHANGED <<entry, keys, first, got>>
Write(t) ==
  /\ at[t] = "write"
  /\ \E f \in left[t] :
       /\ left' = [left EXCEPT ![t] = @ \ {f}]
       /\ entry' = [entry EXCEPT ![f] = Written(keys[t])[f]]
  /\ UNCHANGED <<version, at, keys, first, got>>
EndUpdate(t) ==
  /\ at[t] = "write" /\ left[t] = {}
  /\ version' = [count |-> first[t].count + 2, lock |-> TRUE]
  /\ Goto(t, "unlock")
  /\ UNCHANGED <<entry, keys, first, left, got>>

\* the lock is given back by a CAS, which fails if somebody has changed the version
Unlock(t) ==
  /\ at[t] = "unlock"
  /\ version' = IF Mine(t) THEN [version EXCEPT !.lock = FALSE] ELSE version
  /\ Goto(t, IF Mine(t) THEN "return" ELSE "abort")
  /\ UNCHANGED <<entry, keys, first, left, got>>

Update(t) == Skip(t) \/ Lock(t) \/ BeginUpdate(t) \/ Write(t) \/ EndUpdate(t) \/ Unlock(t)
Goes(t)   == Read(t) \/ Hit(t) \/ Clash(t) \/ Miss(t) \/ Return(t) \/ Update(t)
Next      == \E t \in Users : Lookup(t) \/ Goes(t)

\* Only one thread is sure to be scheduled: the others may be suspended anywhere,
\* with the entry locked and half written.
Spec == Init /\ [][Next]_vars /\ WF_vars(Goes(Runner))

\* A lookup ends though every other thread may have stopped for good, one of them in the
\* middle of an update: nobody spins (AtomicCache.h:119).
LookupReturns == at[Runner] # "idle" ~> at[Runner] = "idle"

\* AtomicCache.h:133: a miss is to "Compute the result and update the cache", so when
\* there is no other thread the entry has the keys in the end, at least for a result
\* other than 0.
MissFills ==
  \A t \in Users :
    at[t] = "return" /\ Users = {t} /\ Calc[keys[t]] # 0 => entry = Written(keys[t])
=============================================================================
