------------------------------- MODULE RefTable -------------------------------
(***************************************************************************)
(* The class IndirectRefTable (vm/IndirectRefTable.cpp): a table of        *)
(* references to objects.  A reference is a slot's index and serial        *)
(* number.  Removing one leaves a hole, which the next one fills; a        *)
(* segment of the table is marked by a cookie, the top and the number of   *)
(* holes there were when it began.  Module IndirectRefTable has the calls  *)
(* of native code that use it.                                             *)
(***************************************************************************)
EXTENDS Naturals, Sequences, SequencesExt, FiniteSetsExt

CONSTANTS
  Objects, Null, Cleared,
  Initial,       \* alloc_entries_ in the beginning, kJniLocalRefMin
  MaxEntries,    \* max_entries_, kJniLocalRefMax
  Capacities,    \* how many references native code asks room for
  MaxRefs        \* bound: of the references handed out altogether

ASSUME ObjectAssumption == Null \notin Objects /\ Cleared \notin Objects /\ Null # Cleared
ASSUME EntriesAssumption == Initial \in 1..MaxEntries /\ MaxEntries \in Nat
ASSUME CapacityAssumption == Capacities \subseteq Nat
ASSUME RefsAssumption == MaxRefs \in Nat

VARIABLES
  kind,      \* kind_: "local" or "weak"
  pointers,  \* gDvmJni.workAroundAppJniBugs
  table,     \* table_ as slot, alloc_entries_ as alloc, segmentState as top and holes
  frames,    \* the stack: native methods, and frames of PushLocalFrame
  vm,        \* "running", "aborted" or "crashed"
  call       \* history: the last JNI call, its argument and its result

refs == <<kind, pointers, table, frames, vm, call>>

Indices == 0..MaxEntries - 1
Bare    == pointers /\ kind = "local"
Cookie  == [top |-> table.top, holes |-> table.holes]
\* promised is history: how many references the frame may still count on
Frame(native, cookie, n) == [native |-> native, cookie |-> cookie, promised |-> n]
\* the references handed out so far
Issued == UNION {{<<i, s>> : s \in 1..table.slot[i].serial} : i \in Indices}

(***************************************************************************)
(* IndirectRefTable::add(), get() and remove().                            *)
(***************************************************************************)
HasHole(T, c) == T.holes > c.holes
\* the first hole below the entry on top, with no look at the cookie
HoleIn(T) == Max({i \in 0..T.top - 2 : T.slot[i].obj = Null})
NextSlot(T, c) == IF HasHole(T, c) THEN HoleIn(T) ELSE T.top
Full(T, c)  == ~HasHole(T, c) /\ T.top = T.alloc /\ T.top = MaxEntries
Grows(T, c) == ~HasHole(T, c) /\ T.top = T.alloc /\ T.top # MaxEntries

Filled(T, i, o) ==
  [T EXCEPT !.slot[i] = [obj |-> o, serial |-> @.serial + 1]]
Added(T, c, o) ==
  LET S == Filled(T, NextSlot(T, c), o)
  IN  IF HasHole(T, c) THEN [S EXCEPT !.holes = @ - 1]
      ELSE [S EXCEPT !.top = @ + 1,
                     !.alloc = IF Grows(T, c) THEN Min({2 * @, MaxEntries}) ELSE @]

Found(T, j) == {T.slot[i].obj : i \in {k \in 0..T.top - 1 : /\ T.slot[k].obj # Null
                                                           /\ j = <<k, T.slot[k].serial>>}}

\* Mutant: the bottom of the segment is not looked at
PlacesAnywhere(T, c, j) ==
  LET live == {i \in 0..T.top - 1 : T.slot[i].obj # Null}
      bare == {i \in live : T.slot[i].obj = j}
  IN  IF ~Bare THEN {i \in live : j = <<i, T.slot[i].serial>>}
      ELSE IF bare = {} THEN {} ELSE {Min(bare)}
\* where jobj is in the current segment: the first slot with it, if it is a pointer
Places(T, c, j) ==
  LET segment == {i \in c.top..T.top - 1 : T.slot[i].obj # Null}
      bare    == {i \in segment : T.slot[i].obj = j}
  IN  IF ~Bare THEN {i \in segment : j = <<i, T.slot[i].serial>>}
      ELSE IF bare = {} THEN {} ELSE {Min(bare)}
\* an entry on top takes the holes below it along, any other becomes a hole
Removed(T, c, i) ==
  LET stop(t) == t = c.top \/ T.slot[t - 1].obj # Null \/ T.top - 1 - t = T.holes - c.holes
      top     == Max({t \in c.top..T.top - 1 : stop(t)})
  IN  IF i = T.top - 1
      THEN [T EXCEPT !.top = top, !.holes = @ - (T.top - 1 - top)]
      ELSE [T EXCEPT !.slot[i].obj = Null, !.holes = @ + 1]

(***************************************************************************)
(* What a table is good for, whatever the calls.                           *)
(***************************************************************************)
Bottom(i) == frames[i].cookie.top
Above(i)  == IF i = Len(frames) THEN table.top ELSE Bottom(i + 1)

\* The assertions of add() and remove() hold at any call: there are as many holes as the
\* counts say, so the search for one ends inside the segment, and the entry on top is none
\* (IndirectRefTable.cpp:71, 82, 86, 88).
HolesCounted ==
  \A i \in 1..Len(frames) :
    LET below == {k \in 0..Bottom(i) - 1 : table.slot[k].obj = Null}
        mine  == {k \in Bottom(i)..Above(i) - 1 : table.slot[k].obj = Null}
        next  == IF i = Len(frames) THEN table.holes ELSE frames[i + 1].cookie.holes
    IN  /\ Cardinality(below) = frames[i].cookie.holes
        /\ Cardinality(mine) = next - frames[i].cookie.holes
        /\ mine # {} => table.slot[Above(i) - 1].obj # Null

\* EnsureLocalCapacity() and PushLocalFrame() keep their word: native code that stays within
\* what it was granted is not aborted for a full table, whatever it called in between
\* (Jni.cpp:401).
CapacityKept ==
  [][vm' = "aborted" /\ call'[1] = "New" => Last(frames).promised = 0]_refs

(***************************************************************************)
(* The table and the stack as JNI sees them.                               *)
(***************************************************************************)
Entries(i) ==
  {[ref |-> <<k, table.slot[k].serial>>, obj |-> table.slot[k].obj] :
     k \in {n \in Bottom(i)..Above(i) - 1 : table.slot[n].obj # Null}}

References == [i \in 1..Len(frames) |-> [native |-> frames[i].native, refs |-> Entries(i)]]
\* a process that has crashed is gone like one that has aborted
Outcome == IF vm = "running" THEN vm ELSE "aborted"

Promise == INSTANCE JniRefs WITH
  frames <- References, issued <- Issued, Refs <- Indices \X (1..MaxRefs), vm <- Outcome

\* The table keeps JNI's promises (module JniRefs), over any sequence of calls: what was
\* handed out and not given up yields its object, what was given up yields nothing, and no
\* frame's references are touched from another frame.
Implements == Promise!Spec
=============================================================================
