---------------------------- MODULE IndirectRefTable ----------------------------
(***************************************************************************)
(* The tables behind JNI references (module RefTable) and their users in   *)
(* Jni.cpp, interp/Stack.cpp and the interpreter: a thread's local         *)
(* references, or the weak global ones of the VM.  A frame of native code  *)
(* is a segment of the table, whose cookie is saved on the stack when the  *)
(* frame is entered and put back when it is left.                          *)
(*                                                                         *)
(* The global tables are used under a mutex, the local ones by their       *)
(* thread alone, so that every call is one step.  Serial numbers are 12    *)
(* bits wide in the code: a slot reused 4096 times hands out a reference   *)
(* again.  Here they start at 0, and MaxRefs keeps them from wrapping.     *)
(***************************************************************************)
EXTENDS RefTable

CONSTANTS
  ReallocFails,  \* whether realloc() may fail
  MaxDepth       \* bound: of the frames

ASSUME ReallocAssumption == ReallocFails \in BOOLEAN
ASSUME BoundAssumption == MaxDepth \in Nat \ {0}

Init ==
  /\ kind \in {"local", "weak"} /\ pointers \in BOOLEAN
  /\ table = [slot |-> [i \in Indices |-> [obj |-> Null, serial |-> 0]],
              alloc |-> Initial, top |-> 0, holes |-> 0]
  /\ frames = <<Frame(TRUE, [top |-> 0, holes |-> 0], 0)>>
  /\ vm = "running" /\ call = <<"none", Null, Null>>

(***************************************************************************)
(* Jni.cpp: references are added, decoded and deleted.                     *)
(***************************************************************************)
\* what native code may pass: anything it was given at any time
Names == {Null} \cup IF Bare THEN Objects ELSE Issued

Stops(name, j, how) == vm' = how /\ call' = <<name, j, Null>> /\ UNCHANGED <<table, frames>>

\* addLocalReference(): o is added to table T, with fs as the stack
Adds(name, j, T, fs, o) ==
  LET c == Last(fs).cookie
      i == NextSlot(T, c)
  IN  \/ Full(T, c) /\ Stops(name, j, "aborted")
      \/ ReallocFails /\ Grows(T, c) /\ Stops(name, j, "crashed")
      \/ /\ ~Full(T, c)
         /\ Cardinality(Issued) < MaxRefs
         /\ table' = Added(T, c, o)
         /\ frames' = [fs EXCEPT ![Len(fs)].promised = IF @ = 0 THEN 0 ELSE @ - 1]
         /\ call' = <<name, j, IF Bare THEN o ELSE <<i, T.slot[i].serial + 1>>>>
         /\ vm' = vm

\* dvmDecodeIndirectRef(): {} if it aborts
Decoded(j) ==
  IF j = Null THEN {Null}
  ELSE IF Bare THEN {j}
  ELSE {IF o = Cleared THEN Null ELSE o : o \in Found(table, j)}
Misused(name, j) == Decoded(j) = {} /\ Stops(name, j, "aborted")

NewRef(o) == Adds("New", o, table, frames, o)

DeleteRef(j) ==
  LET c  == Last(frames).cookie
      is == Places(table, c, j)
  IN  /\ \/ is = {} /\ table' = table
         \/ \E i \in is : table' = Removed(table, c, i)
      /\ call' = <<"Delete", j, is # {}>>
      /\ UNCHANGED <<frames, vm>>

Decode(j) ==
  \/ Misused("Decode", j)
  \/ \E o \in Decoded(j) : call' = <<"Decode", j, o>> /\ UNCHANGED <<table, frames, vm>>

(***************************************************************************)
(* Frames.                                                                 *)
(***************************************************************************)
\* a native method is called, and its first argument gets a reference
CallNative(o) ==
  /\ Len(frames) < MaxDepth
  /\ Adds("Enter", o, table, Append(frames, Frame(TRUE, Cookie, 0)), o)

\* Mutant: the TODO at Jni.cpp:406 is done, and holes count as room
EnsureLocalCapacityHoles(n) == MaxEntries - (table.top - table.holes) >= n
EnsureLocalCapacity(n) == MaxEntries - table.top >= n
Ensure(n) ==
  /\ frames' = IF EnsureLocalCapacity(n)
               THEN [frames EXCEPT ![Len(frames)].promised = Max({@, n})] ELSE frames
  /\ call' = <<"Ensure", Null, EnsureLocalCapacity(n)>>
  /\ UNCHANGED <<table, vm>>
PushLocalFrame(n) ==
  /\ Len(frames) < MaxDepth
  /\ frames' = IF EnsureLocalCapacity(n) THEN Append(frames, Frame(FALSE, Cookie, n)) ELSE frames
  /\ call' = <<"Push", Null, EnsureLocalCapacity(n)>>
  /\ UNCHANGED <<table, vm>>

\* Mutant: the top is put back, the number of holes is not
PoppedTop(c) == [table EXCEPT !.top = c.top]
\* dvmPopJniLocals()
Popped(c) == [table EXCEPT !.top = c.top, !.holes = c.holes]

\* dvmPopLocalFrame() refuses to pop a native method, the result is added all the same
PopLocalFrame(j) ==
  LET f  == Last(frames)
      T  == IF f.native THEN table ELSE Popped(f.cookie)
      fs == IF f.native THEN frames ELSE Front(frames)
  IN  \/ Misused("Pop", j)
      \/ \E o \in Decoded(j) \ {Null} : Adds("Pop", j, T, fs, o)
      \/ /\ Null \in Decoded(j)
         /\ table' = T /\ frames' = fs /\ call' = <<"Pop", j, Null>>
         /\ vm' = vm

\* a native method returns, whatever frames it left behind
Native == SelectLastInSeq(frames, LAMBDA f : f.native)
Return(j) ==
  \/ Misused("Return", j)
  \/ /\ Native > 1
     /\ table' = Popped(frames[Native].cookie)
     /\ frames' = SubSeq(frames, 1, Native - 1)
     /\ \E o \in Decoded(j) : call' = <<"Return", j, o>>
     /\ vm' = vm

\* sweepWeakJniGlobals()
SweepWeakJniGlobals ==
  /\ kind = "weak"
  /\ \E dead \in SUBSET Objects :
       table' = [table EXCEPT !.slot =
         [i \in Indices |-> IF i < table.top /\ @[i].obj \in dead
                            THEN [@[i] EXCEPT !.obj = Cleared] ELSE @[i]]]
  /\ UNCHANGED <<frames, vm, call>>

Local ==
  /\ kind = "local"
  /\ \/ \E o \in Objects : CallNative(o)
     \/ \E n \in Capacities : Ensure(n) \/ PushLocalFrame(n)
     \/ \E j \in Names : PopLocalFrame(j) \/ Return(j)
Next ==
  /\ vm = "running"
  /\ \/ \E o \in Objects : NewRef(o)
     \/ \E j \in Names : DeleteRef(j) \/ Decode(j)
     \/ Local \/ SweepWeakJniGlobals
  /\ UNCHANGED <<kind, pointers>>

Spec == Init /\ [][Next]_refs

(***************************************************************************)
(* Properties.                                                             *)
(***************************************************************************)
\* IndirectRefTable.h:271: add() "Returns NULL if the table is full (max entries reached, or
\* alloc failed during expansion)"; it does not bring the process down.
FailsCleanly == vm # "crashed"
=============================================================================
