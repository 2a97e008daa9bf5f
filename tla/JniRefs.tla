------------------------------- MODULE JniRefs -------------------------------
(***************************************************************************)
(* What JNI promises native code about its references, and Jni.cpp and     *)
(* IndirectRefTable.cpp have to keep: a reference yields its object until  *)
(* it is deleted or its frame is left, is never handed out a second time,  *)
(* and deleting one deletes nothing else.  Module IndirectRefTable is      *)
(* shown to implement it.                                                  *)
(***************************************************************************)
EXTENDS Sequences, SequencesExt

CONSTANTS
  Objects, Null,
  Cleared,   \* what a weak reference yields once its object is gone
  Refs       \* the references there can be

VARIABLES
  kind,      \* of the references: "local" or "weak"
  pointers,  \* whether local references are handed out as bare pointers
  frames,    \* the frames of native code: the references of each
  issued,    \* references handed out so far
  vm,        \* "running" or, if the process did not survive a call, "aborted"
  call       \* the last JNI call: its name, its argument, its result

vars == <<kind, pointers, frames, issued, vm, call>>

Frame(native) == [native |-> native, refs |-> {}]
Init ==
  /\ kind \in {"local", "weak"} /\ pointers \in BOOLEAN
  /\ frames = <<Frame(TRUE)>> /\ issued = {}
  /\ vm = "running" /\ call = <<"none", Null, Null>>

Bare == pointers /\ kind = "local"
Live == UNION {frames[i].refs : i \in 1..Len(frames)}
Named(refs, j) == {e \in refs : IF Bare THEN e.obj = j ELSE e.ref = j}
\* the outcome of using jobj: its object, or no outcome if there is none
Yields(j) ==
  IF j = Null THEN {Null}
  ELSE IF Bare THEN {j}
  ELSE {IF e.obj = Cleared THEN Null ELSE e.obj : e \in Named(Live, j)}
NativeFrame == SelectLastInSeq(frames, LAMBDA f : f.native)

\* which call the step is; what it returns follows
Calls(name, j)   == call'[1] = name /\ call'[2] = j
Returns(r)       == call' = <<call'[1], call'[2], r>>
Aborts == Returns(Null) /\ vm' = "aborted" /\ UNCHANGED <<frames, issued>>
Uses(j) == Yields(j) = {} /\ Aborts

\* o gets a reference in the last of these frames
Adds(fs, o) ==
  \/ Aborts
  \/ \E r \in Refs \ issued :
       /\ Returns(IF Bare THEN o ELSE r)
       /\ vm' = vm
       /\ issued' = issued \cup {r}
       /\ frames' = [fs EXCEPT ![Len(fs)].refs = @ \cup {[ref |-> r, obj |-> o]}]

New(o) == Calls("New", o) /\ Adds(frames, o)
Delete(j) ==
  /\ Calls("Delete", j)
  /\ LET mine == Named(Last(frames).refs, j)
     IN  /\ Returns(mine # {})
         /\ \/ mine = {} /\ frames' = frames
            \/ \E e \in mine : frames' = [frames EXCEPT ![Len(frames)].refs = @ \ {e}]
  /\ UNCHANGED <<issued, vm>>
Decode(j) ==
  /\ Calls("Decode", j)
  /\ Uses(j) \/ \E o \in Yields(j) : Returns(o) /\ UNCHANGED <<frames, issued, vm>>

Enter(o) == Calls("Enter", o) /\ Adds(Append(frames, Frame(TRUE)), o)
PushLocalFrame ==
  /\ Calls("Push", Null)
  /\ \/ Returns(TRUE) /\ frames' = Append(frames, Frame(FALSE))
     \/ Returns(FALSE) /\ frames' = frames
  /\ UNCHANGED <<issued, vm>>
Ensure ==
  /\ Calls("Ensure", Null)
  /\ \E ok \in BOOLEAN : Returns(ok)
  /\ UNCHANGED <<frames, issued, vm>>
\* what the frame had is gone, but its result gets a reference in the one before
PopLocalFrame(j) ==
  /\ Calls("Pop", j)
  /\ LET fs == IF Last(frames).native THEN frames ELSE Front(frames)
     IN  \/ Uses(j)
         \/ \E o \in Yields(j) \ {Null} : Adds(fs, o)
         \/ /\ Null \in Yields(j) /\ Returns(Null)
            /\ frames' = fs
            /\ UNCHANGED <<issued, vm>>
Return(j) ==
  /\ Calls("Return", j)
  /\ \/ Uses(j)
     \/ /\ NativeFrame > 1
        /\ \E o \in Yields(j) : Returns(o)
        /\ frames' = SubSeq(frames, 1, NativeFrame - 1)
        /\ UNCHANGED <<issued, vm>>

\* weak references to objects that the collector frees
Collect ==
  /\ kind = "weak" /\ UNCHANGED <<issued, vm, call>>
  /\ \E dead \in SUBSET Objects :
       frames' = [i \in 1..Len(frames) |-> [frames[i] EXCEPT !.refs =
                    {IF e.obj \in dead THEN [e EXCEPT !.obj = Cleared] ELSE e : e \in @}]]

Names == {Null} \cup IF Bare THEN Objects ELSE issued
Local ==
  /\ kind = "local"
  /\ \/ \E o \in Objects : Enter(o)
     \/ PushLocalFrame \/ Ensure
     \/ \E j \in Names : PopLocalFrame(j) \/ Return(j)
Next ==
  /\ vm = "running"
  /\ \/ \E o \in Objects : New(o)
     \/ \E j \in Names : Delete(j) \/ Decode(j)
     \/ Local \/ Collect
  /\ UNCHANGED <<kind, pointers>>

Spec == Init /\ [][Next]_vars
=============================================================================
