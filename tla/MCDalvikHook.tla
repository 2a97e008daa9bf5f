---------------------------- MODULE MCDalvikHook ----------------------------
(***************************************************************************)
(* Instances of DalvikHook for TLC.  The bytecode of every method uses     *)
(* five registers, two of which hold its arguments (`this' and one more).  *)
(*                                                                         *)
(* A behaviour is one of two kinds: the thread Solo, an installer, is      *)
(* alone, and its methods call each other as deep as MaxDepth; or all      *)
(* threads race for the methods in Raced, no deeper than RaceDepth.        *)
(***************************************************************************)
EXTENDS DalvikHook

CONSTANTS Solo, Raced, RaceDepth

ASSUME SoloAssumption == Solo \in Installers

VARIABLES
  alone,   \* which kind of behaviour this is
  crossed  \* methods that two handlers have run at the same time

MCRss     == [m \in Methods |-> 5]
MCArgSize == [m \in Methods |-> 2]
MCNs      == [m \in Methods |-> 2]

(* Two invocations of m are in its handler.                                *)
Crossing(m) ==
  \E t, u \in Threads, d, e \in Levels :
    /\ <<t, d>> # <<u, e>>
    /\ frame[t][d].m = m /\ frame[t][d].at \in HandlerSteps
    /\ frame[u][e].m = m /\ frame[u][e].at \in HandlerSteps

MCInit == Init /\ alone \in BOOLEAN /\ crossed = {}
MCNext ==
  /\ Next
  /\ alone' = alone
  /\ crossed' = crossed \cup {m \in Methods : Crossing(m)'}
  /\ IF alone THEN \A t \in Threads \ {Solo} : depth'[t] = 0
     ELSE \A t \in Threads :
            /\ depth'[t] <= RaceDepth
            /\ \A d \in Levels : frame'[t][d].m \in Raced \cup {NoMethod}
MCSpec == MCInit /\ [][MCNext]_<<vars, alone, crossed>>

(* What a hook saved of the original method is lost in two ways only.  The *)
(* code pointer and the sizes survive any number of handlers that prepare  *)
(* and re-patch at once, unless a second do_patch() comes to the method    *)
(* and saves the patched ones.  The flags, which dalvik_postcall() saves   *)
(* again each time, survive as long as no two handlers of the method       *)
(* overlap either.                                                         *)
CodeKept ==
  \A m \in Methods : Installed(m) /\ Once(m, todo) =>
    /\ CodeSaved(m)
    /\ m \notin crossed => ~hook[m].native

(***************************************************************************)
(* What one thread can rely on, and two cannot: a call may be dispatched   *)
(* between two stores of the other thread.                                 *)
(***************************************************************************)

(* The call a handler makes between dalvik_prepare() and dalvik_postcall() *)
(* runs the original method and never the hook again, however the hooked   *)
(* methods call each other.                                                *)
OriginalReachedAlone == alone => OriginalReached

(* No call jumps through a null nativeFunc, into bytecode or, interpreted, *)
(* into machine code.                                                      *)
NeverWildAlone == alone => NeverWild

(* The collector, which goes by a method's present fields, scans bytecode  *)
(* frames whole and skips the frame of a handler, except exactly while     *)
(* that handler has the original's flags put back.                         *)
FramesScannedAlone == alone => FramesScanned

(***************************************************************************)
(* The inductive invariant behind CodeKept, relative to IInv: flags that   *)
(* are saved, or about to be, are the original's until two handlers        *)
(* overlap.                                                                *)
(***************************************************************************)

(* Before dalvik_hook() saves the flags, and between putting them back in  *)
(* dalvik_prepare() and saving them again in dalvik_postcall().            *)
SavingSteps == {"hookSaveSizes", "hookSizes", "hookArgInfo", "hookSave"}
                 \cup (FlagsWindow \ {"postFlags"})

FlagsOK ==
  \A m \in Methods : Once(m, todo) /\ m \notin crossed =>
    /\ ~hook[m].native
    /\ ~Crossing(m)
    /\ SomeFrame(m, SavingSteps) => ~method[m].native

-----------------------------------------------------------------------------
(***************************************************************************)
(* The inductive invariant behind what one thread relies on, relative to   *)
(* IInv.                                                                   *)
(***************************************************************************)

Stack == frame[Solo]

(* Only the top of the stack moves: below it bytecode waits for a method   *)
(* it called, and a handler for the original it called.                    *)
Nested ==
  \A d \in Levels : d < depth[Solo] =>
    /\ Stack[d].at \in {"body", "calling"}
    /\ Stack[d].at = "calling" => Stack[d + 1].m = Stack[d].m

(* A method has one handler on the stack, and its bytecode is above it.    *)
OneHandler ==
  \A d, e \in Levels :
    Stack[d].m = Stack[e].m /\ Stack[e].at \in HandlerSteps =>
      /\ Stack[d].at \in HandlerSteps => d = e
      /\ Stack[d].at = "body" => e < d

(* What the record r of method m holds while an invocation is at step s:   *)
(* what dalvik_prepare() has put back and dalvik_postcall() not changed,   *)
(* what the dispatch has found, and what bytecode that runs relies on.     *)
StepOK(s, m, r) ==
  /\ s \in SizesWindow \cup {"body"} => r.regs = Rss[m]
  /\ s \in CallSteps \cup {"body"} => r.insns = "code"
  /\ s \in {"prepareArgInfo", "prepareInsns", "postArgInfo", "postSave",
            "postFlags", "hookSaveSizes", "hookSizes", "hookArgInfo",
            "hookSave", "hookFlags", "code", "body"} \cup CallSteps
       => ~r.native
  /\ s \in {"native", "bridge", "prepareSizes", "prepareFlags", "postInsns",
            "postFunc"}
       => r.native
  /\ s # "wild"

FramesOK ==
  \A d \in Levels : StepOK(Stack[d].at, Stack[d].m, method[Stack[d].m])

(* A method that is not hooked, and not being hooked, is as it was loaded. *)
Untouched ==
  \A m \in Methods : ~Installed(m) /\ ~SomeFrame(m, StoreSteps) =>
    ~method[m].native /\ method[m].insns = "code" /\ method[m].regs = Rss[m]

AloneOK == /\ \A t \in Threads \ {Solo} : depth[t] = 0
           /\ \A t \in Threads \ {Solo} : todo[t] = Methods
           /\ \A m \in Methods : ~hook[m].native
           /\ Nested
           /\ OneHandler
           /\ FramesOK
           /\ Untouched

AloneInv == alone => AloneOK
=============================================================================
