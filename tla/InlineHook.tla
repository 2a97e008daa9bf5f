------------------------------ MODULE InlineHook ------------------------------
(***************************************************************************)
(* In-line hooking of a native function (adbi/instruments/base/hook.c) and *)
(* the two ways the repository uses it on epoll_wait().                    *)
(*                                                                         *)
(* hook() saves the first words of the function and overwrites them, one   *)
(* store at a time, with code that jumps to the handler; hook_precall()    *)
(* writes the saved words back and hook_postcall() the jump again.  Each   *)
(* ends with a cacheflush of the words.  Threads fetch the same words one  *)
(* at a time, so every store and every fetch is a step of its own here.    *)
(*                                                                         *)
(* The ARM patch is LDR pc,[pc] and two address words: Jumps = 1 word is   *)
(* executed and word Len = 3 is loaded as the target.  The THUMB patch is  *)
(* 7 executed halfwords and, after padding, the target in halfwords 9 and  *)
(* 10: Jumps = 7, Len = 10.  The target is loaded with the last executed   *)
(* word.  An instruction fetch reads `icache', a data access `mem'.        *)
(***************************************************************************)
EXTENDS Integers

CONSTANTS
  Threads,    \* threads of the process
  Installer,  \* the thread the library is injected into: it runs my_init()
  Len,        \* words of the patch
  Jumps,      \* leading words of the patch that are executed
  Counted,    \* TRUE: epoll.c, which re-installs; FALSE: mon.c, which does not
  Count,      \* counter = 3 in epoll.c's my_init()
  Overlap,    \* whether several threads may be in epoll_wait() at a time
  MaxDepth,   \* bound on epoll_wait() calls nested in one thread
  MaxPatches  \* bound on the runs of do_patch() and on lines logged

ASSUME InstallerAssumption == Installer \in Threads
ASSUME LenAssumption       == Len \in Nat /\ Jumps \in 1..(Len - 1)
ASSUME CountAssumption     == Count \in Nat \ {0}
ASSUME FlagAssumption      == Counted \in BOOLEAN /\ Overlap \in BOOLEAN
ASSUME DepthAssumption     == MaxDepth \in Nat \ {0, 1}
ASSUME PatchAssumption     == MaxPatches \in Nat

VARIABLES
  mem,      \* the function's first words in memory
  icache,   \* what an instruction fetch of them returns
  store,    \* eph.store: the words hook() saved
  counter,  \* epoll.c's counter
  lines,    \* "epoll_wait() called" lines logged
  removing, \* "removing hook for epoll_wait()" has been logged
  patches,  \* runs of do_patch()
  frame,    \* frame[t][d]: activity at depth d of thread t's stack
  depth

vars == <<mem, icache, store, counter, lines, removing, patches, frame, depth>>

Words  == 1..Len
Levels == 1..MaxDepth

InstallSteps == {"save", "install", "flushInstalled"}
FetchSteps   == {"fetch", "plain", "jump", "target", "body"}
HandlerSteps == {"precall", "flushRestored", "doPatch", "original", "calling",
                 "test", "postcall", "flushPatched", "load", "decrement"}
Steps == InstallSteps \cup FetchSteps \cup HandlerSteps
           \cup {"none", "return", "wild"}

\* i: the word a loop or a fetch is at; n: the counter's value in a register
Frame   == [at : Steps, i : Words, n : Int]
NoFrame == [at |-> "none", i |-> 1, n |-> 0]
Entry   == [at |-> "fetch", i |-> 1, n |-> 0]

Original == [i \in Words |-> "orig"]
Patch    == [i \in Words |-> "jump"]

TypeOK ==
  /\ mem \in [Words -> {"orig", "jump"}]
  /\ icache \in [Words -> {"orig", "jump"}]
  /\ store \in [Words -> {"none", "orig", "jump"}]
  /\ counter \in Int
  /\ lines \in Nat
  /\ removing \in BOOLEAN
  /\ patches \in Nat
  /\ frame \in [Threads -> [Levels -> Frame]]
  /\ depth \in [Threads -> 0..MaxDepth]

(* my_init() runs in the injected thread, in dlopen().                     *)
Init ==
  /\ mem = Original
  /\ icache = Original
  /\ store = [i \in Words |-> "none"]
  /\ counter = Count
  /\ lines = 0
  /\ removing = FALSE
  /\ patches = 0
  /\ frame = [t \in Threads |->
                [d \in Levels |-> IF t = Installer /\ d = 1
                                  THEN [NoFrame EXCEPT !.at = "save"]
                                  ELSE NoFrame]]
  /\ depth = [t \in Threads |-> IF t = Installer THEN 1 ELSE 0]

(***************************************************************************)
(* A thread that has fetched part of the patch and part of the original,   *)
(* or jumped to an address that is not the handler's, is "wild": nothing   *)
(* is claimed of what follows, and the behaviour ends there.               *)
(***************************************************************************)
Wild == \E t \in Threads, d \in Levels : frame[t][d].at = "wild"

Top(t)   == frame[t][depth[t]]
At(t, s) == depth[t] > 0 /\ Top(t).at = s

(* The invocation on top of t's stack becomes f.                           *)
Become(t, f) ==
  /\ frame' = [frame EXCEPT ![t] = [frame[t] EXCEPT ![depth[t]] = f]]
  /\ UNCHANGED depth
Step(t, s, i) == Become(t, [at |-> s, i |-> i, n |-> Top(t).n])

(* Mutant: the copy loops run one word too far.                            *)
NextWordTooFar(t, s, after) ==
  IF Top(t).i <= Len THEN Step(t, s, Top(t).i + 1) ELSE Step(t, after, 1)

(* The loops over the words of a patch: next word, or the step after it.   *)
NextWord(t, s, after) ==
  IF Top(t).i < Len THEN Step(t, s, Top(t).i + 1) ELSE Step(t, after, 1)

CodeUnchanged  == UNCHANGED <<mem, icache, store>>
EpollUnchanged == UNCHANGED <<counter, lines, removing, patches>>

-----------------------------------------------------------------------------
(* hook(): save, overwrite, flush.                                         *)

SaveWord(t) ==
  /\ At(t, "save")
  /\ store' = [store EXCEPT ![Top(t).i] = mem[Top(t).i]]
  /\ NextWord(t, "save", "install")
  /\ UNCHANGED <<mem, icache>> /\ EpollUnchanged

(* One store of a copy loop of hook() and of hook_postcall().              *)
WriteJump(t, s, after) ==
  /\ At(t, s)
  /\ mem' = [mem EXCEPT ![Top(t).i] = "jump"]
  /\ NextWord(t, s, after)
  /\ UNCHANGED <<icache, store>> /\ EpollUnchanged

InstallWord(t) == WriteJump(t, "install", "flushInstalled")

(* hook_cacheflush()                                                       *)
Flush(t, from, to) ==
  /\ At(t, from)
  /\ icache' = mem
  /\ Step(t, to, 1)
  /\ UNCHANGED <<mem, store>> /\ EpollUnchanged

(* Mutant: hook() returns without the cacheflush.                          *)
InstalledUnflushed(t) ==
  /\ At(t, "flushInstalled")
  /\ Step(t, "return", 1)
  /\ CodeUnchanged /\ EpollUnchanged

FlushInstalled(t) == Flush(t, "flushInstalled", "return")

(* A word may reach the instruction cache before anyone flushes it.        *)
Refill(i) ==
  /\ icache[i] # mem[i]
  /\ icache' = [icache EXCEPT ![i] = mem[i]]
  /\ UNCHANGED <<mem, store, frame, depth>> /\ EpollUnchanged

-----------------------------------------------------------------------------
(* A call of epoll_wait(): the words are fetched in order.                 *)

Push(t) ==
  /\ depth[t] < MaxDepth
  /\ depth' = [depth EXCEPT ![t] = depth[t] + 1]

(* The event loop of a thread calls epoll_wait().                          *)
Call(t) ==
  /\ depth[t] = 0
  /\ Overlap \/ \A u \in Threads : depth[u] = 0
  /\ Push(t)
  /\ frame' = [frame EXCEPT ![t] = [frame[t] EXCEPT ![1] = Entry]]
  /\ CodeUnchanged /\ EpollUnchanged

FetchOriginal(t) ==
  /\ At(t, "fetch") \/ At(t, "plain")
  /\ icache[Top(t).i] = "orig"
  /\ NextWord(t, "plain", "body")
  /\ CodeUnchanged /\ EpollUnchanged

FetchJump(t) ==
  /\ At(t, "fetch") \/ At(t, "jump")
  /\ icache[Top(t).i] = "jump"
  /\ IF Top(t).i < Jumps THEN Step(t, "jump", Top(t).i + 1)
                         ELSE Step(t, "target", 1)
  /\ CodeUnchanged /\ EpollUnchanged

FetchMixed(t) ==
  /\ \/ At(t, "plain") /\ icache[Top(t).i] = "jump"
     \/ At(t, "jump") /\ icache[Top(t).i] = "orig"
  /\ Step(t, "wild", 1)
  /\ CodeUnchanged /\ EpollUnchanged

(* The target address is data: it is loaded from the patch's last word.    *)
LoadTarget(t) ==
  /\ At(t, "target")
  /\ Step(t, IF mem[Len] = "jump" THEN "precall" ELSE "wild", 1)
  /\ CodeUnchanged /\ EpollUnchanged

(* The rest of the function, system call included.                         *)
Body(t) ==
  /\ At(t, "body")
  /\ Step(t, "return", 1)
  /\ CodeUnchanged /\ EpollUnchanged

-----------------------------------------------------------------------------
(* my_epoll_wait()                                                         *)

(* Mutant: hook_precall() leaves the last word.                            *)
RestoreShort(t) ==
  /\ At(t, "precall")
  /\ mem' = IF Top(t).i = Len THEN mem
            ELSE [mem EXCEPT ![Top(t).i] = store[Top(t).i]]
  /\ NextWord(t, "precall", "flushRestored")
  /\ UNCHANGED <<icache, store>> /\ EpollUnchanged

(* hook_precall()                                                          *)
RestoreWord(t) ==
  /\ At(t, "precall")
  /\ mem' = [mem EXCEPT ![Top(t).i] = store[Top(t).i]]
  /\ NextWord(t, "precall", "flushRestored")
  /\ UNCHANGED <<icache, store>> /\ EpollUnchanged

(* Mutant: hook_precall() returns without the cacheflush.                  *)
RestoredUnflushed(t) ==
  /\ At(t, "flushRestored")
  /\ Step(t, IF Counted THEN "original" ELSE "doPatch", 1)
  /\ CodeUnchanged /\ EpollUnchanged

FlushRestored(t) ==
  Flush(t, "flushRestored", IF Counted THEN "original" ELSE "doPatch")

(* mon.c and smsdispatch.c insert their Dalvik hooks here.                 *)
DoPatch(t) ==
  /\ At(t, "doPatch")
  /\ patches < MaxPatches
  /\ patches' = patches + 1
  /\ Step(t, "original", 1)
  /\ CodeUnchanged /\ UNCHANGED <<counter, lines, removing>>

CallOriginal(t) ==
  /\ At(t, "original")
  /\ Push(t)
  /\ frame' = [frame EXCEPT ![t] =
                 [frame[t] EXCEPT ![depth[t]] = [Top(t) EXCEPT !.at = "calling"],
                                  ![depth[t] + 1] = Entry]]
  /\ CodeUnchanged /\ EpollUnchanged

(* Mutant: mon.c's handler re-installs its hook as epoll.c's does.         *)
ReturnReinstalls(t) ==
  /\ At(t, "return")
  /\ depth' = [depth EXCEPT ![t] = depth[t] - 1]
  /\ frame' = [frame EXCEPT ![t] = [d \in Levels |->
                 CASE d = depth[t] -> NoFrame
                   [] d = depth[t] - 1 -> [frame[t][d] EXCEPT !.at = "test"]
                   [] OTHER -> frame[t][d]]]
  /\ CodeUnchanged /\ EpollUnchanged

(* A call returns: to the handler that made it, or to the event loop.      *)
Return(t) ==
  /\ At(t, "return")
  /\ depth' = [depth EXCEPT ![t] = depth[t] - 1]
  /\ frame' = [frame EXCEPT ![t] = [d \in Levels |->
                 CASE d = depth[t] -> NoFrame
                   [] d = depth[t] - 1 ->
                        [frame[t][d] EXCEPT
                           !.at = IF Counted THEN "test" ELSE "return"]
                   [] OTHER -> frame[t][d]]]
  /\ CodeUnchanged /\ EpollUnchanged

(* Mutant: hook_postcall() moved out of the if.                            *)
TestCounterIgnored(t) ==
  /\ At(t, "test")
  /\ Step(t, "postcall", 1)
  /\ CodeUnchanged /\ EpollUnchanged

(* if (counter)                                                            *)
TestCounter(t) ==
  /\ At(t, "test")
  /\ Step(t, IF counter # 0 THEN "postcall" ELSE "return", 1)
  /\ CodeUnchanged /\ EpollUnchanged

(* Mutant: hook_postcall() leaves the last word.                           *)
ReinstallShort(t) ==
  /\ At(t, "postcall")
  /\ mem' = IF Top(t).i = Len THEN mem ELSE [mem EXCEPT ![Top(t).i] = "jump"]
  /\ NextWord(t, "postcall", "flushPatched")
  /\ UNCHANGED <<icache, store>> /\ EpollUnchanged

(* hook_postcall()                                                         *)
ReinstallWord(t) == WriteJump(t, "postcall", "flushPatched")

(* Mutant: hook_postcall() returns without the cacheflush.                 *)
ReinstalledUnflushed(t) ==
  /\ At(t, "flushPatched")
  /\ Step(t, "load", 1)
  /\ CodeUnchanged /\ EpollUnchanged

(* Mutant: counter-- forgotten.                                            *)
CounterForgotten(t) == Flush(t, "flushPatched", "return")

FlushReinstalled(t) == Flush(t, "flushPatched", "load")

(* log("epoll_wait() called"), then counter-- loads ...                    *)
LoadCounter(t) ==
  /\ At(t, "load")
  /\ lines < MaxPatches
  /\ lines' = lines + 1
  /\ Become(t, [at |-> "decrement", i |-> 1, n |-> counter])
  /\ CodeUnchanged /\ UNCHANGED <<counter, removing, patches>>

(* ... and stores; the value stored decides about the last log line.       *)
StoreCounter(t) ==
  /\ At(t, "decrement")
  /\ counter' = Top(t).n - 1
  /\ removing' = (removing \/ Top(t).n = 1)
  /\ Step(t, "return", 1)
  /\ CodeUnchanged /\ UNCHANGED <<lines, patches>>

-----------------------------------------------------------------------------
ThreadStep(t) ==
  \/ SaveWord(t) \/ InstallWord(t) \/ FlushInstalled(t)
  \/ FetchOriginal(t) \/ FetchJump(t) \/ FetchMixed(t) \/ LoadTarget(t)
  \/ Body(t) \/ RestoreWord(t) \/ FlushRestored(t) \/ DoPatch(t)
  \/ CallOriginal(t) \/ Return(t) \/ TestCounter(t) \/ ReinstallWord(t)
  \/ FlushReinstalled(t) \/ LoadCounter(t) \/ StoreCounter(t)

Next ==
  /\ ~Wild
  /\ \/ \E t \in Threads : Call(t) \/ ThreadStep(t)
     \/ \E i \in Words : Refill(i)

Spec == Init /\ [][Next]_vars

(* An event loop always calls epoll_wait() again, the system call returns  *)
(* sooner or later (events keep arriving), and no thread is starved.       *)
FairSpec ==
  /\ Spec
  /\ WF_vars(~Wild /\ \E t \in Threads : Call(t))
  /\ \A t \in Threads : WF_vars(~Wild /\ ThreadStep(t))

-----------------------------------------------------------------------------
(* Properties                                                              *)

AtRest == \A t \in Threads : depth[t] = 0

(* An activity that has stored words it has not flushed yet.               *)
Dirty(f) == \/ f.at \in {"install", "precall", "postcall"} /\ f.i > 1
            \/ f.at \in {"flushInstalled", "flushRestored", "flushPatched"}

(***************************************************************************)
(* Whatever the interleaving of any number of threads, once none is        *)
(* between its stores and its hook_cacheflush(), the processor executes    *)
(* what memory holds: one thread's flush never hides another's stores, and *)
(* no path of hook(), hook_precall() or hook_postcall() skips the flush.   *)
(***************************************************************************)
Coherent == (\A t \in Threads, d \in Levels : ~Dirty(frame[t][d])) => icache = mem

(***************************************************************************)
(* No call executes a mixture of patch and original code, or jumps to an   *)
(* address that is not the handler's (hook() and hook_precall() rewrite    *)
(* the words one at a time).                                               *)
(***************************************************************************)
NeverWild == ~Wild

(***************************************************************************)
(* Between calls the function is whole, and the hook is in place for the   *)
(* next call as long as my_epoll_wait() still wants it: in epoll.c until   *)
(* the counter has run out, in mon.c until do_patch() has run.             *)
(***************************************************************************)
HookArmed ==
  AtRest => /\ icache = mem
            /\ mem \in {Patch, Original}
            /\ (IF Counted THEN counter > 0 ELSE patches = 0) => mem = Patch

(***************************************************************************)
(* The call that my_epoll_wait() makes through eph.orig runs the original  *)
(* epoll_wait(), never the handler again.                                  *)
(***************************************************************************)
OriginalReached ==
  \A t \in Threads : \A d \in Levels :
    (d < depth[t] /\ frame[t][d].at = "calling") =>
      frame[t][d + 1].at \in {"fetch", "plain", "body", "return"}

(***************************************************************************)
(* "epoll_wait() called" is logged for as many calls as my_init() asked    *)
(* for (counter = 3), as the sample output of adbi/README.md shows.        *)
(***************************************************************************)
LoggedAtMostCount == lines <= Count

(***************************************************************************)
(* "removing hook for epoll_wait()" is the last line of the log: although  *)
(* the hook is then installed once more and takes one more call, that call *)
(* logs nothing (the sample output of adbi/README.md).                     *)
(***************************************************************************)
RemovingIsLast == [][removing => lines' = lines]_vars

(***************************************************************************)
(* The instrumentation ends: after finitely many calls of epoll_wait() the *)
(* original code is back for good, in memory and for instruction fetches.  *)
(***************************************************************************)
HookRemoved == <>[](mem = Original /\ icache = Original)

-----------------------------------------------------------------------------
(***************************************************************************)
(* The inductive invariants.  Flushed holds of any number of overlapping   *)
(* threads and implies Coherent; SerialInv holds as well when calls of     *)
(* epoll_wait() do not overlap, and implies the other properties.          *)
(***************************************************************************)

(* Below the top of a stack are handlers that called the original.         *)
StackOK ==
  \A t \in Threads, d \in Levels :
    /\ d < depth[t] => frame[t][d].at = "calling"
    /\ d > depth[t] => frame[t][d] = NoFrame
    /\ d = depth[t] => frame[t][d].at \notin {"none", "calling"}

(* Until hook() has saved all words nothing is patched, afterwards the     *)
(* saved words are the original ones.                                      *)
Saving == frame[Installer][1].at = "save"
SavedOK ==
  /\ \A t \in Threads, d \in Levels :
       /\ frame[t][d].at = "save" => t = Installer /\ d = 1
       /\ Saving => frame[t][d].at \in
                      {"none", "save", "fetch", "plain", "body", "return"}
  /\ IF Saving
     THEN /\ mem = Original /\ icache = Original
          /\ \A j \in Words : j < frame[Installer][1].i => store[j] = "orig"
     ELSE store = Original

Flushed == TypeOK /\ StackOK /\ SavedOK /\ Coherent

Writing(i, new, old) == [j \in Words |-> IF j < i THEN new ELSE old]

Armed == IF Counted THEN counter > 0 ELSE patches = 0

(* The words while nobody rewrites or relies on them.                      *)
Settled == /\ mem \in {Patch, Original}
           /\ Armed => mem = Patch
           /\ ~Counted => patches = IF mem = Patch THEN 0 ELSE 1

(* The words while b is the first activity of the only busy thread.        *)
MemFor(b) ==
  CASE b.at \in {"jump", "target", "flushInstalled", "flushPatched", "load",
                "decrement"}           -> Patch
    [] b.at \in {"install", "postcall"} -> Writing(b.i, "jump", "orig")
    [] b.at = "precall"                -> Writing(b.i, "orig", "jump")
    [] OTHER                           -> Original

BusyOK(t, b) ==
  /\ b.at # "wild"
  /\ IF b.at \in {"fetch", "return"} THEN Settled ELSE mem = MemFor(b)
  /\ b.at = "fetch" => b.i = 1
  /\ depth[t] > 1 =>
       /\ depth[t] = 2
       /\ frame[t][2].at \in {"fetch", "plain", "body", "return"}
       /\ frame[t][2].at = "fetch" => frame[t][2].i = 1
  /\ b.at \in {"plain", "body"} => ~Armed
  /\ b.at \notin {"fetch", "return"} /\ ~Counted =>
       patches = IF b.at \in {"plain", "body", "original", "calling"}
                 THEN 1 ELSE 0
  /\ b.at = "doPatch" => ~Counted
  /\ b.at \in {"test", "postcall", "flushPatched", "load", "decrement"} => Counted
  /\ b.at \in {"postcall", "flushPatched", "load", "decrement"} => counter > 0
  /\ lines = Count - counter + (IF b.at = "decrement" THEN 1 ELSE 0)
  /\ b.at = "decrement" => b.n = counter

SerialInv ==
  /\ \A t, u \in Threads : (depth[t] > 0 /\ depth[u] > 0) => t = u
  /\ counter \in 0..Count
  /\ AtRest => Settled /\ lines = Count - counter
  /\ \A t \in Threads : depth[t] > 0 => BusyOK(t, frame[t][1])

IInv == Flushed /\ (~Overlap => SerialInv)
=============================================================================
