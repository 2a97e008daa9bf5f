------------------------------ MODULE ClassInit ------------------------------
(***************************************************************************)
(* Class initialization and the loading of native libraries: dvmInitClass()*)
(* with dvmResolveStaticField(), which calls it (vm/oo), and               *)
(* dvmLoadNativeCode() (vm/Native.cpp).  The two call each other: a        *)
(* <clinit> loads libraries, JNI_OnLoad() uses classes.                    *)
(*                                                                         *)
(* A thread's stack holds one frame per use of a static field, per class   *)
(* it initializes and per library it loads.  What runs under the monitor   *)
(* of a class or under onLoadLock is cut where another thread can tell:    *)
(* `status' is read and, when a superclass fails, written without the      *)
(* monitor, and the table of libraries is used without its lock.           *)
(*                                                                         *)
(* Left out: how a class is found and linked, the messages of exceptions,  *)
(* what a suspension adds (dvmChangeStatus(), module ThreadSuspend), and   *)
(* applications that enter the monitor of a class themselves (module       *)
(* Monitor: its wait() may return early, and does here).                   *)
(***************************************************************************)
EXTENDS Naturals

CONSTANTS
  Threads,   \* threads of the process
  Nobody,    \* thread id 0
  Classes,   \* linked classes
  NoClass,
  Super,     \* ClassObject.super, NoClass for a class whose super is ready
  Libs,      \* path names of native libraries
  Loaders,   \* class loaders
  NoLoader,
  Entries,   \* bound: the SharedLib structs there is memory for
  NoEntry,
  Program,   \* the classes and libraries a thread's own code uses
  Body,      \* those a <clinit> or a JNI_OnLoad() uses
  MaxDepth   \* bound: frames on a thread's stack

ASSUME NobodyAssumption == Nobody \notin Threads
ASSUME NameAssumption == /\ NoClass \notin Classes /\ Classes \cap Libs = {}
                         /\ NoEntry \notin Entries /\ NoLoader \notin Loaders
ASSUME SuperAssumption == Super \in [Classes -> Classes \cup {NoClass}]
ASSUME BodyAssumption == /\ Program \in [Threads -> SUBSET (Classes \cup Libs)]
                         /\ Body \in [Classes \cup Libs -> SUBSET (Classes \cup Libs)]
ASSUME DepthAssumption == MaxDepth \in Nat \ {0}

VARIABLES
  status,     \* ClassObject.status
  initThread, \* ClassObject.initThreadId
  owner,      \* who is in the class's monitor
  waitSet,    \* who sleeps in dvmObjectWait() on the class
  resolved,   \* the classes whose static field is in DvmDex.pResFields
  slot,       \* gDvm.nativeLibs
  entry,      \* each SharedLib
  condWait,   \* who sleeps on its onLoadCond
  frame,      \* frame[t][d]: what runs at depth d of t's stack
  depth

class == <<status, initThread, owner, waitSet, resolved>>
lib   == <<slot, entry, condWait>>
stack == <<frame, depth>>
vars  == <<class, lib, stack>>

Levels == 1..MaxDepth

UseSteps  == {"use", "cache", "used"}
InitSteps == {"lock", "loop", "begin", "unlock", "return", "waiting", "woken"}
\* by the thread that found the class verified and made it INITIALIZING
WorkSteps == {"super", "superwait", "superfailed", "marked", "clinit", "thrown",
              "done", "notify"}
LoadSteps == {"find", "dlopen", "probe", "store", "check", "test", "asleep", "loaded",
              "failed"}
\* by the thread that added the SharedLib
OnLoadSteps == {"onload", "okay", "bad", "clear", "broadcast"}
Steps == UseSteps \cup InitSteps \cup WorkSteps \cup LoadSteps \cup OnLoadSteps \cup {"none"}

\* x: the class or library; sub: initialized for a subclass; ld, e: of a load
Frame == [at : Steps, x : Classes \cup Libs \cup {NoClass}, sub : BOOLEAN,
          ld : Loaders \cup {NoLoader}, e : Entries \cup {NoEntry}]
NoFrame == [at |-> "none", x |-> NoClass, sub |-> FALSE, ld |-> NoLoader, e |-> NoEntry]
SharedLib == [x : Libs \cup {NoClass}, ld : Loaders \cup {NoLoader},
              thread : Threads \cup {Nobody},
              result : {"unused", "pending", "okay", "failed"}]
Unused == [x |-> NoClass, ld |-> NoLoader, thread |-> Nobody, result |-> "unused"]

Init ==
  /\ status \in [Classes -> {"resolved", "verified"}]
  /\ initThread = [c \in Classes |-> Nobody]
  /\ owner = [c \in Classes |-> Nobody]
  /\ waitSet = [c \in Classes |-> {}]
  /\ resolved = {}
  /\ slot = [l \in Libs |-> NoEntry]
  /\ entry = [e \in Entries |-> Unused]
  /\ condWait = [e \in Entries |-> {}]
  /\ frame = [t \in Threads |-> [d \in Levels |-> NoFrame]]
  /\ depth = [t \in Threads |-> 0]

Top(t)   == frame[t][depth[t]]
At(t, s) == depth[t] > 0 /\ Top(t).at = s

Become(t, f) ==
  /\ frame' = [frame EXCEPT ![t] = [frame[t] EXCEPT ![depth[t]] = f]]
  /\ UNCHANGED depth
Goto(t, s) == Become(t, [Top(t) EXCEPT !.at = s])
Push(t, f) ==
  /\ depth[t] < MaxDepth
  /\ depth' = [depth EXCEPT ![t] = depth[t] + 1]
  /\ frame' = [frame EXCEPT ![t] = [frame[t] EXCEPT ![depth[t] + 1] = f]]
Pop(t) ==
  /\ frame' = [frame EXCEPT ![t] = [frame[t] EXCEPT ![depth[t]] = NoFrame]]
  /\ depth' = [depth EXCEPT ![t] = depth[t] - 1]

(***************************************************************************)
(* Interpreted and native code: it may use what Program and Body name, in  *)
(* any order, as often as it likes, and may end or fail at any time.       *)
(***************************************************************************)
Running(t) == depth[t] = 0 \/ At(t, "clinit") \/ At(t, "onload")
Uses(t)    == IF depth[t] = 0 THEN Program[t] ELSE Body[Top(t).x]

UseField(t, c) ==
  /\ Running(t) /\ c \in Uses(t)
  /\ Push(t, [NoFrame EXCEPT !.at = "use", !.x = c])
  /\ UNCHANGED <<class, lib>>
LoadLibrary(t, l, ld) ==
  /\ Running(t) /\ l \in Uses(t)
  /\ Push(t, [NoFrame EXCEPT !.at = "find", !.x = l, !.ld = ld])
  /\ UNCHANGED <<class, lib>>
ClinitEnds(t) ==
  /\ At(t, "clinit")
  /\ Goto(t, "done") \/ Goto(t, "thrown")
  /\ UNCHANGED <<class, lib>>
OnLoadReturns(t) ==
  /\ At(t, "onload")
  /\ Goto(t, "okay") \/ Goto(t, "bad")
  /\ UNCHANGED <<class, lib>>

(***************************************************************************)
(* Static fields.                                                          *)
(***************************************************************************)
Resolve(t) ==
  /\ At(t, "use")
  /\ LET c == Top(t).x IN
       Goto(t, IF c \in resolved THEN "used"
               ELSE IF status[c] = "initialized" THEN "cache" ELSE "lock")
  /\ UNCHANGED <<class, lib>>

\* Mutant: the field is cached though its class may not be ready.
CacheAlways(t) ==
  /\ At(t, "cache")
  /\ resolved' = resolved \cup {Top(t).x}
  /\ Goto(t, "used")
  /\ UNCHANGED <<status, initThread, owner, waitSet, lib>>
Cache(t) ==
  /\ At(t, "cache")
  /\ resolved' = resolved \cup {c \in {Top(t).x} : status[c] = "initialized"}
  /\ Goto(t, "used")
  /\ UNCHANGED <<status, initThread, owner, waitSet, lib>>
Used(t) ==
  /\ At(t, "used") /\ Pop(t)
  /\ UNCHANGED <<class, lib>>

(***************************************************************************)
(* dvmInitClass().                                                         *)
(***************************************************************************)
Enter(t, c) == owner[c] = Nobody /\ owner' = [owner EXCEPT ![c] = t]
Leave(c)    == owner' = [owner EXCEPT ![c] = Nobody]

\* the monitor is entered; a class that was not verified yet is, now
Verify(t) ==
  /\ At(t, "lock")
  /\ LET c == Top(t).x IN
       /\ Enter(t, c)
       /\ \/ /\ status[c] = "error" /\ Goto(t, "unlock")
             /\ UNCHANGED status
          \/ /\ status[c] = "resolved"
             /\ \/ status' = [status EXCEPT ![c] = "verified"] /\ Goto(t, "loop")
                \/ status' = [status EXCEPT ![c] = "error"] /\ Goto(t, "unlock")
          \/ /\ status[c] \notin {"error", "resolved"} /\ Goto(t, "loop")
             /\ UNCHANGED status
  /\ UNCHANGED <<initThread, waitSet, resolved, lib>>

\* while (status == INITIALIZING): by us, or by another thread to wait for
Loop(t) ==
  /\ At(t, "loop")
  /\ LET c == Top(t).x IN
       \/ /\ status[c] = "initialized" /\ Goto(t, "unlock")
          /\ UNCHANGED <<owner, waitSet>>
       \/ /\ status[c] = "initializing" /\ initThread[c] = t /\ Goto(t, "unlock")
          /\ UNCHANGED <<owner, waitSet>>
       \/ /\ status[c] = "initializing" /\ initThread[c] # t /\ Goto(t, "waiting")
          /\ Leave(c)
          /\ waitSet' = [waitSet EXCEPT ![c] = waitSet[c] \cup {t}]
       \/ /\ status[c] \in {"verified", "error"} /\ Goto(t, "begin")
          /\ UNCHANGED <<owner, waitSet>>
  /\ UNCHANGED <<status, initThread, resolved, lib>>

\* Thread.interrupt() ends the wait without an exception
WaitEnds(t) ==
  /\ At(t, "waiting") /\ t \in waitSet[Top(t).x]
  /\ waitSet' = [waitSet EXCEPT ![Top(t).x] = waitSet[Top(t).x] \ {t}]
  /\ UNCHANGED <<status, initThread, owner, resolved, lib, stack>>
Wakes(t) ==
  /\ At(t, "waiting") /\ t \notin waitSet[Top(t).x]
  /\ Enter(t, Top(t).x) /\ Goto(t, "woken")
  /\ UNCHANGED <<status, initThread, waitSet, resolved, lib>>
\* Mutant: having waited, a thread does not look at the status again.
WokenBegins(t) ==
  /\ At(t, "woken") /\ Goto(t, "begin")
  /\ UNCHANGED <<class, lib>>
Woken(t) ==
  /\ At(t, "woken")
  /\ Goto(t, IF status[Top(t).x] = "initializing" THEN "loop" ELSE "unlock")
  /\ UNCHANGED <<class, lib>>

\* it failed earlier, validateSuperDescriptors() fails, or the work is ours
Begin(t) ==
  /\ At(t, "begin")
  /\ LET c == Top(t).x IN
       \/ /\ status[c] = "error" /\ Goto(t, "unlock")
          /\ UNCHANGED <<status, initThread, owner>>
       \/ /\ status[c] # "error" /\ Goto(t, "unlock")
          /\ status' = [status EXCEPT ![c] = "error"]
          /\ UNCHANGED <<initThread, owner>>
       \/ /\ status[c] # "error" /\ Goto(t, "super")
          /\ initThread' = [initThread EXCEPT ![c] = t]
          /\ status' = [status EXCEPT ![c] = "initializing"]
          /\ Leave(c)
  /\ UNCHANGED <<waitSet, resolved, lib>>

\* the superclass comes first; its status is read without its monitor
\* Mutant: it is enough that somebody works on the superclass.
SuperBegun(t) ==
  /\ At(t, "super")
  /\ LET s == Super[Top(t).x] IN
       \/ s = NoClass
       \/ s # NoClass /\ status[s] \in {"initializing", "initialized"}
  /\ Goto(t, "clinit")
  /\ UNCHANGED <<class, lib>>
SuperReady(t) ==
  /\ At(t, "super")
  /\ LET s == Super[Top(t).x] IN
       \/ s = NoClass
       \/ s # NoClass /\ status[s] = "initialized"
  /\ Goto(t, "clinit")
  /\ UNCHANGED <<class, lib>>
InitSuper(t) ==
  /\ At(t, "super") /\ depth[t] < MaxDepth
  /\ LET s == Super[Top(t).x] IN
       /\ s # NoClass /\ status[s] # "initialized"
       /\ depth' = [depth EXCEPT ![t] = depth[t] + 1]
       /\ frame' = [frame EXCEPT ![t] =
                      [frame[t] EXCEPT ![depth[t]].at = "superwait",
                         ![depth[t] + 1] = [NoFrame EXCEPT !.at = "lock", !.x = s,
                                                           !.sub = TRUE]]]
  /\ UNCHANGED <<class, lib>>

\* Mutant: those who wait are not woken when the superclass fails.
SuperFailedSilently(t) ==
  /\ At(t, "superfailed")
  /\ status' = [status EXCEPT ![Top(t).x] = "error"]
  /\ Goto(t, "return")
  /\ UNCHANGED <<initThread, owner, waitSet, resolved, lib>>
\* the status is stored before the monitor is entered
SuperFailed(t) ==
  /\ At(t, "superfailed") /\ Goto(t, "marked")
  /\ status' = [status EXCEPT ![Top(t).x] = "error"]
  /\ UNCHANGED <<initThread, owner, waitSet, resolved, lib>>
LockToNotify(t) ==
  /\ At(t, "marked")
  /\ Enter(t, Top(t).x) /\ Goto(t, "notify")
  /\ UNCHANGED <<status, initThread, waitSet, resolved, lib>>

\* Mutant: whoever waits is not told that the class is done.
FinishSilently(t) ==
  /\ \/ At(t, "done") /\ status' = [status EXCEPT ![Top(t).x] = "initialized"]
     \/ At(t, "thrown") /\ status' = [status EXCEPT ![Top(t).x] = "error"]
  /\ Enter(t, Top(t).x) /\ Goto(t, "unlock")
  /\ UNCHANGED <<initThread, waitSet, resolved, lib>>
Finish(t) ==
  /\ \/ At(t, "done") /\ status' = [status EXCEPT ![Top(t).x] = "initialized"]
     \/ At(t, "thrown") /\ status' = [status EXCEPT ![Top(t).x] = "error"]
  /\ Enter(t, Top(t).x) /\ Goto(t, "notify")
  /\ UNCHANGED <<initThread, waitSet, resolved, lib>>
NotifyAll(t) ==
  /\ At(t, "notify")
  /\ waitSet' = [waitSet EXCEPT ![Top(t).x] = {}]
  /\ Goto(t, "unlock")
  /\ UNCHANGED <<status, initThread, owner, resolved, lib>>

Unlock(t) ==
  /\ At(t, "unlock")
  /\ Leave(Top(t).x) /\ Goto(t, "return")
  /\ UNCHANGED <<status, initThread, waitSet, resolved, lib>>

\* return (clazz->status != CLASS_ERROR), read once the monitor has been left
Return(t) ==
  /\ At(t, "return")
  /\ LET ready == status[Top(t).x] # "error"
         d == depth[t] IN
       \/ ~Top(t).sub /\ ready /\ Goto(t, "cache")
       \/ ~Top(t).sub /\ ~ready /\ Pop(t)
       \/ /\ Top(t).sub /\ d > 1
          /\ depth' = [depth EXCEPT ![t] = d - 1]
          /\ frame' = [frame EXCEPT ![t] =
                         [frame[t] EXCEPT ![d] = NoFrame,
                            ![d - 1].at = IF ready THEN "clinit" ELSE "superfailed"]]
  /\ UNCHANGED <<class, lib>>

(***************************************************************************)
(* dvmLoadNativeCode().                                                    *)
(***************************************************************************)
\* findSharedLibEntry(): loaded, or being loaded, by the same loader or another
Find(t) ==
  /\ At(t, "find")
  /\ LET e == slot[Top(t).x] IN
       \/ e = NoEntry /\ Goto(t, "dlopen")
       \/ e # NoEntry /\ entry[e].ld # Top(t).ld /\ Goto(t, "failed")
       \/ e # NoEntry /\ entry[e].ld = Top(t).ld
            /\ Become(t, [Top(t) EXCEPT !.at = "check", !.e = e])
  /\ UNCHANGED <<class, lib>>

Dlopen(t) ==
  /\ At(t, "dlopen")
  /\ \/ Goto(t, "failed") /\ UNCHANGED entry
     \/ \E e \in Entries :
          /\ entry[e] = Unused
          /\ entry' = [entry EXCEPT ![e] = [x |-> Top(t).x, ld |-> Top(t).ld, thread |-> t,
                                            result |-> "pending"]]
          /\ Become(t, [Top(t) EXCEPT !.at = "probe", !.e = e])
  /\ UNCHANGED <<class, slot, condWait>>

\* addSharedLibEntry(), part 1: the hash table is searched, without its lock;
\* the loser frees its struct and asks about the winner's
Probe(t) ==
  /\ At(t, "probe")
  /\ LET e == slot[Top(t).x] IN
       \/ e = NoEntry /\ Goto(t, "store") /\ UNCHANGED entry
       \/ /\ e # NoEntry
          /\ entry' = [entry EXCEPT ![Top(t).e] = Unused]
          /\ Become(t, [Top(t) EXCEPT !.at = "check", !.e = e])
  /\ UNCHANGED <<class, slot, condWait>>
\* part 2: the struct is put where the search ended
Store(t) ==
  /\ At(t, "store") /\ Goto(t, "onload")
  /\ slot' = [slot EXCEPT ![Top(t).x] = Top(t).e]
  /\ UNCHANGED <<class, entry, condWait>>

\* JNI_OnLoad() has returned a version the VM knows, or another
StoreResult(t) ==
  /\ \/ At(t, "okay") /\ entry' = [entry EXCEPT ![Top(t).e].result = "okay"]
     \/ At(t, "bad") /\ entry' = [entry EXCEPT ![Top(t).e].result = "failed"]
  /\ Goto(t, "clear")
  /\ UNCHANGED <<class, slot, condWait>>
ClearThread(t) ==
  /\ At(t, "clear") /\ Goto(t, "broadcast")
  /\ entry' = [entry EXCEPT ![Top(t).e].thread = Nobody]
  /\ UNCHANGED <<class, slot, condWait>>
Answer(e) == IF entry[e].result = "okay" THEN "loaded" ELSE "failed"
Broadcast(t) ==
  /\ At(t, "broadcast") /\ Goto(t, Answer(Top(t).e))
  /\ condWait' = [condWait EXCEPT ![Top(t).e] = {}]
  /\ UNCHANGED <<class, slot, entry>>

\* checkOnLoadResult(): a JNI_OnLoad() that loads its own library again is told yes
CheckThread(t) ==
  /\ At(t, "check")
  /\ Goto(t, IF entry[Top(t).e].thread = t THEN "loaded" ELSE "test")
  /\ UNCHANGED <<class, lib>>
\* Mutant: whoever has to wait is told yes when the wait is over.
CheckOnce(t) ==
  /\ At(t, "asleep") /\ t \notin condWait[Top(t).e] /\ Goto(t, "loaded")
  /\ UNCHANGED <<class, lib>>
CheckResult(t) ==
  /\ At(t, "test")
  /\ LET e == Top(t).e IN
       \/ /\ entry[e].result = "pending" /\ Goto(t, "asleep")
          /\ condWait' = [condWait EXCEPT ![e] = condWait[e] \cup {t}]
       \/ /\ entry[e].result # "pending" /\ Goto(t, Answer(e))
          /\ UNCHANGED condWait
  /\ UNCHANGED <<class, slot, entry>>
CheckAgain(t) ==
  /\ At(t, "asleep") /\ t \notin condWait[Top(t).e] /\ Goto(t, "test")
  /\ UNCHANGED <<class, lib>>
LoadReturns(t) ==
  /\ At(t, "loaded") \/ At(t, "failed")
  /\ Pop(t)
  /\ UNCHANGED <<class, lib>>

(***************************************************************************)
(* The specification.  Code may run as long as it likes; what the VM has   *)
(* begun goes on.  Fairness is strong because a monitor may be free only   *)
(* from time to time.                                                      *)
(***************************************************************************)
Code(t) ==
  \/ \E c \in Classes : UseField(t, c)
  \/ \E l \in Libs, ld \in Loaders : LoadLibrary(t, l, ld)
  \/ ClinitEnds(t) \/ OnLoadReturns(t) \/ WaitEnds(t)
InitClass(t) ==
  \/ Resolve(t) \/ Cache(t) \/ Used(t)
  \/ Verify(t) \/ Loop(t) \/ Wakes(t) \/ Woken(t) \/ Begin(t) \/ SuperReady(t)
  \/ InitSuper(t) \/ SuperFailed(t) \/ LockToNotify(t) \/ Finish(t) \/ NotifyAll(t)
  \/ Unlock(t) \/ Return(t)
LoadNativeCode(t) ==
  \/ Find(t) \/ Dlopen(t) \/ Probe(t) \/ Store(t) \/ StoreResult(t) \/ ClearThread(t)
  \/ Broadcast(t) \/ CheckThread(t) \/ CheckResult(t) \/ CheckAgain(t) \/ LoadReturns(t)

Next == \E t \in Threads : Code(t) \/ InitClass(t) \/ LoadNativeCode(t)

Fairness == \A t \in Threads : SF_vars(InitClass(t)) /\ SF_vars(LoadNativeCode(t))
Spec == Init /\ [][Next]_vars /\ Fairness

(***************************************************************************)
(* Properties.                                                             *)
(***************************************************************************)
Statuses == {"resolved", "verified", "initializing", "initialized", "error"}
Final    == {"initialized", "error"}

\* Every field holds a value of its kind.
TypeOK ==
  /\ status \in [Classes -> Statuses]
  /\ initThread \in [Classes -> Threads \cup {Nobody}]
  /\ owner \in [Classes -> Threads \cup {Nobody}]
  /\ waitSet \in [Classes -> SUBSET Threads]
  /\ resolved \in SUBSET Classes
  /\ slot \in [Libs -> Entries \cup {NoEntry}]
  /\ entry \in [Entries -> SharedLib]
  /\ condWait \in [Entries -> SUBSET Threads]
  /\ frame \in [Threads -> [Levels -> Frame]]
  /\ depth \in [Threads -> 0..MaxDepth]

\* Nobody gets at a static field before its class is ready, save the thread that is
\* initializing it: the cache of resolved fields and the unlocked tests never let
\* another thread through (dvmResolveStaticField, dvmInitClass).
UseInitialized ==
  \A t \in Threads : At(t, "used") =>
    LET c == Top(t).x IN
      \/ status[c] = "initialized"
      \/ status[c] = "initializing" /\ initThread[c] = t

\* A class is ready only when its superclass is, or when the superclass was being
\* initialized by the same thread (dvmInitClass).
SuperFirst ==
  \A c \in Classes : status[c] = "initialized" /\ Super[c] # NoClass =>
    \/ status[Super[c]] = "initialized"
    \/ initThread[Super[c]] = initThread[c]

\* All threads see one outcome: once a class is ready or in error, and once the result
\* of a JNI_OnLoad() is known, that does not change (dvmInitClass, dvmLoadNativeCode).
Decided ==
  [][/\ \A c \in Classes : status[c] \in Final => status'[c] = status[c]
     /\ \A e \in Entries : entry[e].result \in {"okay", "failed"} => 
          entry'[e].result = entry[e].result]_vars

\* Whoever sleeps is waiting for a thread that has the work on its stack and will wake
\* it: threads can only block one another in a circle (dvmInitClass,
\* checkOnLoadResult).
SomebodyWorks ==
  \A t \in Threads :
    /\ At(t, "waiting") /\ t \in waitSet[Top(t).x] =>
         \E u \in Threads \ {t}, d \in Levels :
           frame[u][d].x = Top(t).x /\ frame[u][d].at \in WorkSteps
    /\ At(t, "asleep") /\ t \in condWait[Top(t).e] =>
         \E u \in Threads \ {t}, d \in Levels :
           frame[u][d].e = Top(t).e /\ frame[u][d].at \in OnLoadSteps

\* A load that succeeds found a library whose JNI_OnLoad() has succeeded, or was made by
\* that JNI_OnLoad() itself (dvmLoadNativeCode, checkOnLoadResult).
LoadedReady ==
  \A t \in Threads : At(t, "loaded") =>
    entry[Top(t).e].result = "okay" \/ entry[Top(t).e].thread = t

\* Who waits for a class or a library gets on once its fate is decided.
WaitersWake ==
  \A t \in Threads :
    /\ At(t, "waiting") /\ status[Top(t).x] \in Final ~> ~At(t, "waiting")
    /\ At(t, "asleep") /\ entry[Top(t).e].result # "pending" ~> ~At(t, "asleep")

\* If somebody beat us to the punch, we'll get their pointer back instead
\* (addSharedLibEntry): a library has one SharedLib whose JNI_OnLoad() is called.
AddedOnce ==
  \A t, u \in Threads : \A d, k \in Levels :
    /\ frame[t][d].at \in OnLoadSteps /\ frame[u][k].at \in OnLoadSteps
    /\ frame[t][d].x = frame[u][k].x
    => frame[t][d].e = frame[u][k].e
=============================================================================
