------------------------------ MODULE DalvikHook ------------------------------
(***************************************************************************)
(* In-place hooking of Dalvik methods (ddi-master/dalvikhook).             *)
(*                                                                         *)
(* dalvik_hook() turns a bytecode method into a native one by rewriting    *)
(* fields of its VM-wide struct Method.  The hook's handler reaches the    *)
(* original code by writing the saved fields back (dalvik_prepare),        *)
(* calling the method through JNI, and patching it again                   *)
(* (dalvik_postcall).  Nothing serialises these writes with the threads    *)
(* of the process that invoke the same method, so every store to, and      *)
(* every load from, struct Method is a step of its own here.               *)
(*                                                                         *)
(* Abstractions.  insSize, registersSize and outsSize are always written   *)
(* together and are one field, `regs'.  The access flags are the one bit   *)
(* `native' (ACC_NATIVE; h->af keeps its default 0x0100).  `compute' says  *)
(* that jniArgInfo has its top bit set, so that the bridge works out the   *)
(* argument layout at the call.  Stores become visible in program order.   *)
(* h->resolvm keeps its default 0 (no hook of the repository sets it).     *)
(***************************************************************************)
EXTENDS Naturals

CONSTANTS
  Threads,    \* threads of the process that invoke Java methods
  Installers, \* threads in my_epoll_wait(): each of them runs do_patch()
  Methods,    \* the methods named in do_patch()'s table of hooks
  NoMethod,   \* the method of a frame that is not an invocation
  MaxDepth,   \* invocations that fit on a thread's interpreter stack
  Rss,        \* registersSize of the method's own bytecode
  ArgSize,    \* dvmComputeMethodArgsSize(), plus one for `this'
  Ns          \* the argument count handed to dalvik_hook_setup()

ASSUME InstallerAssumption == Installers \subseteq Threads
ASSUME MethodAssumption    == NoMethod \notin Methods
ASSUME DepthAssumption     == MaxDepth \in Nat \ {0}
ASSUME SizeAssumption      == /\ Rss \in [Methods -> Nat]
                              /\ ArgSize \in [Methods -> Nat]
                              /\ Ns \in [Methods -> Nat]

VARIABLES
  method,  \* struct Method of each method, shared by all threads
  hook,    \* struct dalvik_hook_t of each hook: the values it saved
  todo,    \* todo[t]: hooks that t's do_patch() has not attempted yet
  frame,   \* frame[t][d]: invocation at depth d of thread t's stack
  depth    \* number of invocations on each thread's stack

vars == <<method, hook, todo, frame, depth>>

Levels == 1..MaxDepth

(***************************************************************************)
(* `at' names the step an invocation takes next.                           *)
(***************************************************************************)
InstallSteps  == {"find", "hookSaveSizes", "hookSizes", "hookArgInfo",
                  "hookSave", "hookFlags", "hookInsns", "hookFunc"}
DispatchSteps == {"push", "test", "code", "native", "bridge"}
PrepareSteps  == {"prepareSizes", "prepareFlags", "prepareArgInfo",
                  "prepareInsns"}
PostSteps     == {"postArgInfo", "postSave", "postFlags", "postInsns",
                  "postFunc"}
HandlerSteps  == PrepareSteps \cup {"original", "calling"} \cup PostSteps
Steps == InstallSteps \cup DispatchSteps \cup HandlerSteps
           \cup {"none", "body", "return", "wild"}

MethodRecord == [native : BOOLEAN, insns : {"code", "handler"},
                 func : {"null", "bridge"}, regs : Nat, compute : BOOLEAN]
HookRecord   == [native : BOOLEAN, insns : {"none", "code", "handler"},
                 regs : Nat]
Frame        == [at : Steps, m : Methods \cup {NoMethod}, regs : Nat]

NoFrame == [at |-> "none", m |-> NoMethod, regs |-> 0]

TypeOK ==
  /\ method \in [Methods -> MethodRecord]
  /\ hook \in [Methods -> HookRecord]
  /\ todo \in [Threads -> SUBSET Methods]
  /\ frame \in [Threads -> [Levels -> Frame]]
  /\ depth \in [Threads -> 0..MaxDepth]

(***************************************************************************)
(* A method as the class loader leaves it: bytecode, a nativeFunc that     *)
(* was never set, no precomputed argument layout.                          *)
(***************************************************************************)
LoadedMethod(m) == [native |-> FALSE, insns |-> "code", func |-> "null",
                    regs |-> Rss[m], compute |-> FALSE]

Init ==
  /\ method = [m \in Methods |-> LoadedMethod(m)]
  /\ hook = [m \in Methods |-> [native |-> FALSE, insns |-> "none", regs |-> 0]]
  /\ todo = [t \in Threads |-> Methods]
  /\ frame = [t \in Threads |-> [d \in Levels |-> NoFrame]]
  /\ depth = [t \in Threads |-> 0]

(***************************************************************************)
(* A thread that has sent the processor through a null pointer, into       *)
(* bytecode, or the interpreter into machine code is "wild": nothing is    *)
(* claimed of what follows, so the behaviour ends there.                   *)
(***************************************************************************)
Wild == \E t \in Threads, d \in Levels : frame[t][d].at = "wild"

Top(t)   == frame[t][depth[t]]
At(t, s) == depth[t] > 0 /\ Top(t).at = s

Goto(t, s) == frame' = [frame EXCEPT ![t][depth[t]].at = s]

(* One store to the Method of the invocation on top of t's stack.          *)
Write(t, from, to, record) ==
  /\ At(t, from)
  /\ method' = [method EXCEPT ![Top(t).m] = record]
  /\ Goto(t, to)
  /\ UNCHANGED <<hook, todo, depth>>

(* One store to the hook of the invocation on top of t's stack.            *)
Save(t, from, to, record) ==
  /\ At(t, from)
  /\ hook' = [hook EXCEPT ![Top(t).m] = record]
  /\ Goto(t, to)
  /\ UNCHANGED <<method, todo, depth>>

(* One load from the Method that decides where the invocation goes next.   *)
Dispatch(t, from, to) ==
  /\ At(t, from)
  /\ Goto(t, to)
  /\ UNCHANGED <<method, hook, todo, depth>>

M(t) == method[Top(t).m]
H(t) == hook[Top(t).m]

-----------------------------------------------------------------------------
(***************************************************************************)
(* Invoking a method: the interpreter's invokeMethod and, for native       *)
(* callers, callPrep and dvmCallMethodA/V, read the same fields in the     *)
(* same order.                                                             *)
(***************************************************************************)
Invocation(m) == [at |-> "push", m |-> m, regs |-> 0]

(* A thread enters m from outside, or from the bytecode it is running.  A  *)
(* call that no longer fits on the stack raises StackOverflowError and     *)
(* leaves the caller where it is.                                          *)
Call(t, m) ==
  /\ depth[t] = 0 \/ At(t, "body")
  /\ depth[t] < MaxDepth
  /\ depth' = [depth EXCEPT ![t] = @ + 1]
  /\ frame' = [frame EXCEPT ![t][depth[t] + 1] = Invocation(m)]
  /\ UNCHANGED <<method, hook, todo>>

(* The frame is laid out with the sizes the method has now.                *)
PushFrame(t) ==
  /\ At(t, "push")
  /\ frame' = [frame EXCEPT ![t][depth[t]].regs = M(t).regs,
                            ![t][depth[t]].at = "test"]
  /\ UNCHANGED <<method, hook, todo, depth>>

(* dvmIsNativeMethod(): interpret the method or call its nativeFunc.       *)
TestNative(t) == Dispatch(t, "test", IF M(t).native THEN "native" ELSE "code")

(* pc = methodToCall->insns.                                               *)
EnterCode(t) ==
  Dispatch(t, "code", IF M(t).insns = "code" THEN "body" ELSE "wild")

(* The call through methodToCall->nativeFunc.                              *)
CallNativeFunc(t) ==
  Dispatch(t, "native", IF M(t).func = "bridge" THEN "bridge" ELSE "wild")

(* dvmCallJNIMethod: the bridge calls whatever insns points at now.        *)
CallBridge(t) ==
  Dispatch(t, "bridge",
           IF M(t).insns = "handler" THEN "prepareSizes" ELSE "wild")

(* The bytecode, the handler or do_patch() returns to its caller.          *)
Return(t) ==
  /\ At(t, "body") \/ At(t, "return")
  /\ frame' = [frame EXCEPT ![t][depth[t]] = NoFrame]
  /\ depth' = [depth EXCEPT ![t] = @ - 1]
  /\ UNCHANGED <<method, hook, todo>>

Invoke(t) == \/ \E m \in Methods : Call(t, m)
             \/ PushFrame(t)
             \/ TestNative(t)
             \/ EnterCode(t)
             \/ CallNativeFunc(t)
             \/ CallBridge(t)
             \/ Return(t)

-----------------------------------------------------------------------------
(***************************************************************************)
(* do_patch() calls dalvik_hook() for each entry of its table.  It is run  *)
(* by the epoll_wait() of every installer: the first removes the hook of   *)
(* epoll_wait(), but a thread that is in my_epoll_wait() by then runs      *)
(* do_patch() as well, at the same time or when the methods are hooked.    *)
(***************************************************************************)
EpollWait(t) ==
  /\ t \in Installers
  /\ depth[t] = 0
  /\ todo[t] # {}
  /\ depth' = [depth EXCEPT ![t] = 1]
  /\ frame' = [frame EXCEPT ![t][1].at = "find"]
  /\ UNCHANGED <<method, hook, todo>>

(* The class is not loaded or has no such method: dalvik_hook() returns 0  *)
(* and do_patch() goes on to the next entry.                               *)
HookNotFound(t, m) ==
  /\ At(t, "find")
  /\ m \in todo[t]
  /\ todo' = [todo EXCEPT ![t] = @ \ {m}]
  /\ UNCHANGED <<method, hook, frame, depth>>

(* The method is found, hooked already or not, and insns is saved.         *)
HookFound(t, m) ==
  /\ At(t, "find")
  /\ m \in todo[t]
  /\ todo' = [todo EXCEPT ![t] = @ \ {m}]
  /\ hook' = [hook EXCEPT ![m].insns = method[m].insns]
  /\ frame' = [frame EXCEPT ![t][depth[t]].at = "hookSaveSizes",
                            ![t][depth[t]].m = m]
  /\ UNCHANGED <<method, depth>>

HookSaveSizes(t) ==
  Save(t, "hookSaveSizes", "hookSizes", [H(t) EXCEPT !.regs = M(t).regs])
HookSizes(t) ==
  Write(t, "hookSizes", "hookArgInfo", [M(t) EXCEPT !.regs = ArgSize[Top(t).m]])
HookArgInfo(t) ==
  Write(t, "hookArgInfo", "hookSave", [M(t) EXCEPT !.compute = TRUE])
HookSave(t) ==
  Save(t, "hookSave", "hookFlags", [H(t) EXCEPT !.native = M(t).native])
(* Mutant: the method is not made native.                                  *)
HookFlagsForgotten(t) == Write(t, "hookFlags", "hookInsns", M(t))
HookFlags(t) ==
  Write(t, "hookFlags", "hookInsns", [M(t) EXCEPT !.native = TRUE])
(* dvmUseJNIBridge -> dvmSetNativeFunc: insns, then nativeFunc.            *)
HookInsns(t) ==
  Write(t, "hookInsns", "hookFunc", [M(t) EXCEPT !.insns = "handler"])
HookFunc(t) ==
  Write(t, "hookFunc", "find", [M(t) EXCEPT !.func = "bridge"])

(* my_epoll_wait() goes on to the original epoll_wait() and returns.       *)
PatchDone(t) == todo[t] = {} /\ Dispatch(t, "find", "return")

Install(t) == \/ EpollWait(t)
              \/ \E m \in Methods : HookNotFound(t, m) \/ HookFound(t, m)
              \/ HookSaveSizes(t)
              \/ HookSizes(t)
              \/ HookArgInfo(t)
              \/ HookSave(t)
              \/ HookFlags(t)
              \/ HookInsns(t)
              \/ HookFunc(t)
              \/ PatchDone(t)

-----------------------------------------------------------------------------
(***************************************************************************)
(* A handler: dalvik_prepare(), the JNI call of the original, and          *)
(* dalvik_postcall().  What else a handler does calls no hooked method.    *)
(***************************************************************************)
(* Mutants: dalvik_prepare() gives up on its first line and the handler    *)
(* does not look at its result; and it keeps the native sizes.             *)
PrepareGivesUp(t)   == Write(t, "prepareSizes", "original", M(t))
PrepareKeepsSize(t) == Write(t, "prepareSizes", "prepareFlags", M(t))
PrepareSizes(t) ==
  Write(t, "prepareSizes", "prepareFlags", [M(t) EXCEPT !.regs = H(t).regs])
(* Mutant: the method stays native.                                        *)
PrepareKeepsFlags(t) == Write(t, "prepareFlags", "prepareArgInfo", M(t))
PrepareFlags(t) ==
  Write(t, "prepareFlags", "prepareArgInfo", [M(t) EXCEPT !.native = H(t).native])
PrepareArgInfo(t) ==
  Write(t, "prepareArgInfo", "prepareInsns", [M(t) EXCEPT !.compute = FALSE])
PrepareInsns(t) ==
  Write(t, "prepareInsns", "original", [M(t) EXCEPT !.insns = H(t).insns])

(* CallObjectMethod(env, obj, h->mid): an invocation like any other.  When *)
(* it does not fit on the stack it returns at once with an exception.      *)
CallOriginal(t) ==
  /\ At(t, "original")
  /\ IF depth[t] < MaxDepth
     THEN /\ depth' = [depth EXCEPT ![t] = @ + 1]
          /\ frame' = [frame EXCEPT ![t][depth[t]].at = "calling",
                                    ![t][depth[t] + 1] = Invocation(Top(t).m)]
     ELSE /\ depth' = depth
          /\ Goto(t, "calling")
  /\ UNCHANGED <<method, hook, todo>>

(* The original has returned: the caller's frame is on top again.          *)
PostSizes(t) ==
  Write(t, "calling", "postArgInfo", [M(t) EXCEPT !.regs = Ns[Top(t).m]])
PostArgInfo(t) ==
  Write(t, "postArgInfo", "postSave", [M(t) EXCEPT !.compute = TRUE])
(* Mutant: flags saved after ACC_NATIVE was set.                           *)
PostSaveLate(t) == Save(t, "postSave", "postFlags", [H(t) EXCEPT !.native = TRUE])
PostSave(t) ==
  Save(t, "postSave", "postFlags", [H(t) EXCEPT !.native = M(t).native])
(* Mutant: the method is left interpreted.                                 *)
PostFlagsForgotten(t) == Write(t, "postFlags", "postInsns", M(t))
PostFlags(t) ==
  Write(t, "postFlags", "postInsns", [M(t) EXCEPT !.native = TRUE])
PostInsns(t) ==
  Write(t, "postInsns", "postFunc", [M(t) EXCEPT !.insns = "handler"])
PostFunc(t) ==
  Write(t, "postFunc", "return", [M(t) EXCEPT !.func = "bridge"])

Handle(t) == \/ PrepareSizes(t)
             \/ PrepareFlags(t)
             \/ PrepareArgInfo(t)
             \/ PrepareInsns(t)
             \/ CallOriginal(t)
             \/ PostSizes(t)
             \/ PostArgInfo(t)
             \/ PostSave(t)
             \/ PostFlags(t)
             \/ PostInsns(t)
             \/ PostFunc(t)

-----------------------------------------------------------------------------
Next == ~Wild /\ \E t \in Threads : Invoke(t) \/ Install(t) \/ Handle(t)

Spec == Init /\ [][Next]_vars

-----------------------------------------------------------------------------
(***************************************************************************)
(* Properties.                                                             *)
(***************************************************************************)

(* dalvik_hook() has returned 1 for m: nativeFunc is its last store.       *)
Installed(m) == method[m].func = "bridge"

(* Some handler of m is at one of the steps S.                             *)
SomeFrame(m, S) ==
  \E t \in Threads, d \in Levels : frame[t][d].m = m /\ frame[t][d].at \in S

(* Between a field's store in dalvik_prepare() and its store in            *)
(* dalvik_postcall(), by the step the handler takes next.                  *)
CallSteps     == {"original", "calling"}
SizesWindow   == {"prepareFlags", "prepareArgInfo", "prepareInsns"} \cup CallSteps
FlagsWindow   == {"prepareArgInfo", "prepareInsns", "postArgInfo", "postSave",
                  "postFlags"} \cup CallSteps
ArgInfoWindow == {"prepareInsns", "postArgInfo"} \cup CallSteps
InsnsWindow   == {"postArgInfo", "postSave", "postFlags", "postInsns"}
                   \cup CallSteps
Window == SizesWindow \cup FlagsWindow \cup ArgInfoWindow \cup InsnsWindow

FullyHooked(m) ==
  /\ method[m].native
  /\ method[m].compute
  /\ method[m].insns = "handler"
  /\ method[m].regs \in {ArgSize[m], Ns[m]}

(* Whatever the threads do, a hook that was installed stays: a method is   *)
(* in anything but its hooked form only while a handler of that very       *)
(* method is between dalvik_prepare() and dalvik_postcall().               *)
HookRestored ==
  \A m \in Methods :
    Installed(m) /\ ~SomeFrame(m, Window) => FullyHooked(m)

(* A call slips past an installed hook only while some handler of the same *)
(* method has the original put back: the test of ACC_NATIVE never sends an *)
(* invocation to the bytecode otherwise.                                   *)
CallsIntercepted ==
  [][\A t \in Threads :
       At(t, "test") /\ Installed(Top(t).m) /\ ~SomeFrame(Top(t).m, FlagsWindow)
         => frame'[t][depth[t]].at # "code"]_vars

(* At most one thread's do_patch() has come to m, when `left' is what each *)
(* of them has not attempted yet.                                          *)
Once(m, left) ==
  \A s, t \in Threads : m \notin left[s] /\ m \notin left[t] => s = t

(* The saved code pointer and sizes are those of the original method.      *)
CodeSaved(m) == hook[m].insns = "code" /\ hook[m].regs = Rss[m]

(* The VM's own rule for struct Method: a method that is flagged native    *)
(* always has a nativeFunc to call.                                        *)
NativeFuncNeverNull ==
  \A m \in Methods : method[m].native => method[m].func # "null"

(* The call a handler makes between dalvik_prepare() and dalvik_postcall() *)
(* runs the original method and never the hook again.                      *)
OriginalReached ==
  \A t \in Threads, d \in Levels :
    /\ d < depth[t]
    /\ frame[t][d].at = "calling"
    => frame[t][d + 1].at \notin HandlerSteps

(* No thread is sent through a null nativeFunc, into bytecode as machine   *)
(* code, or into machine code as bytecode.                                 *)
NeverWild == ~Wild

(* The collector takes a frame for bytecode's, and scans as many registers *)
(* as the method has now, unless the method is flagged native now.  It is  *)
(* right about bytecode, which it scans with all of its registers.  About  *)
(* the arguments of a handler it is right, and skips them, before          *)
(* dalvik_prepare() has put the flags back and after dalvik_postcall() has *)
(* changed them again; in between, while the original is called, it is     *)
(* always wrong and scans the handler's frame as bytecode's.               *)
FramesScanned ==
  \A t \in Threads, d \in Levels :
    LET f == frame[t][d] IN
    /\ f.at = "body" => ~method[f.m].native /\ method[f.m].regs = Rss[f.m]
    /\ f.at \in HandlerSteps =>
         (method[f.m].native <=> f.at \notin FlagsWindow)

-----------------------------------------------------------------------------
(***************************************************************************)
(* The inductive invariant behind HookRestored and CodeKept.               *)
(***************************************************************************)
StoreSteps == InstallSteps \ {"find"}

(* Frames above the top are empty, those below name a hooked method.       *)
StackOK ==
  \A t \in Threads, d \in Levels :
    /\ d > depth[t] => frame[t][d].at = "none"
    /\ frame[t][d].at \in StoreSteps \cup DispatchSteps \cup HandlerSteps
                            \cup {"body"}
         => frame[t][d].m \in Methods

(* No do_patch() has come to m.                                            *)
Fresh(m, left) == \A t \in Threads : m \in left[t]

(* dalvik_hook() runs on an epoll_wait() at the bottom of an installer's   *)
(* stack, once per method; unless another do_patch() came to the method,   *)
(* it is not hooked before dalvik_hook() is done.                          *)
InstallOK ==
  /\ \A t \in Threads, d \in Levels :
       frame[t][d].at \in InstallSteps => d = 1
  /\ \A t \in Threads, d \in Levels :
       frame[t][d].at \in StoreSteps =>
         /\ frame[t][d].m \notin todo[t]
         /\ Once(frame[t][d].m, todo) => ~Installed(frame[t][d].m)
  /\ \A m \in Methods : Fresh(m, todo) => ~Installed(m)

(* What some dalvik_hook() has stored in a method that is not hooked yet   *)
(* when it is about to go on with the next field.                          *)
InstallProgress ==
  \A t \in Threads, d \in Levels :
    LET f == frame[t][d] IN
    f.at \in StoreSteps /\ ~Installed(f.m) =>
      /\ f.at \in {"hookArgInfo", "hookSave", "hookFlags", "hookInsns", "hookFunc"}
           => method[f.m].regs = ArgSize[f.m]
      /\ f.at \in {"hookSave", "hookFlags", "hookInsns", "hookFunc"}
           => method[f.m].compute
      /\ f.at \in {"hookInsns", "hookFunc"} => method[f.m].native
      /\ f.at = "hookFunc" => method[f.m].insns = "handler"

(* Only an installed hook has a handler to run.                            *)
HandlersInstalled ==
  \A t \in Threads, d \in Levels :
    frame[t][d].at \in HandlerSteps \cup {"bridge"} => Installed(frame[t][d].m)

(* HookRestored field by field: each is in its hooked form, or a handler   *)
(* is between the store that took it out of it and the one that puts it    *)
(* back.                                                                   *)
WindowsOK ==
  \A m \in Methods : Installed(m) =>
    /\ method[m].native \/ SomeFrame(m, FlagsWindow)
    /\ method[m].compute \/ SomeFrame(m, ArgInfoWindow)
    /\ method[m].insns = "handler" \/ SomeFrame(m, InsnsWindow)
    /\ method[m].regs \in {ArgSize[m], Ns[m]} \/ SomeFrame(m, SizesWindow)

(* A method that is hooked, or being hooked, has had its insns saved.       *)
SavedSome ==
  /\ \A t \in Threads, d \in Levels :
       frame[t][d].at \in StoreSteps => hook[frame[t][d].m].insns # "none"
  /\ \A m \in Methods : Installed(m) => hook[m].insns # "none"

(* Nothing touches a method before its turn, so what the only dalvik_hook()*)
(* of a method saves is what the class loader put there.                   *)
SavedOK ==
  /\ \A m \in Methods : Fresh(m, todo) =>
       ~method[m].native /\ method[m].insns = "code" /\ method[m].regs = Rss[m]
  /\ \A t \in Threads, d \in Levels :
       LET f == frame[t][d] IN
       f.at \in StoreSteps /\ Once(f.m, todo) =>
         /\ hook[f.m].insns = "code"
         /\ f.at = "hookSaveSizes" => method[f.m].regs = Rss[f.m]
         /\ f.at # "hookSaveSizes" => hook[f.m].regs = Rss[f.m]
  /\ \A m \in Methods : Installed(m) /\ Once(m, todo) => CodeSaved(m)

(* The hook's bookkeeping and the four windows, together inductive.        *)
IInv == /\ TypeOK
        /\ StackOK
        /\ InstallOK
        /\ InstallProgress
        /\ HandlersInstalled
        /\ SavedSome
        /\ SavedOK
        /\ WindowsOK

=============================================================================
