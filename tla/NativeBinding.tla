---------------------------- MODULE NativeBinding ----------------------------
(***************************************************************************)
(* How the Dalvik VM binds native methods to their implementations, and    *)
(* the hook that JavaHook/jni/MethodHooker.cpp builds on it.               *)
(*                                                                         *)
(* A native method starts out with nativeFunc = dvmResolveNativeMethod.    *)
(* The first call looks the implementation up and rewrites insns and       *)
(* nativeFunc; RegisterNatives() rewrites them from a table and            *)
(* UnregisterNatives() resets nativeFunc, all without a lock.  JavaHook    *)
(* flags a bytecode method native, points it at the resolver, and then     *)
(* registers its handler.  Loads and stores of the three fields are steps  *)
(* of their own; stores become visible in program order                    *)
(* (android_atomic_release_store, ANDROID_MEMBAR_FULL in the bridge).      *)
(*                                                                         *)
(* Abstractions.  Methods are those of one class.  RegisterNatives() is    *)
(* modelled for a table of one method (a longer table is several calls).   *)
(* Frame sizes and jniArgInfo are left to DalvikHook; fastJni, noRef and   *)
(* shouldTrace only change how the bridge passes arguments.                *)
(***************************************************************************)
EXTENDS Naturals

CONSTANTS
  Threads,       \* threads of the process
  Natives,       \* methods declared native
  Internal,      \* those in the VM's own table (dvmLookupInternalNativeMethod)
  Exported,      \* those a shared library exports an implementation of
  Given,         \* implementations the application registers
  Symbol,        \* the implementation found by name in a shared library
  Target,        \* bytecode method JavaHook hooks, or NoMethod
  NoMethod,
  Handler,       \* handleFunc of the HookInfo, or NoHandler
  NoHandler,
  Hooker         \* the thread JavaHook is injected into

Methods == Natives \cup ({Target} \ {NoMethod})
Impls   == Given \cup {Symbol} \cup ({Handler} \ {NoHandler})

ASSUME SetAssumption ==
  /\ Internal \subseteq Natives /\ Exported \subseteq Natives \ Internal
  /\ Target \notin Natives /\ NoMethod \notin Natives /\ Hooker \in Threads
ASSUME ImplAssumption ==
  {"null", "code", "internal", "unresolved", "bytecode"} \cap Impls = {}

VARIABLES
  method,     \* struct Method of each method
  library,    \* whether the shared library is loaded
  op,         \* what each thread is doing
  attached,   \* whether Hooker is attached to the VM
  before,     \* history: whether it was when JavaHook was injected
  gAttached,  \* MethodHooker.cpp's g_bAttatedT
  registered, \* history: the implementation RegisterNatives() last wrote
  hooked      \* history: result of ClassMethodHook(): "no" until it returns

vars == <<method, library, op, attached, before, gAttached, registered, hooked>>

CallSteps == {"test", "code", "func", "lookup", "setInternal", "bridge", "run",
              "throw"}
BindSteps == {"regCheck", "bindInsns", "bindFunc"}
HookSteps == {"getEnv", "findClass", "getMethod", "hookFlags", "hookFunc",
              "hookFail", "detach"}
Steps == {"idle", "wild", "unregister"} \cup CallSteps \cup BindSteps \cup HookSteps

\* x: the implementation being bound or run; by: who binds it;
\* left: the methods UnregisterNatives() has still to visit
Op   == [at : Steps, m : Methods \cup {NoMethod}, x : Impls \cup {"null"},
         by : {"call", "register", "hook"}, left : SUBSET Methods]
Idle == [at |-> "idle", m |-> NoMethod, x |-> "null", by |-> "call", left |-> {}]

MethodRecord == [native : BOOLEAN,
                 func   : {"null", "resolve", "internal", "bridge"},
                 insns  : Impls \cup {"null", "code"}]

TypeOK ==
  /\ method \in [Methods -> MethodRecord]
  /\ library \in BOOLEAN
  /\ op \in [Threads -> Op]
  /\ attached \in BOOLEAN /\ before \in BOOLEAN /\ gAttached \in BOOLEAN
  /\ registered \in [Methods -> Impls \cup {"null"}]
  /\ hooked \in {"no", "true", "false"}

(* loadMethodFromDex()                                                     *)
LoadedMethod(m) ==
  IF m \in Natives THEN [native |-> TRUE, func |-> "resolve", insns |-> "null"]
                   ELSE [native |-> FALSE, func |-> "null", insns |-> "code"]

Init ==
  /\ method = [m \in Methods |-> LoadedMethod(m)]
  /\ library = FALSE
  /\ op = [t \in Threads |-> IF t = Hooker /\ Target # NoMethod
                             THEN [Idle EXCEPT !.at = "getEnv", !.m = Target,
                                               !.by = "hook"]
                             ELSE Idle]
  /\ attached \in BOOLEAN
  /\ before = attached
  /\ gAttached = FALSE
  /\ registered = [m \in Methods |-> "null"]
  /\ hooked = "no"

(* A thread that called through a null pointer, ran bytecode as machine    *)
(* code or machine code as bytecode: nothing is claimed of what follows.   *)
Wild == \E t \in Threads : op[t].at = "wild"

At(t, s) == op[t].at = s
(* t's operation continues at step s, or ends.                             *)
Goto(t, s) == op' = [op EXCEPT ![t] = [op[t] EXCEPT !.at = s]]
End(t)     == op' = [op EXCEPT ![t] = Idle]

HookUnchanged == UNCHANGED <<attached, before, gAttached, hooked>>
AllButOp == UNCHANGED <<method, library, registered>> /\ HookUnchanged

-----------------------------------------------------------------------------
(* System.loadLibrary() enters the library into gDvm.nativeLibs.           *)
LoadLibrary ==
  /\ ~library
  /\ library' = TRUE
  /\ UNCHANGED <<method, op, registered>> /\ HookUnchanged

-----------------------------------------------------------------------------
(* An invocation (invokeMethod).                                           *)

Call(t, m) ==
  /\ At(t, "idle")
  /\ op' = [op EXCEPT ![t] = [Idle EXCEPT !.at = "test", !.m = m]]
  /\ AllButOp

(* The access flags decide between the interpreter and nativeFunc.         *)
TestNative(t) ==
  /\ At(t, "test")
  /\ Goto(t, IF method[op[t].m].native THEN "func" ELSE "code")
  /\ AllButOp

Interpret(t) ==
  /\ At(t, "code")
  /\ IF method[op[t].m].insns = "code" THEN End(t) ELSE Goto(t, "wild")
  /\ AllButOp

(* The call through method->nativeFunc, by invokeMethod or by the resolver. *)
CallNativeFunc(t) ==
  /\ At(t, "func")
  /\ Goto(t, CASE method[op[t].m].func = "null"     -> "wild"
               [] method[op[t].m].func = "resolve"  -> "lookup"
               [] method[op[t].m].func = "internal" -> "run"
               [] method[op[t].m].func = "bridge"   -> "bridge")
  /\ AllButOp

(* dvmCallJNIMethod() loads insns and calls it.                            *)
CallBridge(t) ==
  /\ At(t, "bridge")
  /\ IF method[op[t].m].insns \in Impls
     THEN op' = [op EXCEPT ![t] = [op[t] EXCEPT !.at = "run",
                                                !.x = method[op[t].m].insns]]
     ELSE Goto(t, "wild")
  /\ AllButOp

RunImpl(t) == At(t, "run") /\ End(t) /\ AllButOp

(* Mutant: the internal implementation is bound like a JNI function.        *)
LookupBridged(t) ==
  /\ At(t, "lookup") /\ op[t].m \in Internal
  /\ op' = [op EXCEPT ![t] = [op[t] EXCEPT !.at = "bindInsns", !.x = "internal"]]
  /\ AllButOp

(* dvmResolveNativeMethod(): the VM's own table first, then the libraries. *)
LookupInternal(t) ==
  /\ At(t, "lookup") /\ op[t].m \in Internal
  /\ Goto(t, "setInternal")
  /\ AllButOp

LookupShared(t) ==
  /\ At(t, "lookup") /\ op[t].m \in Exported /\ library
  /\ op' = [op EXCEPT ![t] = [op[t] EXCEPT !.at = "bindInsns", !.x = Symbol]]
  /\ AllButOp

LookupFails(t) ==
  /\ At(t, "lookup") /\ op[t].m \notin Internal
  /\ ~(op[t].m \in Exported /\ library)
  /\ Goto(t, "throw")
  /\ AllButOp

(* UnsatisfiedLinkError                                                    *)
Throw(t) == At(t, "throw") /\ End(t) /\ AllButOp

(* dvmSetNativeFunc(method, dfunc, NULL); dfunc(...)                       *)
SetInternal(t) ==
  /\ At(t, "setInternal")
  /\ method' = [method EXCEPT ![op[t].m].func = "internal"]
  /\ Goto(t, "run")
  /\ UNCHANGED <<library, registered>> /\ HookUnchanged

-----------------------------------------------------------------------------
(* RegisterNatives(), and the two stores of dvmUseJNIBridge().             *)

Register(t, m, x) ==
  /\ At(t, "idle")
  /\ op' = [op EXCEPT ![t] = [Idle EXCEPT !.at = "regCheck", !.m = m, !.x = x,
                                          !.by = "register"]]
  /\ AllButOp

(* dvmRegisterJNIMethod() looks in the class itself, not its superclasses, *)
(* and wants a native method.  GetMethodID() does look in superclasses, so *)
(* JavaHook's call of RegisterNatives() may not find the method it hooked. *)
RegisterCheck(t) ==
  /\ At(t, "regCheck")
  /\ method[op[t].m].native /\ Goto(t, "bindInsns")
  /\ AllButOp

RegisterRefused(t) ==
  /\ At(t, "regCheck")
  /\ op[t].by = "hook" /\ Goto(t, "hookFail")
  /\ AllButOp

BindInsns(t) ==
  /\ At(t, "bindInsns")
  /\ method' = [method EXCEPT ![op[t].m].insns = op[t].x]
  /\ registered' = IF op[t].by = "call" THEN registered
                   ELSE [registered EXCEPT ![op[t].m] = op[t].x]
  /\ Goto(t, "bindFunc")
  /\ UNCHANGED library /\ HookUnchanged

(* Mutant: nativeFunc is left alone.                                       *)
FuncForgotten(t) ==
  /\ At(t, "bindFunc")
  /\ CASE op[t].by = "call"     -> Goto(t, "func")
       [] op[t].by = "register" -> End(t)
       [] op[t].by = "hook"     -> Goto(t, "detach")
  /\ UNCHANGED <<method, library, registered>> /\ HookUnchanged

(* The resolver then calls through nativeFunc again.                       *)
BindFunc(t) ==
  /\ At(t, "bindFunc")
  /\ method' = [method EXCEPT ![op[t].m].func = "bridge"]
  /\ CASE op[t].by = "call"     -> Goto(t, "func")
       [] op[t].by = "register" -> End(t)
       [] op[t].by = "hook"     -> Goto(t, "detach")
  /\ UNCHANGED <<library, registered>> /\ HookUnchanged

(* UnregisterNatives() visits the methods one by one.                      *)
Unregister(t) ==
  /\ At(t, "idle")
  /\ op' = [op EXCEPT ![t] = [Idle EXCEPT !.at = "unregister", !.left = Methods]]
  /\ AllButOp

(* Mutant: insns is cleared as well.                                       *)
InsnsCleared(t) ==
  /\ At(t, "unregister")
  /\ \E m \in op[t].left :
       /\ op' = [op EXCEPT ![t] = IF op[t].left = {m} THEN Idle
                                  ELSE [op[t] EXCEPT !.left = op[t].left \ {m}]]
       /\ method' = [method EXCEPT ![m].func = "resolve", ![m].insns = "null"]
       /\ registered' = [registered EXCEPT ![m] = "null"]
  /\ UNCHANGED library /\ HookUnchanged

UnregisterMethod(t) ==
  /\ At(t, "unregister")
  /\ \E m \in op[t].left :
       /\ op' = [op EXCEPT ![t] = IF op[t].left = {m} THEN Idle
                                  ELSE [op[t] EXCEPT !.left = op[t].left \ {m}]]
       /\ method' = IF method[m].native
                    THEN [method EXCEPT ![m].func = "resolve"] ELSE method
       /\ registered' = IF method[m].native
                        THEN [registered EXCEPT ![m] = "null"] ELSE registered
  /\ UNCHANGED library /\ HookUnchanged

-----------------------------------------------------------------------------
(* JavaHook: ClassMethodHook()                                             *)

(* Mutant: g_bAttatedT is not set.                                         *)
AttachForgotten(t) ==
  /\ At(t, "getEnv")
  /\ \/ attached /\ Goto(t, "findClass") /\ UNCHANGED attached
     \/ ~attached /\ Goto(t, "findClass") /\ attached' = TRUE
     \/ ~attached /\ Goto(t, "wild") /\ UNCHANGED attached
  /\ UNCHANGED <<method, library, registered, hooked, before, gAttached>>

(* GetEnv() attaches the thread when it is not; a refusal (zygote, VM      *)
(* shutting down) yields a null JNIEnv that is used all the same.          *)
GetEnv(t) ==
  /\ At(t, "getEnv")
  /\ \/ attached /\ Goto(t, "findClass") /\ UNCHANGED <<attached, gAttached>>
     \/ ~attached /\ Goto(t, "findClass") /\ attached' = TRUE /\ gAttached' = TRUE
     \/ ~attached /\ Goto(t, "wild") /\ UNCHANGED <<attached, gAttached>>
  /\ UNCHANGED <<method, library, registered, hooked, before>>

(* An early return: DetachCurrent() is not called.                         *)
ReturnFalse(t) ==
  /\ hooked' = "false"
  /\ End(t)
  /\ UNCHANGED <<method, library, registered, attached, before, gAttached>>

(* FindClass(), then findAppClass() through the application's loaders.     *)
FindClass(t) ==
  /\ At(t, "findClass")
  /\ \/ Goto(t, "getMethod") /\ AllButOp
     \/ ReturnFalse(t)

GetMethodID(t) ==
  /\ At(t, "getMethod")
  /\ \/ Goto(t, "hookFlags") /\ AllButOp
     \/ ReturnFalse(t)

(* HookDalvikMethod(): SET_METHOD_FLAG(method, ACC_NATIVE)                 *)
HookFlags(t) ==
  /\ At(t, "hookFlags")
  /\ method' = [method EXCEPT ![Target].native = TRUE]
  /\ Goto(t, "hookFunc")
  /\ UNCHANGED <<library, registered>> /\ HookUnchanged

(* Mutant: nativeFunc is set to the bridge at once.                        *)
FuncBridged(t) ==
  /\ At(t, "hookFunc")
  /\ method' = [method EXCEPT ![Target].func = "bridge"]
  /\ op' = [op EXCEPT ![t] =
              IF Handler = NoHandler THEN [op[t] EXCEPT !.at = "detach"]
              ELSE [op[t] EXCEPT !.at = "regCheck", !.x = Handler]]
  /\ UNCHANGED <<library, registered>> /\ HookUnchanged

(* ... nativeFunc = dvmResolveNativeMethod; RegisterNatives() comes next   *)
(* if there is a handler.                                                  *)
HookFunc(t) ==
  /\ At(t, "hookFunc")
  /\ method' = [method EXCEPT ![Target].func = "resolve"]
  /\ op' = [op EXCEPT ![t] =
              IF Handler = NoHandler THEN [op[t] EXCEPT !.at = "detach"]
              ELSE [op[t] EXCEPT !.at = "regCheck", !.x = Handler]]
  /\ UNCHANGED <<library, registered>> /\ HookUnchanged

HookFails(t) == At(t, "hookFail") /\ ReturnFalse(t)

DetachCurrent(t) ==
  /\ At(t, "detach")
  /\ attached' = (attached /\ ~gAttached)
  /\ hooked' = "true"
  /\ End(t)
  /\ UNCHANGED <<method, library, registered, before, gAttached>>

-----------------------------------------------------------------------------
(* The application starts its operations in any thread that is attached;   *)
(* Hooker works for JavaHook until ClassMethodHook() returns.              *)
Start(t) ==
  /\ t = Hooker => attached
  /\ \/ \E m \in Methods : Call(t, m)
     \/ \E m \in Natives, x \in Given : Register(t, m, x)
     \/ Unregister(t)

Step(t) ==
  \/ TestNative(t) \/ Interpret(t) \/ CallNativeFunc(t) \/ CallBridge(t)
  \/ RunImpl(t) \/ LookupInternal(t) \/ LookupShared(t) \/ LookupFails(t)
  \/ Throw(t) \/ SetInternal(t) \/ RegisterCheck(t) \/ RegisterRefused(t)
  \/ BindInsns(t) \/ BindFunc(t) \/ UnregisterMethod(t) \/ GetEnv(t) \/ FindClass(t)
  \/ GetMethodID(t) \/ HookFlags(t) \/ HookFunc(t) \/ HookFails(t)
  \/ DetachCurrent(t)

Next ==
  /\ ~Wild
  /\ LoadLibrary \/ \E t \in Threads : Start(t) \/ Step(t)

Spec == Init /\ [][Next]_vars

(* Threads are scheduled; nobody is obliged to start an operation.         *)
FairSpec == Spec /\ \A t \in Threads : WF_vars(~Wild /\ Step(t))

-----------------------------------------------------------------------------
(* Properties                                                              *)

(***************************************************************************)
(* However calls, resolutions, RegisterNatives() and UnregisterNatives()   *)
(* of the same methods interleave, no call goes through a null pointer or  *)
(* from the bridge into something that is not a native implementation      *)
(* (the comments above dvmSetNativeFunc and unregisterJNINativeMethods).   *)
(* The one exception is the method JavaHook hooks, while it does.          *)
(***************************************************************************)
NeverWild == \A t \in Threads : At(t, "wild") => op[t].m = Target

(***************************************************************************)
(* Whenever a call can enter the bridge, or is in it already, insns is a   *)
(* native implementation: dvmSetNativeFunc stores insns first and nobody   *)
(* clears it.  JavaHook relies on it for a method whose insns was bytecode *)
(* until RegisterNatives().                                                *)
(***************************************************************************)
BridgeHasImpl ==
  /\ \A m \in Methods : method[m].func = "bridge" => method[m].insns \in Impls
  /\ \A t \in Threads : op[t].at = "bridge" => method[op[t].m].insns \in Impls

(***************************************************************************)
(* A call that had to be resolved comes to an end: binding the method      *)
(* takes it out of the resolver.  Only unregistering again and again can   *)
(* send it back there for ever, or the process crash in another thread.    *)
(***************************************************************************)
ResolutionEnds ==
  \/ \A t \in Threads : op[t].at = "lookup" ~> op[t].at = "idle" \/ Wild
  \/ []<><<\E t \in Threads : UnregisterMethod(t)>>_vars

(***************************************************************************)
(* After ClassMethodHook() has returned true every new call of the method  *)
(* reaches the handler, whatever calls were under way while it was being   *)
(* hooked, as long as the application does not unregister the class's      *)
(* natives.                                                                *)
(***************************************************************************)
Registered == Handler # NoHandler /\ registered[Target] = Handler
HookTakesEffect ==
  (hooked = "true" /\ Registered) =>
    method[Target] = [native |-> TRUE, func |-> "bridge", insns |-> Handler]

(***************************************************************************)
(* A hooking that succeeded leaves the thread attached to the VM exactly   *)
(* if it was before (GetEnv, DetachCurrent).                               *)
(***************************************************************************)
AttachmentRestored == hooked = "true" => attached = before

-----------------------------------------------------------------------------
(***************************************************************************)
(* The inductive invariant.                                                *)
(***************************************************************************)

(* Every busy operation concerns a method of the class.                    *)
OpOK ==
  \A t \in Threads :
    /\ op[t].at \notin {"idle", "unregister"} => op[t].m \in Methods
    /\ op[t].at \in BindSteps => op[t].x \in Impls
    /\ op[t].at \in {"bindFunc", "bridge"} => method[op[t].m].insns \in Impls

(* Methods declared native stay native, with a nativeFunc.                 *)
DeclaredOK ==
  /\ \A m \in Natives : method[m].native /\ method[m].func # "null"
  /\ \A t \in Threads : op[t].at = "code" => op[t].m \notin Natives

(* A method on the bridge has an implementation.                           *)
BoundOK == \A m \in Methods : method[m].func = "bridge" => method[m].insns \in Impls

(* Only ClassMethodHook(), running in Hooker until hooked is set, binds    *)
(* Target, and it leaves it in the state its next step expects.            *)
HookOK ==
  \A t \in Threads :
    /\ op[t].at \in HookSteps \/ (op[t].at \in BindSteps /\ op[t].by = "hook") =>
         t = Hooker /\ op[t].by = "hook" /\ op[t].m = Target /\ hooked = "no"
    /\ op[t].at \in CallSteps => op[t].by = "call"
    /\ op[t].at \in BindSteps /\ op[t].m = Target =>
         op[t].by = "hook" /\ op[t].x = Handler
    /\ op[t].at = "setInternal" => op[t].m \in Internal
    /\ op[t].at \in {"hookFunc", "detach"} \/ (op[t].at \in BindSteps /\ op[t].by = "hook")
         => method[Target].native
    /\ op[t].at = "bindFunc" /\ op[t].by = "hook" => method[Target].insns = Handler
    /\ op[t].at = "detach" /\ Handler # NoHandler =>
         method[Target].insns = Handler /\ (Registered => method[Target].func = "bridge")

(* Without a target no hooking returns.                                    *)
NoTarget == Target = NoMethod => hooked = "no"

(* The conjunction, which every step preserves.                            *)
IInv == TypeOK /\ OpOK /\ DeclaredOK /\ BoundOK /\ HookOK /\ NoTarget /\ HookTakesEffect
=============================================================================
