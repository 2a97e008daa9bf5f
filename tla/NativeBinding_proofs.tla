------------------------ MODULE NativeBinding_proofs ------------------------
(***************************************************************************)
(* Proofs about NativeBinding, for any number of threads and methods: the  *)
(* inductive invariant, that a hooking that succeeded takes effect, that   *)
(* the bridge always finds an implementation, and that no interleaving of  *)
(* resolution and (un)registration ends in a wild call, except of the      *)
(* method that JavaHook hooks.                                             *)
(*                                                                         *)
(* Two other parts of the VM with few theorems have theirs here too, in    *)
(* sections at the end: the lock-free caches (CacheEntry, AtomicCache) and *)
(* the tables of JNI references (RefTable, IndirectRefTable).              *)
(***************************************************************************)
EXTENDS NativeBinding, CacheEntry, RefTable, FiniteSetTheorems, WellFoundedInduction,
        SequenceTheorems, TLAPS

(* What IInv says of a thread t whose operation is o.                      *)
OpInv(t, o) ==
  /\ o.at \notin {"idle", "unregister"} => o.m \in Methods
  /\ o.at \in BindSteps => o.x \in Impls
  /\ o.at \in {"bindFunc", "bridge"} => method[o.m].insns \in Impls
  /\ o.at = "code" => o.m \notin Natives
  /\ o.at \in HookSteps \/ (o.at \in BindSteps /\ o.by = "hook") =>
       t = Hooker /\ o.by = "hook" /\ o.m = Target /\ hooked = "no"
  /\ o.at \in CallSteps => o.by = "call"
  /\ o.at \in BindSteps /\ o.m = Target => o.by = "hook" /\ o.x = Handler
  /\ o.at = "setInternal" => o.m \in Internal
  /\ o.at \in {"hookFunc", "detach"} \/ (o.at \in BindSteps /\ o.by = "hook")
       => method[Target].native
  /\ o.at = "bindFunc" /\ o.by = "hook" => method[Target].insns = Handler
  /\ o.at = "detach" /\ Handler # NoHandler =>
       method[Target].insns = Handler /\ (Registered => method[Target].func = "bridge")

DeclaredNative ==
  \A m \in Natives : method[m].native /\ method[m].func # "null"

-----------------------------------------------------------------------------
(* The invariant, regrouped by thread.                                     *)
LEMMA Regroup ==
  IInv <=> /\ TypeOK
           /\ \A t \in Threads : OpInv(t, op[t])
           /\ DeclaredNative /\ BoundOK /\ NoTarget /\ HookTakesEffect
  BY DEF IInv, OpInv, DeclaredNative, OpOK, DeclaredOK, HookOK

LEMMA RegroupPrime ==
  IInv' <=> /\ TypeOK'
            /\ \A t \in Threads : OpInv(t, op[t])'
            /\ DeclaredNative' /\ BoundOK' /\ NoTarget' /\ HookTakesEffect'
  BY DEF IInv, OpInv, DeclaredNative, OpOK, DeclaredOK, HookOK

(* What a step moves on to, and what it ends with.                         *)
LEMMA GotoShape ==
  ASSUME TypeOK, NEW t \in Threads, NEW s \in Steps, Goto(t, s)
  PROVE  \E o \in Op : /\ op' = [op EXCEPT ![t] = o]
                       /\ o.at = s /\ o.m = op[t].m /\ o.x = op[t].x
                       /\ o.by = op[t].by /\ o.left = op[t].left
<1> DEFINE o == [op[t] EXCEPT !.at = s]
<1>1. op[t] \in Op
  BY DEF TypeOK
<1>2. o \in Op
  BY <1>1 DEF Op
<1>3. o.at = s /\ o.m = op[t].m /\ o.x = op[t].x /\ o.by = op[t].by /\ o.left = op[t].left
  BY <1>1 DEF Op
<1> QED
  BY <1>2, <1>3 DEF Goto

LEMMA IdleIsOp == Idle \in Op /\ Idle.at = "idle"
  BY DEF Idle, Op, Steps

(* A thread that has ended its operation owes nothing.                     *)
LEMMA IdleFine ==
  ASSUME NEW t \in Threads
  PROVE  OpInv(t, Idle) /\ OpInv(t, Idle)'
  BY DEF OpInv, Idle, BindSteps, HookSteps, CallSteps

(* The operation of one thread changes.                                    *)
LEMMA OpShape ==
  ASSUME TypeOK, NEW t \in Threads, NEW o \in Op, op' = [op EXCEPT ![t] = o]
  PROVE  /\ op' \in [Threads -> Op]
         /\ op'[t] = o
         /\ \A u \in Threads \ {t} : op'[u] = op[u]
  BY DEF TypeOK

(***************************************************************************)
(* What a step of t may do without harm to the others: implementations and *)
(* the native flag stay, and only Hooker touches what the hook relies on.  *)
(***************************************************************************)
LEMMA Preserved ==
  ASSUME IInv, NEW t \in Threads, NEW o \in Op, op' = [op EXCEPT ![t] = o],
         TypeOK', OpInv(t, o)', BoundOK', DeclaredNative', NoTarget', HookTakesEffect',
         \A m \in Methods : method[m].insns \in Impls => method'[m].insns \in Impls,
         \A m \in Methods : method[m].native => method'[m].native,
         t # Hooker =>
           /\ hooked' = hooked
           /\ Target \in Methods =>
                /\ method'[Target].insns = method[Target].insns
                /\ Registered' => Registered /\ method'[Target].func = method[Target].func
  PROVE  IInv'
<1>1. TypeOK /\ \A u \in Threads : OpInv(u, op[u])
  BY Regroup
<1>2. op'[t] = o /\ \A u \in Threads \ {t} : op'[u] = op[u]
  BY <1>1, OpShape
<1>3. OpInv(t, op[t])'
  BY <1>2
<1>4. ASSUME NEW u \in Threads, u # t
      PROVE  OpInv(u, op[u])'
  <2>1. PICK p \in Op : p = op[u] /\ p = op'[u]
    BY <1>1, <1>2, <1>4 DEF TypeOK
  <2>2. OpInv(u, p)
    BY <1>1, <2>1
  <2>3. ASSUME u = Hooker
        PROVE  /\ hooked' = hooked
               /\ Target \in Methods =>
                    /\ method'[Target].insns = method[Target].insns
                    /\ Registered' => Registered /\ method'[Target].func = method[Target].func
    BY <1>4, <2>3
  <2>4. OpInv(u, p)'
    BY <2>2, <2>3 DEF OpInv, BindSteps, HookSteps, CallSteps
  <2> QED
    BY <2>1, <2>4
<1> QED
  BY <1>3, <1>4, RegroupPrime

(* A step that moves on without touching a method.                         *)
LEMMA Moved ==
  ASSUME IInv, NEW t \in Threads, NEW o \in Op, op' = [op EXCEPT ![t] = o],
         UNCHANGED <<method, registered>>, library' \in BOOLEAN, attached' \in BOOLEAN,
         before' \in BOOLEAN, gAttached' \in BOOLEAN,
         hooked' \in {"no", "true", "false"},
         t # Hooker => hooked' = hooked, NoTarget', HookTakesEffect', OpInv(t, o)'
  PROVE  IInv'
<1>1. TypeOK /\ DeclaredNative /\ BoundOK
  BY Regroup
<1>2. TypeOK'
  BY <1>1, OpShape DEF TypeOK
<1>3. DeclaredNative' /\ BoundOK' /\ (Registered' => Registered)
  BY <1>1 DEF DeclaredNative, BoundOK, Registered
<1> QED
  BY <1>2, <1>3, Preserved

(* ... nor anything else but its own operation.                            *)
LEMMA MovedOnly ==
  ASSUME IInv, NEW t \in Threads, NEW o \in Op, op' = [op EXCEPT ![t] = o],
         AllButOp, OpInv(t, o)
  PROVE  IInv'
<1>1. TypeOK /\ NoTarget /\ HookTakesEffect
  BY Regroup
<1>2. NoTarget' /\ HookTakesEffect' /\ OpInv(t, o)'
  BY <1>1 DEF AllButOp, HookUnchanged, NoTarget, HookTakesEffect, OpInv, Registered
<1> QED
  BY <1>1, <1>2, Moved DEF AllButOp, HookUnchanged, TypeOK

-----------------------------------------------------------------------------
(* Starting, and the steps of an invocation.                               *)
LEMMA StartStep ==
  ASSUME IInv, NEW t \in Threads, Start(t)
  PROVE  IInv'
<1> USE SetAssumption
<1>1. CASE \E m \in Methods : Call(t, m)
  <2>1. PICK m \in Methods : Call(t, m)
    BY <1>1
  <2> DEFINE o == [Idle EXCEPT !.at = "test", !.m = m]
  <2>2. o \in Op /\ o.at = "test" /\ o.m = m /\ o.by = "call"
    BY DEF Idle, Op, Steps, CallSteps
  <2>3. OpInv(t, o)
    BY <2>2 DEF OpInv, BindSteps, HookSteps, CallSteps
  <2> QED
    BY <2>1, <2>2, <2>3, MovedOnly DEF Call
<1>2. CASE \E m \in Natives, x \in Given : Register(t, m, x)
  <2>1. PICK m \in Natives, x \in Given : Register(t, m, x)
    BY <1>2
  <2> DEFINE o == [Idle EXCEPT !.at = "regCheck", !.m = m, !.x = x, !.by = "register"]
  <2>2. /\ o \in Op /\ o.at = "regCheck" /\ o.m = m /\ o.x = x /\ o.by = "register"
        /\ m \in Methods /\ x \in Impls
    BY DEF Idle, Op, Steps, BindSteps, Methods, Impls
  <2>3. OpInv(t, o)
    BY <2>2 DEF OpInv, BindSteps, HookSteps, CallSteps
  <2> QED
    BY <2>1, <2>2, <2>3, MovedOnly DEF Register
<1>3. CASE Unregister(t)
  <2> DEFINE o == [Idle EXCEPT !.at = "unregister", !.left = Methods]
  <2>1. o \in Op /\ o.at = "unregister"
    BY DEF Idle, Op, Steps
  <2>2. OpInv(t, o)
    BY <1>3, <2>1 DEF OpInv, BindSteps, HookSteps, CallSteps, Unregister
  <2> QED
    BY <1>3, <2>1, <2>2, MovedOnly DEF Unregister
<1> QED
  BY <1>1, <1>2, <1>3 DEF Start

(* A step that only moves its thread on, to a step it is allowed at.       *)
LEMMA Advance ==
  ASSUME IInv, NEW t \in Threads, NEW s \in Steps, Goto(t, s), AllButOp,
         \A o \in Op : /\ o.at = s /\ o.m = op[t].m /\ o.x = op[t].x
                       /\ o.by = op[t].by
                       => OpInv(t, o)
  PROVE  IInv'
<1>1. TypeOK
  BY Regroup
<1>2. PICK o \in Op : /\ op' = [op EXCEPT ![t] = o]
                      /\ o.at = s /\ o.m = op[t].m /\ o.x = op[t].x
                      /\ o.by = op[t].by
  BY <1>1, GotoShape
<1> QED
  BY <1>2, MovedOnly

LEMMA EndOnly ==
  ASSUME IInv, NEW t \in Threads, End(t), AllButOp
  PROVE  IInv'
  BY MovedOnly, IdleIsOp, IdleFine DEF End

LEMMA TestNativeStep ==
  ASSUME IInv, NEW t \in Threads, TestNative(t)
  PROVE  IInv'
<1>1. OpInv(t, op[t]) /\ DeclaredNative /\ op[t].at = "test"
  BY Regroup DEF TestNative, At
<1>2. CASE method[op[t].m].native
  <2>1. Goto(t, "func") /\ AllButOp /\ "func" \in Steps
    BY <1>2 DEF TestNative, Steps, CallSteps
  <2> QED
    BY <1>1, <2>1, Advance DEF OpInv, BindSteps, HookSteps, CallSteps
<1>3. CASE ~method[op[t].m].native
  <2>1. Goto(t, "code") /\ AllButOp /\ "code" \in Steps
    BY <1>3 DEF TestNative, Steps, CallSteps
  <2>2. op[t].m \notin Natives
    BY <1>1, <1>3 DEF DeclaredNative
  <2> QED
    BY <1>1, <2>1, <2>2, Advance DEF OpInv, BindSteps, HookSteps, CallSteps
<1> QED
  BY <1>2, <1>3

LEMMA InterpretStep ==
  ASSUME IInv, NEW t \in Threads, Interpret(t)
  PROVE  IInv'
<1>1. OpInv(t, op[t]) /\ op[t].at = "code"
  BY Regroup DEF Interpret, At
<1>2. CASE method[op[t].m].insns = "code"
  BY <1>2, EndOnly DEF Interpret
<1>3. CASE method[op[t].m].insns # "code"
  <2>1. Goto(t, "wild") /\ AllButOp /\ "wild" \in Steps
    BY <1>3 DEF Interpret, Steps
  <2> QED
    BY <1>1, <2>1, Advance DEF OpInv, BindSteps, HookSteps, CallSteps
<1> QED
  BY <1>2, <1>3

LEMMA CallNativeFuncStep ==
  ASSUME IInv, NEW t \in Threads, CallNativeFunc(t)
  PROVE  IInv'
<1>1. OpInv(t, op[t]) /\ TypeOK /\ BoundOK /\ op[t].at = "func"
  BY Regroup DEF CallNativeFunc, At
<1>2. op[t].m \in Methods /\ op[t].by = "call"
  BY <1>1 DEF OpInv, CallSteps
<1>3. method[op[t].m].func \in {"null", "resolve", "internal", "bridge"}
  BY <1>1, <1>2 DEF TypeOK, MethodRecord
<1>4. CASE method[op[t].m].func = "bridge"
  <2>1. Goto(t, "bridge") /\ AllButOp /\ "bridge" \in Steps
    BY <1>4 DEF CallNativeFunc, Steps, CallSteps
  <2>2. method[op[t].m].insns \in Impls
    BY <1>1, <1>2, <1>4 DEF BoundOK
  <2> QED
    BY <1>2, <2>1, <2>2, Advance DEF OpInv, BindSteps, HookSteps, CallSteps
<1>5. CASE method[op[t].m].func # "bridge"
  <2>1. PICK s \in {"wild", "lookup", "run"} : Goto(t, s) /\ AllButOp
    BY <1>3, <1>5 DEF CallNativeFunc
  <2>2. s \in Steps
    BY <2>1 DEF Steps, CallSteps
  <2> QED
    BY <1>2, <2>1, <2>2, Advance DEF OpInv, BindSteps, HookSteps, CallSteps
<1> QED
  BY <1>4, <1>5

LEMMA CallBridgeStep ==
  ASSUME IInv, NEW t \in Threads, CallBridge(t)
  PROVE  IInv'
<1>1. OpInv(t, op[t]) /\ TypeOK /\ op[t].at = "bridge"
  BY Regroup DEF CallBridge, At
<1>2. /\ op[t].m \in Methods /\ op[t].by = "call" /\ op[t] \in Op
      /\ method[op[t].m].insns \in Impls
  BY <1>1 DEF OpInv, TypeOK, CallSteps
<1> DEFINE o == [op[t] EXCEPT !.at = "run", !.x = method[op[t].m].insns]
<1>3. o \in Op /\ o.at = "run" /\ o.m = op[t].m /\ o.by = "call"
  BY <1>2 DEF Op, Steps, CallSteps
<1>4. OpInv(t, o)
  BY <1>2, <1>3 DEF OpInv, BindSteps, HookSteps, CallSteps
<1>5. op' = [op EXCEPT ![t] = o] /\ AllButOp
  BY <1>2 DEF CallBridge
<1> QED
  BY <1>3, <1>4, <1>5, MovedOnly

LEMMA LookupStep ==
  ASSUME IInv, NEW t \in Threads,
         LookupInternal(t) \/ LookupShared(t) \/ LookupFails(t)
  PROVE  IInv'
<1>1. OpInv(t, op[t]) /\ TypeOK /\ op[t].at = "lookup"
  BY Regroup DEF LookupInternal, LookupShared, LookupFails, At
<1>2. op[t].m \in Methods /\ op[t].by = "call" /\ op[t] \in Op
  BY <1>1 DEF OpInv, TypeOK, CallSteps
<1>3. CASE LookupInternal(t)
  <2>1. Goto(t, "setInternal") /\ AllButOp /\ "setInternal" \in Steps /\ op[t].m \in Internal
    BY <1>3 DEF LookupInternal, Steps, CallSteps
  <2> QED
    BY <1>2, <2>1, Advance DEF OpInv, BindSteps, HookSteps, CallSteps
<1>4. CASE LookupShared(t)
  <2> DEFINE o == [op[t] EXCEPT !.at = "bindInsns", !.x = Symbol]
  <2>1. op[t].m # Target /\ Symbol \in Impls
    BY <1>4, SetAssumption DEF LookupShared, Impls
  <2>2. /\ o \in Op /\ o.at = "bindInsns" /\ o.m = op[t].m /\ o.x = Symbol
        /\ o.by = op[t].by
    BY <1>2, <2>1 DEF Op, Steps, BindSteps
  <2>3. OpInv(t, o)
    BY <1>2, <2>1, <2>2 DEF OpInv, BindSteps, HookSteps, CallSteps
  <2> QED
    BY <1>4, <2>2, <2>3, MovedOnly DEF LookupShared
<1>5. CASE LookupFails(t)
  <2>1. Goto(t, "throw") /\ AllButOp /\ "throw" \in Steps
    BY <1>5 DEF LookupFails, Steps, CallSteps
  <2> QED
    BY <1>2, <2>1, Advance DEF OpInv, BindSteps, HookSteps, CallSteps
<1> QED
  BY <1>3, <1>4, <1>5

-----------------------------------------------------------------------------
(* Stores to the method: what each one leaves behind.                      *)
LEMMA FuncShape ==
  ASSUME TypeOK, NEW m \in Methods,
         NEW f \in {"null", "resolve", "internal", "bridge"},
         method' = [method EXCEPT ![m].func = f]
  PROVE  /\ method' \in [Methods -> MethodRecord]
         /\ method'[m].func = f
         /\ \A k \in Methods : /\ method'[k].insns = method[k].insns
                               /\ method'[k].native = method[k].native
                               /\ k # m => method'[k].func = method[k].func
<1>1. PICK r \in MethodRecord : r = [method[m] EXCEPT !.func = f]
  BY DEF TypeOK, MethodRecord
<1>2. r.func = f /\ r.insns = method[m].insns /\ r.native = method[m].native
  BY <1>1 DEF TypeOK, MethodRecord
<1>3. method' = [method EXCEPT ![m] = r]
  BY <1>1
<1> QED
  BY <1>2, <1>3 DEF TypeOK

LEMMA InsnsShape ==
  ASSUME TypeOK, NEW m \in Methods, NEW x \in Impls,
         method' = [method EXCEPT ![m].insns = x]
  PROVE  /\ method' \in [Methods -> MethodRecord]
         /\ method'[m].insns = x
         /\ \A k \in Methods : /\ method'[k].func = method[k].func
                               /\ method'[k].native = method[k].native
                               /\ k # m => method'[k].insns = method[k].insns
<1>1. PICK r \in MethodRecord : r = [method[m] EXCEPT !.insns = x]
  BY DEF TypeOK, MethodRecord
<1>2. r.insns = x /\ r.func = method[m].func /\ r.native = method[m].native
  BY <1>1 DEF TypeOK, MethodRecord
<1>3. method' = [method EXCEPT ![m] = r]
  BY <1>1
<1> QED
  BY <1>2, <1>3 DEF TypeOK

LEMMA FlagShape ==
  ASSUME TypeOK, NEW m \in Methods, method' = [method EXCEPT ![m].native = TRUE]
  PROVE  /\ method' \in [Methods -> MethodRecord]
         /\ method'[m].native
         /\ \A k \in Methods : /\ method'[k].func = method[k].func
                               /\ method'[k].insns = method[k].insns
                               /\ method[k].native => method'[k].native
<1>1. PICK r \in MethodRecord : r = [method[m] EXCEPT !.native = TRUE]
  BY DEF TypeOK, MethodRecord
<1>2. r.native /\ r.func = method[m].func /\ r.insns = method[m].insns
  BY <1>1 DEF TypeOK, MethodRecord
<1>3. method' = [method EXCEPT ![m] = r]
  BY <1>1
<1>4. ASSUME NEW k \in Methods
      PROVE  /\ method'[k].func = method[k].func
             /\ method'[k].insns = method[k].insns
             /\ method[k].native => method'[k].native
  <2>1. CASE k = m
    BY <1>2, <1>3, <2>1 DEF TypeOK
  <2>2. CASE k # m
    BY <1>3, <2>2 DEF TypeOK
  <2> QED
    BY <2>1, <2>2
<1>5. method' \in [Methods -> MethodRecord] /\ method'[m] = r
  BY <1>3 DEF TypeOK
<1> QED
  BY <1>2, <1>4, <1>5

(***************************************************************************)
(* A store to one method, by a step that leaves hooked alone: it is enough *)
(* that Target is not written once it is hooked, nor by another than       *)
(* Hooker (nativeFunc excepted, if the application unregisters natives).   *)
(***************************************************************************)
LEMMA Stored ==
  ASSUME IInv, NEW t \in Threads, NEW o \in Op, op' = [op EXCEPT ![t] = o],
         method' \in [Methods -> MethodRecord],
         registered' \in [Methods -> Impls \cup {"null"}],
         UNCHANGED library, HookUnchanged, OpInv(t, o)',
         \A k \in Methods : /\ method[k].insns \in Impls => method'[k].insns \in Impls
                            /\ method[k].native => method'[k].native
                            /\ method'[k].func = "bridge" => method'[k].insns \in Impls
                            /\ method'[k].func = "null" => method[k].func = "null",
         Target \in Methods /\ (t # Hooker \/ hooked = "true") =>
           /\ method'[Target].insns = method[Target].insns
           /\ Registered' => Registered /\ method'[Target].func = method[Target].func
  PROVE  IInv'
<1>1. TypeOK /\ DeclaredNative /\ NoTarget /\ HookTakesEffect
  BY Regroup
<1>2. TypeOK'
  BY <1>1, OpShape DEF TypeOK, HookUnchanged
<1>3. BoundOK'
  BY DEF BoundOK
<1>4. DeclaredNative'
  <2>1. \A m \in Natives : m \in Methods
    BY DEF Methods
  <2> QED
    BY <1>1, <2>1 DEF DeclaredNative
<1>5. UNCHANGED hooked /\ NoTarget'
  BY <1>1 DEF HookUnchanged, NoTarget
<1>6. HookTakesEffect'
  <2>1. SUFFICES ASSUME hooked' = "true", Registered'
                 PROVE  method'[Target] = [native |-> TRUE, func |-> "bridge", insns |-> Handler]
    BY DEF HookTakesEffect
  <2>2. Target \in Methods
    BY <1>1, <1>5, <2>1, SetAssumption DEF NoTarget, Methods
  <2>3. method[Target].native /\ method[Target].func = "bridge" /\ method[Target].insns = Handler
    BY <1>1, <1>5, <2>1, <2>2 DEF HookTakesEffect
  <2>4. /\ method'[Target].insns = Handler /\ method'[Target].func = "bridge"
        /\ method'[Target].native /\ method'[Target] \in MethodRecord
    BY <1>5, <2>1, <2>2, <2>3
  <2> QED
    BY <2>4 DEF MethodRecord
<1>7. t # Hooker =>
           /\ hooked' = hooked
           /\ Target \in Methods =>
                /\ method'[Target].insns = method[Target].insns
                /\ Registered' => Registered /\ method'[Target].func = method[Target].func
  BY <1>5
<1> QED
  BY <1>2, <1>3, <1>4, <1>5, <1>6, <1>7, Preserved

LEMMA SetInternalStep ==
  ASSUME IInv, NEW t \in Threads, SetInternal(t)
  PROVE  IInv'
<1>1. OpInv(t, op[t]) /\ TypeOK /\ BoundOK /\ op[t].at = "setInternal"
  BY Regroup DEF SetInternal, At
<1>2. op[t].m \in Internal /\ op[t].m \in Methods /\ op[t].by = "call"
  BY <1>1 DEF OpInv, CallSteps
<1>3. op[t].m # Target
  BY <1>2, SetAssumption
<1>4. /\ method' \in [Methods -> MethodRecord]
      /\ method'[op[t].m].func = "internal"
      /\ \A k \in Methods : /\ method'[k].insns = method[k].insns
                            /\ method'[k].native = method[k].native
                            /\ k # op[t].m => method'[k].func = method[k].func
  BY <1>1, <1>2, FuncShape DEF SetInternal
<1>5. PICK o \in Op : /\ op' = [op EXCEPT ![t] = o]
                      /\ o.at = "run" /\ o.m = op[t].m /\ o.by = op[t].by
  BY <1>1, GotoShape DEF SetInternal, Steps, CallSteps
<1>6. OpInv(t, o)'
  BY <1>2, <1>5 DEF OpInv, BindSteps, HookSteps, CallSteps
<1>7. \A k \in Methods : /\ method'[k].func = "bridge" => method'[k].insns \in Impls
                         /\ method'[k].func = "null" => method[k].func = "null"
  BY <1>1, <1>4 DEF BoundOK
<1>8. UNCHANGED <<library, registered>> /\ HookUnchanged /\ (Registered' => Registered)
  BY DEF SetInternal, Registered
<1> QED
  BY <1>1, <1>3, <1>4, <1>5, <1>6, <1>7, <1>8, Stored DEF TypeOK

LEMMA RegisterCheckStep ==
  ASSUME IInv, NEW t \in Threads, RegisterCheck(t)
  PROVE  IInv'
<1>1. OpInv(t, op[t]) /\ op[t].at = "regCheck"
  BY Regroup DEF RegisterCheck, At
<1>2. Goto(t, "bindInsns") /\ AllButOp /\ "bindInsns" \in Steps
  BY DEF RegisterCheck, Steps, BindSteps
<1> QED
  BY <1>1, <1>2, Advance DEF OpInv, BindSteps, HookSteps, CallSteps

LEMMA RegisterRefusedStep ==
  ASSUME IInv, NEW t \in Threads, RegisterRefused(t)
  PROVE  IInv'
<1>1. OpInv(t, op[t]) /\ op[t].at = "regCheck" /\ op[t].by = "hook"
  BY Regroup DEF RegisterRefused, At
<1>2. Goto(t, "hookFail") /\ AllButOp /\ "hookFail" \in Steps
  BY DEF RegisterRefused, Steps, HookSteps
<1> QED
  BY <1>1, <1>2, Advance DEF OpInv, BindSteps, HookSteps, CallSteps

LEMMA BindInsnsStep ==
  ASSUME IInv, NEW t \in Threads, BindInsns(t)
  PROVE  IInv'
<1>1. OpInv(t, op[t]) /\ TypeOK /\ BoundOK /\ op[t].at = "bindInsns"
  BY Regroup DEF BindInsns, At
<1>2. op[t].x \in Impls /\ op[t].m \in Methods
  BY <1>1 DEF OpInv, BindSteps
<1>3. op[t].m = Target => t = Hooker /\ hooked = "no" /\ op[t].x = Handler
  BY <1>1 DEF OpInv, BindSteps
<1>4. /\ method' \in [Methods -> MethodRecord]
      /\ method'[op[t].m].insns = op[t].x
      /\ \A k \in Methods : /\ method'[k].func = method[k].func
                            /\ method'[k].native = method[k].native
                            /\ k # op[t].m => method'[k].insns = method[k].insns
  BY <1>1, <1>2, InsnsShape DEF BindInsns
<1>5. PICK o \in Op : /\ op' = [op EXCEPT ![t] = o]
                      /\ o.at = "bindFunc" /\ o.m = op[t].m /\ o.x = op[t].x
                      /\ o.by = op[t].by
  BY <1>1, GotoShape DEF BindInsns, Steps, BindSteps
<1>6. UNCHANGED <<library, hooked>> /\ HookUnchanged
  BY DEF BindInsns, HookUnchanged
<1>7. OpInv(t, o)'
  <2>1. op[t].by = "hook" => op[t].m = Target /\ method'[Target].insns = Handler
                             /\ method'[Target].native
    BY <1>1, <1>2, <1>3, <1>4 DEF OpInv, BindSteps
  <2> QED
    BY <1>1, <1>2, <1>3, <1>4, <1>5, <1>6, <2>1 DEF OpInv, BindSteps, HookSteps, CallSteps
<1>8. \A k \in Methods :
        /\ method[k].insns \in Impls => method'[k].insns \in Impls
        /\ method'[k].func = "bridge" => method'[k].insns \in Impls
  BY <1>1, <1>2, <1>4 DEF BoundOK
<1>9. /\ registered' \in [Methods -> Impls \cup {"null"}]
      /\ \A k \in Methods : k # op[t].m => registered'[k] = registered[k]
  BY <1>1, <1>2 DEF BindInsns, TypeOK
<1>10. Target \in Methods /\ (t # Hooker \/ hooked = "true") =>
           /\ method'[Target].insns = method[Target].insns
           /\ Registered' => Registered /\ method'[Target].func = method[Target].func
  BY <1>3, <1>4, <1>9 DEF Registered
<1> QED
  BY <1>4, <1>5, <1>6, <1>7, <1>8, <1>9, <1>10, Stored

LEMMA BindFuncStep ==
  ASSUME IInv, NEW t \in Threads, BindFunc(t)
  PROVE  IInv'
<1>1. OpInv(t, op[t]) /\ TypeOK /\ BoundOK /\ op[t].at = "bindFunc"
  BY Regroup DEF BindFunc, At
<1>2. op[t].m \in Methods /\ method[op[t].m].insns \in Impls /\ op[t] \in Op
  BY <1>1 DEF OpInv, TypeOK
<1>3. op[t].m = Target => t = Hooker /\ hooked = "no"
  BY <1>1 DEF OpInv, BindSteps
<1>4. /\ method' \in [Methods -> MethodRecord]
      /\ method'[op[t].m].func = "bridge"
      /\ \A k \in Methods : /\ method'[k].insns = method[k].insns
                            /\ method'[k].native = method[k].native
                            /\ k # op[t].m => method'[k].func = method[k].func
  BY <1>1, <1>2, FuncShape DEF BindFunc
<1>5. UNCHANGED <<library, registered, hooked>> /\ HookUnchanged
  BY DEF BindFunc, HookUnchanged
<1>6. op[t].by \in {"call", "register", "hook"}
  BY <1>2 DEF Op
<1>7. PICK o \in Op : op' = [op EXCEPT ![t] = o] /\ OpInv(t, o)'
  <2>1. CASE op[t].by = "call"
    <3>1. Goto(t, "func") /\ "func" \in Steps
      BY <2>1 DEF BindFunc, Steps, CallSteps
    <3>2. PICK o \in Op : /\ op' = [op EXCEPT ![t] = o]
                          /\ o.at = "func" /\ o.m = op[t].m /\ o.by = op[t].by
      BY <1>1, <3>1, GotoShape
    <3> QED
      BY <1>2, <2>1, <3>2 DEF OpInv, BindSteps, HookSteps, CallSteps
  <2>2. CASE op[t].by = "register"
    BY <2>2, IdleIsOp, IdleFine DEF BindFunc, End
  <2>3. CASE op[t].by = "hook"
    <3>1. Goto(t, "detach") /\ "detach" \in Steps
      BY <2>3 DEF BindFunc, Steps, HookSteps
    <3>2. PICK o \in Op : /\ op' = [op EXCEPT ![t] = o]
                          /\ o.at = "detach" /\ o.m = op[t].m /\ o.by = op[t].by
      BY <1>1, <3>1, GotoShape
    <3>3. /\ op[t].m = Target /\ hooked = "no" /\ method[Target].native
          /\ method[Target].insns = Handler /\ t = Hooker
      BY <1>1, <2>3 DEF OpInv, BindSteps
    <3>4. /\ method'[Target].native /\ method'[Target].insns = Handler
          /\ method'[Target].func = "bridge" /\ hooked' = "no"
      BY <1>2, <1>4, <1>5, <3>3
    <3> QED
      BY <1>2, <2>3, <3>2, <3>3, <3>4 DEF OpInv, BindSteps, HookSteps, CallSteps
  <2> QED
    BY <1>6, <2>1, <2>2, <2>3
<1>8. \A k \in Methods :
        /\ method'[k].func = "bridge" => method'[k].insns \in Impls
        /\ method'[k].func = "null" => method[k].func = "null"
  BY <1>1, <1>2, <1>4 DEF BoundOK
<1>9. Target \in Methods /\ (t # Hooker \/ hooked = "true") =>
           /\ method'[Target].insns = method[Target].insns
           /\ Registered' => Registered /\ method'[Target].func = method[Target].func
  BY <1>3, <1>4, <1>5 DEF Registered
<1> QED
  BY <1>1, <1>4, <1>5, <1>7, <1>8, <1>9, Stored DEF TypeOK

LEMMA UnregisterMethodStep ==
  ASSUME IInv, NEW t \in Threads, UnregisterMethod(t)
  PROVE  IInv'
<1>1. OpInv(t, op[t]) /\ TypeOK /\ BoundOK /\ op[t].at = "unregister"
  BY Regroup DEF UnregisterMethod, At
<1>2. op[t] \in Op
  BY <1>1 DEF TypeOK
<1>3. PICK m \in op[t].left :
       /\ op' = [op EXCEPT ![t] = IF op[t].left = {m} THEN Idle
                                  ELSE [op[t] EXCEPT !.left = op[t].left \ {m}]]
       /\ method' = IF method[m].native
                    THEN [method EXCEPT ![m].func = "resolve"] ELSE method
       /\ registered' = IF method[m].native
                        THEN [registered EXCEPT ![m] = "null"] ELSE registered
  BY DEF UnregisterMethod
<1>4. m \in Methods
  BY <1>2, <1>3 DEF Op
<1>5. /\ method' \in [Methods -> MethodRecord]
      /\ \A k \in Methods : /\ method'[k].insns = method[k].insns
                            /\ method'[k].native = method[k].native
                            /\ method'[k].func = method[k].func \/ method'[k].func = "resolve"
  <2>1. CASE method[m].native
    BY <1>1, <1>3, <1>4, <2>1, FuncShape
  <2>2. CASE ~method[m].native
    BY <1>1, <1>3, <2>2 DEF TypeOK
  <2> QED
    BY <2>1, <2>2
<1>6. UNCHANGED <<library, hooked>> /\ HookUnchanged
  BY DEF UnregisterMethod, HookUnchanged
<1>7. registered' \in [Methods -> Impls \cup {"null"}]
  BY <1>1, <1>3, <1>4 DEF TypeOK
<1>8. PICK o \in Op : op' = [op EXCEPT ![t] = o] /\ OpInv(t, o)'
  <2>1. CASE op[t].left = {m}
    BY <1>3, <2>1, IdleIsOp, IdleFine
  <2>2. CASE op[t].left # {m}
    <3>1. PICK p \in Op : p = [op[t] EXCEPT !.left = op[t].left \ {m}]
      BY <1>1, <1>2 DEF Op
    <3>2. p.at = "unregister"
      BY <1>1, <1>2, <3>1 DEF Op
    <3>3. OpInv(t, p)'
      BY <1>2, <3>2 DEF OpInv, BindSteps, HookSteps, CallSteps
    <3> QED
      BY <1>3, <2>2, <3>1, <3>3
  <2> QED
    BY <2>1, <2>2
<1>9. \A k \in Methods :
        /\ method'[k].func = "bridge" => method'[k].insns \in Impls
        /\ method'[k].func = "null" => method[k].func = "null"
  BY <1>1, <1>5 DEF BoundOK
<1>10. ASSUME Target \in Methods
       PROVE  /\ method'[Target].insns = method[Target].insns
              /\ Registered' => Registered /\ method'[Target].func = method[Target].func
  <2>1. CASE m = Target /\ method[m].native
    <3>1. registered'[Target] = "null"
      BY <1>1, <1>3, <1>10, <2>1 DEF TypeOK
    <3>2. ~Registered'
      BY <3>1, ImplAssumption DEF Registered, Impls
    <3> QED
      BY <1>5, <1>10, <3>2
  <2>2. CASE ~(m = Target /\ method[m].native)
    <3>1. registered'[Target] = registered[Target]
      BY <1>1, <1>3, <1>4, <1>10, <2>2 DEF TypeOK
    <3>2. method'[Target] = method[Target]
      BY <1>1, <1>3, <1>4, <1>10, <2>2 DEF TypeOK
    <3> QED
      BY <3>1, <3>2 DEF Registered
  <2> QED
    BY <2>1, <2>2
<1> QED
  BY <1>2, <1>5, <1>6, <1>7, <1>8, <1>9, <1>10, Stored

-----------------------------------------------------------------------------
(* ClassMethodHook().                                                      *)

(* What IInv says of the hooking thread at one of JavaHook's own steps.    *)
LEMMA HookAt ==
  ASSUME IInv, NEW t \in Threads, op[t].at \in HookSteps
  PROVE  /\ OpInv(t, op[t]) /\ TypeOK /\ BoundOK
         /\ t = Hooker /\ op[t].by = "hook" /\ op[t].m = Target
         /\ hooked = "no" /\ Target \in Methods
<1>1. OpInv(t, op[t]) /\ TypeOK /\ BoundOK
  BY Regroup
<1> QED
  BY <1>1 DEF OpInv, HookSteps

LEMMA ReturnFalseStep ==
  ASSUME IInv, NEW t \in Threads, op[t].at \in HookSteps, ReturnFalse(t)
  PROVE  IInv'
<1>1. TypeOK /\ t = Hooker /\ Target \in Methods
  BY HookAt
<1>2. NoTarget' /\ HookTakesEffect'
  BY <1>1, SetAssumption DEF ReturnFalse, NoTarget, HookTakesEffect, Methods
<1> QED
  BY <1>1, <1>2, Moved, IdleIsOp, IdleFine DEF ReturnFalse, End, TypeOK

LEMMA GetEnvStep ==
  ASSUME IInv, NEW t \in Threads, GetEnv(t)
  PROVE  IInv'
<1>1. op[t].at = "getEnv"
  BY DEF GetEnv, At
<1>2. /\ TypeOK /\ op[t].m = Target /\ op[t].by = "hook" /\ t = Hooker
      /\ hooked = "no" /\ Target \in Methods
  BY <1>1, HookAt DEF HookSteps
<1>3. PICK s \in {"findClass", "wild"} : Goto(t, s)
  BY DEF GetEnv
<1>4. s \in Steps
  BY <1>3 DEF Steps, HookSteps
<1>5. PICK o \in Op : /\ op' = [op EXCEPT ![t] = o]
                      /\ o.at = s /\ o.m = op[t].m /\ o.by = op[t].by
  BY <1>2, <1>3, <1>4, GotoShape
<1>6. UNCHANGED <<method, library, registered, hooked>> /\ attached' \in BOOLEAN
      /\ before' \in BOOLEAN /\ gAttached' \in BOOLEAN
  BY <1>2 DEF GetEnv, TypeOK
<1>7. OpInv(t, o)'
  BY <1>2, <1>3, <1>5, <1>6 DEF OpInv, BindSteps, HookSteps, CallSteps
<1>8. NoTarget' /\ HookTakesEffect'
  BY <1>2, <1>6 DEF NoTarget, HookTakesEffect, Registered
<1> QED
  BY <1>2, <1>5, <1>6, <1>7, <1>8, Moved DEF TypeOK

LEMMA SearchStep ==
  ASSUME IInv, NEW t \in Threads, FindClass(t) \/ GetMethodID(t)
  PROVE  IInv'
<1>1. op[t].at \in HookSteps
  BY DEF FindClass, GetMethodID, At, HookSteps
<1>2. CASE ReturnFalse(t)
  BY <1>1, <1>2, ReturnFalseStep
<1>3. CASE ~ReturnFalse(t)
  <2>1. PICK s \in {"getMethod", "hookFlags"} : Goto(t, s) /\ AllButOp
    BY <1>3 DEF FindClass, GetMethodID
  <2>2. s \in Steps
    BY <2>1 DEF Steps, HookSteps
  <2>3. op[t].m = Target /\ op[t].by = "hook" /\ t = Hooker /\ hooked = "no" /\ Target \in Methods
    BY <1>1, HookAt
  <2> QED
    BY <2>1, <2>2, <2>3, Advance DEF OpInv, BindSteps, HookSteps, CallSteps
<1> QED
  BY <1>2, <1>3

LEMMA HookFlagsStep ==
  ASSUME IInv, NEW t \in Threads, HookFlags(t)
  PROVE  IInv'
<1>1. op[t].at = "hookFlags"
  BY DEF HookFlags, At
<1>2. /\ TypeOK /\ BoundOK /\ op[t].m = Target /\ op[t].by = "hook" /\ t = Hooker
      /\ hooked = "no" /\ Target \in Methods
  BY <1>1, HookAt DEF HookSteps
<1>3. /\ method' \in [Methods -> MethodRecord]
      /\ method'[Target].native
      /\ \A k \in Methods : /\ method'[k].func = method[k].func
                            /\ method'[k].insns = method[k].insns
                            /\ method[k].native => method'[k].native
  BY <1>2, FlagShape DEF HookFlags
<1>4. PICK o \in Op : /\ op' = [op EXCEPT ![t] = o]
                      /\ o.at = "hookFunc" /\ o.m = op[t].m /\ o.by = op[t].by
  BY <1>2, GotoShape DEF HookFlags, Steps, HookSteps
<1>5. UNCHANGED <<library, registered, hooked>> /\ HookUnchanged
  BY DEF HookFlags, HookUnchanged
<1>6. OpInv(t, o)'
  BY <1>2, <1>3, <1>4, <1>5 DEF OpInv, BindSteps, HookSteps, CallSteps
<1>7. \A k \in Methods : method'[k].func = "bridge" => method'[k].insns \in Impls
  BY <1>2, <1>3 DEF BoundOK
<1> QED
  BY <1>2, <1>3, <1>4, <1>5, <1>6, <1>7, Stored DEF TypeOK

LEMMA HookFuncStep ==
  ASSUME IInv, NEW t \in Threads, HookFunc(t)
  PROVE  IInv'
<1>1. op[t].at = "hookFunc"
  BY DEF HookFunc, At
<1>2. /\ TypeOK /\ BoundOK /\ op[t].m = Target /\ op[t].by = "hook" /\ t = Hooker
      /\ hooked = "no" /\ Target \in Methods /\ OpInv(t, op[t]) /\ op[t] \in Op
  BY <1>1, HookAt DEF HookSteps, TypeOK
<1>3. /\ method' \in [Methods -> MethodRecord]
      /\ method'[Target].func = "resolve"
      /\ \A k \in Methods : /\ method'[k].insns = method[k].insns
                            /\ method'[k].native = method[k].native
                            /\ k # Target => method'[k].func = method[k].func
  BY <1>2, FuncShape DEF HookFunc
<1>4. UNCHANGED <<library, registered, hooked>> /\ HookUnchanged
  BY DEF HookFunc, HookUnchanged
<1>5. method'[Target].native
  BY <1>1, <1>2, <1>3 DEF OpInv
<1>6. PICK o \in Op : op' = [op EXCEPT ![t] = o] /\ OpInv(t, o)'
  <2>1. CASE Handler = NoHandler
    <3>1. PICK o \in Op : o = [op[t] EXCEPT !.at = "detach"]
      BY <1>2 DEF Op, Steps, HookSteps
    <3>2. o.at = "detach" /\ o.m = Target /\ o.by = "hook"
      BY <1>2, <3>1 DEF Op
    <3>3. OpInv(t, o)'
      BY <1>2, <1>4, <1>5, <2>1, <3>2 DEF OpInv, BindSteps, HookSteps, CallSteps
    <3> QED
      BY <2>1, <3>1, <3>3 DEF HookFunc
  <2>2. CASE Handler # NoHandler
    <3>1. Handler \in Impls
      BY <2>2 DEF Impls
    <3>2. PICK o \in Op : o = [op[t] EXCEPT !.at = "regCheck", !.x = Handler]
      BY <1>2, <3>1 DEF Op, Steps, BindSteps
    <3>3. o.at = "regCheck" /\ o.m = Target /\ o.by = "hook" /\ o.x = Handler
      BY <1>2, <3>2 DEF Op
    <3>4. OpInv(t, o)'
      BY <1>2, <1>4, <1>5, <3>1, <3>3 DEF OpInv, BindSteps, HookSteps, CallSteps
    <3> QED
      BY <2>2, <3>2, <3>4 DEF HookFunc
  <2> QED
    BY <2>1, <2>2
<1>7. \A k \in Methods :
        /\ method'[k].func = "bridge" => method'[k].insns \in Impls
        /\ method'[k].func = "null" => method[k].func = "null"
  BY <1>2, <1>3 DEF BoundOK
<1> QED
  BY <1>2, <1>3, <1>4, <1>6, <1>7, Stored DEF TypeOK

LEMMA DetachStep ==
  ASSUME IInv, NEW t \in Threads, DetachCurrent(t)
  PROVE  IInv'
<1>1. op[t].at = "detach"
  BY DEF DetachCurrent, At
<1>2. TypeOK /\ t = Hooker /\ Target \in Methods /\ OpInv(t, op[t])
  BY <1>1, HookAt DEF HookSteps
<1>3. NoTarget'
  BY <1>2, SetAssumption DEF NoTarget, Methods
<1>4. HookTakesEffect'
  <2>1. SUFFICES ASSUME Registered
                 PROVE  method[Target] = [native |-> TRUE, func |-> "bridge", insns |-> Handler]
    BY DEF HookTakesEffect, DetachCurrent, Registered
  <2>2. method[Target].native /\ method[Target].func = "bridge" /\ method[Target].insns = Handler
    BY <1>1, <1>2, <2>1 DEF OpInv, Registered
  <2>3. method[Target] \in MethodRecord
    BY <1>2 DEF TypeOK
  <2> QED
    BY <2>2, <2>3 DEF MethodRecord
<1>5. attached' \in BOOLEAN /\ hooked' \in {"no", "true", "false"}
  BY DEF DetachCurrent
<1> QED
  BY <1>2, <1>3, <1>4, <1>5, Moved, IdleIsOp, IdleFine DEF DetachCurrent, End, TypeOK

-----------------------------------------------------------------------------
LEMMA InitHolds ==
  ASSUME Init
  PROVE  IInv
<1>1. \A m \in Methods : LoadedMethod(m) \in MethodRecord
  BY DEF LoadedMethod, MethodRecord
<1>2. Target # NoMethod => Target \in Methods
  BY DEF Methods
<1> DEFINE start == [Idle EXCEPT !.at = "getEnv", !.m = Target, !.by = "hook"]
<1>3. Target # NoMethod => /\ start \in Op
                           /\ start.at = "getEnv" /\ start.m = Target /\ start.by = "hook"
  BY <1>2 DEF Idle, Op, Steps, HookSteps
<1>4. \A t \in Threads : op[t] = IF t = Hooker /\ Target # NoMethod THEN start ELSE Idle
  BY DEF Init
<1>5. op \in [Threads -> Op]
  BY <1>3, IdleIsOp DEF Init
<1>6. TypeOK
  BY <1>1, <1>5 DEF Init, TypeOK
<1>7. ASSUME NEW t \in Threads
      PROVE  OpInv(t, op[t])
  <2>1. CASE t = Hooker /\ Target # NoMethod
    <3>1. /\ op[t].at = "getEnv" /\ op[t].m = Target /\ op[t].by = "hook"
          /\ hooked = "no" /\ Target \in Methods
      BY <1>2, <1>3, <1>4, <2>1 DEF Init
    <3> QED
      BY <2>1, <3>1 DEF OpInv, BindSteps, HookSteps, CallSteps
  <2>2. CASE ~(t = Hooker /\ Target # NoMethod)
    BY <1>4, <2>2, IdleFine
  <2> QED
    BY <2>1, <2>2
<1>8. DeclaredNative /\ BoundOK
  BY DEF Init, DeclaredNative, BoundOK, LoadedMethod, Methods
<1>9. NoTarget /\ HookTakesEffect
  BY DEF Init, NoTarget, HookTakesEffect
<1> QED
  BY <1>6, <1>7, <1>8, <1>9, Regroup

LEMMA LoadLibraryStep ==
  ASSUME IInv, LoadLibrary
  PROVE  IInv'
<1>1. /\ TypeOK /\ DeclaredNative /\ BoundOK /\ NoTarget /\ HookTakesEffect
      /\ \A t \in Threads : OpInv(t, op[t])
  BY Regroup
<1>2. UNCHANGED <<method, op, registered, attached, before, gAttached, hooked>> /\ library' = TRUE
  BY DEF LoadLibrary, HookUnchanged
<1>3. TypeOK'
  BY <1>1, <1>2 DEF TypeOK
<1>4. DeclaredNative' /\ BoundOK' /\ NoTarget' /\ HookTakesEffect'
  BY <1>1, <1>2 DEF DeclaredNative, BoundOK, NoTarget, HookTakesEffect, Registered
<1>5. \A t \in Threads : OpInv(t, op[t])'
  BY <1>1, <1>2 DEF OpInv, Registered
<1> QED
  BY <1>3, <1>4, <1>5, RegroupPrime

LEMMA StutterStep ==
  ASSUME IInv, UNCHANGED vars
  PROVE  IInv'
<1>1. /\ TypeOK /\ DeclaredNative /\ BoundOK /\ NoTarget /\ HookTakesEffect
      /\ \A t \in Threads : OpInv(t, op[t])
  BY Regroup
<1>2. TypeOK'
  BY <1>1 DEF TypeOK, vars
<1>3. DeclaredNative' /\ BoundOK' /\ NoTarget' /\ HookTakesEffect'
  BY <1>1 DEF DeclaredNative, BoundOK, NoTarget, HookTakesEffect, vars, Registered
<1>4. \A t \in Threads : OpInv(t, op[t])'
  BY <1>1 DEF OpInv, vars, Registered
<1> QED
  BY <1>2, <1>3, <1>4, RegroupPrime

LEMMA StepHolds ==
  ASSUME IInv, NEW t \in Threads, Step(t)
  PROVE  IInv'
<1>1. CASE TestNative(t)
  BY <1>1, TestNativeStep
<1>2. CASE Interpret(t)
  BY <1>2, InterpretStep
<1>3. CASE CallNativeFunc(t)
  BY <1>3, CallNativeFuncStep
<1>4. CASE CallBridge(t)
  BY <1>4, CallBridgeStep
<1>5. CASE RunImpl(t) \/ Throw(t)
  BY <1>5, EndOnly DEF RunImpl, Throw
<1>6. CASE LookupInternal(t) \/ LookupShared(t) \/ LookupFails(t)
  BY <1>6, LookupStep
<1>7. CASE SetInternal(t)
  BY <1>7, SetInternalStep
<1>8. CASE RegisterCheck(t)
  BY <1>8, RegisterCheckStep
<1>9. CASE RegisterRefused(t)
  BY <1>9, RegisterRefusedStep
<1>10. CASE BindInsns(t)
  BY <1>10, BindInsnsStep
<1>11. CASE BindFunc(t)
  BY <1>11, BindFuncStep
<1>12. CASE UnregisterMethod(t)
  BY <1>12, UnregisterMethodStep
<1>13. CASE GetEnv(t)
  BY <1>13, GetEnvStep
<1>14. CASE FindClass(t) \/ GetMethodID(t)
  BY <1>14, SearchStep
<1>15. CASE HookFlags(t)
  BY <1>15, HookFlagsStep
<1>16. CASE HookFunc(t)
  BY <1>16, HookFuncStep
<1>17. CASE HookFails(t)
  BY <1>17, ReturnFalseStep DEF HookFails, At, HookSteps
<1>18. CASE DetachCurrent(t)
  BY <1>18, DetachStep
<1> QED
  BY <1>1, <1>2, <1>3, <1>4, <1>5, <1>6, <1>7, <1>8, <1>9, <1>10, <1>11, <1>12,
     <1>13, <1>14, <1>15, <1>16, <1>17, <1>18 DEF Step

(***************************************************************************)
(* The invariant: for any threads and methods, and whatever interleaving   *)
(* of calls, resolution, RegisterNatives(), UnregisterNatives() and        *)
(* ClassMethodHook().                                                      *)
(***************************************************************************)
THEOREM Invariance == Spec => []IInv
<1>1. Init => IInv
  BY InitHolds
<1>2. IInv /\ [Next]_vars => IInv'
  <2>1. ASSUME IInv, LoadLibrary PROVE IInv'
    BY <2>1, LoadLibraryStep
  <2>2. ASSUME IInv, NEW t \in Threads, Start(t) PROVE IInv'
    BY <2>2, StartStep
  <2>3. ASSUME IInv, NEW t \in Threads, Step(t) PROVE IInv'
    BY <2>3, StepHolds
  <2>4. ASSUME IInv, UNCHANGED vars PROVE IInv'
    BY <2>4, StutterStep
  <2> QED
    BY <2>1, <2>2, <2>3, <2>4 DEF Next
<1> QED
  BY <1>1, <1>2, PTL DEF Spec

(* Type correctness of the binding fields and of every operation.          *)
THEOREM TypeCorrect == Spec => []TypeOK
<1>1. IInv => TypeOK
  BY DEF IInv
<1> QED
  BY <1>1, Invariance, PTL

(***************************************************************************)
(* The bridge never finds a missing implementation, whoever rebinds or     *)
(* unregisters the method meanwhile, and JavaHook does not break this.     *)
(***************************************************************************)
THEOREM BridgeSafe == Spec => []BridgeHasImpl
<1>1. IInv => BridgeHasImpl
  BY DEF IInv, BoundOK, OpOK, BridgeHasImpl
<1> QED
  BY <1>1, Invariance, PTL

(***************************************************************************)
(* A hooking that returned true is in force from then on.                  *)
(***************************************************************************)
THEOREM HookEffective == Spec => []HookTakesEffect
<1>1. IInv => HookTakesEffect
  BY DEF IInv
<1> QED
  BY <1>1, Invariance, PTL

LEMMA InitTame ==
  ASSUME Init
  PROVE  NeverWild
<1> DEFINE start == [Idle EXCEPT !.at = "getEnv", !.m = Target, !.by = "hook"]
<1>1. \A t \in Threads : op[t] = IF t = Hooker /\ Target # NoMethod THEN start ELSE Idle
  BY DEF Init
<1>2. start.at = "getEnv" /\ Idle.at = "idle"
  BY DEF Idle
<1> HIDE DEF start
<1>3. \A t \in Threads : op[t].at # "wild"
  BY <1>1, <1>2
<1> QED
  BY <1>3 DEF NeverWild, At

(* A step that goes wild concerns Target, and the end of one does not.     *)
LEMMA Tame ==
  ASSUME TypeOK, NeverWild, NEW t \in Threads, NEW o \in Op,
         o.at = "wild" => o.m = Target,
         op' = [op EXCEPT ![t] = o]
  PROVE  NeverWild'
  BY OpShape DEF NeverWild, At

LEMMA TameGoto ==
  ASSUME TypeOK, NeverWild, NEW t \in Threads, NEW s \in Steps,
         s = "wild" => op[t].m = Target, Goto(t, s)
  PROVE  NeverWild'
  BY GotoShape, Tame

LEMMA TameEnd ==
  ASSUME TypeOK, NeverWild, NEW t \in Threads, End(t)
  PROVE  NeverWild'
  BY IdleIsOp, Tame DEF End

(***************************************************************************)
(* The VM's own binding of native methods is safe: no call goes through a  *)
(* null nativeFunc or into a missing implementation, except a call of the  *)
(* method that JavaHook is hooking.                                        *)
(***************************************************************************)
THEOREM VMNeverWild == Spec => []NeverWild
<1>1. Methods \ {Target} \subseteq Natives
  BY DEF Methods
<1>2. ASSUME IInv, NeverWild, [Next]_vars
      PROVE  NeverWild'
  <2>1. TypeOK /\ DeclaredNative /\ \A t \in Threads : OpInv(t, op[t])
    BY <1>2, Regroup
  <2>2. \A t \in Threads : op[t].at \in HookSteps => op[t].m = Target
    BY <1>2, HookAt
  <2>3. ASSUME NEW t \in Threads, NEW o \in Op, op' = [op EXCEPT ![t] = o],
               o.at = "wild" => o.m = Target
        PROVE  NeverWild'
    BY <1>2, <2>1, <2>3, Tame
  <2>4. ASSUME NEW t \in Threads, NEW s \in Steps, s = "wild" => op[t].m = Target,
               Goto(t, s)
        PROVE  NeverWild'
    BY <1>2, <2>1, <2>4, TameGoto
  <2>5. ASSUME NEW t \in Threads, End(t)
        PROVE  NeverWild'
    BY <1>2, <2>1, <2>5, TameEnd
  <2>6. CASE LoadLibrary \/ UNCHANGED vars
    BY <1>2, <2>6 DEF LoadLibrary, vars, NeverWild, At
  <2>7. ASSUME NEW t \in Threads, Start(t)
        PROVE  NeverWild'
    <3>1. CASE \E m \in Methods : Call(t, m)
      <4>1. PICK m \in Methods : Call(t, m)
        BY <3>1
      <4>2. PICK o \in Op : o = [Idle EXCEPT !.at = "test", !.m = m]
        BY DEF Idle, Op, Steps, CallSteps
      <4> QED
        BY <2>3, <4>1, <4>2 DEF Call, Idle
    <3>2. CASE \E m \in Natives, x \in Given : Register(t, m, x)
      <4>1. PICK m \in Natives, x \in Given : Register(t, m, x)
        BY <3>2
      <4>2. PICK o \in Op :
              o = [Idle EXCEPT !.at = "regCheck", !.m = m, !.x = x, !.by = "register"]
        BY DEF Idle, Op, Steps, BindSteps, Methods, Impls
      <4> QED
        BY <2>3, <4>1, <4>2 DEF Register, Idle
    <3>3. CASE Unregister(t)
      <4>1. PICK o \in Op : o = [Idle EXCEPT !.at = "unregister", !.left = Methods]
        BY DEF Idle, Op, Steps
      <4> QED
        BY <2>3, <3>3, <4>1 DEF Unregister, Idle
    <3> QED
      BY <2>7, <3>1, <3>2, <3>3 DEF Start
  <2>8. ASSUME NEW t \in Threads, Step(t)
        PROVE  NeverWild'
    <3>1. op[t] \in Op /\ OpInv(t, op[t])
      BY <2>1 DEF TypeOK
    <3>2. CASE TestNative(t) \/ LookupInternal(t) \/ LookupFails(t) \/ SetInternal(t)
               \/ RegisterCheck(t) \/ RegisterRefused(t) \/ BindInsns(t)
      <4>1. PICK s \in {"func", "code", "setInternal", "throw", "run", "bindInsns",
                        "hookFail", "bindFunc"} : Goto(t, s)
        BY <3>2 DEF TestNative, LookupInternal, LookupFails, SetInternal, RegisterCheck,
                    RegisterRefused, BindInsns
      <4>2. s \in Steps
        BY <4>1 DEF Steps, CallSteps, BindSteps, HookSteps
      <4> QED
        BY <2>4, <4>1, <4>2
    <3>3. CASE Interpret(t)
      <4>1. op[t].m \in Methods /\ op[t].m \notin Natives
        BY <3>1, <3>3 DEF Interpret, At, OpInv
      <4>2. op[t].m = Target /\ "wild" \in Steps
        BY <1>1, <4>1 DEF Steps
      <4> QED
        BY <2>4, <2>5, <3>3, <4>2 DEF Interpret
    <3>4. CASE CallNativeFunc(t)
      <4>1. op[t].m \in Methods /\ method[op[t].m] \in MethodRecord
        BY <2>1, <3>1, <3>4 DEF CallNativeFunc, At, OpInv, TypeOK
      <4>2. method[op[t].m].func = "null" => op[t].m = Target
        BY <1>1, <2>1, <4>1 DEF DeclaredNative
      <4>3. PICK s \in {"lookup", "run", "bridge", "wild"} :
              Goto(t, s) /\ (s = "wild" => method[op[t].m].func = "null")
        BY <3>4, <4>1 DEF CallNativeFunc, MethodRecord
      <4>4. s \in Steps
        BY <4>3 DEF Steps, CallSteps
      <4> QED
        BY <2>4, <4>2, <4>3, <4>4
    <3>5. CASE CallBridge(t)
      <4>1. method[op[t].m].insns \in Impls
        BY <3>1, <3>5 DEF CallBridge, At, OpInv
      <4>2. PICK o \in Op : o = [op[t] EXCEPT !.at = "run", !.x = method[op[t].m].insns]
        BY <3>1, <4>1 DEF Op, Steps, CallSteps
      <4>3. o.at = "run"
        BY <3>1, <4>2 DEF Op
      <4> QED
        BY <2>3, <3>5, <4>1, <4>2, <4>3 DEF CallBridge
    <3>6. CASE LookupShared(t)
      <4>1. PICK o \in Op : o = [op[t] EXCEPT !.at = "bindInsns", !.x = Symbol]
        BY <3>1 DEF Op, Steps, BindSteps, Impls
      <4>2. o.at = "bindInsns"
        BY <3>1, <4>1 DEF Op
      <4> QED
        BY <2>3, <3>6, <4>1, <4>2 DEF LookupShared
    <3>7. CASE BindFunc(t)
      <4>1. op[t].by \in {"call", "register", "hook"}
        BY <3>1 DEF Op
      <4>2. End(t) \/ Goto(t, "func") \/ Goto(t, "detach")
        BY <3>7, <4>1 DEF BindFunc
      <4>3. "func" \in Steps /\ "detach" \in Steps
        BY DEF Steps, CallSteps, HookSteps
      <4> QED
        BY <2>4, <2>5, <4>2, <4>3
    <3>8. CASE UnregisterMethod(t)
      <4>1. PICK m \in op[t].left :
              op' = [op EXCEPT ![t] = IF op[t].left = {m} THEN Idle
                                      ELSE [op[t] EXCEPT !.left = op[t].left \ {m}]]
        BY <3>8 DEF UnregisterMethod
      <4>2. CASE op[t].left = {m}
        BY <2>5, <4>1, <4>2 DEF End
      <4>3. CASE op[t].left # {m}
        <5>1. PICK o \in Op : o = [op[t] EXCEPT !.left = op[t].left \ {m}]
          BY <3>1 DEF Op
        <5>2. o.at = "unregister"
          BY <3>1, <3>8, <5>1 DEF Op, UnregisterMethod, At
        <5> QED
          BY <2>3, <4>1, <4>3, <5>1, <5>2
      <4> QED
        BY <4>2, <4>3
    <3>9. CASE RunImpl(t) \/ Throw(t)
      BY <2>5, <3>9 DEF RunImpl, Throw
    <3>10. CASE \/ GetEnv(t) \/ FindClass(t) \/ GetMethodID(t) \/ HookFlags(t)
                \/ HookFunc(t) \/ HookFails(t) \/ DetachCurrent(t)
      <4>1. op[t].m = Target
        BY <2>2, <3>10 DEF GetEnv, FindClass, GetMethodID, HookFlags, HookFunc, HookFails,
                           DetachCurrent, At, HookSteps
      <4>2. PICK o \in Op : op' = [op EXCEPT ![t] = o] /\ (o.at = "wild" => o.m = Target)
        <5>1. CASE \E s \in Steps : Goto(t, s)
          <6>1. PICK s \in Steps : Goto(t, s)
            BY <5>1
          <6> QED
            BY <2>1, <4>1, <6>1, GotoShape
        <5>2. CASE End(t)
          BY <5>2, IdleIsOp DEF End
        <5>3. CASE HookFunc(t)
          <6>1. CASE Handler = NoHandler
            <7>1. PICK o \in Op : o = [op[t] EXCEPT !.at = "detach"]
              BY <3>1 DEF Op, Steps, HookSteps
            <7> QED
              BY <3>1, <4>1, <5>3, <6>1, <7>1 DEF HookFunc, Op
          <6>2. CASE Handler # NoHandler
            <7>1. PICK o \in Op : o = [op[t] EXCEPT !.at = "regCheck", !.x = Handler]
              BY <3>1, <6>2 DEF Op, Steps, BindSteps, Impls
            <7> QED
              BY <3>1, <4>1, <5>3, <6>2, <7>1 DEF HookFunc, Op
          <6> QED
            BY <6>1, <6>2
        <5>4. \/ End(t) \/ HookFunc(t)
              \/ \E s \in {"findClass", "wild", "getMethod", "hookFlags", "hookFunc"} :
                   Goto(t, s)
          BY <3>10 DEF GetEnv, FindClass, GetMethodID, HookFlags, HookFails, DetachCurrent,
                       ReturnFalse
        <5>5. {"findClass", "wild", "getMethod", "hookFlags", "hookFunc"} \subseteq Steps
          BY DEF Steps, HookSteps
        <5> QED
          BY <5>1, <5>2, <5>3, <5>4, <5>5
      <4> QED
        BY <2>3, <4>2
    <3> QED
      BY <2>8, <3>2, <3>3, <3>4, <3>5, <3>6, <3>7, <3>8, <3>9, <3>10 DEF Step
  <2> QED
    BY <1>2, <2>6, <2>7, <2>8 DEF Next
<1>3. Init => NeverWild
  BY InitTame
<1> QED
  BY <1>2, <1>3, Invariance, PTL DEF Spec
(***************************************************************************)
(* A hooking that succeeded leaves the thread attached to the VM exactly   *)
(* if it was before (GetEnv, DetachCurrent): while it is under way the     *)
(* thread is attached if it was, or g_bAttatedT says that it was not.      *)
(***************************************************************************)
Remembered ==
  hooked = "no" => (attached <=> before \/ gAttached) /\ ~(gAttached /\ before)

THEOREM AttachmentKept == Spec => []AttachmentRestored
<1> DEFINE A == Remembered /\ AttachmentRestored
<1>1. Init => A
  BY DEF Init, Remembered, AttachmentRestored
<1>2. ASSUME IInv, A, [Next]_vars
      PROVE  A'
  <2>1. TypeOK /\ \A t \in Threads : OpInv(t, op[t])
    BY <1>2, Regroup
  <2>2. \A t \in Threads : op[t].at \in HookSteps => hooked = "no"
    BY <2>1 DEF OpInv
  <2>3. CASE HookUnchanged
    BY <1>2, <2>3 DEF HookUnchanged, Remembered, AttachmentRestored
  <2>4. ASSUME NEW t \in Threads, GetEnv(t)
        PROVE  A'
    <3>1. hooked = "no" /\ hooked' = hooked /\ before' = before
      BY <2>2, <2>4 DEF GetEnv, At, HookSteps
    <3>2. \/ attached' = attached /\ gAttached' = gAttached
          \/ ~attached /\ attached' = TRUE /\ gAttached' = TRUE
      BY <2>4 DEF GetEnv
    <3>3. Remembered'
      BY <1>2, <3>1, <3>2, Zenon DEF Remembered
    <3> QED
      BY <3>1, <3>3 DEF AttachmentRestored
  <2>5. ASSUME NEW t \in Threads, DetachCurrent(t)
        PROVE  A'
    <3>1. hooked = "no" /\ hooked' = "true" /\ before' = before
      BY <2>2, <2>5 DEF DetachCurrent, At, HookSteps
    <3>2. attached' = (attached /\ ~gAttached)
      BY <2>5 DEF DetachCurrent
    <3>3. attached \in BOOLEAN /\ gAttached \in BOOLEAN /\ before \in BOOLEAN
      BY <2>1 DEF TypeOK
    <3>4. (attached <=> before \/ gAttached) /\ ~(gAttached /\ before)
      BY <1>2, <3>1 DEF Remembered
    <3>5. attached' = before
      BY <3>2, <3>3, <3>4
    <3> QED
      BY <3>1, <3>5 DEF Remembered, AttachmentRestored
  <2>6. ASSUME NEW t \in Threads, ReturnFalse(t)
        PROVE  A'
    BY <2>6 DEF ReturnFalse, Remembered, AttachmentRestored
  <2>7. CASE LoadLibrary \/ UNCHANGED vars
    BY <2>3, <2>7 DEF LoadLibrary, vars, HookUnchanged
  <2>8. ASSUME NEW t \in Threads, Start(t)
        PROVE  A'
    <3>1. HookUnchanged
      BY <2>8, Zenon DEF Start, Call, Register, Unregister, AllButOp
    <3> QED
      BY <2>3, <3>1
  <2>9. ASSUME NEW t \in Threads, Step(t)
        PROVE  A'
    <3>1. CASE \/ TestNative(t) \/ Interpret(t) \/ CallNativeFunc(t) \/ CallBridge(t)
               \/ RunImpl(t) \/ LookupInternal(t) \/ LookupShared(t) \/ LookupFails(t)
               \/ Throw(t) \/ RegisterCheck(t)
      BY <2>3, <3>1 DEF TestNative, Interpret, CallNativeFunc, CallBridge, RunImpl,
                        LookupInternal, LookupShared, LookupFails, Throw, RegisterCheck, AllButOp
    <3>2. CASE RegisterRefused(t)
      BY <2>3, <3>2 DEF RegisterRefused, AllButOp
    <3>3. CASE SetInternal(t) \/ BindInsns(t) \/ BindFunc(t) \/ UnregisterMethod(t)
               \/ HookFlags(t) \/ HookFunc(t)
      BY <2>3, <3>3 DEF SetInternal, BindInsns, BindFunc, UnregisterMethod, HookFlags, HookFunc
    <3>4. CASE FindClass(t) \/ GetMethodID(t) \/ HookFails(t)
      BY <2>3, <2>6, <3>4 DEF FindClass, GetMethodID, HookFails, AllButOp
    <3> QED
      BY <2>4, <2>5, <2>9, <3>1, <3>2, <3>3, <3>4 DEF Step
  <2> QED
    BY <1>2, <2>7, <2>8, <2>9 DEF Next
<1> QED
  BY <1>1, <1>2, Invariance, PTL DEF Spec

(***************************************************************************)
(* The lock-free caches, module AtomicCache: any number of threads and of  *)
(* lookups.                                                                *)
(*                                                                         *)
(* The version of the entry counts: it is odd exactly while a writer       *)
(* stores, and no version comes back.  So there are three things to keep:  *)
(* whose the lock is, and how far its owner has brought the version; that  *)
(* the fields are those of one update whenever the version is even; and    *)
(* that a reader's copy is true to the entry for as long as the version    *)
(* is the even one it has read first.                                      *)
(***************************************************************************)
CONSTANTS Runner, NullAllowed, MaxVersion

Cache == INSTANCE AtomicCache

CachePlaces == {"idle", "read", "return", "lock", "begin", "write", "unlock"}
CacheTypeOK ==
  /\ version \in [count : Nat, lock : BOOLEAN]
  /\ at \in [Users -> CachePlaces]
  /\ keys \in [Users -> Lookups]
  /\ first \in [Users -> [count : Nat, lock : BOOLEAN]]
  /\ left \in [Users -> SUBSET Fields]
  /\ DOMAIN got = Users
  /\ \A t \in Users :
       got[t] = [key1 |-> got[t].key1, key2 |-> got[t].key2, value |-> got[t].value]
  /\ entry = [key1 |-> entry.key1, key2 |-> entry.key2, value |-> entry.value]

Updates(t) == at[t] \in {"begin", "write", "unlock"}
\* how far t has brought the version since it took the lock
Brought(t) == IF at[t] = "begin" THEN 0
              ELSE IF at[t] = "write" THEN 1 ELSE 2

\* the lock has one owner, who alone changes the version
LockOK ==
  /\ \A t \in Users : Updates(t) =>
       /\ Even(first[t])
       /\ version = [count |-> first[t].count + Brought(t), lock |-> TRUE]
       /\ \A u \in Users : Updates(u) => u = t
  /\ ~version.lock => Even(version)
  /\ version.lock => \E t \in Users : Updates(t)

\* while it is even, the fields are those of one update
EntryOK ==
  /\ Even(version) => entry = Blank \/ \E k \in Lookups : entry = Written(k)
  /\ \A t \in Users : at[t] = "write" =>
       \A f \in Fields \ left[t] : entry[f] = Written(keys[t])[f]

\* what a reader has of them
ReaderOK(t) ==
  /\ at[t] = "read" =>
       /\ first[t].count <= version.count
       /\ Even(first[t]) /\ first[t].count = version.count =>
            \A f \in Fields \ left[t] : got[t][f] = entry[f]
  /\ at[t] \in {"return", "lock", "begin", "write", "unlock"} => got[t].value = Calc[keys[t]]

CacheInv == CacheTypeOK /\ LockOK /\ EntryOK /\ \A t \in Users : ReaderOK(t)

\* The version is odd while a field is stored.
LEMMA OddWhileWriting ==
  ASSUME CacheTypeOK, LockOK, NEW t \in Users, at[t] = "write"
  PROVE  ~Even(version)
<1>1. first[t].count \in Nat /\ first[t].count % 2 = 0
  BY DEF CacheTypeOK, LockOK, Updates, Even, Cache!Even
<1>2. version.count = first[t].count + 1
  BY DEF LockOK, Updates, Brought
<1>3. \A n \in Nat : n % 2 = 0 => (n + 1) % 2 # 0
  OBVIOUS
<1> QED BY <1>1, <1>2, <1>3 DEF Even, Cache!Even

\* The invariant is kept when a lookup begins.
LEMMA CacheLookupInv ==
  ASSUME CacheInv, NEW t \in Users, Cache!Lookup(t)
  PROVE  CacheInv'
<1>1. CacheTypeOK /\ LockOK /\ EntryOK /\ \A u \in Users : ReaderOK(u)
  BY DEF CacheInv
<1>2. CacheTypeOK'
  BY <1>1 DEF CacheTypeOK, CachePlaces, Cache!Lookup, Cache!Goto, Fields, Cache!Fields
<1>3. LockOK'
  BY <1>1, <1>2 DEF LockOK, Updates, Brought, Even, Cache!Even, CacheTypeOK, CachePlaces,
     Cache!Lookup, Cache!Goto, Fields, Cache!Fields
<1>4. EntryOK'
  BY <1>1, <1>2 DEF EntryOK, LockOK, Updates, Brought, Even, Cache!Even, CacheTypeOK,
     CachePlaces, Cache!Lookup, Cache!Goto, Fields, Cache!Fields
<1>5. ASSUME NEW u \in Users PROVE ReaderOK(u)'
  BY <1>1, <1>2 DEF ReaderOK, LockOK, Updates, Brought, Even, Cache!Even, CacheTypeOK,
     CachePlaces, Cache!Lookup, Cache!Goto, Fields, Cache!Fields
<1> QED BY <1>2, <1>3, <1>4, <1>5 DEF CacheInv

\* The invariant is kept when a field is loaded.
LEMMA CacheReadInv ==
  ASSUME CacheInv, NEW t \in Users, Cache!Read(t)
  PROVE  CacheInv'
<1>1. CacheTypeOK /\ LockOK /\ EntryOK /\ \A u \in Users : ReaderOK(u)
  BY DEF CacheInv
<1>2. CacheTypeOK'
  <2>1. PICK f \in left[t] : got' = [got EXCEPT ![t][f] = entry[f]]
    BY DEF Cache!Read
  <2>2. f \in Fields /\ DOMAIN got = Users
    BY <1>1 DEF CacheTypeOK
  <2>3. got[t] = [key1 |-> got[t].key1, key2 |-> got[t].key2, value |-> got[t].value]
    BY <1>1 DEF CacheTypeOK
  <2>4. got'[t] = [key1 |-> got'[t].key1, key2 |-> got'[t].key2, value |-> got'[t].value]
    BY <2>1, <2>2, <2>3 DEF Fields, Cache!Fields
  <2>5. DOMAIN got' = Users /\ \A u \in Users \ {t} : got'[u] = got[u]
    BY <2>1, <2>2
  <2> QED BY <1>1, <2>4, <2>5 DEF CacheTypeOK, Cache!Read
<1>3. LockOK'
  BY <1>1, <1>2 DEF LockOK, Updates, Brought, Even, Cache!Even, CacheTypeOK, CachePlaces,
     Cache!Read, Cache!Goto, Fields, Cache!Fields
<1>4. EntryOK'
  BY <1>1, <1>2 DEF EntryOK, LockOK, Updates, Brought, Even, Cache!Even, CacheTypeOK,
     CachePlaces, Cache!Read, Cache!Goto, Fields, Cache!Fields
<1>5. ASSUME NEW u \in Users PROVE ReaderOK(u)'
  BY <1>1, <1>2 DEF ReaderOK, LockOK, Updates, Brought, Even, Cache!Even, CacheTypeOK,
     CachePlaces, Cache!Read, Cache!Goto, Fields, Cache!Fields
<1> QED BY <1>2, <1>3, <1>4, <1>5 DEF CacheInv

\* The invariant is kept when the fields match.
LEMMA CacheHitInv ==
  ASSUME CacheInv, NEW t \in Users, Cache!Hit(t)
  PROVE  CacheInv'
<1>1. CacheTypeOK /\ LockOK /\ EntryOK /\ \A u \in Users : ReaderOK(u)
  BY DEF CacheInv
<1>2. CacheTypeOK'
  BY <1>1 DEF CacheTypeOK, CachePlaces, Cache!Hit, Cache!Goto, Cache!Answer, Blank, Cache!Blank,
     Cache!Matches, Cache!Clashed
<1>3. LockOK'
  BY <1>1, <1>2 DEF LockOK, Updates, Brought, Even, Cache!Even, CacheTypeOK, CachePlaces,
     Cache!Hit, Cache!Goto, Cache!Answer, Blank, Cache!Blank, Cache!Matches, Cache!Clashed
<1>4. EntryOK'
  BY <1>1, <1>2 DEF EntryOK, LockOK, Updates, Brought, Even, Cache!Even, CacheTypeOK,
     CachePlaces, Cache!Hit, Cache!Goto, Cache!Answer, Blank, Cache!Blank, Cache!Matches,
     Cache!Clashed
<1>5. ASSUME NEW u \in Users PROVE ReaderOK(u)'
  <2>1. CASE u # t
    BY <1>1, <2>1 DEF ReaderOK, CacheTypeOK, Cache!Hit, Cache!Goto, Cache!Answer
  <2>2. CASE u = t
    <3>1. got[t].value = Calc[keys[t]]
      <4>1. /\ got[t].key1 = entry.key1 /\ got[t].key2 = entry.key2
            /\ got[t].value = entry.value /\ Even(version)
        BY <1>1 DEF ReaderOK, CacheTypeOK, Cache!Hit, Cache!Clashed, Fields, Cache!Fields,
           Even, Cache!Even
      <4>2. keys[t] \in Lookups /\ entry.key1 = keys[t][1] /\ entry.key2 = keys[t][2]
        BY <1>1, <4>1 DEF CacheTypeOK, Cache!Hit, Cache!Matches
      <4>3. entry # Blank
        BY <4>2, LookupAssumption DEF Blank, Cache!Blank
      <4>4. PICK k \in Lookups : entry = Written(k)
        BY <1>1, <4>1, <4>3 DEF EntryOK
      <4>5. keys[t] = k
        BY <4>2, <4>4, LookupAssumption DEF Written, Cache!Written
      <4> QED BY <4>1, <4>4, <4>5 DEF Written, Cache!Written
    <3>2. at'[t] = "return" /\ got'[t].value = got[t].value /\ keys' = keys
      BY <1>1 DEF CacheTypeOK, Cache!Hit, Cache!Goto, Cache!Answer, Blank, Cache!Blank
    <3> QED BY <2>2, <3>1, <3>2 DEF ReaderOK
  <2> QED BY <2>1, <2>2
<1> QED BY <1>2, <1>3, <1>4, <1>5 DEF CacheInv

\* The invariant is kept when the version has changed.
LEMMA CacheClashInv ==
  ASSUME CacheInv, NEW t \in Users, Cache!Clash(t)
  PROVE  CacheInv'
<1>1. CacheTypeOK /\ LockOK /\ EntryOK /\ \A u \in Users : ReaderOK(u)
  BY DEF CacheInv
<1>2. CacheTypeOK'
  BY <1>1 DEF CacheTypeOK, CachePlaces, Cache!Clash, Cache!Goto, Cache!Answer,
     Blank, Cache!Blank, Cache!Matches, Cache!Clashed
<1>3. LockOK'
  BY <1>1, <1>2 DEF LockOK, Updates, Brought, Even, Cache!Even, CacheTypeOK, CachePlaces,
     Cache!Clash, Cache!Goto, Cache!Answer, Blank, Cache!Blank, Cache!Matches, Cache!Clashed
<1>4. EntryOK'
  BY <1>1, <1>2 DEF EntryOK, LockOK, Updates, Brought, Even, Cache!Even, CacheTypeOK,
     CachePlaces, Cache!Clash, Cache!Goto, Cache!Answer, Blank, Cache!Blank, Cache!Matches,
     Cache!Clashed
<1>5. ASSUME NEW u \in Users PROVE ReaderOK(u)'
  BY <1>1, <1>2 DEF ReaderOK, LockOK, Updates, Brought, Even, Cache!Even, CacheTypeOK,
     CachePlaces, Cache!Clash, Cache!Goto, Cache!Answer, Blank, Cache!Blank, Cache!Matches,
     Cache!Clashed
<1> QED BY <1>2, <1>3, <1>4, <1>5 DEF CacheInv

\* The invariant is kept when the keys are others.
LEMMA CacheMissInv ==
  ASSUME CacheInv, NEW t \in Users, Cache!Miss(t)
  PROVE  CacheInv'
<1>1. CacheTypeOK /\ LockOK /\ EntryOK /\ \A u \in Users : ReaderOK(u)
  BY DEF CacheInv
<1>2. CacheTypeOK'
  BY <1>1 DEF CacheTypeOK, CachePlaces, Cache!Miss, Cache!Goto, Cache!Answer, Blank, Cache!Blank,
     Cache!Matches
<1>3. LockOK'
  BY <1>1, <1>2 DEF LockOK, Updates, Brought, Even, Cache!Even, CacheTypeOK, CachePlaces,
     Cache!Miss, Cache!Goto, Cache!Answer, Blank, Cache!Blank, Cache!Matches
<1>4. EntryOK'
  BY <1>1, <1>2 DEF EntryOK, LockOK, Updates, Brought, Even, Cache!Even, CacheTypeOK,
     CachePlaces, Cache!Miss, Cache!Goto, Cache!Answer, Blank, Cache!Blank, Cache!Matches
<1>5. ASSUME NEW u \in Users PROVE ReaderOK(u)'
  BY <1>1, <1>2 DEF ReaderOK, LockOK, Updates, Brought, Even, Cache!Even, CacheTypeOK,
     CachePlaces, Cache!Miss, Cache!Goto, Cache!Answer, Blank, Cache!Blank, Cache!Matches
<1> QED BY <1>2, <1>3, <1>4, <1>5 DEF CacheInv

\* The invariant is kept when a lookup returns.
LEMMA CacheReturnInv ==
  ASSUME CacheInv, NEW t \in Users, Cache!Return(t)
  PROVE  CacheInv'
<1>1. CacheTypeOK /\ LockOK /\ EntryOK /\ \A u \in Users : ReaderOK(u)
  BY DEF CacheInv
<1>2. CacheTypeOK'
  BY <1>1 DEF CacheTypeOK, CachePlaces, Cache!Return, Cache!Goto, Blank, Cache!Blank
<1>3. LockOK'
  BY <1>1, <1>2 DEF LockOK, Updates, Brought, Even, Cache!Even, CacheTypeOK, CachePlaces,
     Cache!Return, Cache!Goto, Blank, Cache!Blank
<1>4. EntryOK'
  BY <1>1, <1>2 DEF EntryOK, LockOK, Updates, Brought, Even, Cache!Even, CacheTypeOK,
     CachePlaces, Cache!Return, Cache!Goto, Blank, Cache!Blank
<1>5. ASSUME NEW u \in Users PROVE ReaderOK(u)'
  BY <1>1, <1>2 DEF ReaderOK, LockOK, Updates, Brought, Even, Cache!Even, CacheTypeOK,
     CachePlaces, Cache!Return, Cache!Goto, Blank, Cache!Blank
<1> QED BY <1>2, <1>3, <1>4, <1>5 DEF CacheInv

\* The invariant is kept when somebody else is updating the entry.
LEMMA CacheSkipInv ==
  ASSUME CacheInv, NEW t \in Users, Cache!Skip(t)
  PROVE  CacheInv'
<1>1. CacheTypeOK /\ LockOK /\ EntryOK /\ \A u \in Users : ReaderOK(u)
  BY DEF CacheInv
<1>2. CacheTypeOK'
  BY <1>1 DEF CacheTypeOK, CachePlaces, Cache!Skip, Cache!Goto
<1>3. LockOK'
  BY <1>1, <1>2 DEF LockOK, Updates, Brought, Even, Cache!Even, CacheTypeOK, CachePlaces,
     Cache!Skip, Cache!Goto
<1>4. EntryOK'
  BY <1>1, <1>2 DEF EntryOK, LockOK, Updates, Brought, Even, Cache!Even, CacheTypeOK,
     CachePlaces, Cache!Skip, Cache!Goto
<1>5. ASSUME NEW u \in Users PROVE ReaderOK(u)'
  BY <1>1, <1>2 DEF ReaderOK, LockOK, Updates, Brought, Even, Cache!Even, CacheTypeOK,
     CachePlaces, Cache!Skip, Cache!Goto
<1> QED BY <1>2, <1>3, <1>4, <1>5 DEF CacheInv

\* The invariant is kept when the lock is taken.
LEMMA CacheLockInv ==
  ASSUME CacheInv, NEW t \in Users, Cache!Lock(t)
  PROVE  CacheInv'
<1>1. CacheTypeOK /\ LockOK /\ EntryOK /\ \A u \in Users : ReaderOK(u)
  BY DEF CacheInv
<1>2. CacheTypeOK'
  BY <1>1 DEF CacheTypeOK, CachePlaces, Cache!Lock, Cache!Goto
<1>3. LockOK'
  <2>1. version = first[t] /\ ~version.lock /\ version' = [version EXCEPT !.lock = TRUE]
        /\ at' = [at EXCEPT ![t] = "begin"] /\ first' = first
    BY DEF Cache!Lock, Cache!Goto
  <2>2. ASSUME NEW u \in Users, Updates(u) PROVE FALSE
    <3>1. version.lock
      BY <1>1, <2>2 DEF LockOK
    <3> QED BY <2>1, <3>1
  <2>3. Even(first[t])
    BY <1>1, <2>1 DEF LockOK, Even, Cache!Even
  <2>4. version' = [count |-> first[t].count, lock |-> TRUE]
    BY <1>1, <2>1 DEF CacheTypeOK
  <2>5. \A u \in Users : Updates(u)' <=> u = t
    BY <1>1, <2>1, <2>2 DEF CacheTypeOK, Updates
  <2>6. at'[t] = "begin" /\ first[t].count \in Nat
    BY <1>1, <2>1 DEF CacheTypeOK
  <2>7. Brought(t)' = 0 /\ first[t].count + 0 = first[t].count
    BY <2>6 DEF Brought
  <2> QED BY <2>1, <2>3, <2>4, <2>5, <2>7 DEF LockOK, Even, Cache!Even
<1>4. EntryOK'
  BY <1>1, <1>2 DEF EntryOK, LockOK, Updates, Brought, Even, Cache!Even, CacheTypeOK,
     CachePlaces, Cache!Lock, Cache!Goto
<1>5. ASSUME NEW u \in Users PROVE ReaderOK(u)'
  BY <1>1, <1>2 DEF ReaderOK, LockOK, Updates, Brought, Even, Cache!Even, CacheTypeOK,
     CachePlaces, Cache!Lock, Cache!Goto
<1> QED BY <1>2, <1>3, <1>4, <1>5 DEF CacheInv

\* The invariant is kept when the version is made odd.
LEMMA CacheBeginUpdateInv ==
  ASSUME CacheInv, NEW t \in Users, Cache!BeginUpdate(t)
  PROVE  CacheInv'
<1>1. CacheTypeOK /\ LockOK /\ EntryOK /\ \A u \in Users : ReaderOK(u)
  BY DEF CacheInv
<1>2. CacheTypeOK'
  BY <1>1 DEF CacheTypeOK, CachePlaces, Cache!BeginUpdate, Cache!Goto, Fields, Cache!Fields
<1>3. LockOK'
  BY <1>1, <1>2 DEF LockOK, Updates, Brought, Even, Cache!Even, CacheTypeOK, CachePlaces,
     Cache!BeginUpdate, Cache!Goto, Fields, Cache!Fields
<1>4. EntryOK'
  BY <1>1, <1>2 DEF EntryOK, LockOK, Updates, Brought, Even, Cache!Even, CacheTypeOK,
     CachePlaces, Cache!BeginUpdate, Cache!Goto, Fields, Cache!Fields
<1>5. ASSUME NEW u \in Users PROVE ReaderOK(u)'
  BY <1>1, <1>2 DEF ReaderOK, LockOK, Updates, Brought, Even, Cache!Even, CacheTypeOK,
     CachePlaces, Cache!BeginUpdate, Cache!Goto, Fields, Cache!Fields
<1> QED BY <1>2, <1>3, <1>4, <1>5 DEF CacheInv

\* The invariant is kept when a field is stored.
LEMMA CacheWriteInv ==
  ASSUME CacheInv, NEW t \in Users, Cache!Write(t)
  PROVE  CacheInv'
<1>1. CacheTypeOK /\ LockOK /\ EntryOK /\ \A u \in Users : ReaderOK(u)
  BY DEF CacheInv
<1>a. PICK f \in left[t] :
        /\ left' = [left EXCEPT ![t] = @ \ {f}]
        /\ entry' = [entry EXCEPT ![f] = Written(keys[t])[f]]
  BY DEF Cache!Write, Written, Cache!Written
<1>b. at[t] = "write" /\ UNCHANGED <<version, at, keys, first, got>>
  BY DEF Cache!Write
<1>c. f \in Fields
      /\ entry = [key1 |-> entry.key1, key2 |-> entry.key2, value |-> entry.value]
  BY <1>1 DEF CacheTypeOK
<1>d. entry'[f] = Written(keys[t])[f]
      /\ \A g \in Fields \ {f} : entry'[g] = entry[g]
  BY <1>a, <1>c DEF Fields, Cache!Fields
<1>2. CacheTypeOK'
  <2>1. entry' = [key1 |-> entry'.key1, key2 |-> entry'.key2, value |-> entry'.value]
    BY <1>a, <1>c DEF Fields, Cache!Fields
  <2> QED BY <1>1, <1>a, <1>b, <2>1 DEF CacheTypeOK
<1>3. LockOK'
  BY <1>1, <1>2 DEF LockOK, Updates, Brought, Even, Cache!Even, CacheTypeOK, CachePlaces,
     Cache!Write, Cache!Goto, Fields, Cache!Fields
<1>4. EntryOK'
  <2>1. ~Even(version)
    BY <1>1, <1>b, OddWhileWriting
  <2>2. \A u \in Users : at[u] = "write" => u = t
    BY <1>1, <1>b DEF LockOK, Updates
  <2>3. ASSUME NEW g \in Fields \ left'[t] PROVE entry'[g] = Written(keys[t])[g]
    <3>1. CASE g = f
      BY <1>d, <3>1
    <3>2. CASE g # f
      BY <1>1, <1>a, <1>b, <1>d, <3>2 DEF EntryOK, CacheTypeOK
    <3> QED BY <3>1, <3>2
  <2> QED BY <1>b, <2>1, <2>2, <2>3 DEF EntryOK, Even, Cache!Even, Written, Cache!Written
<1>5. ASSUME NEW u \in Users PROVE ReaderOK(u)'
  <2>1. ~Even(version)
    BY <1>1, <1>b, OddWhileWriting
  <2>2. Even(first[u]) => first[u].count # version.count
    BY <2>1 DEF Even, Cache!Even
  <2> QED BY <1>1, <1>b, <2>2 DEF ReaderOK, Even, Cache!Even
<1> QED BY <1>2, <1>3, <1>4, <1>5 DEF CacheInv

\* The invariant is kept when the version is made even again.
LEMMA CacheEndUpdateInv ==
  ASSUME CacheInv, NEW t \in Users, Cache!EndUpdate(t)
  PROVE  CacheInv'
<1>1. CacheTypeOK /\ LockOK /\ EntryOK /\ \A u \in Users : ReaderOK(u)
  BY DEF CacheInv
<1>2. CacheTypeOK'
  BY <1>1 DEF CacheTypeOK, CachePlaces, Cache!EndUpdate, Cache!Goto
<1>3. LockOK'
  BY <1>1, <1>2 DEF LockOK, Updates, Brought, Even, Cache!Even, CacheTypeOK, CachePlaces,
     Cache!EndUpdate, Cache!Goto
<1>4. EntryOK'
  <2>1. at[t] = "write" /\ left[t] = {} /\ at' = [at EXCEPT ![t] = "unlock"]
        /\ UNCHANGED <<entry, keys, left>>
    BY DEF Cache!EndUpdate, Cache!Goto
  <2>2. \A u \in Users : at'[u] # "write"
    BY <1>1, <2>1 DEF LockOK, Updates, CacheTypeOK
  <2>3. /\ entry.key1 = keys[t][1] /\ entry.key2 = keys[t][2]
        /\ entry.value = Calc[keys[t]]
    BY <1>1, <2>1 DEF EntryOK, Fields, Cache!Fields, Written, Cache!Written
  <2>4. entry = Written(keys[t])
    BY <1>1, <2>3 DEF CacheTypeOK, Written, Cache!Written
  <2>5. keys[t] \in Lookups
    BY <1>1 DEF CacheTypeOK
  <2> QED BY <2>1, <2>2, <2>4, <2>5 DEF EntryOK, Written, Cache!Written, Blank, Cache!Blank
<1>5. ASSUME NEW u \in Users PROVE ReaderOK(u)'
  BY <1>1, <1>2 DEF ReaderOK, LockOK, Updates, Brought, Even, Cache!Even, CacheTypeOK,
     CachePlaces, Cache!EndUpdate, Cache!Goto
<1> QED BY <1>2, <1>3, <1>4, <1>5 DEF CacheInv

\* The invariant is kept when the lock is given back.
LEMMA CacheUnlockInv ==
  ASSUME CacheInv, NEW t \in Users, Cache!Unlock(t)
  PROVE  CacheInv'
<1>1. CacheTypeOK /\ LockOK /\ EntryOK /\ \A u \in Users : ReaderOK(u)
  BY DEF CacheInv
<1>a. at[t] = "unlock" /\ Mine(t) /\ \A u \in Users : Updates(u) => u = t
  <2>1. at[t] = "unlock"
    BY DEF Cache!Unlock
  <2> QED BY <1>1, <2>1 DEF LockOK, Updates, Brought, Mine, Cache!Mine
<1>b. /\ version' = [version EXCEPT !.lock = FALSE]
      /\ at' = [at EXCEPT ![t] = "return"] /\ UNCHANGED <<entry, keys, first, left, got>>
  BY <1>a DEF Mine, Cache!Mine, Cache!Unlock, Cache!Goto
<1>2. CacheTypeOK'
  BY <1>1, <1>b DEF CacheTypeOK, CachePlaces
<1>3. LockOK'
  <2>1. ~version'.lock /\ version'.count = first[t].count + 2
    BY <1>1, <1>a, <1>b DEF CacheTypeOK, Mine, Cache!Mine
  <2>2. \A u \in Users : ~Updates(u)'
    BY <1>1, <1>a, <1>b DEF CacheTypeOK, Updates
  <2>3. Even(version')
    BY <1>1, <1>a, <2>1 DEF LockOK, Updates, Even, Cache!Even, CacheTypeOK
  <2> QED BY <2>1, <2>2, <2>3 DEF LockOK, Even, Cache!Even
<1>4. EntryOK'
  BY <1>1, <1>2 DEF EntryOK, LockOK, Updates, Brought, Even, Cache!Even, CacheTypeOK,
     CachePlaces, Cache!Unlock, Cache!Goto, Mine, Cache!Mine
<1>5. ASSUME NEW u \in Users PROVE ReaderOK(u)'
  BY <1>1, <1>2 DEF ReaderOK, LockOK, Updates, Brought, Even, Cache!Even, CacheTypeOK,
     CachePlaces, Cache!Unlock, Cache!Goto, Mine, Cache!Mine
<1> QED BY <1>2, <1>3, <1>4, <1>5 DEF CacheInv

\* Every step keeps the invariant.
LEMMA CacheNext ==
  CacheInv /\ [Cache!Next]_(Cache!vars) => CacheInv'
<1> SUFFICES ASSUME CacheInv, [Cache!Next]_(Cache!vars) PROVE CacheInv'
  OBVIOUS
<1>1. ASSUME NEW t \in Users, Cache!Lookup(t) \/ Cache!Goes(t) PROVE CacheInv'
  BY <1>1, CacheLookupInv, CacheReadInv, CacheHitInv, CacheClashInv, CacheMissInv,
     CacheReturnInv, CacheSkipInv, CacheLockInv, CacheBeginUpdateInv, CacheWriteInv,
     CacheEndUpdateInv, CacheUnlockInv DEF Cache!Goes, Cache!Update
<1>2. CASE UNCHANGED Cache!vars
  BY <1>2 DEF Cache!vars, CacheInv, CacheTypeOK, LockOK, Updates, Brought, EntryOK, ReaderOK,
     Even, Cache!Even, Written, Cache!Written, Blank, Cache!Blank
<1> QED BY <1>1, <1>2 DEF Cache!Next

LEMMA CacheInit ==
  Cache!Init => CacheInv
<1> SUFFICES ASSUME Cache!Init PROVE CacheInv
  OBVIOUS
<1>1. CacheTypeOK
  BY DEF Cache!Init, CacheTypeOK, CachePlaces, Blank, Cache!Blank
<1>2. LockOK /\ EntryOK /\ \A t \in Users : ReaderOK(t)
  BY DEF Cache!Init, Blank, Cache!Blank, LockOK, EntryOK, ReaderOK, Updates, Even, Cache!Even
<1> QED BY <1>1, <1>2 DEF CacheInv

\* The invariant holds in every state, however many threads there are.
LEMMA CacheInvariance == Cache!Spec => []CacheInv
BY CacheInit, CacheNext, PTL DEF Cache!Spec

\* Whatever writers do between its loads, a reader returns what it would have computed,
\* for any number of threads, lookups and results (AtomicCache.h:117).
THEOREM CachedIsComputed ==
  Cache!Spec => []LookupCorrect
<1>1. CacheInv => LookupCorrect
  BY DEF CacheInv, ReaderOK, LookupCorrect, Cache!LookupCorrect
<1> QED BY <1>1, CacheInvariance, PTL

\* Nobody stores into an entry that another thread is storing into, the lock is given back
\* as it was taken, so that dvmAbort() is not called, and at an even version the fields are
\* those of one update (AtomicCache.cpp:137).
THEOREM CacheUpdatesExclude ==
  Cache!Spec => []UpdatesExclude
<1>1. ASSUME CacheInv PROVE UpdatesExclude
  <2>1. ASSUME NEW t \in Users, Updates(t)
        PROVE  /\ Even(first[t]) /\ version.lock
               /\ at[t] = "unlock" => Mine(t)
    BY <1>1, <2>1 DEF CacheInv, LockOK, Brought, Mine, Cache!Mine
  <2>2. ASSUME NEW t \in Users PROVE at[t] # "abort"
    <3>1. at[t] \in CachePlaces
      BY <1>1 DEF CacheInv, CacheTypeOK
    <3> QED BY <3>1 DEF CachePlaces
  <2>3. Even(version) =>
          entry = Blank \/ \E k \in Lookups : entry = Written(k)
    BY <1>1 DEF CacheInv, EntryOK
  <2> QED BY <2>1, <2>2, <2>3 DEF UpdatesExclude, Cache!UpdatesExclude, Updates
<1> QED BY <1>1, CacheInvariance, PTL

(***************************************************************************)
(* JNI references, modules RefTable and IndirectRefTable: tables of any    *)
(* size, any number of frames and references.                              *)
(*                                                                         *)
(* The counts of holes are kept by an invariant about a table and a stack, *)
(* Counted, which is wider than what HolesCounted says: the bottoms of the *)
(* segments are in order, the entry on top of every segment is none, and   *)
(* what each frame was promised fits above its segment.  That a segment    *)
(* ends in an entry is what makes the search for a hole end inside it, and *)
(* what makes remove() right to stop by counting.  The first lemmas are    *)
(* about the table alone, the class IndirectRefTable; those about calls    *)
(* follow.                                                                 *)
(***************************************************************************)
Slots  == [obj : Objects \cup {Null, Cleared}, serial : Nat]
Tables == [slot : [Indices -> Slots], alloc : 1..MaxEntries, top : 0..MaxEntries, holes : Nat]
Frames == [native : BOOLEAN, cookie : [top : 0..MaxEntries, holes : Nat], promised : Nat]

\* the empty slots below n
Holes(T, n) == {k \in 0..n - 1 : T.slot[k].obj = Null}
\* where the segment of frame i ends, as Above
EndOf(T, fs, i) == IF i = Len(fs) THEN T.top ELSE fs[i + 1].cookie.top

\* the i-th segment of a table T with stack fs
Segment(T, fs, i) ==
  /\ fs[i].cookie.top <= EndOf(T, fs, i)
  /\ Cardinality(Holes(T, fs[i].cookie.top)) = fs[i].cookie.holes
  /\ fs[i].cookie.top < EndOf(T, fs, i) => T.slot[EndOf(T, fs, i) - 1].obj # Null
  /\ fs[i].promised + EndOf(T, fs, i) <= MaxEntries

Counted(T, fs) ==
  /\ T \in Tables /\ T.top <= T.alloc
  /\ fs \in Seq(Frames) /\ Len(fs) >= 1 /\ fs[1].native
  /\ \A i, j \in 1..Len(fs) : i <= j => fs[i].cookie.top <= fs[j].cookie.top
  /\ \A i \in 1..Len(fs) : Segment(T, fs, i)
  /\ Cardinality(Holes(T, T.top)) = T.holes

-----------------------------------------------------------------------------
\* The largest of a bounded set of numbers.
LEMMA MaxOf ==
  ASSUME NEW n \in Nat, NEW S, S \subseteq 0..n, S # {}
  PROVE  Max(S) \in S /\ \A x \in S : Max(S) >= x
<1> DEFINE F == {x..n : x \in S}
<1>1. F \subseteq FiniteSubsetsOf(0..n) /\ F # {}
  <2>1. ASSUME NEW x \in S PROVE x..n \in FiniteSubsetsOf(0..n)
    <3>1. x \in Nat /\ x..n \subseteq 0..n
      OBVIOUS
    <3>2. IsFiniteSet(x..n)
      BY <3>1, FS_Interval
    <3> QED BY <3>1, <3>2 DEF FiniteSubsetsOf
  <2> QED BY <2>1
<1>2. IsWellFoundedOn(StrictSubsetOrdering(0..n), FiniteSubsetsOf(0..n))
  BY FS_StrictSubsetOrderingWellFounded
<1>3. PICK Z \in F : \A Y \in F : <<Y, Z>> \notin StrictSubsetOrdering(0..n)
  <2> HIDE DEF F
  <2> QED BY <1>1, <1>2, WFMin
<1>4. PICK m \in S : Z = m..n
  OBVIOUS
<1>5. ASSUME NEW x \in S PROVE m >= x
  <2> SUFFICES ASSUME x > m PROVE FALSE
    OBVIOUS
  <2>1. x \in 0..n /\ m \in 0..n
    OBVIOUS
  <2>2. x..n \subseteq m..n /\ m \in m..n /\ m \notin x..n /\ m..n \subseteq 0..n
    BY <2>1
  <2>3. <<x..n, m..n>> \in StrictSubsetOrdering(0..n)
    BY <2>2 DEF StrictSubsetOrdering
  <2>4. x..n \in F
    OBVIOUS
  <2> QED BY <1>3, <1>4, <2>3, <2>4
<1> QED BY <1>5 DEF Max

LEMMA MinOf ==
  ASSUME NEW n \in Nat, NEW S, S \subseteq 0..n, S # {}
  PROVE  Min(S) \in S
<1> DEFINE F == {0..x : x \in S}
<1>1. F \subseteq FiniteSubsetsOf(0..n) /\ F # {}
  <2>1. ASSUME NEW x \in S PROVE 0..x \in FiniteSubsetsOf(0..n)
    <3>1. x \in Nat /\ 0..x \subseteq 0..n
      OBVIOUS
    <3>2. IsFiniteSet(0..x)
      BY <3>1, FS_Interval
    <3> QED BY <3>1, <3>2 DEF FiniteSubsetsOf
  <2> QED BY <2>1
<1>2. IsWellFoundedOn(StrictSubsetOrdering(0..n), FiniteSubsetsOf(0..n))
  BY FS_StrictSubsetOrderingWellFounded
<1>3. PICK Z \in F : \A Y \in F : <<Y, Z>> \notin StrictSubsetOrdering(0..n)
  <2> HIDE DEF F
  <2> QED BY <1>1, <1>2, WFMin
<1>4. PICK m \in S : Z = 0..m
  OBVIOUS
<1>5. ASSUME NEW x \in S PROVE m <= x
  <2> SUFFICES ASSUME x < m PROVE FALSE
    OBVIOUS
  <2>1. x \in 0..n /\ m \in 0..n
    OBVIOUS
  <2>2. 0..x \subseteq 0..m /\ m \in 0..m /\ m \notin 0..x /\ 0..m \subseteq 0..n
    BY <2>1
  <2>3. <<0..x, 0..m>> \in StrictSubsetOrdering(0..n)
    BY <2>2 DEF StrictSubsetOrdering
  <2>4. 0..x \in F
    OBVIOUS
  <2> QED BY <1>3, <1>4, <2>3, <2>4
<1> QED BY <1>5 DEF Min

LEMMA MinOfTwo ==
  ASSUME NEW a \in Nat, NEW b \in Nat
  PROVE  Min({a, b}) = IF a <= b THEN a ELSE b
BY DEF Min

LEMMA MaxOfTwo ==
  ASSUME NEW a \in Nat, NEW b \in Nat
  PROVE  Max({a, b}) = IF a >= b THEN a ELSE b
BY DEF Max

-----------------------------------------------------------------------------
\* Holes are counted slot by slot.
LEMMA HolesFinite ==
  ASSUME NEW T, NEW n \in Nat
  PROVE  IsFiniteSet(Holes(T, n)) /\ Cardinality(Holes(T, n)) \in Nat
<1>1. IsFiniteSet(0..n - 1)
  BY FS_Interval
<1>2. Holes(T, n) \in SUBSET (0..n - 1)
  BY DEF Holes
<1> QED BY <1>1, <1>2, FS_Subset, FS_CardinalityType

\* Those of a segment are those below its end that are not below its bottom.
LEMMA HolesOfSegment ==
  ASSUME NEW T, NEW a \in Nat, NEW b \in Nat, a <= b
  PROVE  LET mine == {k \in a..b - 1 : T.slot[k].obj = Null}
         IN  /\ IsFiniteSet(mine)
             /\ Cardinality(mine) = Cardinality(Holes(T, b)) - Cardinality(Holes(T, a))
             /\ Cardinality(mine) \in Nat
<1> DEFINE mine == {k \in a..b - 1 : T.slot[k].obj = Null}
<1>1. IsFiniteSet(Holes(T, b)) /\ Cardinality(Holes(T, b)) \in Nat
  BY HolesFinite
<1>2. mine = Holes(T, b) \ Holes(T, a)
  BY DEF Holes
<1>3. Holes(T, b) \cap Holes(T, a) = Holes(T, a)
  BY DEF Holes
<1> HIDE DEF mine
<1>4. IsFiniteSet(mine) /\ Cardinality(mine) = Cardinality(Holes(T, b)) - Cardinality(Holes(T, a))
  <2>1. LET D == Holes(T, b) \ Holes(T, a)
        IN  /\ IsFiniteSet(D)
            /\ Cardinality(D) = Cardinality(Holes(T, b)) - Cardinality(Holes(T, b) \cap Holes(T, a))
    BY <1>1, FS_Difference
  <2> QED BY <1>2, <1>3, <2>1
<1> QED BY <1>4, FS_CardinalityType DEF mine

\* No count depends on more than which slots are empty.
LEMMA SameHoles ==
  ASSUME NEW S, NEW T, NEW n \in Nat,
         \A k \in 0..n - 1 : S.slot[k].obj = Null <=> T.slot[k].obj = Null
  PROVE  Holes(S, n) = Holes(T, n)
BY DEF Holes

\* A segment of holes only.
LEMMA AllHoles ==
  ASSUME NEW T, NEW a \in Nat, NEW b \in Nat, a <= b,
         \A k \in a..b - 1 : T.slot[k].obj = Null
  PROVE  Cardinality(Holes(T, b)) = Cardinality(Holes(T, a)) + (b - a)
<1>1. {k \in a..b - 1 : T.slot[k].obj = Null} = a..b - 1
  OBVIOUS
<1>2. Cardinality(a..b - 1) = b - a
  <2>1. b - 1 \in Int /\ a \in Int
    OBVIOUS
  <2>2. Cardinality(a..b - 1) = IF a > b - 1 THEN 0 ELSE (b - 1) - a + 1
    BY <2>1, FS_Interval
  <2> QED BY <2>2
<1>3. Cardinality(a..b - 1) = Cardinality(Holes(T, b)) - Cardinality(Holes(T, a))
  BY <1>1, HolesOfSegment
<1>4. Cardinality(Holes(T, b)) \in Nat /\ Cardinality(Holes(T, a)) \in Nat
  BY HolesFinite
<1> QED BY <1>2, <1>3, <1>4

\* A segment without.
LEMMA NoHoles ==
  ASSUME NEW T, NEW a \in Nat, NEW b \in Nat, a <= b
  PROVE  Cardinality(Holes(T, b)) = Cardinality(Holes(T, a))
           <=> \A k \in a..b - 1 : T.slot[k].obj # Null
<1> DEFINE mine == {k \in a..b - 1 : T.slot[k].obj = Null}
<1>1. IsFiniteSet(mine) /\ Cardinality(mine) = Cardinality(Holes(T, b)) - Cardinality(Holes(T, a))
  BY HolesOfSegment
<1>2. Cardinality(mine) = 0 <=> mine = {}
  BY <1>1, FS_EmptySet
<1>3. Cardinality(Holes(T, b)) \in Nat /\ Cardinality(Holes(T, a)) \in Nat
  BY HolesFinite
<1> QED BY <1>1, <1>2, <1>3

\* A hole filled, or made.
LEMMA OneHoleLess ==
  ASSUME NEW S, NEW T, NEW n \in Nat, NEW i \in 0..n - 1,
         T.slot[i].obj = Null, S.slot[i].obj # Null,
         \A k \in (0..n - 1) \ {i} : S.slot[k].obj = Null <=> T.slot[k].obj = Null
  PROVE  Cardinality(Holes(S, n)) = Cardinality(Holes(T, n)) - 1
<1>1. Holes(S, n) = Holes(T, n) \ {i} /\ i \in Holes(T, n)
  BY DEF Holes
<1> QED BY <1>1, HolesFinite, FS_RemoveElement

-----------------------------------------------------------------------------
\* The table changes in its current segment only.
LEMMA Reshaped ==
  ASSUME NEW T, NEW fs, Counted(T, fs), NEW S \in Tables, S.top <= S.alloc,
         NEW gs \in Seq(Frames), NEW n \in Nat, n = Len(fs), Len(gs) = n,
         \A i \in 1..n : gs[i].native = fs[i].native /\ gs[i].cookie = fs[i].cookie,
         \A i \in 1..n : i # n => gs[i].promised = fs[i].promised,
         gs[n].promised + S.top <= MaxEntries,
         NEW c, c = fs[n].cookie,
         \A k \in 0..c.top - 1 : S.slot[k].obj = Null <=> T.slot[k].obj = Null,
         c.top <= S.top,
         c.top < S.top => S.slot[S.top - 1].obj # Null,
         Cardinality(Holes(S, S.top)) = S.holes
  PROVE  Counted(S, gs)
<1>1. /\ T \in Tables /\ n \in 1..n /\ 1 \in 1..n /\ fs[1].native
      /\ \A i, j \in 1..n : i <= j => fs[i].cookie.top <= fs[j].cookie.top
      /\ \A i \in 1..n : Segment(T, fs, i)
  BY DEF Counted
<1>2. \A i \in 1..n : fs[i].cookie.top \in Nat
  <2>1. \A i \in 1..n : fs[i] \in Frames
    BY DEF Counted
  <2> QED BY <2>1 DEF Frames
<1>3. ASSUME NEW i \in 1..n PROVE Segment(S, gs, i)
  <2>1. PICK b \in Nat : b = fs[i].cookie.top
    BY <1>2
  <2>2. b <= c.top /\ c.top \in Nat
    BY <1>1, <1>2, <2>1
  <2>3. \A k \in 0..b - 1 : S.slot[k].obj = Null <=> T.slot[k].obj = Null
    BY <2>2
  <2>4. Holes(S, b) = Holes(T, b)
    BY <2>3, SameHoles
  <2>5. gs[i].cookie.top = b /\ Cardinality(Holes(T, b)) = gs[i].cookie.holes
    BY <1>1, <2>1 DEF Segment
  <2>6. CASE i = n
    <3>1. EndOf(S, gs, i) = S.top /\ b = c.top
      BY <2>1, <2>6 DEF EndOf
    <3> QED BY <2>4, <2>5, <2>6, <3>1 DEF Segment
  <2>7. CASE i # n
    <3>1. i + 1 \in 1..n
      BY <2>7
    <3>2. PICK e \in Nat : e = fs[i + 1].cookie.top
      BY <1>2, <3>1
    <3>3. e <= c.top
      BY <1>1, <3>1, <3>2
    <3>4. EndOf(T, fs, i) = e /\ EndOf(S, gs, i) = e
      BY <2>7, <3>1, <3>2 DEF EndOf
    <3>5. b <= e /\ gs[i].promised + e <= MaxEntries /\ (b < e => T.slot[e - 1].obj # Null)
      BY <1>1, <2>1, <2>7, <3>4 DEF Segment
    <3>6. b < e => e - 1 \in 0..c.top - 1
      BY <2>2, <3>3
    <3>7. b < e => S.slot[e - 1].obj # Null
      BY <3>5, <3>6
    <3> QED BY <2>4, <2>5, <3>4, <3>5, <3>7 DEF Segment
  <2> QED BY <2>6, <2>7
<1>4. /\ \A i, j \in 1..n : i <= j => gs[i].cookie.top <= gs[j].cookie.top
      /\ gs[1].native /\ Len(gs) >= 1
  BY <1>1
<1> QED BY <1>3, <1>4 DEF Counted

\* What the last frame says of the table.
LEMMA LastSegment ==
  ASSUME NEW T, NEW fs, Counted(T, fs)
  PROVE  LET f == Last(fs)
         IN  /\ T \in Tables /\ f \in Frames /\ f.cookie.top <= T.top
             /\ f = fs[Len(fs)] /\ fs # <<>>
             /\ Cardinality(Holes(T, f.cookie.top)) = f.cookie.holes
             /\ Cardinality(Holes(T, T.top)) = T.holes
             /\ f.cookie.top < T.top => T.slot[T.top - 1].obj # Null
             /\ f.promised + T.top <= MaxEntries
BY DEF Counted, Segment, EndOf, Last

\* The search for a hole finds one, in the current segment and below its top entry.
LEMMA HoleFound ==
  ASSUME NEW T, NEW fs, Counted(T, fs), HasHole(T, Last(fs).cookie)
  PROVE  /\ HoleIn(T) \in Last(fs).cookie.top..T.top - 2
         /\ T.slot[HoleIn(T)].obj = Null
<1> DEFINE c == Last(fs).cookie
<1>1. /\ T \in Tables /\ c.top \in Nat /\ c.top <= T.top /\ c.holes \in Nat /\ T.top \in Nat
      /\ Cardinality(Holes(T, c.top)) = c.holes /\ Cardinality(Holes(T, T.top)) = T.holes
      /\ c.top < T.top => T.slot[T.top - 1].obj # Null
  BY LastSegment DEF Tables, Frames
<1>2. PICK k \in c.top..T.top - 1 : T.slot[k].obj = Null
  BY <1>1, NoHoles DEF HasHole, Tables
<1>3. k \in c.top..T.top - 2
  BY <1>1, <1>2
<1> DEFINE H == {i \in 0..T.top - 2 : T.slot[i].obj = Null}
<1>4. k \in H /\ H \subseteq 0..T.top
  BY <1>1, <1>2, <1>3
<1>5. Max(H) \in H /\ Max(H) >= k
  <2> HIDE DEF H
  <2> QED BY <1>1, <1>4, MaxOf
<1> QED BY <1>1, <1>3, <1>5 DEF HoleIn

\* The slot that takes the object.
LEMMA FilledShape ==
  ASSUME NEW T \in Tables, NEW i \in Indices, NEW o \in Objects \cup {Null, Cleared}
  PROVE  LET S == Filled(T, i, o)
         IN  /\ S \in Tables
             /\ S.top = T.top /\ S.alloc = T.alloc /\ S.holes = T.holes
             /\ S.slot[i].obj = o /\ S.slot[i].serial = T.slot[i].serial + 1
             /\ \A k \in Indices \ {i} : S.slot[k] = T.slot[k]
<1> DEFINE x == [obj |-> o, serial |-> T.slot[i].serial + 1]
           A == [T.slot EXCEPT ![i] = x]
<1>1. x \in Slots /\ T.slot \in [Indices -> Slots]
  BY DEF Slots, Tables
<1>2. A \in [Indices -> Slots] /\ A[i] = x /\ \A k \in Indices \ {i} : A[k] = T.slot[k]
  BY <1>1
<1>3. Filled(T, i, o) = [T EXCEPT !.slot = A]
  BY DEF Filled
<1> HIDE DEF A
<1>4. [T EXCEPT !.slot = A] \in Tables /\ [T EXCEPT !.slot = A].slot = A
  BY <1>2 DEF Tables
<1> QED BY <1>2, <1>3, <1>4 DEF Tables

\* What add() does when there is a hole, and when there is none.
LEMMA AddedInHole ==
  ASSUME NEW T \in Tables, NEW c, HasHole(T, c), HoleIn(T) \in Indices, T.holes - 1 \in Nat,
         NEW o \in Objects \cup {Null, Cleared}
  PROVE  LET S == Added(T, c, o)
         IN  /\ S \in Tables
             /\ S.top = T.top /\ S.alloc = T.alloc /\ S.holes = T.holes - 1
             /\ S.slot[HoleIn(T)].obj = o /\ S.slot[HoleIn(T)].serial = T.slot[HoleIn(T)].serial + 1
             /\ \A k \in Indices \ {HoleIn(T)} : S.slot[k] = T.slot[k]
<1> DEFINE F == Filled(T, HoleIn(T), o)
<1>1. /\ F \in Tables
      /\ F.top = T.top /\ F.alloc = T.alloc /\ F.holes = T.holes
      /\ F.slot[HoleIn(T)].obj = o /\ F.slot[HoleIn(T)].serial = T.slot[HoleIn(T)].serial + 1
      /\ \A k \in Indices \ {HoleIn(T)} : F.slot[k] = T.slot[k]
  BY FilledShape
<1>2. Added(T, c, o) = [F EXCEPT !.holes = @ - 1]
  BY DEF Added, NextSlot
<1> HIDE DEF F
<1> QED BY <1>1, <1>2 DEF Tables

LEMMA AddedOnTop ==
  ASSUME NEW T \in Tables, T.top <= T.alloc, NEW c, ~HasHole(T, c), ~Full(T, c),
         NEW o \in Objects \cup {Null, Cleared}
  PROVE  LET S == Added(T, c, o)
         IN  /\ S \in Tables /\ T.top \in Indices /\ T.top < MaxEntries
             /\ S.top = T.top + 1 /\ S.top <= S.alloc /\ S.holes = T.holes
             /\ S.slot[T.top].obj = o /\ S.slot[T.top].serial = T.slot[T.top].serial + 1
             /\ \A k \in Indices \ {T.top} : S.slot[k] = T.slot[k]
<1> DEFINE F == Filled(T, T.top, o)
           a == IF Grows(T, c) THEN Min({2 * T.alloc, MaxEntries}) ELSE T.alloc
<1>1. /\ T.top \in 0..MaxEntries /\ T.alloc \in 1..MaxEntries /\ MaxEntries \in Nat
      /\ T.top \in Nat /\ T.alloc \in Nat
  BY EntriesAssumption DEF Tables
<1>2. T.top < MaxEntries
  BY <1>1 DEF Full
<1>3. T.top \in Indices
  BY <1>1, <1>2 DEF Indices
<1>4. /\ F \in Tables
      /\ F.top = T.top /\ F.alloc = T.alloc /\ F.holes = T.holes
      /\ F.slot[T.top].obj = o /\ F.slot[T.top].serial = T.slot[T.top].serial + 1
      /\ \A k \in Indices \ {T.top} : F.slot[k] = T.slot[k]
  BY <1>3, FilledShape
<1>5. a \in 1..MaxEntries /\ T.top + 1 <= a
  <2>1. Min({2 * T.alloc, MaxEntries}) = IF 2 * T.alloc <= MaxEntries THEN 2 * T.alloc
                                         ELSE MaxEntries
    BY <1>1, MinOfTwo
  <2>2. T.top = T.alloc => Grows(T, c)
    BY <1>1, <1>2 DEF Grows
  <2>3. CASE Grows(T, c)
    <3>1. 2 * T.alloc >= T.alloc + 1
      BY <1>1
    <3> QED BY <1>1, <1>2, <2>1, <2>3, <3>1
  <2>4. CASE ~Grows(T, c)
    BY <1>1, <1>2, <2>2, <2>4
  <2> QED BY <2>3, <2>4
<1>6. Added(T, c, o) = [F EXCEPT !.top = @ + 1,
                                 !.alloc = IF Grows(T, c) THEN Min({2 * @, MaxEntries}) ELSE @]
  BY DEF Added, NextSlot
<1>7. Added(T, c, o) = [F EXCEPT !.top = T.top + 1, !.alloc = a]
  <2> HIDE DEF F
  <2> QED BY <1>4, <1>6
<1>8. T.top + 1 \in 0..MaxEntries
  BY <1>1, <1>2
<1> HIDE DEF F, a
<1> QED BY <1>2, <1>3, <1>4, <1>5, <1>7, <1>8 DEF Tables

Kept(p) == IF p = 0 THEN 0 ELSE p - 1

\* A frame's promise is changed.
LEMMA PromiseShape ==
  ASSUME NEW fs \in Seq(Frames), Len(fs) >= 1, NEW p \in Nat
  PROVE  LET n  == Len(fs)
             gs == [fs EXCEPT ![n].promised = p]
         IN  /\ gs \in Seq(Frames) /\ Len(gs) = n /\ n \in Nat
             /\ \A i \in 1..n : gs[i].native = fs[i].native /\ gs[i].cookie = fs[i].cookie
             /\ \A i \in 1..n : i # n => gs[i].promised = fs[i].promised
             /\ gs[n].promised = p
<1> DEFINE n == Len(fs)
           x == [fs[n] EXCEPT !.promised = p]
           gs == [fs EXCEPT ![n] = x]
<1>1. n \in 1..Len(fs) /\ n \in Nat
  OBVIOUS
<1>2. fs[n] \in Frames
  BY <1>1, ElementOfSeq
<1>3. x \in Frames /\ x.native = fs[n].native /\ x.cookie = fs[n].cookie /\ x.promised = p
  BY <1>2 DEF Frames
<1>4. /\ gs \in Seq(Frames) /\ Len(gs) = n
      /\ \A j \in 1..n : gs[j] = IF j = n THEN x ELSE fs[j]
  <2> HIDE DEF x
  <2> QED BY <1>1, <1>3, ExceptSeq
<1>5. [fs EXCEPT ![n].promised = p] = gs
  OBVIOUS
<1> HIDE DEF x, gs
<1> QED BY <1>1, <1>3, <1>4, <1>5

\* add() keeps the counts.
LEMMA AddCounts ==
  ASSUME NEW T, NEW fs, Counted(T, fs), ~Full(T, Last(fs).cookie),
         NEW o \in Objects \cup {Cleared}
  PROVE  Counted(Added(T, Last(fs).cookie, o), [fs EXCEPT ![Len(fs)].promised = Kept(@)])
<1>1. PICK c, p, S : c = Last(fs).cookie /\ p = Last(fs).promised /\ S = Added(T, c, o)
  OBVIOUS
<1>2. /\ T \in Tables /\ c.top \in Nat /\ T.top \in Nat /\ c.top <= T.top
      /\ p \in Nat /\ T.holes \in Nat /\ c.holes \in Nat
      /\ Cardinality(Holes(T, T.top)) = T.holes
      /\ c.top < T.top => T.slot[T.top - 1].obj # Null
      /\ p + T.top <= MaxEntries /\ T.top <= T.alloc /\ T.top <= MaxEntries
      /\ MaxEntries \in Nat
  <2>1. LET f == Last(fs)
        IN  /\ T \in Tables /\ f \in Frames /\ f.cookie.top <= T.top
            /\ Cardinality(Holes(T, T.top)) = T.holes
            /\ f.cookie.top < T.top => T.slot[T.top - 1].obj # Null
            /\ f.promised + T.top <= MaxEntries
    BY LastSegment
  <2>2. T.top <= T.alloc
    BY DEF Counted
  <2> QED BY <1>1, <2>1, <2>2, EntriesAssumption DEF Tables, Frames
<1>3. o # Null
  BY ObjectAssumption
<1>4. /\ S \in Tables /\ S.top <= S.alloc /\ c.top <= S.top
      /\ \A k \in 0..c.top - 1 : S.slot[k] = T.slot[k]
      /\ c.top < S.top => S.slot[S.top - 1].obj # Null
      /\ Cardinality(Holes(S, S.top)) = S.holes
      /\ Kept(p) \in Nat /\ Kept(p) + S.top <= MaxEntries
  <2>1. CASE HasHole(T, c)
    <3>1. PICK i : i = HoleIn(T)
      OBVIOUS
    <3>2. i \in c.top..T.top - 2 /\ T.slot[i].obj = Null
      BY <1>1, <2>1, <3>1, HoleFound
    <3>3. i \in Indices /\ i \in 0..T.top - 1 /\ T.top - 1 \in Indices \ {i}
      BY <1>2, <3>2 DEF Indices
    <3>4. T.holes - 1 \in Nat
      BY <1>2, <2>1 DEF HasHole
    <3>5. /\ S \in Tables
          /\ S.top = T.top /\ S.alloc = T.alloc /\ S.holes = T.holes - 1
          /\ S.slot[i].obj = o /\ \A k \in Indices \ {i} : S.slot[k] = T.slot[k]
      BY <1>1, <1>2, <2>1, <3>1, <3>3, <3>4, AddedInHole
    <3>6. (0..T.top - 1) \ {i} \subseteq Indices \ {i}
      BY <1>2 DEF Indices
    <3>7. Cardinality(Holes(S, T.top)) = Cardinality(Holes(T, T.top)) - 1
      <4>1. \A k \in (0..T.top - 1) \ {i} : S.slot[k].obj = Null <=> T.slot[k].obj = Null
        BY <3>5, <3>6
      <4>2. S.slot[i].obj # Null
        BY <1>3, <3>5
      <4> QED BY <1>2, <3>2, <3>3, <4>1, <4>2, OneHoleLess
    <3>8. 0..c.top - 1 \subseteq Indices \ {i}
      BY <1>2, <3>2 DEF Indices
    <3>9. S.slot[S.top - 1].obj # Null
      <4>1. c.top < T.top
        BY <1>2, <3>2
      <4> QED BY <1>2, <3>3, <3>5, <4>1
    <3>10. Kept(p) \in Nat /\ Kept(p) + T.top <= MaxEntries
      BY <1>2 DEF Kept
    <3> QED BY <1>2, <3>5, <3>7, <3>8, <3>9, <3>10
  <2>2. CASE ~HasHole(T, c)
    <3>1. /\ S \in Tables /\ T.top \in Indices /\ T.top < MaxEntries
          /\ S.top = T.top + 1 /\ S.top <= S.alloc /\ S.holes = T.holes
          /\ S.slot[T.top].obj = o
          /\ \A k \in Indices \ {T.top} : S.slot[k] = T.slot[k]
      BY <1>1, <1>2, <2>2, AddedOnTop
    <3>2. 0..T.top - 1 \subseteq Indices \ {T.top}
      BY <1>2 DEF Indices
    <3>3. Holes(S, T.top + 1) = Holes(T, T.top)
      <4>1. \A k \in 0..T.top : k \in 0..T.top - 1 \/ k = T.top
        BY <1>2
      <4>2. 0..(T.top + 1) - 1 = 0..T.top /\ 0..T.top - 1 \subseteq 0..T.top
        BY <1>2
      <4> QED BY <1>3, <3>1, <3>2, <4>1, <4>2 DEF Holes
    <3>4. 0..c.top - 1 \subseteq 0..T.top - 1
      BY <1>2
    <3>5. Kept(p) \in Nat /\ Kept(p) + (T.top + 1) <= MaxEntries
      BY <1>2, <3>1 DEF Kept
    <3>6. S.slot[S.top - 1].obj # Null /\ c.top <= S.top
      BY <1>2, <1>3, <3>1
    <3> QED BY <1>2, <3>1, <3>2, <3>3, <3>4, <3>5, <3>6
  <2> QED BY <2>1, <2>2
<1>5. fs \in Seq(Frames) /\ Len(fs) >= 1
  BY DEF Counted
<1>6. PICK gs : gs = [fs EXCEPT ![Len(fs)].promised = Kept(p)]
  OBVIOUS
<1>7. /\ gs \in Seq(Frames) /\ Len(gs) = Len(fs) /\ Len(fs) \in Nat
      /\ \A i \in 1..Len(fs) : gs[i].native = fs[i].native /\ gs[i].cookie = fs[i].cookie
      /\ \A i \in 1..Len(fs) : i # Len(fs) => gs[i].promised = fs[i].promised
      /\ gs[Len(fs)].promised = Kept(p)
  BY <1>4, <1>5, <1>6, PromiseShape
<1>8. c = fs[Len(fs)].cookie
  BY <1>1 DEF Last
<1>9. Counted(S, gs)
  BY <1>4, <1>7, <1>8, Reshaped
<1>10. [fs EXCEPT ![Len(fs)].promised = Kept(@)] = gs
  BY <1>1, <1>6 DEF Last
<1> QED BY <1>1, <1>9, <1>10

\* A frame is entered.
LEMMA PushCounts ==
  ASSUME NEW T, NEW fs, Counted(T, fs), NEW native \in BOOLEAN,
         NEW p \in Nat, p + T.top <= MaxEntries
  PROVE  Counted(T, Append(fs, Frame(native, [top |-> T.top, holes |-> T.holes], p)))
<1> DEFINE f == Frame(native, [top |-> T.top, holes |-> T.holes], p)
           gs == Append(fs, f)
           n == Len(fs)
<1>1. /\ T \in Tables /\ fs \in Seq(Frames) /\ n >= 1 /\ fs[1].native /\ T.top <= T.alloc
      /\ \A i, j \in 1..n : i <= j => fs[i].cookie.top <= fs[j].cookie.top
      /\ \A i \in 1..n : Segment(T, fs, i)
      /\ Cardinality(Holes(T, T.top)) = T.holes
  BY DEF Counted
<1>2. T.top \in 0..MaxEntries /\ T.holes \in Nat /\ MaxEntries \in Nat
  BY <1>1, EntriesAssumption DEF Tables
<1>3. f \in Frames /\ f.cookie.top = T.top /\ f.cookie.holes = T.holes /\ f.promised = p
  BY <1>2 DEF Frame, Frames
<1>4. /\ gs \in Seq(Frames) /\ Len(gs) = n + 1 /\ n \in Nat
      /\ \A i \in 1..n : gs[i] = fs[i]
      /\ gs[n + 1] = f
  <2> HIDE DEF f
  <2> QED BY <1>1, <1>3, AppendProperties
<1> HIDE DEF f, gs
<1>5. \A i \in 1..n : fs[i].cookie.top \in Nat
  <2>1. \A i \in 1..n : fs[i] \in Frames
    BY <1>1
  <2> QED BY <2>1 DEF Frames
<1>6. \A i \in 1..n : fs[i].cookie.top <= T.top
  <2>1. fs[n].cookie.top <= T.top
    BY <1>1, <1>4 DEF Segment, EndOf
  <2> QED BY <1>1, <1>2, <1>4, <1>5, <2>1
<1>7. ASSUME NEW i \in 1..n + 1 PROVE Segment(T, gs, i)
  <2>1. CASE i = n + 1
    <3>1. EndOf(T, gs, i) = T.top /\ gs[i] = f
      BY <1>4, <2>1 DEF EndOf
    <3> QED BY <1>1, <1>2, <1>3, <3>1 DEF Segment
  <2>2. CASE i # n + 1
    <3>1. i \in 1..n /\ gs[i] = fs[i] /\ Segment(T, fs, i)
      BY <1>1, <1>4, <2>2
    <3>2. EndOf(T, gs, i) = EndOf(T, fs, i)
      <4>1. CASE i = n
        BY <1>3, <1>4, <4>1 DEF EndOf
      <4>2. CASE i # n
        <5>1. i + 1 \in 1..n /\ i # Len(gs)
          BY <1>4, <3>1, <4>2
        <5> QED BY <1>4, <4>2, <5>1 DEF EndOf
      <4> QED BY <4>1, <4>2
    <3> QED BY <3>1, <3>2 DEF Segment
  <2> QED BY <2>1, <2>2
<1>8. ASSUME NEW i \in 1..n + 1, NEW j \in 1..n + 1, i <= j
      PROVE  gs[i].cookie.top <= gs[j].cookie.top
  <2>1. CASE j = n + 1
    <3>1. i = n + 1 \/ i \in 1..n
      BY <1>4
    <3> QED BY <1>2, <1>3, <1>4, <1>6, <2>1, <3>1
  <2>2. CASE j # n + 1
    <3>1. i \in 1..n /\ j \in 1..n
      BY <1>4, <1>8, <2>2
    <3> QED BY <1>1, <1>4, <1>8, <3>1
  <2> QED BY <2>1, <2>2
<1>9. gs[1].native /\ Len(gs) >= 1
  BY <1>1, <1>4
<1>10. Counted(T, gs)
  BY <1>1, <1>4, <1>7, <1>8, <1>9 DEF Counted
<1> QED BY <1>10 DEF gs, f

\* The frames from the m-th on are left.
LEMMA PopCounts ==
  ASSUME NEW T, NEW fs, Counted(T, fs), NEW m \in 2..Len(fs)
  PROVE  Counted([T EXCEPT !.top = fs[m].cookie.top, !.holes = fs[m].cookie.holes],
                 SubSeq(fs, 1, m - 1))
<1> DEFINE c == fs[m].cookie
           S == [T EXCEPT !.top = c.top, !.holes = c.holes]
           gs == SubSeq(fs, 1, m - 1)
           n == Len(fs)
<1>1. /\ T \in Tables /\ fs \in Seq(Frames) /\ n \in Nat /\ fs[1].native /\ T.top <= T.alloc
      /\ \A i, j \in 1..n : i <= j => fs[i].cookie.top <= fs[j].cookie.top
      /\ \A i \in 1..n : Segment(T, fs, i)
  BY DEF Counted
<1>2. \A i \in 1..n : fs[i] \in Frames
  BY <1>1
<1>3. m \in 1..n /\ m \in Nat /\ n \in 1..n /\ m - 1 \in 1..n
  BY <1>1
<1>4. c.top \in 0..MaxEntries /\ c.holes \in Nat
  BY <1>2, <1>3 DEF Frames
<1>5. c.top <= T.top
  <2>1. fs[n].cookie.top <= T.top
    BY <1>1, <1>3 DEF Segment, EndOf
  <2>2. c.top <= fs[n].cookie.top
    BY <1>1, <1>3
  <2>3. fs[n].cookie.top \in Nat /\ T.top \in Nat /\ c.top \in Nat
    <3>1. fs[n] \in Frames
      BY <1>2, <1>3
    <3>2. fs[n].cookie.top \in 0..MaxEntries
      BY <3>1 DEF Frames
    <3>3. T.top \in 0..MaxEntries
      BY <1>1 DEF Tables
    <3> QED BY <1>4, <3>2, <3>3
  <2> QED BY <2>1, <2>2, <2>3
<1>6. S \in Tables /\ S.top = c.top /\ S.holes = c.holes /\ S.slot = T.slot /\ S.alloc = T.alloc
  BY <1>1, <1>4 DEF Tables
<1>7. S.top <= S.alloc
  BY <1>1, <1>4, <1>5, <1>6 DEF Tables
<1>8. /\ gs \in Seq(Frames) /\ Len(gs) = m - 1
      /\ \A i \in 1..m - 1 : gs[i] = fs[i]
  <2>1. \A i \in 1..m - 1 : fs[i] \in Frames
    BY <1>2, <1>3
  <2>2. /\ gs \in Seq(Frames) /\ Len(gs) = IF 1 <= m - 1 THEN (m - 1) - 1 + 1 ELSE 0
        /\ \A i \in 1..(m - 1) - 1 + 1 : gs[i] = fs[1 + i - 1]
    BY <1>3, <2>1, SubSeqProperties
  <2>3. 1 <= m - 1 /\ (m - 1) - 1 + 1 = m - 1 /\ \A i \in 1..m - 1 : 1 + i - 1 = i
    BY <1>3
  <2> QED BY <2>2, <2>3
<1> HIDE DEF S, gs
<1>9. \A k, a : Holes(S, a) = Holes(T, a)
  BY <1>6 DEF Holes
<1>10. ASSUME NEW i \in 1..m - 1 PROVE Segment(S, gs, i)
  <2>1. i \in 1..n /\ i + 1 \in 1..n /\ i # n /\ Segment(T, fs, i) /\ gs[i] = fs[i]
    <3>1. i \in 1..n /\ i + 1 \in 1..n /\ i # n
      BY <1>3
    <3> QED BY <1>1, <1>8, <3>1
  <2>2. EndOf(T, fs, i) = fs[i + 1].cookie.top
    BY <2>1 DEF EndOf
  <2>3. EndOf(S, gs, i) = fs[i + 1].cookie.top
    <3>1. CASE i = m - 1
      BY <1>3, <1>6, <1>8, <3>1 DEF EndOf
    <3>2. CASE i # m - 1
      <4>1. i + 1 \in 1..m - 1
        BY <1>3, <3>2
      <4> QED BY <1>8, <3>2, <4>1 DEF EndOf
    <3> QED BY <3>1, <3>2
  <2> QED BY <1>6, <1>9, <2>1, <2>2, <2>3 DEF Segment
<1>11. Cardinality(Holes(S, S.top)) = S.holes
  BY <1>1, <1>3, <1>6, <1>9 DEF Segment
<1>12. /\ \A i, j \in 1..m - 1 : i <= j => gs[i].cookie.top <= gs[j].cookie.top
       /\ gs[1].native /\ Len(gs) >= 1
  <2>1. \A i \in 1..m - 1 : i \in 1..n
    BY <1>3
  <2> QED BY <1>1, <1>3, <1>8, <2>1
<1>13. Counted(S, gs)
  BY <1>6, <1>7, <1>8, <1>10, <1>11, <1>12 DEF Counted
<1> QED BY <1>13 DEF S, gs

\* EnsureLocalCapacity() keeps the counts, whatever it promises.
LEMMA EnsureCounts ==
  ASSUME NEW T, NEW fs, Counted(T, fs), NEW p \in Nat, p + T.top <= MaxEntries
  PROVE  Counted(T, [fs EXCEPT ![Len(fs)].promised = p])
<1>1. /\ T \in Tables /\ T.top <= T.alloc /\ fs \in Seq(Frames) /\ Len(fs) >= 1
      /\ Cardinality(Holes(T, T.top)) = T.holes
  BY DEF Counted
<1>2. PICK gs : gs = [fs EXCEPT ![Len(fs)].promised = p]
  OBVIOUS
<1>3. /\ gs \in Seq(Frames) /\ Len(gs) = Len(fs) /\ Len(fs) \in Nat
      /\ \A i \in 1..Len(fs) : gs[i].native = fs[i].native /\ gs[i].cookie = fs[i].cookie
      /\ \A i \in 1..Len(fs) : i # Len(fs) => gs[i].promised = fs[i].promised
      /\ gs[Len(fs)].promised = p
  BY <1>1, <1>2, PromiseShape
<1>4. PICK c : c = fs[Len(fs)].cookie
  OBVIOUS
<1>5. c.top <= T.top /\ (c.top < T.top => T.slot[T.top - 1].obj # Null)
  BY <1>4, LastSegment
<1>6. Counted(T, gs)
  BY <1>1, <1>3, <1>4, <1>5, Reshaped
<1> QED BY <1>2, <1>6

\* The table changes in its current segment only, and the frames do not.
LEMMA Retabled ==
  ASSUME NEW T, NEW fs, Counted(T, fs), NEW S \in Tables, S.top <= S.alloc, S.top <= T.top,
         NEW c, c = Last(fs).cookie,
         \A k \in 0..c.top - 1 : S.slot[k].obj = Null <=> T.slot[k].obj = Null,
         c.top <= S.top,
         c.top < S.top => S.slot[S.top - 1].obj # Null,
         Cardinality(Holes(S, S.top)) = S.holes
  PROVE  Counted(S, fs)
<1>1. fs \in Seq(Frames) /\ Len(fs) \in Nat /\ T \in Tables
  BY DEF Counted
<1>2. c = fs[Len(fs)].cookie
  BY DEF Last
<1>3. fs[Len(fs)].promised + S.top <= MaxEntries
  <2>1. LET f == Last(fs)
        IN  f \in Frames /\ f.promised + T.top <= MaxEntries
    BY LastSegment
  <2> QED BY <1>1, <2>1, EntriesAssumption DEF Last, Frames, Tables
<1> QED BY <1>1, <1>2, <1>3, Reshaped

\* What is deleted is in the current segment.
LEMMA PlacesInSegment ==
  ASSUME NEW T, NEW c, c.top \in Nat, T.top \in Nat, NEW j, NEW i \in Places(T, c, j)
  PROVE  i \in c.top..T.top - 1 /\ T.slot[i].obj # Null
<1> DEFINE segment == {k \in c.top..T.top - 1 : T.slot[k].obj # Null}
           bare    == {k \in segment : T.slot[k].obj = j}
<1>1. CASE ~Bare
  BY <1>1 DEF Places
<1>2. CASE Bare
  <2>1. bare # {} /\ i = Min(bare)
    BY <1>2 DEF Places
  <2>2. bare \subseteq 0..T.top
    OBVIOUS
  <2>3. i \in bare
    <3> HIDE DEF bare
    <3> QED BY <2>1, <2>2, MinOf
  <2> QED BY <2>3
<1> QED BY <1>1, <1>2

\* remove() keeps the counts.
LEMMA RemoveCounts ==
  ASSUME NEW T, NEW fs, Counted(T, fs), NEW j, NEW i \in Places(T, Last(fs).cookie, j)
  PROVE  Counted(Removed(T, Last(fs).cookie, i), fs)
<1>1. PICK c, S : c = Last(fs).cookie /\ S = Removed(T, c, i)
  OBVIOUS
<1>2. /\ T \in Tables /\ c.top \in Nat /\ T.top \in Nat /\ c.top <= T.top
      /\ T.holes \in Nat /\ c.holes \in Nat /\ T.top <= T.alloc /\ T.top <= MaxEntries
      /\ Cardinality(Holes(T, T.top)) = T.holes
      /\ Cardinality(Holes(T, c.top)) = c.holes
      /\ c.top < T.top => T.slot[T.top - 1].obj # Null
      /\ MaxEntries \in Nat /\ T.alloc \in 1..MaxEntries
  <2>1. LET f == Last(fs)
        IN  /\ T \in Tables /\ f \in Frames /\ f.cookie.top <= T.top
            /\ Cardinality(Holes(T, T.top)) = T.holes
            /\ Cardinality(Holes(T, f.cookie.top)) = f.cookie.holes
            /\ f.cookie.top < T.top => T.slot[T.top - 1].obj # Null
    BY LastSegment
  <2>2. T.top <= T.alloc
    BY DEF Counted
  <2> QED BY <1>1, <2>1, <2>2, EntriesAssumption DEF Tables, Frames
<1>3. i \in c.top..T.top - 1 /\ T.slot[i].obj # Null
  BY <1>1, <1>2, PlacesInSegment
<1>4. CASE i = T.top - 1
  <2> DEFINE stop(t) == t = c.top \/ T.slot[t - 1].obj # Null
                                 \/ T.top - 1 - t = T.holes - c.holes
             stops == {t \in c.top..T.top - 1 : stop(t)}
  <2>1. PICK e : e = Max(stops)
    OBVIOUS
  <2>2. S = [T EXCEPT !.top = e, !.holes = @ - (T.top - 1 - e)]
    BY <1>1, <1>4, <2>1 DEF Removed
  <2>3. e \in stops /\ \A t \in stops : e >= t
    <3>1. c.top \in stops /\ stops \subseteq 0..T.top
      BY <1>2, <1>3
    <3> HIDE DEF stops
    <3> QED BY <1>2, <2>1, <3>1, MaxOf
  <2>4. e \in c.top..T.top - 1 /\ stop(e) /\ e \in Nat
    BY <1>2, <2>3
  <2>5. \A k \in e..(T.top - 1) - 1 : T.slot[k].obj = Null
    <3> SUFFICES ASSUME NEW k \in e..(T.top - 1) - 1, T.slot[k].obj # Null PROVE FALSE
      OBVIOUS
    <3>1. k + 1 \in c.top..T.top - 1 /\ (k + 1) - 1 = k /\ ~(e >= k + 1)
      BY <1>2, <2>4
    <3>2. k + 1 \in stops
      BY <3>1
    <3> QED BY <2>3, <3>1, <3>2
  <2>6. Cardinality(Holes(T, T.top - 1)) = Cardinality(Holes(T, e)) + (T.top - 1 - e)
    <3>1. T.top - 1 \in Nat /\ e <= T.top - 1
      BY <1>2, <2>4
    <3> QED BY <2>4, <2>5, <3>1, AllHoles
  <2>7. Holes(T, T.top - 1) = Holes(T, T.top)
    <3>1. T.slot[T.top - 1].obj # Null
      BY <1>3, <1>4
    <3>2. \A k : k \in 0..T.top - 1 <=> k \in 0..(T.top - 1) - 1 \/ k = T.top - 1
      BY <1>2, <1>3
    <3> QED BY <3>1, <3>2 DEF Holes
  <2>8. Cardinality(Holes(T, e)) \in Nat
    BY <2>4, HolesFinite
  <2>9. T.holes - (T.top - 1 - e) = Cardinality(Holes(T, e))
    BY <1>2, <2>4, <2>6, <2>7, <2>8
  <2>10. e \in 0..MaxEntries
    BY <1>2, <2>4
  <2>11. /\ S \in Tables /\ S.top = e /\ S.holes = Cardinality(Holes(T, e))
         /\ S.slot = T.slot /\ S.alloc = T.alloc
    BY <1>2, <2>2, <2>8, <2>9, <2>10 DEF Tables
  <2>12. S.top <= S.alloc /\ S.top <= T.top
    BY <1>2, <2>4, <2>11
  <2>13. Cardinality(Holes(S, S.top)) = S.holes
    BY <2>11 DEF Holes
  <2>14. c.top < e => T.slot[e - 1].obj # Null
    <3> SUFFICES ASSUME c.top < e, T.slot[e - 1].obj = Null PROVE FALSE
      OBVIOUS
    <3>1. T.top - 1 - e = T.holes - c.holes
      BY <1>2, <2>4
    <3>2. Cardinality(Holes(T, e)) = Cardinality(Holes(T, c.top))
      BY <1>2, <2>4, <2>8, <2>9, <3>1
    <3>3. \A k \in c.top..e - 1 : T.slot[k].obj # Null
      BY <1>2, <2>4, <3>2, NoHoles
    <3>4. e - 1 \in c.top..e - 1
      BY <1>2, <2>4
    <3> QED BY <3>3, <3>4
  <2>15. Counted(S, fs)
    <3> HIDE DEF stops, stop
    <3>1. c.top <= S.top
      BY <1>2, <2>4, <2>11
    <3> QED BY <1>1, <2>11, <2>12, <2>13, <2>14, <3>1, Retabled
  <2> QED BY <1>1, <2>15
<1>5. CASE i # T.top - 1
  <2>1. i \in Indices /\ i \in 0..T.top - 1 /\ T.top - 1 \in Indices \ {i}
    BY <1>2, <1>3, <1>5 DEF Indices
  <2> DEFINE x == [T.slot[i] EXCEPT !.obj = Null]
             A == [T.slot EXCEPT ![i] = x]
  <2>2. T.slot \in [Indices -> Slots] /\ T.slot[i] \in Slots
    BY <1>2, <2>1 DEF Tables
  <2>3. x \in Slots /\ x.obj = Null
    BY <2>2 DEF Slots
  <2>4. A \in [Indices -> Slots] /\ A[i].obj = Null /\ \A k \in Indices \ {i} : A[k] = T.slot[k]
    <3> HIDE DEF x
    <3> QED BY <2>1, <2>2, <2>3
  <2>5. S = [T EXCEPT !.slot = A, !.holes = @ + 1]
    BY <1>1, <1>5 DEF Removed
  <2> HIDE DEF A
  <2>6. /\ S \in Tables /\ S.top = T.top /\ S.alloc = T.alloc /\ S.holes = T.holes + 1
        /\ S.slot = A
    <3>1. T.holes + 1 \in Nat /\ A \in [Indices -> Slots]
      BY <1>2, <2>4
    <3> QED BY <1>2, <2>5, <3>1 DEF Tables
  <2>7. (0..T.top - 1) \ {i} \subseteq Indices \ {i} /\ 0..c.top - 1 \subseteq Indices \ {i}
    BY <1>2, <1>3 DEF Indices
  <2>8. Cardinality(Holes(T, T.top)) = Cardinality(Holes(S, T.top)) - 1
    <3>1. \A k \in (0..T.top - 1) \ {i} : T.slot[k].obj = Null <=> S.slot[k].obj = Null
      BY <2>4, <2>6, <2>7
    <3> QED BY <1>2, <1>3, <2>1, <2>4, <2>6, <3>1, OneHoleLess
  <2>9. Cardinality(Holes(S, S.top)) = S.holes
    <3>1. Cardinality(Holes(S, T.top)) \in Nat
      BY <1>2, HolesFinite
    <3> QED BY <1>2, <2>6, <2>8, <3>1
  <2>10. \A k \in 0..c.top - 1 : S.slot[k].obj = Null <=> T.slot[k].obj = Null
    BY <2>4, <2>6, <2>7
  <2>11. c.top < S.top => S.slot[S.top - 1].obj # Null
    BY <1>2, <2>1, <2>4, <2>6
  <2>12. Counted(S, fs)
    BY <1>1, <1>2, <2>6, <2>9, <2>10, <2>11, Retabled
  <2> QED BY <1>1, <2>12
<1> QED BY <1>4, <1>5

\* sweepWeakJniGlobals() clears references, and makes no holes.
Swept(T, dead) ==
  [T EXCEPT !.slot =
    [i \in Indices |-> IF i < T.top /\ @[i].obj \in dead
                       THEN [@[i] EXCEPT !.obj = Cleared] ELSE @[i]]]
LEMMA SweepCounts ==
  ASSUME NEW T, NEW fs, Counted(T, fs), NEW dead \in SUBSET Objects
  PROVE  Counted(Swept(T, dead), fs)
<1> DEFINE A == [i \in Indices |-> IF i < T.top /\ T.slot[i].obj \in dead
                                   THEN [T.slot[i] EXCEPT !.obj = Cleared] ELSE T.slot[i]]
<1>1. PICK S, c : S = Swept(T, dead) /\ c = Last(fs).cookie
  OBVIOUS
<1>2. /\ T \in Tables /\ c.top \in Nat /\ T.top \in Nat /\ c.top <= T.top
      /\ T.top <= T.alloc /\ T.top <= MaxEntries /\ MaxEntries \in Nat
      /\ Cardinality(Holes(T, T.top)) = T.holes
      /\ c.top < T.top => T.slot[T.top - 1].obj # Null
  <2>1. LET f == Last(fs)
        IN  /\ T \in Tables /\ f \in Frames /\ f.cookie.top <= T.top
            /\ Cardinality(Holes(T, T.top)) = T.holes
            /\ f.cookie.top < T.top => T.slot[T.top - 1].obj # Null
    BY LastSegment
  <2>2. T.top <= T.alloc
    BY DEF Counted
  <2> QED BY <1>1, <2>1, <2>2, EntriesAssumption DEF Tables, Frames
<1>3. T.slot \in [Indices -> Slots]
  BY <1>2 DEF Tables
<1>4. A \in [Indices -> Slots] /\ \A k \in Indices : A[k].obj = Null <=> T.slot[k].obj = Null
  BY <1>3, ObjectAssumption DEF Slots
<1>5. S = [T EXCEPT !.slot = A]
  BY <1>1 DEF Swept
<1> HIDE DEF A
<1>6. /\ S \in Tables /\ S.top = T.top /\ S.alloc = T.alloc /\ S.holes = T.holes /\ S.slot = A
  BY <1>2, <1>4, <1>5 DEF Tables
<1>7. 0..T.top - 1 \subseteq Indices /\ 0..c.top - 1 \subseteq Indices
  BY <1>2 DEF Indices
<1>8. Holes(S, T.top) = Holes(T, T.top)
  BY <1>4, <1>6, <1>7 DEF Holes
<1>9. c.top < S.top => S.slot[S.top - 1].obj # Null
  <2>1. c.top < T.top => T.top - 1 \in Indices
    BY <1>2 DEF Indices
  <2> QED BY <1>2, <1>4, <1>6, <2>1
<1>10. Counted(S, fs)
  BY <1>1, <1>2, <1>4, <1>6, <1>7, <1>8, <1>9, Retabled
<1> QED BY <1>1, <1>10

-----------------------------------------------------------------------------
(* The calls of native code.                                               *)
CONSTANTS ReallocFails, MaxDepth

Table == INSTANCE IndirectRefTable

\* The table's operators under the names they have in the calls.
LEMMA SameExtrema ==
  ASSUME NEW S
  PROVE  Table!Max(S) = Max(S) /\ Table!Min(S) = Min(S)
BY DEF Table!Max, Max, Table!Min, Min

LEMMA SameAdd ==
  ASSUME NEW T, NEW c, NEW o
  PROVE  (Table!Full(T, c) <=> Full(T, c)) /\ Table!Added(T, c, o) = Added(T, c, o)
<1>1. Table!HoleIn(T) = HoleIn(T)
  BY SameExtrema DEF Table!HoleIn, HoleIn
<1>2. Table!HasHole(T, c) <=> HasHole(T, c)
  BY DEF Table!HasHole, HasHole
<1>3. Table!NextSlot(T, c) = NextSlot(T, c)
  BY <1>1, <1>2 DEF Table!NextSlot, NextSlot
<1>4. /\ Table!Full(T, c) <=> Full(T, c)
      /\ Table!Grows(T, c) <=> Grows(T, c)
  BY <1>2 DEF Table!Full, Full, Table!Grows, Grows
<1>5. \A i : Table!Filled(T, i, o) = Filled(T, i, o)
  BY DEF Table!Filled, Filled
<1>6. \A a : Table!Min(a) = Min(a)
  BY SameExtrema
<1>7. Table!Added(T, c, o) = Added(T, c, o)
  <2> DEFINE S == Filled(T, NextSlot(T, c), o)
  <2>1. Table!Added(T, c, o) =
          IF HasHole(T, c) THEN [S EXCEPT !.holes = @ - 1]
          ELSE [S EXCEPT !.top = @ + 1,
                         !.alloc = IF Grows(T, c) THEN Min({2 * @, MaxEntries}) ELSE @]
    BY <1>2, <1>3, <1>4, <1>5, <1>6 DEF Table!Added
  <2> QED BY <2>1 DEF Added
<1> QED BY <1>4, <1>7

LEMMA SameRemove ==
  ASSUME NEW T, NEW c, NEW j, NEW i
  PROVE  Table!Places(T, c, j) = Places(T, c, j) /\ Table!Removed(T, c, i) = Removed(T, c, i)
<1>1. \A a : Table!Min(a) = Min(a) /\ Table!Max(a) = Max(a)
  BY SameExtrema
<1>2. Table!Places(T, c, j) = Places(T, c, j)
  BY <1>1 DEF Table!Places, Places, Table!Bare, Bare
<1>3. Table!Removed(T, c, i) = Removed(T, c, i)
  BY <1>1 DEF Table!Removed, Removed
<1> QED BY <1>2, <1>3

TableInv == Counted(table, frames)

\* A call that only fails, or only looks, changes nothing.
LEMMA StopsCounts ==
  ASSUME TableInv, UNCHANGED <<table, frames>>
  PROVE  TableInv'
BY DEF TableInv, Counted, Segment, EndOf, Holes, Tables, Frames

LEMMA AddsCounts ==
  ASSUME TableInv, NEW T, NEW fs, Counted(T, fs), NEW o \in Objects \cup {Cleared},
         NEW name, NEW j, Table!Adds(name, j, T, fs, o)
  PROVE  TableInv'
<1>1. CASE UNCHANGED <<table, frames>>
  BY <1>1, StopsCounts
<1>2. CASE /\ ~Table!Full(T, Table!Last(fs).cookie)
           /\ table' = Table!Added(T, Table!Last(fs).cookie, o)
           /\ frames' = [fs EXCEPT ![Len(fs)].promised = IF @ = 0 THEN 0 ELSE @ - 1]
  <2>1. Table!Last(fs) = Last(fs)
    BY DEF Table!Last, Last
  <2>2. ~Full(T, Last(fs).cookie) /\ table' = Added(T, Last(fs).cookie, o)
    BY <1>2, <2>1, SameAdd
  <2>3. frames' = [fs EXCEPT ![Len(fs)].promised = Kept(@)]
    BY <1>2 DEF Kept
  <2> QED BY <2>2, <2>3, AddCounts DEF TableInv
<1> QED BY <1>1, <1>2 DEF Table!Adds, Table!Stops

LEMMA AddsNamed ==
  ASSUME NEW T, NEW fs, NEW o, NEW name, NEW j, Table!Adds(name, j, T, fs, o)
  PROVE  call'[1] = name
BY DEF Table!Adds, Table!Stops

\* What a reference yields is an object, or null.
LEMMA DecodedIsObject ==
  ASSUME TableInv, NEW j \in Table!Names, NEW o \in Table!Decoded(j), o # Null
  PROVE  o \in Objects \cup {Cleared}
<1>1. table \in Tables /\ table.top \in Nat /\ table.top <= MaxEntries /\ MaxEntries \in Nat
  BY EntriesAssumption DEF TableInv, Counted, Tables
<1>2. j # Null
  BY DEF Table!Decoded
<1>3. CASE Table!Bare
  BY <1>2, <1>3 DEF Table!Decoded, Table!Names
<1>4. CASE ~Table!Bare
  <2>1. PICK x \in Table!Found(table, j) : o = IF x = Cleared THEN Null ELSE x
    BY <1>2, <1>4 DEF Table!Decoded
  <2>2. PICK k \in 0..table.top - 1 : x = table.slot[k].obj
    BY <2>1 DEF Table!Found
  <2>3. k \in Indices
    BY <1>1, <2>2 DEF Indices
  <2>4. table.slot[k] \in Slots
    BY <1>1, <2>3 DEF Tables
  <2> QED BY <2>1, <2>2, <2>4 DEF Slots
<1> QED BY <1>3, <1>4

LEMMA TableInit == Table!Init => TableInv
<1> SUFFICES ASSUME Table!Init PROVE TableInv
  OBVIOUS
<1> DEFINE f == Frame(TRUE, [top |-> 0, holes |-> 0], 0)
<1>1. frames = <<f>>
  BY DEF Table!Init, Table!Frame, Frame
<1>2. MaxEntries \in Nat /\ Initial \in 1..MaxEntries
  BY EntriesAssumption
<1>3. f \in Frames /\ f.native /\ f.cookie.top = 0 /\ f.cookie.holes = 0 /\ f.promised = 0
  BY <1>2 DEF Frame, Frames
<1>4. /\ frames \in Seq(Frames) /\ Len(frames) = 1 /\ frames[1] = f
  <2> HIDE DEF f
  <2> QED BY <1>1, <1>3
<1>5. /\ table.slot = [i \in Indices |-> [obj |-> Null, serial |-> 0]]
      /\ table = [slot |-> table.slot, alloc |-> Initial, top |-> 0, holes |-> 0]
  <2>1. PICK A : A = [i \in Indices |-> [obj |-> Null, serial |-> 0]]
    OBVIOUS
  <2>2. table = [slot |-> A, alloc |-> Initial, top |-> 0, holes |-> 0]
    BY <2>1 DEF Table!Init, Table!Indices, Indices
  <2> QED BY <2>1, <2>2
<1>6. [obj |-> Null, serial |-> 0] \in Slots
  BY DEF Slots
<1>7. table.slot \in [Indices -> Slots]
  BY <1>5, <1>6
<1>8. table \in Tables /\ table.top = 0 /\ table.alloc = Initial /\ table.holes = 0
  BY <1>2, <1>5, <1>7 DEF Tables
<1>9. Cardinality(Holes(table, 0)) = 0
  <2>1. Holes(table, 0) = {}
    BY DEF Holes
  <2> QED BY <2>1, FS_EmptySet
<1> HIDE DEF f
<1>10. \A i \in 1..1 : i = 1
  OBVIOUS
<1>11. EndOf(table, frames, 1) = 0
  BY <1>4, <1>8 DEF EndOf
<1>12. Segment(table, frames, 1)
  BY <1>2, <1>3, <1>4, <1>9, <1>11 DEF Segment
<1> QED BY <1>2, <1>3, <1>4, <1>8, <1>9, <1>10, <1>12 DEF TableInv, Counted

\* NewLocalRef() and the like.
LEMMA NewRefCounts ==
  ASSUME TableInv, NEW o \in Objects, Table!NewRef(o)
  PROVE  TableInv'
<1>1. Table!Adds("New", o, table, frames, o)
  BY DEF Table!NewRef
<1> QED BY <1>1, AddsCounts DEF TableInv

LEMMA DeleteRefCounts ==
  ASSUME TableInv, NEW j, Table!DeleteRef(j)
  PROVE  TableInv'
<1> DEFINE c == Last(frames).cookie
<1>1. Table!Last(frames) = Last(frames)
  BY DEF Table!Last, Last
<1>2. /\ frames' = frames
      /\ table' = table \/ \E i \in Places(table, c, j) : table' = Removed(table, c, i)
  BY <1>1, SameRemove DEF Table!DeleteRef
<1>3. CASE table' = table
  BY <1>2, <1>3, StopsCounts
<1>4. ASSUME NEW i \in Places(table, c, j), table' = Removed(table, c, i)
      PROVE  TableInv'
  BY <1>2, <1>4, RemoveCounts DEF TableInv
<1> QED BY <1>2, <1>3, <1>4

LEMMA DecodeCounts ==
  ASSUME TableInv, NEW j, Table!Decode(j)
  PROVE  TableInv'
BY StopsCounts DEF Table!Decode, Table!Misused, Table!Stops

\* The frames are entered.
LEMMA CookieShape ==
  ASSUME TableInv, NEW native \in BOOLEAN, NEW n
  PROVE  Table!Frame(native, Table!Cookie, n)
           = Frame(native, [top |-> table.top, holes |-> table.holes], n)
BY DEF Table!Frame, Frame, Table!Cookie

LEMMA RoomOK ==
  ASSUME TableInv, NEW n \in Capacities
  PROVE  /\ n \in Nat /\ 0 + table.top <= MaxEntries
         /\ Table!EnsureLocalCapacity(n) => n + table.top <= MaxEntries
<1>1. table.top \in 0..MaxEntries /\ MaxEntries \in Nat /\ n \in Nat
  BY EntriesAssumption, CapacityAssumption DEF TableInv, Counted, Tables
<1> QED BY <1>1 DEF Table!EnsureLocalCapacity

LEMMA CallNativeCounts ==
  ASSUME TableInv, NEW o \in Objects, Table!CallNative(o)
  PROVE  TableInv'
<1> DEFINE fs == Append(frames, Frame(TRUE, [top |-> table.top, holes |-> table.holes], 0))
<1>1. Table!Adds("Enter", o, table, fs, o)
  BY CookieShape DEF Table!CallNative
<1>2. table.top \in 0..MaxEntries /\ MaxEntries \in Nat
  BY EntriesAssumption DEF TableInv, Counted, Tables
<1>3. Counted(table, fs)
  <2>1. 0 + table.top <= MaxEntries
    BY <1>2
  <2> QED BY <2>1, PushCounts DEF TableInv
<1> HIDE DEF fs
<1> QED BY <1>1, <1>3, AddsCounts

LEMMA EnsureStepCounts ==
  ASSUME TableInv, NEW n \in Capacities, Table!Ensure(n)
  PROVE  TableInv'
<1>1. CASE ~Table!EnsureLocalCapacity(n)
  BY <1>1, StopsCounts DEF Table!Ensure
<1>2. CASE Table!EnsureLocalCapacity(n)
  <2>1. PICK p : p = frames[Len(frames)].promised
    OBVIOUS
  <2>2. p \in Nat /\ p + table.top <= MaxEntries
    <3>1. LET f == Last(frames)
          IN  f \in Frames /\ f.promised + table.top <= MaxEntries
      BY LastSegment DEF TableInv
    <3> QED BY <2>1, <3>1 DEF Last, Frames
  <2>3. PICK q : q = Table!Max({p, n})
    OBVIOUS
  <2>4. q = IF p >= n THEN p ELSE n
    BY <2>2, <2>3, RoomOK, SameExtrema, MaxOfTwo
  <2>5. q \in Nat /\ q + table.top <= MaxEntries
    BY <1>2, <2>2, <2>4, RoomOK
  <2>6. frames' = [frames EXCEPT ![Len(frames)].promised = q] /\ table' = table
    BY <1>2, <2>1, <2>3 DEF Table!Ensure
  <2> QED BY <2>5, <2>6, EnsureCounts DEF TableInv
<1> QED BY <1>1, <1>2

LEMMA PushLocalFrameCounts ==
  ASSUME TableInv, NEW n \in Capacities, Table!PushLocalFrame(n)
  PROVE  TableInv'
<1>1. CASE ~Table!EnsureLocalCapacity(n)
  BY <1>1, StopsCounts DEF Table!PushLocalFrame
<1>2. CASE Table!EnsureLocalCapacity(n)
  <2>1. /\ frames' = Append(frames, Frame(FALSE, [top |-> table.top, holes |-> table.holes], n))
        /\ table' = table
    BY <1>2, CookieShape DEF Table!PushLocalFrame
  <2>2. n \in Nat /\ n + table.top <= MaxEntries
    BY <1>2, RoomOK
  <2> QED BY <2>1, <2>2, PushCounts DEF TableInv
<1> QED BY <1>1, <1>2

\* And left.
LEMMA PopLocalFrameCounts ==
  ASSUME TableInv, NEW j \in Table!Names, Table!PopLocalFrame(j)
  PROVE  TableInv'
<1> DEFINE f == Last(frames)
<1>1. PICK T, fs : /\ T = IF f.native THEN table ELSE Table!Popped(f.cookie)
                   /\ fs = IF f.native THEN frames ELSE Table!Front(frames)
  OBVIOUS
<1>2. Counted(T, fs)
  <2>1. CASE f.native
    BY <1>1, <2>1 DEF TableInv
  <2>2. CASE ~f.native
    <3>1. Len(frames) \in Nat /\ Len(frames) >= 1 /\ frames[1].native
      BY DEF TableInv, Counted
    <3>2. Len(frames) \in 2..Len(frames)
      BY <2>2, <3>1 DEF Last
    <3>3. /\ T = [table EXCEPT !.top = frames[Len(frames)].cookie.top,
                               !.holes = frames[Len(frames)].cookie.holes]
          /\ fs = SubSeq(frames, 1, Len(frames) - 1)
      BY <1>1, <2>2 DEF Table!Popped, Table!Front, Last
    <3> QED BY <3>2, <3>3, PopCounts DEF TableInv
  <2> QED BY <2>1, <2>2
<1>3. Table!Last(frames) = Last(frames)
  BY DEF Table!Last, Last
<1>4. \/ Table!Misused("Pop", j)
      \/ \E o \in Table!Decoded(j) \ {Null} : Table!Adds("Pop", j, T, fs, o)
      \/ table' = T /\ frames' = fs
  BY <1>1, <1>3 DEF Table!PopLocalFrame
<1>5. CASE Table!Misused("Pop", j)
  BY <1>5, StopsCounts DEF Table!Misused, Table!Stops
<1>6. ASSUME NEW o \in Table!Decoded(j) \ {Null}, Table!Adds("Pop", j, T, fs, o)
      PROVE  TableInv'
  <2>1. o \in Objects \cup {Cleared}
    BY DecodedIsObject
  <2> QED BY <1>2, <1>6, <2>1, AddsCounts
<1>7. CASE table' = T /\ frames' = fs
  BY <1>2, <1>7 DEF TableInv
<1> QED BY <1>4, <1>5, <1>6, <1>7

LEMMA ReturnCounts ==
  ASSUME TableInv, NEW j, Table!Return(j)
  PROVE  TableInv'
<1>1. CASE Table!Misused("Return", j)
  BY <1>1, StopsCounts DEF Table!Misused, Table!Stops
<1>2. CASE /\ Table!Native > 1
           /\ table' = Table!Popped(frames[Table!Native].cookie)
           /\ frames' = SubSeq(frames, 1, Table!Native - 1)
  <2> DEFINE I == {i \in 1..Len(frames) : frames[i].native}
  <2>1. Table!Native = IF I # {} THEN Max(I) ELSE 0
    BY SameExtrema DEF Table!Native, Table!SelectLastInSeq
  <2>2. Len(frames) \in Nat
    BY DEF TableInv, Counted
  <2>3. I # {} /\ I \subseteq 0..Len(frames)
    BY <1>2, <2>1, <2>2
  <2>4. Max(I) \in I
    <3> HIDE DEF I
    <3> QED BY <2>2, <2>3, MaxOf
  <2>5. PICK m : m = Table!Native
    OBVIOUS
  <2>6. m \in 1..Len(frames) /\ m > 1
    BY <1>2, <2>1, <2>3, <2>4, <2>5
  <2>7. m \in 2..Len(frames)
    BY <2>2, <2>6
  <2>8. table' = [table EXCEPT !.top = frames[m].cookie.top, !.holes = frames[m].cookie.holes]
    BY <1>2, <2>5 DEF Table!Popped
  <2>9. frames' = SubSeq(frames, 1, m - 1)
    BY <1>2, <2>5
  <2>10. Counted([table EXCEPT !.top = frames[m].cookie.top, !.holes = frames[m].cookie.holes],
                 SubSeq(frames, 1, m - 1))
    BY <2>7, PopCounts DEF TableInv
  <2> QED BY <2>8, <2>9, <2>10 DEF TableInv
<1> QED BY <1>1, <1>2 DEF Table!Return

LEMMA SweepStepCounts ==
  ASSUME TableInv, Table!SweepWeakJniGlobals
  PROVE  TableInv'
<1>1. PICK dead \in SUBSET Objects : table' = Swept(table, dead) /\ frames' = frames
  BY DEF Table!SweepWeakJniGlobals, Swept, Table!Indices, Indices
<1> QED BY <1>1, SweepCounts DEF TableInv

LEMMA TableNext == TableInv /\ [Table!Next]_(Table!refs) => TableInv'
<1> SUFFICES ASSUME TableInv, [Table!Next]_(Table!refs) PROVE TableInv'
  OBVIOUS
<1>1. CASE UNCHANGED Table!refs
  BY <1>1, StopsCounts DEF Table!refs
<1>2. CASE Table!Next
  BY <1>2, NewRefCounts, DeleteRefCounts, DecodeCounts, CallNativeCounts, EnsureStepCounts,
     PushLocalFrameCounts, PopLocalFrameCounts, ReturnCounts, SweepStepCounts
     DEF Table!Next, Table!Local
<1> QED BY <1>1, <1>2

LEMMA TableInvariance == Table!Spec => []TableInv
BY TableInit, TableNext, PTL DEF Table!Spec

\* In any table, after any calls, the holes are as many as the counts say, in every segment,
\* and the entry on top of each is none: the assertions of add() and remove() hold
\* (IndirectRefTable.cpp:71, 82, 86, 88).
THEOREM TableHolesCounted == Table!Spec => []HolesCounted
<1>1. ASSUME TableInv PROVE HolesCounted
  <2> SUFFICES ASSUME NEW i \in 1..Len(frames)
               PROVE  LET below == {k \in 0..Bottom(i) - 1 : table.slot[k].obj = Null}
                          mine  == {k \in Bottom(i)..Above(i) - 1 : table.slot[k].obj = Null}
                          next  == IF i = Len(frames) THEN table.holes
                                   ELSE frames[i + 1].cookie.holes
                      IN  /\ Cardinality(below) = frames[i].cookie.holes
                          /\ Cardinality(mine) = next - frames[i].cookie.holes
                          /\ mine # {} => table.slot[Above(i) - 1].obj # Null
    BY DEF HolesCounted
  <2> DEFINE b == Bottom(i)
             e == Above(i)
             mine == {k \in b..e - 1 : table.slot[k].obj = Null}
             next == IF i = Len(frames) THEN table.holes ELSE frames[i + 1].cookie.holes
  <2>1. e = EndOf(table, frames, i) /\ Segment(table, frames, i) /\ b = frames[i].cookie.top
    BY <1>1 DEF Above, Bottom, EndOf, TableInv, Counted
  <2>2. b \in Nat /\ e \in Nat /\ b <= e
    <3>1. \A k \in 1..Len(frames) : frames[k].cookie.top \in Nat
      <4>1. \A k \in 1..Len(frames) : frames[k] \in Frames
        BY <1>1 DEF TableInv, Counted
      <4> QED BY <4>1 DEF Frames
    <3>2. table.top \in Nat /\ Len(frames) \in Nat
      BY <1>1 DEF TableInv, Counted, Tables
    <3>3. i # Len(frames) => i + 1 \in 1..Len(frames)
      BY <3>2
    <3>4. e \in Nat
      BY <3>1, <3>2, <3>3 DEF Above, Bottom
    <3> QED BY <2>1, <3>1, <3>4 DEF Segment
  <2>3. Cardinality(Holes(table, b)) = frames[i].cookie.holes
    BY <2>1 DEF Segment
  <2>4. Cardinality(Holes(table, e)) = next
    <3>1. CASE i = Len(frames)
      BY <1>1, <3>1 DEF Above, TableInv, Counted
    <3>2. CASE i # Len(frames)
      <4>1. i + 1 \in 1..Len(frames)
        BY <1>1, <3>2 DEF TableInv, Counted
      <4> QED BY <1>1, <3>2, <4>1 DEF Above, Bottom, TableInv, Counted, Segment
    <3> QED BY <3>1, <3>2
  <2>5. Cardinality(mine) = Cardinality(Holes(table, e)) - Cardinality(Holes(table, b))
    <3> HIDE DEF b, e
    <3> QED BY <2>2, HolesOfSegment
  <2>6. mine # {} => table.slot[e - 1].obj # Null
    <3>1. mine # {} => b < e
      <4> HIDE DEF b, e
      <4> QED BY <2>2
    <3> QED BY <2>1, <3>1 DEF Segment
  <2> QED BY <2>3, <2>4, <2>5, <2>6 DEF Holes
<1> QED BY <1>1, TableInvariance, PTL

\* Native code that stays within what EnsureLocalCapacity() and PushLocalFrame() granted it
\* is not aborted for a full table, whatever it called in between (Jni.cpp:401).
THEOREM TableCapacityKept == Table!Spec => CapacityKept
<1>1. ASSUME TableInv, [Table!Next]_(Table!refs), ~UNCHANGED refs,
             vm' = "aborted", call'[1] = "New"
      PROVE  Last(frames).promised = 0
  <2>1. Table!Next /\ vm = "running"
    BY <1>1 DEF Table!Next, Table!refs, refs
  <2>2. PICK o \in Objects : Table!NewRef(o)
    <3>1. \A j : Table!DeleteRef(j) => vm' = vm
      BY DEF Table!DeleteRef
    <3>2. \A j : Table!Decode(j) => call'[1] = "Decode"
      BY DEF Table!Decode, Table!Misused, Table!Stops
    <3>3. \A o : Table!CallNative(o) => call'[1] = "Enter"
      BY AddsNamed DEF Table!CallNative
    <3>4. \A n : (Table!Ensure(n) \/ Table!PushLocalFrame(n)) => vm' = vm
      BY DEF Table!Ensure, Table!PushLocalFrame
    <3>5. \A j : Table!PopLocalFrame(j) => call'[1] = "Pop"
      BY AddsNamed DEF Table!PopLocalFrame, Table!Misused, Table!Stops
    <3>6. \A j : Table!Return(j) => call'[1] = "Return"
      BY DEF Table!Return, Table!Misused, Table!Stops
    <3>7. Table!SweepWeakJniGlobals => vm' = vm
      BY DEF Table!SweepWeakJniGlobals
    <3> QED BY <1>1, <2>1, <3>1, <3>2, <3>3, <3>4, <3>5, <3>6, <3>7 DEF Table!Next, Table!Local
  <2>3. Table!Full(table, Table!Last(frames).cookie)
    BY <1>1, <2>1, <2>2 DEF Table!NewRef, Table!Adds, Table!Stops
  <2>4. table.top = MaxEntries
    BY <2>3 DEF Table!Full
  <2>5. LET f == Last(frames)
        IN  table \in Tables /\ f \in Frames /\ f.promised + table.top <= MaxEntries
    BY <1>1, LastSegment DEF TableInv
  <2> QED BY <2>4, <2>5, EntriesAssumption DEF Frames
<1>2. TableInv /\ [Table!Next]_(Table!refs)
        => [vm' = "aborted" /\ call'[1] = "New" => Last(frames).promised = 0]_refs
  BY <1>1
<1> QED BY <1>2, TableInvariance, PTL DEF Table!Spec, CapacityKept

-----------------------------------------------------------------------------
(* The table keeps the promises of JniRefs.  A table T and a stack fs as   *)
(* JniRefs sees them: the references of each frame, and those handed out   *)
(* so far.                                                                 *)
EntryAt(T, k) == [ref |-> <<k, T.slot[k].serial>>, obj |-> T.slot[k].obj]
EntriesOf(T, fs, i) ==
  {EntryAt(T, k) : k \in {n \in fs[i].cookie.top..EndOf(T, fs, i) - 1 : T.slot[n].obj # Null}}
Seen(T, fs) == [i \in 1..Len(fs) |-> [native |-> fs[i].native, refs |-> EntriesOf(T, fs, i)]]
IssuedOf(T) == UNION {{<<i, s>> : s \in 1..T.slot[i].serial} : i \in Indices}

\* A segment's references are in its slots.
LEMMA SameEntries ==
  ASSUME NEW S, NEW T, NEW fs, NEW gs, NEW i, NEW a, NEW b,
         fs[i].cookie.top = a, gs[i].cookie.top = a, EndOf(T, fs, i) = b, EndOf(S, gs, i) = b,
         \A k \in a..b - 1 : S.slot[k] = T.slot[k]
  PROVE  EntriesOf(S, gs, i) = EntriesOf(T, fs, i)
<1> DEFINE live == {n \in a..b - 1 : T.slot[n].obj # Null}
<1>1. EntriesOf(T, fs, i) = {EntryAt(T, k) : k \in live}
  BY DEF EntriesOf
<1>2. EntriesOf(S, gs, i) = {EntryAt(S, k) : k \in {n \in a..b - 1 : S.slot[n].obj # Null}}
  BY DEF EntriesOf
<1>3. {n \in a..b - 1 : S.slot[n].obj # Null} = live
  OBVIOUS
<1>4. \A k \in live : EntryAt(S, k) = EntryAt(T, k)
  BY DEF EntryAt
<1> QED BY <1>1, <1>2, <1>3, <1>4

\* Where the segments lie.
LEMMA SegmentBounds ==
  ASSUME NEW T, NEW fs, Counted(T, fs), NEW i \in 1..Len(fs)
  PROVE  /\ fs[i].cookie.top \in Nat /\ EndOf(T, fs, i) \in Nat
         /\ fs[i].cookie.top <= EndOf(T, fs, i) /\ EndOf(T, fs, i) <= T.top
         /\ T.top \in Nat /\ T.top <= MaxEntries /\ MaxEntries \in Nat
         /\ i # Len(fs) => EndOf(T, fs, i) <= fs[Len(fs)].cookie.top
<1>1. /\ Len(fs) \in Nat /\ Len(fs) \in 1..Len(fs) /\ T.top \in 0..MaxEntries /\ MaxEntries \in Nat
      /\ \A j \in 1..Len(fs) : Segment(T, fs, j)
      /\ \A k, j \in 1..Len(fs) : k <= j => fs[k].cookie.top <= fs[j].cookie.top
  BY EntriesAssumption DEF Counted, Tables
<1>2. \A j \in 1..Len(fs) : fs[j].cookie.top \in Nat
  <2>1. \A j \in 1..Len(fs) : fs[j] \in Frames
    BY DEF Counted
  <2> QED BY <2>1 DEF Frames
<1>3. fs[Len(fs)].cookie.top <= T.top
  BY <1>1 DEF Segment, EndOf
<1>4. fs[i].cookie.top <= EndOf(T, fs, i)
  BY <1>1 DEF Segment
<1>5. CASE i = Len(fs)
  BY <1>1, <1>2, <1>3, <1>4, <1>5 DEF EndOf
<1>6. CASE i # Len(fs)
  <2>1. i + 1 \in 1..Len(fs) /\ i + 1 <= Len(fs)
    BY <1>1, <1>6
  <2>2. EndOf(T, fs, i) = fs[i + 1].cookie.top
    BY <1>6 DEF EndOf
  <2>3. fs[i + 1].cookie.top <= fs[Len(fs)].cookie.top
    BY <1>1, <2>1
  <2> QED BY <1>1, <1>2, <1>3, <1>4, <2>1, <2>2, <2>3
<1> QED BY <1>5, <1>6

SameFrames(fs, gs) ==
  /\ Len(gs) = Len(fs)
  /\ \A i \in 1..Len(fs) : gs[i].native = fs[i].native /\ gs[i].cookie = fs[i].cookie

\* Only the references of the current frame change if only its slots do.
LEMMA LastChanges ==
  ASSUME NEW T, NEW fs, Counted(T, fs), NEW S, NEW gs, SameFrames(fs, gs),
         \A k \in 0..fs[Len(fs)].cookie.top - 1 : S.slot[k] = T.slot[k]
  PROVE  Seen(S, gs) = [Seen(T, fs) EXCEPT ![Len(fs)].refs = EntriesOf(S, gs, Len(fs))]
<1>1. PICK n, r : n = Len(fs) /\ r = EntriesOf(S, gs, Len(fs))
  OBVIOUS
<1>2. /\ n \in Nat /\ n \in 1..n /\ Len(gs) = n
      /\ \A i \in 1..n : gs[i].native = fs[i].native /\ gs[i].cookie = fs[i].cookie
  BY <1>1 DEF Counted, SameFrames
<1>3. ASSUME NEW i \in 1..n, i # n PROVE EntriesOf(S, gs, i) = EntriesOf(T, fs, i)
  <2>1. PICK a, b : a = fs[i].cookie.top /\ b = EndOf(T, fs, i)
    OBVIOUS
  <2>2. i + 1 \in 1..n
    BY <1>2, <1>3
  <2>3. gs[i].cookie.top = a /\ EndOf(S, gs, i) = b
    BY <1>1, <1>2, <1>3, <2>1, <2>2 DEF EndOf
  <2>4. a \in Nat /\ b \in Nat /\ b <= fs[n].cookie.top /\ fs[n].cookie.top \in Nat
    <3>1. n \in 1..Len(fs) /\ i \in 1..Len(fs)
      BY <1>1, <1>2
    <3> QED BY <1>1, <1>3, <2>1, <3>1, SegmentBounds
  <2>5. \A k \in a..b - 1 : S.slot[k] = T.slot[k]
    BY <1>1, <2>4
  <2> QED BY <2>1, <2>3, <2>5, SameEntries
<1>4. PICK A : A = Seen(T, fs)
  OBVIOUS
<1>5. A = [i \in 1..n |-> [native |-> fs[i].native, refs |-> EntriesOf(T, fs, i)]]
  BY <1>1, <1>4 DEF Seen
<1>6. PICK x : x = [A[n] EXCEPT !.refs = r]
  OBVIOUS
<1>7. x = [native |-> fs[n].native, refs |-> r]
  <2>1. A[n] = [native |-> fs[n].native, refs |-> EntriesOf(T, fs, n)]
    BY <1>2, <1>5
  <2> QED BY <1>6, <2>1
<1>8. \A i \in 1..n : [native |-> gs[i].native, refs |-> EntriesOf(S, gs, i)]
        = IF i = n THEN x ELSE [native |-> fs[i].native, refs |-> EntriesOf(T, fs, i)]
  BY <1>1, <1>2, <1>3, <1>7
<1>9. Seen(S, gs) = [i \in 1..n |-> [native |-> gs[i].native, refs |-> EntriesOf(S, gs, i)]]
  BY <1>2 DEF Seen
<1>10. Seen(S, gs) = [A EXCEPT ![n] = x]
  BY <1>2, <1>5, <1>8, <1>9
<1>11. [A EXCEPT ![n] = x] = [A EXCEPT ![n].refs = r]
  BY <1>6
<1> QED BY <1>1, <1>4, <1>10, <1>11

\* S is T with o put into slot i of the segment above c.
Puts(T, c, o, i, S) ==
  /\ i \in Indices /\ i \in c.top..S.top - 1 /\ c.top \in Nat
  /\ T.top \in Nat /\ T.top <= MaxEntries /\ S.top \in Nat /\ T.top <= S.top
  /\ c.top..S.top - 1 = (c.top..T.top - 1) \cup {i}
  /\ i \in c.top..T.top - 1 => T.slot[i].obj = Null
  /\ S.slot[i].obj = o /\ S.slot[i].serial = T.slot[i].serial + 1
  /\ \A k \in Indices \ {i} : S.slot[k] = T.slot[k]

\* add() puts one reference into the current segment.
LEMMA AddedShape ==
  ASSUME NEW T, NEW fs, Counted(T, fs), ~Full(T, Last(fs).cookie), NEW o \in Objects \cup {Cleared}
  PROVE  LET c == Last(fs).cookie IN Puts(T, c, o, NextSlot(T, c), Added(T, c, o))
<1> SUFFICES ASSUME NEW c, c = Last(fs).cookie, NEW S, S = Added(T, c, o),
                    NEW i, i = NextSlot(T, c)
             PROVE  Puts(T, c, o, i, S)
  OBVIOUS
<1>1. /\ T \in Tables /\ c.top \in Nat /\ T.top \in Nat /\ c.top <= T.top
      /\ T.holes \in Nat /\ c.holes \in Nat /\ T.top <= T.alloc /\ T.top <= MaxEntries
      /\ MaxEntries \in Nat
  <2>1. LET f == Last(fs)
        IN  T \in Tables /\ f \in Frames /\ f.cookie.top <= T.top
    BY LastSegment
  <2>2. T.top <= T.alloc
    BY DEF Counted
  <2> QED BY <2>1, <2>2, EntriesAssumption DEF Tables, Frames
<1>2. CASE HasHole(T, c)
  <2>1. i = HoleIn(T)
    BY <1>2 DEF NextSlot
  <2>2. i \in c.top..T.top - 2 /\ T.slot[i].obj = Null
    BY <1>2, <2>1, HoleFound
  <2>3. i \in Indices /\ i \in c.top..T.top - 1
    BY <1>1, <2>2 DEF Indices
  <2>4. T.holes - 1 \in Nat
    BY <1>1, <1>2 DEF HasHole
  <2>5. /\ S.top = T.top /\ S.slot[i].obj = o /\ S.slot[i].serial = T.slot[i].serial + 1
        /\ \A k \in Indices \ {i} : S.slot[k] = T.slot[k]
    <3>1. o \in Objects \cup {Null, Cleared} /\ HoleIn(T) \in Indices
      BY <2>1, <2>3
    <3>2. LET A == Added(T, c, o)
          IN  /\ A.top = T.top /\ A.slot[HoleIn(T)].obj = o
              /\ A.slot[HoleIn(T)].serial = T.slot[HoleIn(T)].serial + 1
              /\ \A k \in Indices \ {HoleIn(T)} : A.slot[k] = T.slot[k]
      BY <1>1, <1>2, <2>4, <3>1, AddedInHole
    <3> QED BY <2>1, <3>2
  <2> QED BY <1>1, <2>2, <2>3, <2>5 DEF Puts
<1>3. CASE ~HasHole(T, c)
  <2>1. i = T.top
    BY <1>3 DEF NextSlot
  <2>2. /\ i \in Indices
        /\ S.top = T.top + 1 /\ S.slot[i].obj = o /\ S.slot[i].serial = T.slot[i].serial + 1
        /\ \A k \in Indices \ {i} : S.slot[k] = T.slot[k]
    BY <1>1, <1>3, <2>1, AddedOnTop
  <2> QED BY <1>1, <2>1, <2>2 DEF Puts
<1> QED BY <1>2, <1>3

WithRef(A, n, r, o) == [A EXCEPT ![n].refs = @ \cup {[ref |-> r, obj |-> o]}]

\* As JniRefs sees it, the current frame has one reference more.
LEMMA AddSeen ==
  ASSUME NEW T, NEW fs, Counted(T, fs), NEW o \in Objects \cup {Cleared}, NEW S, NEW i,
         Puts(T, Last(fs).cookie, o, i, S), NEW gs, SameFrames(fs, gs)
  PROVE  Seen(S, gs) = WithRef(Seen(T, fs), Len(fs), <<i, T.slot[i].serial + 1>>, o)
<1>1. PICK c, n : c = Last(fs).cookie /\ n = Len(fs)
  OBVIOUS
<1>2. n \in Nat /\ n \in 1..n /\ c = fs[n].cookie /\ c = gs[n].cookie /\ Len(gs) = n
      /\ MaxEntries \in Nat
  BY <1>1, EntriesAssumption DEF Counted, Last, SameFrames
<1>3. 0..c.top - 1 \subseteq Indices \ {i} /\ (c.top..T.top - 1) \ {i} \subseteq Indices \ {i}
  BY <1>1, <1>2 DEF Indices, Puts
<1>4. Seen(S, gs) = [Seen(T, fs) EXCEPT ![n].refs = EntriesOf(S, gs, n)]
  <2>1. \A k \in 0..fs[n].cookie.top - 1 : S.slot[k] = T.slot[k]
    BY <1>1, <1>2, <1>3 DEF Puts
  <2> QED BY <1>1, <2>1, LastChanges
<1> DEFINE e == [ref |-> <<i, T.slot[i].serial + 1>>, obj |-> o]
           old == {k \in c.top..T.top - 1 : T.slot[k].obj # Null}
           new == {k \in c.top..S.top - 1 : S.slot[k].obj # Null}
<1>5. new = old \cup {i} /\ i \notin old
  <2>1. o # Null
    BY ObjectAssumption
  <2>2. \A k \in (c.top..T.top - 1) \ {i} : S.slot[k].obj = T.slot[k].obj
    BY <1>1, <1>3 DEF Puts
  <2> QED BY <1>1, <2>1, <2>2 DEF Puts
<1>6. EntriesOf(T, fs, n) = {EntryAt(T, k) : k \in old}
  BY <1>1, <1>2 DEF EntriesOf, EndOf
<1>7. EntriesOf(S, gs, n) = {EntryAt(S, k) : k \in new}
  BY <1>2 DEF EntriesOf, EndOf
<1>8. EntryAt(S, i) = e /\ \A k \in old : EntryAt(S, k) = EntryAt(T, k)
  <2>1. old \subseteq Indices \ {i}
    BY <1>3, <1>5
  <2> QED BY <1>1, <2>1 DEF EntryAt, Puts
<1>9. EntriesOf(S, gs, n) = EntriesOf(T, fs, n) \cup {e}
  <2> HIDE DEF e, old, new
  <2> QED BY <1>5, <1>6, <1>7, <1>8
<1>10. Seen(T, fs)[n].refs = EntriesOf(T, fs, n)
  BY <1>1, <1>2 DEF Seen
<1> HIDE DEF e
<1>11. Seen(S, gs) = [Seen(T, fs) EXCEPT ![n].refs = @ \cup {e}]
  BY <1>4, <1>9, <1>10
<1> QED BY <1>1, <1>11 DEF e, WithRef

\* It has not been handed out before.
LEMMA AddIssued ==
  ASSUME NEW T \in Tables, NEW S, NEW i \in Indices, S.slot[i].serial = T.slot[i].serial + 1,
         \A k \in Indices \ {i} : S.slot[k] = T.slot[k]
  PROVE  LET r == <<i, T.slot[i].serial + 1>>
         IN  /\ r \notin IssuedOf(T)
             /\ IssuedOf(S) = IssuedOf(T) \cup {r}
<1> DEFINE r == <<i, T.slot[i].serial + 1>>
<1>1. \A k \in Indices : T.slot[k].serial \in Nat
  <2>1. \A k \in Indices : T.slot[k] \in Slots
    BY DEF Tables
  <2> QED BY <2>1 DEF Slots
<1>2. \A k, s : <<k, s>> \in IssuedOf(T) <=> k \in Indices /\ s \in 1..T.slot[k].serial
  BY DEF IssuedOf
<1>3. \A x : x \in IssuedOf(T) <=> \E k \in Indices : \E s \in 1..T.slot[k].serial : x = <<k, s>>
  BY DEF IssuedOf
<1>4. \A x : x \in IssuedOf(S) <=> \E k \in Indices : \E s \in 1..S.slot[k].serial : x = <<k, s>>
  BY DEF IssuedOf
<1>5. r \notin IssuedOf(T)
  BY <1>1, <1>2
<1>6. \A s : s \in 1..S.slot[i].serial <=> s \in 1..T.slot[i].serial \/ s = T.slot[i].serial + 1
  BY <1>1
<1>7. \A k \in Indices \ {i} : S.slot[k].serial = T.slot[k].serial
  OBVIOUS
<1>8. ASSUME NEW x PROVE x \in IssuedOf(S) <=> x \in IssuedOf(T) \/ x = r
  <2>1. ASSUME x \in IssuedOf(S) PROVE x \in IssuedOf(T) \/ x = r
    <3>1. PICK k \in Indices : \E s \in 1..S.slot[k].serial : x = <<k, s>>
      BY <1>4, <2>1
    <3>2. PICK s \in 1..S.slot[k].serial : x = <<k, s>>
      BY <3>1
    <3>3. CASE k = i
      BY <1>2, <1>6, <3>2, <3>3
    <3>4. CASE k # i
      BY <1>2, <1>7, <3>2, <3>4
    <3> QED BY <3>3, <3>4
  <2>2. ASSUME x \in IssuedOf(T) PROVE x \in IssuedOf(S)
    <3>1. PICK k \in Indices : \E s \in 1..T.slot[k].serial : x = <<k, s>>
      BY <1>3, <2>2
    <3>2. PICK s \in 1..T.slot[k].serial : x = <<k, s>>
      BY <3>1
    <3>3. s \in 1..S.slot[k].serial
      BY <1>6, <1>7, <3>2
    <3> QED BY <1>4, <3>2, <3>3
  <2>3. x = r => x \in IssuedOf(S)
    <3>1. T.slot[i].serial + 1 \in 1..S.slot[i].serial
      BY <1>1
    <3> QED BY <1>4, <3>1
  <2> QED BY <2>1, <2>2, <2>3
<1> HIDE DEF r
<1>9. IssuedOf(S) = IssuedOf(T) \cup {r}
  BY <1>8
<1> QED BY <1>5, <1>9 DEF r

\* A new frame has no references, and takes none.
LEMMA PushSeen ==
  ASSUME NEW T, NEW fs, Counted(T, fs), NEW native \in BOOLEAN, NEW p
  PROVE  Seen(T, Append(fs, Frame(native, [top |-> T.top, holes |-> T.holes], p)))
           = Append(Seen(T, fs), [native |-> native, refs |-> {}])
<1> DEFINE f == Frame(native, [top |-> T.top, holes |-> T.holes], p)
<1>1. PICK gs, n : gs = Append(fs, f) /\ n = Len(fs)
  OBVIOUS
<1>2. f.native = native /\ f.cookie.top = T.top
  BY DEF Frame
<1> HIDE DEF f
<1>3. /\ fs \in Seq(Frames) /\ n \in Nat /\ n \in 1..n /\ T.top \in Nat
  BY <1>1 DEF Counted, Tables
<1>4. Len(gs) = n + 1 /\ gs[n + 1] = f /\ \A i \in 1..n : gs[i] = fs[i]
  BY <1>1, <1>3
<1>5. ASSUME NEW i \in 1..n PROVE EntriesOf(T, gs, i) = EntriesOf(T, fs, i)
  <2>1. EndOf(T, gs, i) = EndOf(T, fs, i)
    <3>1. CASE i = n
      BY <1>1, <1>2, <1>3, <1>4, <3>1 DEF EndOf
    <3>2. CASE i # n
      <4>1. i + 1 \in 1..n /\ i # n + 1
        BY <1>3, <3>2
      <4> QED BY <1>1, <1>4, <3>2, <4>1 DEF EndOf
    <3> QED BY <3>1, <3>2
  <2> QED BY <1>4, <2>1 DEF EntriesOf
<1>6. EntriesOf(T, gs, n + 1) = {}
  <2>1. EndOf(T, gs, n + 1) = T.top /\ gs[n + 1].cookie.top = T.top
    BY <1>2, <1>4 DEF EndOf
  <2>2. T.top..T.top - 1 = {}
    BY <1>3
  <2> QED BY <2>1, <2>2 DEF EntriesOf
<1>7. PICK A, e : A = Seen(T, fs) /\ e = [native |-> native, refs |-> {}]
  OBVIOUS
<1>8. A = [i \in 1..n |-> [native |-> fs[i].native, refs |-> EntriesOf(T, fs, i)]]
  BY <1>1, <1>7 DEF Seen
<1>9. Append(A, e) = [i \in 1..n + 1 |-> IF i = n + 1 THEN e ELSE A[i]]
  <2>1. Len(A) = n
    BY <1>3, <1>8
  <2> QED BY <1>3, <1>8, <2>1
<1>10. Seen(T, gs) = [i \in 1..n + 1 |-> [native |-> gs[i].native, refs |-> EntriesOf(T, gs, i)]]
  BY <1>4 DEF Seen
<1>11. ASSUME NEW i \in 1..n + 1
       PROVE  [native |-> gs[i].native, refs |-> EntriesOf(T, gs, i)]
                = IF i = n + 1 THEN e ELSE A[i]
  <2>1. CASE i = n + 1
    BY <1>2, <1>4, <1>6, <1>7, <2>1
  <2>2. CASE i # n + 1
    <3>1. i \in 1..n
      BY <1>3, <2>2
    <3> QED BY <1>4, <1>5, <1>8, <2>2, <3>1
  <2> QED BY <2>1, <2>2
<1>12. Seen(T, gs) = Append(A, e)
  BY <1>9, <1>10, <1>11
<1> QED BY <1>1, <1>7, <1>12 DEF f

\* The frames below the m-th keep what they have when it is left.
LEMMA PopSeen ==
  ASSUME NEW T, NEW fs, Counted(T, fs), NEW m \in 2..Len(fs)
  PROVE  LET S == [T EXCEPT !.top = fs[m].cookie.top, !.holes = fs[m].cookie.holes]
         IN  /\ Seen(S, SubSeq(fs, 1, m - 1)) = SubSeq(Seen(T, fs), 1, m - 1)
             /\ IssuedOf(S) = IssuedOf(T)
<1>1. PICK S, gs, n : /\ S = [T EXCEPT !.top = fs[m].cookie.top, !.holes = fs[m].cookie.holes]
                      /\ gs = SubSeq(fs, 1, m - 1) /\ n = Len(fs)
  OBVIOUS
<1>2. /\ T \in Tables /\ fs \in Seq(Frames) /\ n \in Nat /\ m \in 2..n
      /\ m \in Nat /\ m - 1 \in 1..n /\ m \in 1..n
  BY <1>1 DEF Counted
<1>3. S.top = fs[m].cookie.top /\ S.slot = T.slot
  BY <1>1, <1>2 DEF Tables
<1>4. Len(gs) = m - 1 /\ \A i \in 1..m - 1 : gs[i] = fs[i]
  <2>1. \A i \in 1..m - 1 : fs[i] \in Frames
    BY <1>1, <1>2
  <2>2. /\ Len(gs) = IF 1 <= m - 1 THEN (m - 1) - 1 + 1 ELSE 0
        /\ \A i \in 1..(m - 1) - 1 + 1 : gs[i] = fs[1 + i - 1]
    BY <1>1, <1>2, <2>1, SubSeqProperties
  <2>3. 1 <= m - 1 /\ (m - 1) - 1 + 1 = m - 1 /\ \A i \in 1..m - 1 : 1 + i - 1 = i
    BY <1>2
  <2> QED BY <2>2, <2>3
<1>5. ASSUME NEW i \in 1..m - 1 PROVE EntriesOf(S, gs, i) = EntriesOf(T, fs, i)
  <2>1. EndOf(S, gs, i) = EndOf(T, fs, i)
    <3>1. i # n /\ EndOf(T, fs, i) = fs[i + 1].cookie.top
      BY <1>1, <1>2 DEF EndOf
    <3>2. CASE i = m - 1
      <4>1. i + 1 = m
        BY <1>2, <3>2
      <4> QED BY <1>3, <1>4, <3>1, <3>2, <4>1 DEF EndOf
    <3>3. CASE i # m - 1
      <4>1. i + 1 \in 1..m - 1
        BY <1>2, <3>3
      <4> QED BY <1>4, <3>1, <3>3, <4>1 DEF EndOf
    <3> QED BY <3>2, <3>3
  <2>2. \A k : EntryAt(S, k) = EntryAt(T, k)
    BY <1>3 DEF EntryAt
  <2> QED BY <1>3, <1>4, <2>1, <2>2 DEF EntriesOf
<1>6. PICK A : A = Seen(T, fs)
  OBVIOUS
<1>7. A = [i \in 1..n |-> [native |-> fs[i].native, refs |-> EntriesOf(T, fs, i)]]
  BY <1>1, <1>6 DEF Seen
<1>8. SubSeq(A, 1, m - 1) = [i \in 1..m - 1 |-> A[i]]
  <2>1. Len(A) = n
    BY <1>2, <1>7
  <2> QED BY <1>2, <1>7, <2>1
<1>9. Seen(S, gs) = [i \in 1..m - 1 |-> [native |-> gs[i].native, refs |-> EntriesOf(S, gs, i)]]
  BY <1>4 DEF Seen
<1>10. ASSUME NEW i \in 1..m - 1
       PROVE  [native |-> gs[i].native, refs |-> EntriesOf(S, gs, i)] = A[i]
  <2>1. i \in 1..n
    BY <1>2
  <2> QED BY <1>4, <1>5, <1>7, <2>1
<1>11. Seen(S, gs) = SubSeq(A, 1, m - 1)
  BY <1>8, <1>9, <1>10
<1>12. IssuedOf(S) = IssuedOf(T)
  BY <1>3 DEF IssuedOf
<1> QED BY <1>1, <1>6, <1>11, <1>12

\* S is T without what slot i of the segment above c holds.
Takes(T, c, i, S) ==
  /\ c.top \in Nat /\ T.top \in Nat /\ T.top <= MaxEntries /\ S.top \in c.top..T.top
  /\ i \in c.top..T.top - 1 /\ T.slot[i].obj # Null
  /\ i < S.top => S.slot[i].obj = Null
  /\ \A k \in (c.top..T.top - 1) \ {i} : k >= S.top => T.slot[k].obj = Null
  /\ \A k \in Indices \ {i} : S.slot[k] = T.slot[k]
  /\ S.slot[i].serial = T.slot[i].serial

\* remove() takes one reference from the current segment.
LEMMA RemovedShape ==
  ASSUME NEW T, NEW fs, Counted(T, fs), NEW j, NEW i \in Places(T, Last(fs).cookie, j)
  PROVE  LET c == Last(fs).cookie IN Takes(T, c, i, Removed(T, c, i))
<1>1. PICK c, S : c = Last(fs).cookie /\ S = Removed(T, c, i)
  OBVIOUS
<1>2. /\ T \in Tables /\ c.top \in Nat /\ T.top \in Nat /\ c.top <= T.top
      /\ T.top <= MaxEntries /\ MaxEntries \in Nat
  <2>1. LET f == Last(fs)
        IN  T \in Tables /\ f \in Frames /\ f.cookie.top <= T.top
    BY LastSegment
  <2> QED BY <1>1, <2>1, EntriesAssumption DEF Tables, Frames
<1>3. i \in c.top..T.top - 1 /\ T.slot[i].obj # Null
  BY <1>1, <1>2, PlacesInSegment
<1>4. CASE i = T.top - 1
  <2> DEFINE stop(t) == t = c.top \/ T.slot[t - 1].obj # Null
                                 \/ T.top - 1 - t = T.holes - c.holes
             stops == {t \in c.top..T.top - 1 : stop(t)}
  <2>1. PICK e : e = Max(stops)
    OBVIOUS
  <2>2. S = [T EXCEPT !.top = e, !.holes = @ - (T.top - 1 - e)]
    BY <1>1, <1>4, <2>1 DEF Removed
  <2>3. e \in stops /\ \A t \in stops : e >= t
    <3>1. c.top \in stops /\ stops \subseteq 0..T.top
      BY <1>2, <1>3
    <3> HIDE DEF stops
    <3> QED BY <1>2, <2>1, <3>1, MaxOf
  <2>4. e \in c.top..T.top - 1 /\ e \in Nat
    BY <1>2, <2>3
  <2>5. S.top = e /\ S.slot = T.slot
    BY <1>2, <2>2 DEF Tables
  <2>6. ASSUME NEW k \in (c.top..T.top - 1) \ {i}, k >= e PROVE T.slot[k].obj = Null
    <3>1. k + 1 \in c.top..T.top - 1 /\ (k + 1) - 1 = k /\ ~(e >= k + 1)
      BY <1>2, <1>4, <2>4, <2>6
    <3>2. T.slot[k].obj # Null => k + 1 \in stops
      BY <3>1
    <3> QED BY <2>3, <3>1, <3>2
  <2>7. S.top \in c.top..T.top /\ ~(i < S.top)
    BY <1>2, <1>4, <2>4, <2>5
  <2>8. Takes(T, c, i, S)
    <3> HIDE DEF stops, stop
    <3> QED BY <1>2, <1>3, <2>5, <2>6, <2>7 DEF Takes
  <2> QED BY <1>1, <2>8
<1>5. CASE i # T.top - 1
  <2>1. i \in Indices
    BY <1>2, <1>3 DEF Indices
  <2> DEFINE x == [T.slot[i] EXCEPT !.obj = Null]
             A == [T.slot EXCEPT ![i] = x]
  <2>2. T.slot \in [Indices -> Slots] /\ T.slot[i] \in Slots
    BY <1>2, <2>1 DEF Tables
  <2>3. x.obj = Null /\ x.serial = T.slot[i].serial
    BY <2>2 DEF Slots
  <2>4. A[i].obj = Null /\ A[i].serial = T.slot[i].serial
        /\ \A k \in Indices \ {i} : A[k] = T.slot[k]
    <3> HIDE DEF x
    <3> QED BY <2>1, <2>2, <2>3
  <2>5. S = [T EXCEPT !.slot = A, !.holes = @ + 1]
    BY <1>1, <1>5 DEF Removed
  <2> HIDE DEF A
  <2>6. S.top = T.top /\ S.slot = A
    BY <1>2, <2>5 DEF Tables
  <2>7. S.top \in c.top..T.top /\ \A k \in c.top..T.top - 1 : ~(k >= S.top)
    BY <1>2, <2>6
  <2>8. Takes(T, c, i, S)
    BY <1>2, <1>3, <2>4, <2>6, <2>7 DEF Takes
  <2> QED BY <1>1, <2>8
<1> QED BY <1>4, <1>5

WithoutRef(A, n, e) == [A EXCEPT ![n].refs = @ \ {e}]

\* As JniRefs sees it, the current frame has one reference less.
LEMMA RemoveSeen ==
  ASSUME NEW T, NEW fs, Counted(T, fs), NEW S, NEW i, Takes(T, Last(fs).cookie, i, S)
  PROVE  /\ EntryAt(T, i) \in EntriesOf(T, fs, Len(fs))
         /\ Seen(S, fs) = WithoutRef(Seen(T, fs), Len(fs), EntryAt(T, i))
         /\ IssuedOf(S) = IssuedOf(T)
<1>1. PICK c, n : c = Last(fs).cookie /\ n = Len(fs)
  OBVIOUS
<1>2. n \in Nat /\ n \in 1..n /\ c = fs[n].cookie /\ MaxEntries \in Nat /\ Takes(T, c, i, S)
  BY <1>1, EntriesAssumption DEF Counted, Last
<1>3. 0..c.top - 1 \subseteq Indices \ {i} /\ (c.top..T.top - 1) \ {i} \subseteq Indices \ {i}
  BY <1>2 DEF Indices, Takes
<1>4. Seen(S, fs) = [Seen(T, fs) EXCEPT ![n].refs = EntriesOf(S, fs, n)]
  <2>1. \A k \in 0..fs[n].cookie.top - 1 : S.slot[k] = T.slot[k]
    BY <1>2, <1>3 DEF Takes
  <2>2. SameFrames(fs, fs)
    BY DEF SameFrames
  <2> QED BY <1>1, <2>1, <2>2, LastChanges
<1> DEFINE e == EntryAt(T, i)
           old == {k \in c.top..T.top - 1 : T.slot[k].obj # Null}
           new == {k \in c.top..S.top - 1 : S.slot[k].obj # Null}
<1>5. new = old \ {i} /\ i \in old
  <2>1. \A k \in (c.top..T.top - 1) \ {i} : S.slot[k].obj = T.slot[k].obj
    BY <1>2, <1>3 DEF Takes
  <2>2. \A k : k \in c.top..S.top - 1 <=> k \in c.top..T.top - 1 /\ k < S.top
    BY <1>2 DEF Takes
  <2>3. \A k \in (c.top..T.top - 1) \ {i} : ~(k < S.top) => T.slot[k].obj = Null
    BY <1>2 DEF Takes
  <2>4. i \in old /\ i \notin new
    BY <1>2 DEF Takes
  <2> QED BY <2>1, <2>2, <2>3, <2>4
<1>6. EntriesOf(T, fs, n) = {EntryAt(T, k) : k \in old}
  BY <1>1, <1>2 DEF EntriesOf, EndOf
<1>7. EntriesOf(S, fs, n) = {EntryAt(S, k) : k \in new}
  BY <1>1, <1>2 DEF EntriesOf, EndOf
<1>8. \A k \in old \ {i} : EntryAt(S, k) = EntryAt(T, k) /\ EntryAt(T, k) # e
  <2>1. old \ {i} \subseteq Indices \ {i}
    BY <1>3
  <2>2. \A k : EntryAt(T, k).ref = <<k, T.slot[k].serial>>
    BY DEF EntryAt
  <2>3. \A k \in old \ {i} : EntryAt(T, k) # e
    BY <2>2
  <2>4. \A k \in old \ {i} : EntryAt(S, k) = EntryAt(T, k)
    BY <1>2, <2>1 DEF EntryAt, Takes
  <2> QED BY <2>3, <2>4
<1>9. EntriesOf(S, fs, n) = EntriesOf(T, fs, n) \ {e} /\ e \in EntriesOf(T, fs, n)
  <2>1. e = EntryAt(T, i)
    OBVIOUS
  <2> HIDE DEF e, old, new
  <2> QED BY <1>5, <1>6, <1>7, <1>8, <2>1
<1>10. Seen(T, fs)[n].refs = EntriesOf(T, fs, n)
  BY <1>1, <1>2 DEF Seen
<1>11. \A k \in Indices : S.slot[k].serial = T.slot[k].serial
  <2>1. \A k \in Indices : k = i \/ k \in Indices \ {i}
    OBVIOUS
  <2> QED BY <1>2, <2>1 DEF Takes
<1>12. IssuedOf(S) = IssuedOf(T)
  BY <1>11 DEF IssuedOf
<1> HIDE DEF e
<1>13. Seen(S, fs) = [Seen(T, fs) EXCEPT ![n].refs = @ \ {e}]
  BY <1>4, <1>9, <1>10
<1> QED BY <1>1, <1>9, <1>12, <1>13 DEF e, WithoutRef

\* The collector clears references in place.
LEMMA SweepSeen ==
  ASSUME NEW T, NEW fs, Counted(T, fs), NEW dead \in SUBSET Objects
  PROVE  /\ Seen(Swept(T, dead), fs) = [i \in 1..Len(fs) |-> [Seen(T, fs)[i] EXCEPT !.refs =
              {IF e.obj \in dead THEN [e EXCEPT !.obj = Cleared] ELSE e : e \in @}]]
         /\ IssuedOf(Swept(T, dead)) = IssuedOf(T)
<1>1. PICK S, n : S = Swept(T, dead) /\ n = Len(fs)
  OBVIOUS
<1>2. T \in Tables /\ T.slot \in [Indices -> Slots]
  BY DEF Counted, Tables
<1>3. /\ S.top = T.top
      /\ S.slot = [i \in Indices |-> IF i < T.top /\ T.slot[i].obj \in dead
                                     THEN [T.slot[i] EXCEPT !.obj = Cleared] ELSE T.slot[i]]
  BY <1>1, <1>2 DEF Swept, Tables
<1> DEFINE clear(e) == IF e.obj \in dead THEN [e EXCEPT !.obj = Cleared] ELSE e
<1>4. ASSUME NEW k \in Indices, k < T.top
      PROVE  /\ EntryAt(S, k) = clear(EntryAt(T, k))
             /\ S.slot[k].obj = Null <=> T.slot[k].obj = Null
  <2>1. T.slot[k] \in Slots
    BY <1>2, <1>4
  <2>2. S.slot[k] = IF T.slot[k].obj \in dead THEN [T.slot[k] EXCEPT !.obj = Cleared]
                    ELSE T.slot[k]
    BY <1>3, <1>4
  <2>3. S.slot[k].obj = (IF T.slot[k].obj \in dead THEN Cleared ELSE T.slot[k].obj)
        /\ S.slot[k].serial = T.slot[k].serial
    BY <2>1, <2>2 DEF Slots
  <2> QED BY <2>3, ObjectAssumption DEF EntryAt
<1>5. \A k \in Indices : S.slot[k].serial = T.slot[k].serial
  <2>1. \A k \in Indices : T.slot[k] \in Slots
    BY <1>2
  <2> QED BY <1>3, <2>1 DEF Slots
<1>6. IssuedOf(S) = IssuedOf(T)
  BY <1>5 DEF IssuedOf
<1>7. ASSUME NEW i \in 1..n PROVE EntriesOf(S, fs, i) = {clear(e) : e \in EntriesOf(T, fs, i)}
  <2>1. PICK a, b : a = fs[i].cookie.top /\ b = EndOf(T, fs, i)
    OBVIOUS
  <2>2. EndOf(S, fs, i) = b
    BY <1>3, <2>1 DEF EndOf
  <2>3. \A k \in a..b - 1 : k \in Indices /\ k < T.top
    <3>1. a \in Nat /\ b \in Nat /\ b <= T.top /\ T.top \in Nat /\ T.top <= MaxEntries
          /\ MaxEntries \in Nat
      BY <1>1, <1>7, <2>1, SegmentBounds
    <3> QED BY <3>1 DEF Indices
  <2>4. PICK L : L = {k \in a..b - 1 : T.slot[k].obj # Null}
    OBVIOUS
  <2>5. L = {k \in a..b - 1 : S.slot[k].obj # Null} /\ \A k \in L : k \in a..b - 1
    BY <1>4, <2>3, <2>4
  <2>6. EntriesOf(T, fs, i) = {EntryAt(T, k) : k \in L}
    BY <2>1, <2>4 DEF EntriesOf
  <2>7. EntriesOf(S, fs, i) = {EntryAt(S, k) : k \in L}
    BY <2>1, <2>2, <2>5 DEF EntriesOf
  <2>8. \A k \in L : EntryAt(S, k) = clear(EntryAt(T, k))
    BY <1>4, <2>3, <2>5
  <2> HIDE DEF clear
  <2> QED BY <2>6, <2>7, <2>8
<1>8. PICK A : A = Seen(T, fs)
  OBVIOUS
<1>9. A = [i \in 1..n |-> [native |-> fs[i].native, refs |-> EntriesOf(T, fs, i)]]
  BY <1>1, <1>8 DEF Seen
<1>10. Seen(S, fs) = [i \in 1..n |-> [native |-> fs[i].native, refs |-> EntriesOf(S, fs, i)]]
  BY <1>1 DEF Seen
<1>11. ASSUME NEW i \in 1..n
       PROVE  [A[i] EXCEPT !.refs = {clear(e) : e \in @}]
                = [native |-> fs[i].native, refs |-> EntriesOf(S, fs, i)]
  <2>1. PICK y : y = A[i]
    OBVIOUS
  <2>2. y = [native |-> fs[i].native, refs |-> EntriesOf(T, fs, i)]
    BY <1>9, <1>11, <2>1
  <2>3. PICK r : r = {clear(e) : e \in y.refs}
    OBVIOUS
  <2>4. r = EntriesOf(S, fs, i)
    <3> HIDE DEF clear
    <3> QED BY <1>7, <1>11, <2>2, <2>3
  <2>5. [y EXCEPT !.refs = r] = [native |-> fs[i].native, refs |-> EntriesOf(S, fs, i)]
    BY <2>2, <2>4
  <2> HIDE DEF clear
  <2> QED BY <2>1, <2>3, <2>5
<1>12. Seen(S, fs) = [i \in 1..n |-> [A[i] EXCEPT !.refs = {clear(e) : e \in @}]]
  <2> HIDE DEF clear
  <2> QED BY <1>10, <1>11
<1> QED BY <1>1, <1>6, <1>8, <1>12

LiveIn(A) == UNION {A[i].refs : i \in 1..Len(A)}
Used(T)   == {k \in 0..T.top - 1 : T.slot[k].obj # Null}

\* The segments together are the table.
LEMMA LiveSeen ==
  ASSUME NEW T, NEW fs, Counted(T, fs), fs[1].cookie.top = 0
  PROVE  LiveIn(Seen(T, fs)) = {EntryAt(T, k) : k \in Used(T)}
<1>1. PICK n : n = Len(fs)
  OBVIOUS
<1>2. n \in Nat /\ n \in 1..n /\ T.top \in Nat /\ 1 \in 1..n
  BY <1>1 DEF Counted, Tables
<1>3. PICK L : L = Used(T)
  OBVIOUS
<1>4. \A i \in 1..n : Seen(T, fs)[i].refs = EntriesOf(T, fs, i)
  BY <1>1 DEF Seen
<1>5. \A i \in 1..n : /\ fs[i].cookie.top \in Nat /\ EndOf(T, fs, i) \in Nat
                      /\ EndOf(T, fs, i) <= T.top
  BY <1>1, SegmentBounds
<1>6. ASSUME NEW i \in 1..n, NEW e \in EntriesOf(T, fs, i) PROVE \E k \in L : e = EntryAt(T, k)
  <2>1. PICK k \in {m \in fs[i].cookie.top..EndOf(T, fs, i) - 1 : T.slot[m].obj # Null} :
          e = EntryAt(T, k)
    BY DEF EntriesOf
  <2>2. k \in 0..T.top - 1
    BY <1>2, <1>5, <2>1
  <2> QED BY <1>3, <2>1, <2>2 DEF Used
<1>7. ASSUME NEW k \in L PROVE \E i \in 1..n : EntryAt(T, k) \in EntriesOf(T, fs, i)
  <2> DEFINE B == {i \in 1..n : fs[i].cookie.top <= k}
  <2>1. k \in 0..T.top - 1 /\ k \in Nat /\ T.slot[k].obj # Null
    BY <1>2, <1>3 DEF Used
  <2>2. B # {} /\ B \subseteq 0..n
    <3>1. 1 \in B
      BY <1>2, <2>1
    <3> QED BY <1>2, <3>1
  <2>3. PICK i : i = Max(B)
    OBVIOUS
  <2>4. i \in B /\ \A x \in B : i >= x
    <3> HIDE DEF B
    <3> QED BY <1>2, <2>2, <2>3, MaxOf
  <2>5. k < EndOf(T, fs, i)
    <3>1. CASE i = n
      BY <1>1, <1>2, <2>1, <3>1 DEF EndOf
    <3>2. CASE i # n
      <4>1. i + 1 \in 1..n /\ ~(i >= i + 1)
        BY <1>2, <2>4, <3>2
      <4>2. ~(fs[i + 1].cookie.top <= k)
        BY <2>4, <4>1
      <4> QED BY <1>1, <1>5, <2>1, <3>2, <4>1, <4>2 DEF EndOf
    <3> QED BY <3>1, <3>2
  <2>6. k \in fs[i].cookie.top..EndOf(T, fs, i) - 1 /\ i \in 1..n
    BY <1>5, <2>1, <2>4, <2>5
  <2> QED BY <2>1, <2>6 DEF EntriesOf
<1>8. UNION {EntriesOf(T, fs, i) : i \in 1..n} = {EntryAt(T, k) : k \in L}
  BY <1>6, <1>7
<1>9. LiveIn(Seen(T, fs)) = UNION {EntriesOf(T, fs, i) : i \in 1..n}
  <2>1. Len(Seen(T, fs)) = n
    BY <1>1, <1>2 DEF Seen
  <2> QED BY <1>4, <2>1 DEF LiveIn
<1> QED BY <1>1, <1>3, <1>8, <1>9

-----------------------------------------------------------------------------
(* The calls keep the promises, one lemma each.                            *)
LEMMA SameSlot ==
  ASSUME NEW T, NEW c
  PROVE  Table!NextSlot(T, c) = NextSlot(T, c)
<1>1. Table!HoleIn(T) = HoleIn(T)
  BY SameExtrema DEF Table!HoleIn, HoleIn
<1> QED BY <1>1 DEF Table!NextSlot, NextSlot, Table!HasHole, HasHole

LEMMA SameIssued == Table!Issued = Issued
BY DEF Table!Issued, Issued, Table!Indices, Indices

LEMMA SameCardinality == \A S : Table!Cardinality(S) = Cardinality(S)
BY DEF Table!Cardinality, Cardinality

\* What the refinement mapping is, in one step's states.
LEMMA Sees ==
  /\ References = Seen(table, frames) /\ Issued = IssuedOf(table)
  /\ References' = Seen(table', frames') /\ Issued' = IssuedOf(table')
<1>1. Issued = IssuedOf(table) /\ Issued' = IssuedOf(table')
  BY DEF Issued, IssuedOf
<1>2. \A i : Entries(i) = EntriesOf(table, frames, i)
  BY DEF Entries, EntriesOf, EntryAt, Bottom, Above, EndOf
<1>3. \A i : Entries(i)' = EntriesOf(table', frames', i)
  BY DEF Entries, EntriesOf, EntryAt, Bottom, Above, EndOf
<1> QED BY <1>1, <1>2, <1>3 DEF References, Seen

\* The serial number of a slot is at most the number of references handed out.
LEMMA SerialBound ==
  ASSUME NEW T \in Tables, NEW i \in Indices, Cardinality(IssuedOf(T)) < MaxRefs
  PROVE  T.slot[i].serial + 1 \in 1..MaxRefs
<1>1. \A k \in Indices : T.slot[k].serial \in Nat
  <2>1. \A k \in Indices : T.slot[k] \in Slots
    BY DEF Tables
  <2> QED BY <2>1 DEF Slots
<1> DEFINE row(k) == {<<k, s>> : s \in 1..T.slot[k].serial}
           m == T.slot[i].serial
<1>2. ASSUME NEW k \in Indices
      PROVE  IsFiniteSet(row(k)) /\ Cardinality(row(k)) = T.slot[k].serial
  <2>1. PICK n : n = T.slot[k].serial
    OBVIOUS
  <2>2. n \in Nat
    BY <1>1, <1>2, <2>1
  <2>3. IsFiniteSet(1..n) /\ Cardinality(1..n) = n
    BY <2>2, FS_Interval
  <2>4. [s \in 1..n |-> <<k, s>>] \in Bijection(1..n, row(k))
    BY <2>1 DEF Bijection, Injection, Surjection, IsInjective
  <2>5. ExistsBijection(1..n, row(k))
    BY <2>4 DEF ExistsBijection
  <2> HIDE DEF row
  <2> QED BY <2>1, <2>3, <2>5, FS_Bijection
<1>3. IsFiniteSet(IssuedOf(T))
  <2> DEFINE rows == {row(k) : k \in Indices}
  <2>1. IsFiniteSet(Indices)
    BY EntriesAssumption, FS_Interval DEF Indices
  <2>2. IsFiniteSet(rows)
    <3> HIDE DEF row
    <3>1. [k \in Indices |-> row(k)] \in Surjection(Indices, rows)
      BY DEF Surjection
    <3> HIDE DEF rows
    <3> QED BY <2>1, <3>1, FS_Surjection
  <2>3. \A x \in rows : IsFiniteSet(x)
    <3> HIDE DEF row
    <3> QED BY <1>2
  <2>4. IsFiniteSet(UNION rows)
    <3> HIDE DEF rows
    <3> QED BY <2>2, <2>3, FS_UNION
  <2> QED BY <2>4 DEF IssuedOf
<1>4. m \in Nat
  BY <1>1
<1>5. Cardinality(row(i)) = m
  <2> HIDE DEF row
  <2> QED BY <1>2
<1>6. row(i) \subseteq IssuedOf(T)
  BY DEF IssuedOf
<1>7. Cardinality(row(i)) <= Cardinality(IssuedOf(T)) /\ Cardinality(IssuedOf(T)) \in Nat
  BY <1>3, <1>6, FS_Subset, FS_CardinalityType
<1> QED BY <1>4, <1>5, <1>7, RefsAssumption

\* A call that the process does not survive.
LEMMA StopsAborts ==
  ASSUME NEW name, NEW j, NEW how \in {"aborted", "crashed"}, Table!Stops(name, j, how)
  PROVE  Promise!Calls(name, j) /\ Promise!Aborts
<1>1. References' = References /\ Issued' = Issued
  BY Sees DEF Table!Stops
<1>2. Outcome' = "aborted"
  BY DEF Table!Stops, Outcome
<1>3. call' = <<name, j, Null>>
  BY DEF Table!Stops
<1> QED BY <1>1, <1>2, <1>3 DEF Promise!Calls, Promise!Aborts, Promise!Returns

\* Whatever adds a reference, to a table and a stack that a call is left with.
LEMMA AddsRefines ==
  ASSUME NEW T, NEW fs, Counted(T, fs), IssuedOf(T) = IssuedOf(table),
         NEW o \in Objects \cup {Cleared}, NEW name, NEW j, Table!Adds(name, j, T, fs, o)
  PROVE  Promise!Calls(name, j) /\ Promise!Adds(Seen(T, fs), o)
<1>1. CASE \E how \in {"aborted", "crashed"} : Table!Stops(name, j, how)
  BY <1>1, StopsAborts DEF Promise!Adds
<1>2. ASSUME ~Table!Full(T, Table!Last(fs).cookie),
             Cardinality(Issued) < MaxRefs,
             table' = Table!Added(T, Table!Last(fs).cookie, o),
             frames' = [fs EXCEPT ![Len(fs)].promised = IF @ = 0 THEN 0 ELSE @ - 1],
             NEW i, i = Table!NextSlot(T, Table!Last(fs).cookie),
             call' = <<name, j, IF Table!Bare THEN o ELSE <<i, T.slot[i].serial + 1>>>>,
             vm' = vm
      PROVE  Promise!Calls(name, j) /\ Promise!Adds(Seen(T, fs), o)
  <2>1. PICK c : c = Last(fs).cookie
    OBVIOUS
  <2>2. Table!Last(fs).cookie = c
    BY <2>1 DEF Table!Last, Last
  <2>3. ~Full(T, c) /\ table' = Added(T, c, o) /\ i = NextSlot(T, c)
    BY <1>2, <2>2, SameAdd, SameSlot
  <2>4. Puts(T, c, o, i, table')
    BY <2>1, <2>3, AddedShape
  <2>5. SameFrames(fs, frames')
    <3>1. fs \in Seq(Frames) /\ Len(fs) >= 1
      BY DEF Counted
    <3>2. PICK p : p = IF fs[Len(fs)].promised = 0 THEN 0 ELSE fs[Len(fs)].promised - 1
      OBVIOUS
    <3>3. frames' = [fs EXCEPT ![Len(fs)].promised = p]
      BY <1>2, <3>2
    <3>4. p \in Nat
      <4>1. fs[Len(fs)] \in Frames
        BY <3>1
      <4> QED BY <3>2, <4>1 DEF Frames
    <3> QED BY <3>1, <3>3, <3>4, PromiseShape DEF SameFrames
  <2>6. PICK r : r = <<i, T.slot[i].serial + 1>>
    OBVIOUS
  <2>7. References' = [Seen(T, fs) EXCEPT ![Len(fs)].refs = @ \cup {[ref |-> r, obj |-> o]}]
    <3>1. PICK S, gs : S = table' /\ gs = frames'
      OBVIOUS
    <3>2. Puts(T, Last(fs).cookie, o, i, S)
      BY <2>1, <2>4, <3>1
    <3>3. SameFrames(fs, gs)
      BY <2>5, <3>1
    <3>4. Seen(S, gs) = WithRef(Seen(T, fs), Len(fs), <<i, T.slot[i].serial + 1>>, o)
      BY <3>2, <3>3, AddSeen
    <3> QED BY <2>6, <3>1, <3>4, Sees DEF WithRef
  <2>8. T \in Tables /\ i \in Indices
    BY <2>4 DEF Counted, Puts
  <2>9. r \notin Issued /\ Issued' = Issued \cup {r}
    BY <2>4, <2>6, <2>8, AddIssued, Sees DEF Puts
  <2>10. r \in (Indices \X (1..MaxRefs)) \ Issued
    <3>1. T.slot[i].serial + 1 \in 1..MaxRefs
      BY <1>2, <2>8, SerialBound, Sees
    <3> QED BY <2>6, <2>8, <2>9, <3>1 DEF Table!Indices, Indices
  <2>11. Len(Seen(T, fs)) = Len(fs)
    BY DEF Seen, Counted
  <2>12. Promise!Calls(name, j)
    BY <1>2 DEF Promise!Calls
  <2>13. Promise!Returns(IF Promise!Bare THEN o ELSE r)
    BY <1>2, <2>6 DEF Promise!Returns, Promise!Bare, Table!Bare
  <2>14. Outcome' = Outcome
    BY <1>2 DEF Outcome
  <2> QED BY <2>7, <2>9, <2>10, <2>11, <2>12, <2>13, <2>14 DEF Promise!Adds
<1>3. PICK i : i = Table!NextSlot(T, Table!Last(fs).cookie)
  OBVIOUS
<1>4. \/ \E how \in {"aborted", "crashed"} : Table!Stops(name, j, how)
      \/ /\ ~Table!Full(T, Table!Last(fs).cookie)
         /\ Cardinality(Issued) < MaxRefs
         /\ table' = Table!Added(T, Table!Last(fs).cookie, o)
         /\ frames' = [fs EXCEPT ![Len(fs)].promised = IF @ = 0 THEN 0 ELSE @ - 1]
         /\ call' = <<name, j, IF Table!Bare THEN o ELSE <<i, T.slot[i].serial + 1>>>>
         /\ vm' = vm
  BY <1>3, SameCardinality, SameIssued DEF Table!Adds
<1> QED BY <1>1, <1>2, <1>3, <1>4

\* What a reference yields.
LEMMA DecodedYields ==
  ASSUME TableInv, frames[1].cookie.top = 0, NEW j
  PROVE  Promise!Yields(j) = Table!Decoded(j)
<1>1. Promise!Bare <=> Table!Bare
  BY DEF Promise!Bare, Table!Bare
<1>2. CASE j = Null \/ Table!Bare
  BY <1>1, <1>2 DEF Promise!Yields, Table!Decoded
<1>3. CASE j # Null /\ ~Table!Bare
  <2>1. PICK L : L = Used(table)
    OBVIOUS
  <2>2. Promise!Live = {EntryAt(table, k) : k \in L}
    <3>1. LiveIn(Seen(table, frames)) = {EntryAt(table, k) : k \in Used(table)}
      BY LiveSeen DEF TableInv
    <3> QED BY <2>1, <3>1, Sees DEF Promise!Live, LiveIn
  <2>3. Promise!Named(Promise!Live, j)
          = {EntryAt(table, k) : k \in {n \in L : j = <<n, table.slot[n].serial>>}}
    BY <1>1, <1>3, <2>2 DEF Promise!Named, EntryAt
  <2>4. Table!Found(table, j)
          = {table.slot[k].obj : k \in {n \in L : j = <<n, table.slot[n].serial>>}}
    BY <2>1 DEF Table!Found, Used
  <2>5. \A k : EntryAt(table, k).obj = table.slot[k].obj
    BY DEF EntryAt
  <2>6. Promise!Yields(j)
          = {IF e.obj = Cleared THEN Null ELSE e.obj :
               e \in Promise!Named(Promise!Live, j)}
    BY <1>1, <1>3 DEF Promise!Yields
  <2>7. Table!Decoded(j) = {IF o = Cleared THEN Null ELSE o : o \in Table!Found(table, j)}
    BY <1>3 DEF Table!Decoded
  <2>8. PICK M : M = {n \in L : j = <<n, table.slot[n].serial>>}
    OBVIOUS
  <2>9. Promise!Yields(j)
          = {IF table.slot[k].obj = Cleared THEN Null ELSE table.slot[k].obj : k \in M}
    BY <2>3, <2>5, <2>6, <2>8
  <2>10. Table!Decoded(j)
           = {IF table.slot[k].obj = Cleared THEN Null ELSE table.slot[k].obj : k \in M}
    BY <2>4, <2>7, <2>8
  <2> QED BY <2>9, <2>10
<1> QED BY <1>2, <1>3

\* A call that is passed what is no reference any more.
LEMMA MisusedUses ==
  ASSUME TableInv, frames[1].cookie.top = 0, NEW name, NEW j, Table!Misused(name, j)
  PROVE  Promise!Calls(name, j) /\ Promise!Uses(j)
BY DecodedYields, StopsAborts DEF Table!Misused, Promise!Uses

\* What the table and the stack keep, and the stack begins at the bottom of the table.
RefinesInv == TableInv /\ frames[1].cookie.top = 0

\* The current frame.
LEMMA SeenLast ==
  ASSUME NEW T, NEW fs, Counted(T, fs)
  PROVE  Len(Seen(T, fs)) = Len(fs) /\ Seen(T, fs)[Len(fs)].refs = EntriesOf(T, fs, Len(fs))
BY DEF Seen, Counted

LEMMA SameBare == Promise!Bare = Table!Bare
BY DEF Promise!Bare, Table!Bare

LEMMA SameNames == Promise!Names = Table!Names
BY SameBare, SameIssued DEF Promise!Names, Table!Names

\* NewLocalRef() and the like.
LEMMA NewRefRefines ==
  ASSUME RefinesInv, NEW o \in Objects, Table!NewRef(o)
  PROVE  Promise!New(o)
<1>1. Table!Adds("New", o, table, frames, o)
  BY DEF Table!NewRef
<1> QED BY <1>1, AddsRefines, Sees DEF RefinesInv, TableInv, Promise!New

\* The reference that remove() finds is one that the call names, if there is one.
LEMMA PlacesNamed ==
  ASSUME RefinesInv, NEW j, NEW n, n = Len(frames)
  PROVE  LET mine == Promise!Named(EntriesOf(table, frames, n), j)
             is   == Places(table, Last(frames).cookie, j)
         IN  /\ (mine # {}) <=> (is # {})
             /\ \A i \in is : EntryAt(table, i) \in mine
<1>1. PICK c : c = Last(frames).cookie
  OBVIOUS
<1>2. c = frames[n].cookie /\ EndOf(table, frames, n) = table.top
  BY <1>1 DEF Last, EndOf
<1>3. c.top \in Nat /\ table.top \in Nat
  <2>1. LET f == Last(frames)
        IN  table \in Tables /\ f \in Frames
    BY LastSegment DEF RefinesInv, TableInv
  <2> QED BY <1>1, <2>1 DEF Tables, Frames
<1> DEFINE segment == {k \in c.top..table.top - 1 : table.slot[k].obj # Null}
           hits == {k \in segment : IF Bare THEN table.slot[k].obj = j
                                    ELSE j = <<k, table.slot[k].serial>>}
           mine == Promise!Named(EntriesOf(table, frames, n), j)
           is == Places(table, c, j)
<1>4. \A e : e \in mine <=> \E k \in hits : e = EntryAt(table, k)
  <2>1. EntriesOf(table, frames, n) = {EntryAt(table, k) : k \in segment}
    BY <1>2 DEF EntriesOf
  <2>2. \A k : /\ EntryAt(table, k).obj = table.slot[k].obj
               /\ EntryAt(table, k).ref = <<k, table.slot[k].serial>>
    BY DEF EntryAt
  <2>3. mine = {e \in EntriesOf(table, frames, n) : IF Bare THEN e.obj = j ELSE e.ref = j}
    BY DEF Promise!Named, Promise!Bare, Bare
  <2> QED BY <2>1, <2>2, <2>3
<1>5. is \subseteq hits /\ (is = {} <=> hits = {})
  <2>1. CASE ~Bare
    BY <2>1 DEF Places
  <2>2. CASE Bare
    <3>1. is = IF hits = {} THEN {} ELSE {Min(hits)}
      BY <2>2 DEF Places
    <3>2. hits \subseteq 0..table.top
      BY <1>3
    <3>3. hits # {} => Min(hits) \in hits
      <4> HIDE DEF hits
      <4> QED BY <1>3, <3>2, MinOf
    <3> QED BY <3>1, <3>3
  <2> QED BY <2>1, <2>2
<1> HIDE DEF mine, is, hits
<1>6. (mine # {} <=> is # {}) /\ \A i \in is : EntryAt(table, i) \in mine
  BY <1>4, <1>5
<1> QED BY <1>1, <1>6 DEF mine, is

\* DeleteLocalRef() and the like.
LEMMA DeleteRefRefines ==
  ASSUME RefinesInv, NEW j, Table!DeleteRef(j)
  PROVE  Promise!Delete(j)
<1>1. PICK c, n, A : c = Last(frames).cookie /\ n = Len(frames) /\ A = Seen(table, frames)
  OBVIOUS
<1>2. PICK is : is = Places(table, c, j)
  OBVIOUS
<1>3. /\ \/ is = {} /\ table' = table
         \/ \E i \in is : table' = Removed(table, c, i)
      /\ call' = <<"Delete", j, is # {}>> /\ frames' = frames /\ vm' = vm
  BY <1>1, <1>2, SameRemove DEF Table!DeleteRef, Table!Last, Last
<1>4. PICK mine : mine = Promise!Named(EntriesOf(table, frames, n), j)
  OBVIOUS
<1>5. (mine # {} <=> is # {}) /\ \A i \in is : EntryAt(table, i) \in mine
  BY <1>1, <1>2, <1>4, PlacesNamed
<1>6. References = A /\ Len(A) = n /\ A[n].refs = EntriesOf(table, frames, n)
  BY <1>1, Sees, SeenLast DEF RefinesInv, TableInv
<1>7. /\ \/ mine = {} /\ References' = A
         \/ \E e \in mine : References' = [A EXCEPT ![n].refs = @ \ {e}]
      /\ Issued' = Issued
  <2>1. CASE is = {} /\ table' = table
    BY <1>1, <1>3, <1>5, <2>1, Sees
  <2>2. ASSUME NEW i \in is, table' = Removed(table, c, i)
        PROVE  /\ \E e \in mine : References' = [A EXCEPT ![n].refs = @ \ {e}]
               /\ Issued' = Issued
    <3>1. Takes(table, Last(frames).cookie, i, table')
      BY <1>1, <1>2, <2>2, RemovedShape DEF RefinesInv, TableInv
    <3>2. Counted(table, frames)
      BY DEF RefinesInv, TableInv
    <3>3. /\ Seen(table', frames)
               = WithoutRef(Seen(table, frames), Len(frames), EntryAt(table, i))
          /\ IssuedOf(table') = IssuedOf(table)
      BY <3>1, <3>2, RemoveSeen
    <3>4. Seen(table', frames) = [A EXCEPT ![n].refs = @ \ {EntryAt(table, i)}]
      BY <1>1, <3>3 DEF WithoutRef
    <3> QED BY <1>3, <1>5, <2>2, <3>3, <3>4, Sees
  <2> QED BY <1>3, <2>1, <2>2
<1>8. Promise!Named(Promise!Last(References).refs, j) = mine
  BY <1>4, <1>6 DEF Promise!Last
<1>9. Promise!Calls("Delete", j) /\ Promise!Returns(mine # {})
  <2>1. (mine # {}) = (is # {})
    BY <1>5
  <2>2. call' = <<"Delete", j, mine # {}>>
    BY <1>3, <2>1
  <2> QED BY <2>2 DEF Promise!Calls, Promise!Returns
<1>10. Outcome' = Outcome
  BY <1>3 DEF Outcome
<1> QED BY <1>6, <1>7, <1>8, <1>9, <1>10 DEF Promise!Delete

\* Any use of a reference.
LEMMA DecodeRefines ==
  ASSUME RefinesInv, NEW j, Table!Decode(j)
  PROVE  Promise!Decode(j)
<1>1. CASE Table!Misused("Decode", j)
  BY <1>1, MisusedUses DEF RefinesInv, Promise!Decode
<1>2. ASSUME NEW o \in Table!Decoded(j), call' = <<"Decode", j, o>>, UNCHANGED <<table, frames, vm>>
      PROVE  Promise!Decode(j)
  <2>1. o \in Promise!Yields(j)
    BY <1>2, DecodedYields DEF RefinesInv
  <2>2. References' = References /\ Issued' = Issued
    BY <1>2, Sees
  <2>3. Outcome' = Outcome
    BY <1>2 DEF Outcome
  <2>4. Promise!Calls("Decode", j) /\ Promise!Returns(o)
    BY <1>2 DEF Promise!Calls, Promise!Returns
  <2> QED BY <2>1, <2>2, <2>3, <2>4 DEF Promise!Decode
<1> QED BY <1>1, <1>2 DEF Table!Decode

\* What is promised to a frame is not seen.
LEMMA SameSeen ==
  ASSUME NEW T, NEW fs, NEW gs, Len(fs) \in Nat, SameFrames(fs, gs)
  PROVE  Seen(T, gs) = Seen(T, fs)
<1>1. PICK n : n = Len(fs)
  OBVIOUS
<1>2. /\ n \in Nat /\ Len(gs) = n
      /\ \A i \in 1..n : gs[i].native = fs[i].native /\ gs[i].cookie = fs[i].cookie
  BY <1>1 DEF SameFrames
<1>3. ASSUME NEW i \in 1..n PROVE EntriesOf(T, gs, i) = EntriesOf(T, fs, i)
  <2>1. i # n => i + 1 \in 1..n
    BY <1>2
  <2>2. EndOf(T, gs, i) = EndOf(T, fs, i)
    BY <1>1, <1>2, <2>1 DEF EndOf
  <2> QED BY <1>2, <2>2 DEF EntriesOf
<1> QED BY <1>1, <1>2, <1>3 DEF Seen

\* A native method is called.
LEMMA CallNativeRefines ==
  ASSUME RefinesInv, NEW o \in Objects, Table!CallNative(o)
  PROVE  Promise!Enter(o)
<1>1. PICK fs : fs = Append(frames, Frame(TRUE, [top |-> table.top, holes |-> table.holes], 0))
  OBVIOUS
<1>2. Table!Adds("Enter", o, table, fs, o)
  BY <1>1, CookieShape DEF RefinesInv, Table!CallNative
<1>3. Counted(table, fs)
  <2>1. table.top \in 0..MaxEntries /\ MaxEntries \in Nat
    BY EntriesAssumption DEF RefinesInv, TableInv, Counted, Tables
  <2>2. 0 + table.top <= MaxEntries
    BY <2>1
  <2>3. Counted(table, Append(frames, Frame(TRUE, [top |-> table.top, holes |-> table.holes], 0)))
    BY <2>2, PushCounts DEF RefinesInv, TableInv
  <2> QED BY <1>1, <2>3
<1>4. Promise!Calls("Enter", o) /\ Promise!Adds(Seen(table, fs), o)
  BY <1>2, <1>3, AddsRefines
<1>5. Seen(table, fs) = Append(References, Promise!Frame(TRUE))
  <2>1. Seen(table, Append(frames, Frame(TRUE, [top |-> table.top, holes |-> table.holes], 0)))
          = Append(Seen(table, frames), [native |-> TRUE, refs |-> {}])
    BY PushSeen DEF RefinesInv, TableInv
  <2> QED BY <1>1, <2>1, Sees DEF Promise!Frame
<1> QED BY <1>4, <1>5 DEF Promise!Enter

\* EnsureLocalCapacity() and PushLocalFrame().
LEMMA EnsureRefines ==
  ASSUME RefinesInv, NEW n \in Capacities, Table!Ensure(n)
  PROVE  Promise!Ensure
<1>1. SameFrames(frames, frames')
  <2>1. CASE ~Table!EnsureLocalCapacity(n)
    BY <2>1 DEF Table!Ensure, SameFrames
  <2>2. CASE Table!EnsureLocalCapacity(n)
    <3>1. PICK q : q = Table!Max({frames[Len(frames)].promised, n})
      OBVIOUS
    <3>2. frames' = [frames EXCEPT ![Len(frames)].promised = q]
      BY <2>2, <3>1 DEF Table!Ensure
    <3>3. frames \in Seq(Frames)
      BY DEF RefinesInv, TableInv, Counted
    <3>4. \A i \in 1..Len(frames) : frames[i] \in Frames
      BY <3>3
    <3> QED BY <3>2, <3>3, <3>4 DEF SameFrames, Frames
  <2> QED BY <2>1, <2>2
<1>2. table' = table /\ vm' = vm
  BY DEF Table!Ensure
<1>3. Seen(table', frames') = Seen(table, frames)
  <2>1. Len(frames) \in Nat
    BY DEF RefinesInv, TableInv, Counted
  <2> QED BY <1>1, <1>2, <2>1, SameSeen
<1>4. References' = References /\ Issued' = Issued
  BY <1>2, <1>3, Sees
<1>5. Outcome' = Outcome
  BY <1>2 DEF Outcome
<1>6. PICK ok \in BOOLEAN : call' = <<"Ensure", Null, ok>>
  <2>1. PICK x : x = Table!EnsureLocalCapacity(n)
    OBVIOUS
  <2>2. x \in BOOLEAN
    BY <2>1 DEF Table!EnsureLocalCapacity
  <2>3. call' = <<"Ensure", Null, x>>
    BY <2>1 DEF Table!Ensure
  <2> QED BY <2>2, <2>3
<1>7. Promise!Calls("Ensure", Null) /\ Promise!Returns(ok)
  BY <1>6 DEF Promise!Calls, Promise!Returns
<1> QED BY <1>4, <1>5, <1>6, <1>7 DEF Promise!Ensure

LEMMA PushLocalFrameRefines ==
  ASSUME RefinesInv, NEW n \in Capacities, Table!PushLocalFrame(n)
  PROVE  Promise!PushLocalFrame
<1>1. table' = table /\ vm' = vm
  BY DEF Table!PushLocalFrame
<1>2. Issued' = Issued /\ Outcome' = Outcome
  BY <1>1, Sees DEF Outcome
<1>3. CASE ~Table!EnsureLocalCapacity(n)
  <2>1. call' = <<"Push", Null, FALSE>> /\ frames' = frames
    <3>1. Table!EnsureLocalCapacity(n) = FALSE
      BY <1>3 DEF Table!EnsureLocalCapacity
    <3> QED BY <3>1 DEF Table!PushLocalFrame
  <2>2. References' = References
    BY <1>1, <2>1, Sees
  <2>3. Promise!Calls("Push", Null) /\ Promise!Returns(FALSE)
    BY <2>1 DEF Promise!Calls, Promise!Returns
  <2> QED BY <1>2, <2>2, <2>3 DEF Promise!PushLocalFrame
<1>4. CASE Table!EnsureLocalCapacity(n)
  <2>1. Table!EnsureLocalCapacity(n) = TRUE
    BY <1>4 DEF Table!EnsureLocalCapacity
  <2>2. call' = <<"Push", Null, TRUE>>
    BY <2>1 DEF Table!PushLocalFrame
  <2>3. frames' = Append(frames, Frame(FALSE, [top |-> table.top, holes |-> table.holes], n))
    BY <1>4, CookieShape DEF RefinesInv, Table!PushLocalFrame
  <2>4. Seen(table, Append(frames, Frame(FALSE, [top |-> table.top, holes |-> table.holes], n)))
          = Append(Seen(table, frames), [native |-> FALSE, refs |-> {}])
    BY PushSeen DEF RefinesInv, TableInv
  <2>5. References' = Append(References, Promise!Frame(FALSE))
    BY <1>1, <2>3, <2>4, Sees DEF Promise!Frame
  <2>6. Promise!Calls("Push", Null) /\ Promise!Returns(TRUE)
    BY <2>2 DEF Promise!Calls, Promise!Returns
  <2> QED BY <1>2, <2>5, <2>6 DEF Promise!PushLocalFrame
<1> QED BY <1>3, <1>4

\* PopLocalFrame(), and what it hands to the frame before.
LEMMA PopLocalFrameRefines ==
  ASSUME RefinesInv, NEW j \in Table!Names, Table!PopLocalFrame(j)
  PROVE  Promise!PopLocalFrame(j)
<1>1. PICK f, n, T, fs : /\ f = Last(frames) /\ n = Len(frames)
                         /\ T = IF f.native THEN table ELSE Table!Popped(f.cookie)
                         /\ fs = IF f.native THEN frames ELSE Table!Front(frames)
  OBVIOUS
<1>2. PICK A, gs : /\ A = Seen(table, frames)
                   /\ gs = IF f.native THEN A ELSE SubSeq(A, 1, n - 1)
  OBVIOUS
<1>3. Counted(T, fs) /\ Seen(T, fs) = gs /\ IssuedOf(T) = IssuedOf(table)
  <2>1. CASE f.native
    BY <1>1, <1>2, <2>1 DEF RefinesInv, TableInv
  <2>2. CASE ~f.native
    <3>1. Len(frames) \in Nat /\ Len(frames) >= 1 /\ frames[1].native
      BY DEF RefinesInv, TableInv, Counted
    <3>2. Len(frames) \in 2..Len(frames)
      BY <1>1, <2>2, <3>1 DEF Last
    <3>3. /\ T = [table EXCEPT !.top = frames[Len(frames)].cookie.top,
                               !.holes = frames[Len(frames)].cookie.holes]
          /\ fs = SubSeq(frames, 1, Len(frames) - 1)
      BY <1>1, <2>2 DEF Table!Popped, Table!Front, Last
    <3>4. Counted(T, fs)
      BY <3>2, <3>3, PopCounts DEF RefinesInv, TableInv
    <3>5. Seen(T, fs) = SubSeq(Seen(table, frames), 1, Len(frames) - 1)
          /\ IssuedOf(T) = IssuedOf(table)
      BY <3>2, <3>3, PopSeen DEF RefinesInv, TableInv
    <3> QED BY <1>1, <1>2, <2>2, <3>4, <3>5
  <2> QED BY <2>1, <2>2
<1>4. gs = IF Promise!Last(References).native THEN References
           ELSE Promise!Front(References)
  <2>1. Len(A) = n /\ n \in 1..n
    BY <1>1, <1>2, SeenLast DEF RefinesInv, TableInv, Counted
  <2>2. A[n].native = f.native
    BY <1>1, <1>2, <2>1 DEF Seen, Last
  <2> QED BY <1>2, <2>1, <2>2, Sees DEF Promise!Last, Promise!Front
<1>5. Table!Last(frames) = f
  BY <1>1 DEF Table!Last, Last
<1>6. \/ Table!Misused("Pop", j)
      \/ \E o \in Table!Decoded(j) \ {Null} : Table!Adds("Pop", j, T, fs, o)
      \/ /\ Null \in Table!Decoded(j)
         /\ table' = T /\ frames' = fs /\ call' = <<"Pop", j, Null>> /\ vm' = vm
  BY <1>1, <1>5 DEF Table!PopLocalFrame
<1>7. Promise!Yields(j) = Table!Decoded(j)
  BY DecodedYields DEF RefinesInv
<1>8. CASE Table!Misused("Pop", j)
  BY <1>8, MisusedUses DEF RefinesInv, Promise!PopLocalFrame
<1>9. ASSUME NEW o \in Table!Decoded(j) \ {Null}, Table!Adds("Pop", j, T, fs, o)
      PROVE  Promise!PopLocalFrame(j)
  <2>1. o \in Objects \cup {Cleared}
    BY <1>9, DecodedIsObject DEF RefinesInv
  <2>2. Promise!Calls("Pop", j) /\ Promise!Adds(Seen(T, fs), o)
    BY <1>3, <1>9, <2>1, AddsRefines
  <2> QED BY <1>3, <1>4, <1>7, <1>9, <2>2 DEF Promise!PopLocalFrame
<1>10. CASE /\ Null \in Table!Decoded(j)
            /\ table' = T /\ frames' = fs /\ call' = <<"Pop", j, Null>> /\ vm' = vm
  <2>1. References' = gs /\ Issued' = Issued
    BY <1>3, <1>10, Sees
  <2>2. Outcome' = Outcome
    BY <1>10 DEF Outcome
  <2>3. Promise!Calls("Pop", j) /\ Promise!Returns(Null)
    BY <1>10 DEF Promise!Calls, Promise!Returns
  <2> QED BY <1>4, <1>7, <1>10, <2>1, <2>2, <2>3 DEF Promise!PopLocalFrame
<1> QED BY <1>6, <1>8, <1>9, <1>10

\* The native method that returns.
LEMMA NativeIs ==
  ASSUME RefinesInv, Table!Native > 1
  PROVE  Table!Native \in 2..Len(frames) /\ Promise!NativeFrame = Table!Native
<1> DEFINE I == {i \in 1..Len(frames) : frames[i].native}
<1>1. Table!Native = IF I # {} THEN Max(I) ELSE 0
  BY SameExtrema DEF Table!Native, Table!SelectLastInSeq
<1>2. Len(frames) \in Nat
  BY DEF RefinesInv, TableInv, Counted
<1>3. I # {} /\ I \subseteq 0..Len(frames)
  BY <1>1, <1>2
<1>4. Max(I) \in I
  <2> HIDE DEF I
  <2> QED BY <1>2, <1>3, MaxOf
<1>5. PICK m : m = Table!Native
  OBVIOUS
<1>6. m \in 1..Len(frames) /\ m > 1
  BY <1>1, <1>3, <1>4, <1>5
<1>7. m \in 2..Len(frames)
  BY <1>2, <1>6
<1>8. {i \in 1..Len(References) : References[i].native} = I
  <2>1. Len(References) = Len(frames)
    BY Sees, SeenLast DEF RefinesInv, TableInv
  <2>2. \A i \in 1..Len(frames) : References[i].native = frames[i].native
    BY Sees DEF Seen
  <2> QED BY <2>1, <2>2
<1>9. Promise!NativeFrame = IF I # {} THEN Promise!Max(I) ELSE 0
  BY <1>8 DEF Promise!NativeFrame, Promise!SelectLastInSeq
<1>10. Promise!Max(I) = Max(I)
  BY DEF Promise!Max, Max
<1> QED BY <1>1, <1>5, <1>7, <1>9, <1>10

\* A native method returns, and with it every frame it left behind.
LEMMA ReturnRefines ==
  ASSUME RefinesInv, NEW j, Table!Return(j)
  PROVE  Promise!Return(j)
<1>1. CASE Table!Misused("Return", j)
  BY <1>1, MisusedUses DEF RefinesInv, Promise!Return
<1>2. ASSUME NEW m, m = Table!Native, m > 1,
             table' = Table!Popped(frames[m].cookie), frames' = SubSeq(frames, 1, m - 1),
             NEW o \in Table!Decoded(j), call' = <<"Return", j, o>>, vm' = vm
      PROVE  Promise!Return(j)
  <2>1. m \in 2..Len(frames) /\ Promise!NativeFrame = m
    BY <1>2, NativeIs
  <2>2. table' = [table EXCEPT !.top = frames[m].cookie.top, !.holes = frames[m].cookie.holes]
    BY <1>2 DEF Table!Popped
  <2>3. /\ Seen(table', frames') = SubSeq(Seen(table, frames), 1, m - 1)
        /\ IssuedOf(table') = IssuedOf(table)
    <3>1. PICK S : S = [table EXCEPT !.top = frames[m].cookie.top, !.holes = frames[m].cookie.holes]
      OBVIOUS
    <3>2. /\ Seen(S, SubSeq(frames, 1, m - 1)) = SubSeq(Seen(table, frames), 1, m - 1)
          /\ IssuedOf(S) = IssuedOf(table)
      BY <2>1, <3>1, PopSeen DEF RefinesInv, TableInv
    <3> QED BY <1>2, <2>2, <3>1, <3>2
  <2>4. References' = SubSeq(References, 1, m - 1) /\ Issued' = Issued
    BY <2>3, Sees
  <2>5. Outcome' = Outcome
    BY <1>2 DEF Outcome
  <2>6. Promise!Calls("Return", j) /\ Promise!Returns(o)
    BY <1>2 DEF Promise!Calls, Promise!Returns
  <2>7. o \in Promise!Yields(j)
    BY <1>2, DecodedYields DEF RefinesInv
  <2> QED BY <1>2, <2>1, <2>4, <2>5, <2>6, <2>7 DEF Promise!Return
<1>3. PICK m : m = Table!Native
  OBVIOUS
<1> QED BY <1>1, <1>2, <1>3 DEF Table!Return

\* The collector clears weak references.
LEMMA SweepRefines ==
  ASSUME RefinesInv, Table!SweepWeakJniGlobals
  PROVE  Promise!Collect
<1>1. PICK dead \in SUBSET Objects : table' = Swept(table, dead) /\ frames' = frames
  BY DEF Table!SweepWeakJniGlobals, Swept, Table!Indices, Indices
<1>2. /\ Seen(Swept(table, dead), frames)
           = [i \in 1..Len(frames) |-> [Seen(table, frames)[i] EXCEPT !.refs =
               {IF e.obj \in dead THEN [e EXCEPT !.obj = Cleared] ELSE e : e \in @}]]
      /\ IssuedOf(Swept(table, dead)) = IssuedOf(table)
  BY SweepSeen DEF RefinesInv, TableInv
<1>3. Len(References) = Len(frames)
  BY Sees, SeenLast DEF RefinesInv, TableInv
<1>4. References' = [i \in 1..Len(References) |-> [References[i] EXCEPT !.refs =
         {IF e.obj \in dead THEN [e EXCEPT !.obj = Cleared] ELSE e : e \in @}]]
  BY <1>1, <1>2, <1>3, Sees
<1>5. Issued' = Issued
  BY <1>1, <1>2, Sees
<1>6. kind = "weak" /\ call' = call /\ Outcome' = Outcome
  BY DEF Table!SweepWeakJniGlobals, Outcome
<1> QED BY <1>4, <1>5, <1>6 DEF Promise!Collect

-----------------------------------------------------------------------------
(* The stack begins at the bottom of the table.                            *)
LEMMA AddsBottom ==
  ASSUME RefinesInv, NEW T, NEW fs, Counted(T, fs), fs[1].cookie.top = 0, NEW o, NEW name, NEW j,
         Table!Adds(name, j, T, fs, o)
  PROVE  frames'[1].cookie.top = 0
<1>1. CASE frames' = frames
  BY <1>1 DEF RefinesInv
<1>2. CASE frames' = [fs EXCEPT ![Len(fs)].promised = IF @ = 0 THEN 0 ELSE @ - 1]
  <2>1. PICK p : p = IF fs[Len(fs)].promised = 0 THEN 0 ELSE fs[Len(fs)].promised - 1
    OBVIOUS
  <2>2. frames' = [fs EXCEPT ![Len(fs)].promised = p]
    BY <1>2, <2>1
  <2>3. fs \in Seq(Frames) /\ Len(fs) >= 1 /\ 1 \in 1..Len(fs)
    BY DEF Counted
  <2>4. fs[1] \in Frames /\ fs[Len(fs)] \in Frames
    BY <2>3
  <2> QED BY <2>2, <2>3, <2>4 DEF Frames
<1> QED BY <1>1, <1>2 DEF Table!Adds, Table!Stops

\* The frames that are left are those entered first.
LEMMA FirstOfSub ==
  ASSUME RefinesInv, NEW m \in 2..Len(frames)
  PROVE  SubSeq(frames, 1, m - 1)[1].cookie.top = 0
<1>1. \A i \in 1..m - 1 : frames[i] \in Frames
  BY DEF RefinesInv, TableInv, Counted
<1>2. m - 1 \in Nat /\ Len(frames) \in Nat /\ frames \in Seq(Frames) /\ 1 \in 1..m - 1
  BY DEF RefinesInv, TableInv, Counted
<1>3. SubSeq(frames, 1, m - 1)[1] = frames[1]
  BY <1>1, <1>2
<1> QED BY <1>3 DEF RefinesInv

\* No call moves the bottom of the stack.
LEMMA BottomKept ==
  ASSUME RefinesInv, [Table!Next]_(Table!refs)
  PROVE  frames'[1].cookie.top = 0
<1>1. frames \in Seq(Frames) /\ Len(frames) \in Nat /\ Len(frames) >= 1 /\ 1 \in 1..Len(frames)
      /\ frames[1].native
  BY DEF RefinesInv, TableInv, Counted
<1>2. CASE frames' = frames
  BY <1>2 DEF RefinesInv
<1>3. ASSUME NEW o \in Objects, Table!NewRef(o) PROVE frames'[1].cookie.top = 0
  BY <1>3, AddsBottom DEF Table!NewRef, RefinesInv, TableInv
<1>4. ASSUME NEW native \in BOOLEAN, NEW n,
             frames' = Append(frames, Frame(native, [top |-> table.top, holes |-> table.holes], n))
      PROVE  frames'[1].cookie.top = 0
  BY <1>1, <1>4 DEF RefinesInv
<1>5. ASSUME NEW o \in Objects, Table!CallNative(o) PROVE frames'[1].cookie.top = 0
  <2>1. PICK fs : fs = Append(frames, Frame(TRUE, [top |-> table.top, holes |-> table.holes], 0))
    OBVIOUS
  <2>2. Table!Adds("Enter", o, table, fs, o)
    BY <1>5, <2>1, CookieShape DEF RefinesInv, Table!CallNative
  <2>3. 0 + table.top <= MaxEntries
    <3>1. table.top \in 0..MaxEntries /\ MaxEntries \in Nat
      BY EntriesAssumption DEF RefinesInv, TableInv, Counted, Tables
    <3> QED BY <3>1
  <2>4. Counted(table, Append(frames, Frame(TRUE, [top |-> table.top, holes |-> table.holes], 0)))
    BY <2>3, PushCounts DEF RefinesInv, TableInv
  <2>5. fs[1] = frames[1] /\ Counted(table, fs)
    <3>1. \A e : Append(frames, e)[1] = frames[1]
      BY <1>1
    <3> QED BY <2>1, <2>4, <3>1
  <2> QED BY <2>2, <2>5, AddsBottom DEF RefinesInv
<1>6. ASSUME NEW n \in Capacities, Table!Ensure(n) PROVE frames'[1].cookie.top = 0
  <2>1. CASE ~Table!EnsureLocalCapacity(n)
    BY <1>2, <1>6, <2>1 DEF Table!Ensure
  <2>2. CASE Table!EnsureLocalCapacity(n)
    <3>1. PICK q : frames' = [frames EXCEPT ![Len(frames)].promised = q]
      BY <1>6, <2>2 DEF Table!Ensure
    <3>2. \A i \in 1..Len(frames) : frames[i] \in Frames
      BY <1>1
    <3> QED BY <1>1, <3>1, <3>2 DEF RefinesInv, Frames
  <2> QED BY <2>1, <2>2
<1>7. ASSUME NEW n \in Capacities, Table!PushLocalFrame(n) PROVE frames'[1].cookie.top = 0
  BY <1>2, <1>4, <1>7, CookieShape DEF Table!PushLocalFrame, RefinesInv
<1>8. ASSUME NEW j \in Table!Names, Table!PopLocalFrame(j) PROVE frames'[1].cookie.top = 0
  <2>1. PICK f, T, fs : /\ f = Last(frames)
                        /\ T = IF f.native THEN table ELSE Table!Popped(f.cookie)
                        /\ fs = IF f.native THEN frames ELSE Table!Front(frames)
    OBVIOUS
  <2>2. Counted(T, fs) /\ fs[1].cookie.top = 0
    <3>1. CASE f.native
      BY <2>1, <3>1 DEF RefinesInv, TableInv
    <3>2. CASE ~f.native
      <4>1. Len(frames) \in 2..Len(frames)
        BY <1>1, <2>1, <3>2 DEF Last
      <4>2. /\ T = [table EXCEPT !.top = frames[Len(frames)].cookie.top,
                                 !.holes = frames[Len(frames)].cookie.holes]
            /\ fs = SubSeq(frames, 1, Len(frames) - 1)
        BY <2>1, <3>2 DEF Table!Popped, Table!Front, Last
      <4> QED BY <4>1, <4>2, PopCounts, FirstOfSub DEF RefinesInv, TableInv
    <3> QED BY <3>1, <3>2
  <2>3. Table!Last(frames) = f
    BY <2>1 DEF Table!Last, Last
  <2>4. \/ frames' = frames \/ frames' = fs
        \/ \E o \in Table!Decoded(j) \ {Null} : Table!Adds("Pop", j, T, fs, o)
    BY <1>8, <2>1, <2>3 DEF Table!PopLocalFrame, Table!Misused, Table!Stops
  <2> QED BY <1>2, <2>2, <2>4, AddsBottom
<1>9. ASSUME NEW j, Table!Return(j) PROVE frames'[1].cookie.top = 0
  <2>1. CASE Table!Native > 1 /\ frames' = SubSeq(frames, 1, Table!Native - 1)
    BY <2>1, NativeIs, FirstOfSub
  <2> QED BY <1>2, <1>9, <2>1 DEF Table!Return, Table!Misused, Table!Stops
<1>10. (\E j : Table!DeleteRef(j) \/ Table!Decode(j)) \/ Table!SweepWeakJniGlobals
         \/ UNCHANGED Table!refs => frames' = frames
  BY DEF Table!DeleteRef, Table!Decode, Table!Misused, Table!Stops, Table!SweepWeakJniGlobals,
         Table!refs
<1> QED BY <1>2, <1>3, <1>5, <1>6, <1>7, <1>8, <1>9, <1>10 DEF Table!Next, Table!Local

LEMMA RefinesInit == Table!Init => RefinesInv /\ Promise!Init
<1> SUFFICES ASSUME Table!Init PROVE RefinesInv /\ Promise!Init
  OBVIOUS
<1>1. TableInv
  BY TableInit
<1>2. /\ frames = <<Frame(TRUE, [top |-> 0, holes |-> 0], 0)>>
      /\ frames[1].cookie.top = 0 /\ frames[1].native = TRUE /\ Len(frames) = 1
  BY DEF Table!Init, Table!Frame, Frame
<1>3. table.top = 0 /\ \A i \in Indices : table.slot[i].serial = 0
  <2>1. PICK A : A = [i \in Indices |-> [obj |-> Null, serial |-> 0]]
    OBVIOUS
  <2>2. table = [slot |-> A, alloc |-> Initial, top |-> 0, holes |-> 0]
    BY <2>1 DEF Table!Init, Table!Indices, Indices
  <2> QED BY <2>1, <2>2
<1>4. IssuedOf(table) = {}
  <2>1. \A i \in Indices : 1..table.slot[i].serial = {}
    BY <1>3
  <2> QED BY <2>1 DEF IssuedOf
<1>5. EntriesOf(table, frames, 1) = {}
  <2>1. EndOf(table, frames, 1) = 0
    BY <1>2, <1>3 DEF EndOf
  <2>2. 0..0 - 1 = {}
    OBVIOUS
  <2> QED BY <1>2, <2>1, <2>2 DEF EntriesOf
<1>6. Seen(table, frames) = <<[native |-> TRUE, refs |-> {}]>>
  <2>1. Seen(table, frames) = [i \in 1..1 |-> [native |-> frames[i].native,
                                               refs |-> EntriesOf(table, frames, i)]]
    BY <1>2 DEF Seen
  <2>2. PICK x : x = [native |-> TRUE, refs |-> {}]
    OBVIOUS
  <2>3. \A i \in 1..1 : [native |-> frames[i].native, refs |-> EntriesOf(table, frames, i)] = x
    <3>1. \A i \in 1..1 : i = 1
      OBVIOUS
    <3> QED BY <1>2, <1>5, <2>2, <3>1
  <2>4. Seen(table, frames) = [i \in 1..1 |-> x]
    BY <2>1, <2>3
  <2>5. [i \in 1..1 |-> x] = <<x>>
    OBVIOUS
  <2> QED BY <2>2, <2>4, <2>5
<1>7. vm = "running" /\ Outcome = "running"
  BY DEF Table!Init, Outcome
<1>8. Promise!Init
  BY <1>4, <1>6, <1>7, Sees DEF Table!Init, Promise!Init, Promise!Frame
<1> QED BY <1>1, <1>2, <1>8 DEF RefinesInv

\* Every step is a step of JniRefs, or none.
LEMMA RefinesStep ==
  ASSUME RefinesInv, [Table!Next]_(Table!refs)
  PROVE  [Promise!Next]_(Promise!vars)
<1>1. CASE UNCHANGED Table!refs
  <2>1. UNCHANGED <<kind, pointers, table, frames, vm, call>>
    BY <1>1 DEF Table!refs
  <2>2. References' = References /\ Issued' = Issued
    BY <2>1, Sees
  <2>3. Outcome' = Outcome
    BY <2>1 DEF Outcome
  <2> QED BY <2>1, <2>2, <2>3 DEF Promise!vars
<1>2. CASE Table!Next
  <2>1. Outcome = "running" /\ UNCHANGED <<kind, pointers>>
    BY <1>2 DEF Table!Next, Outcome
  <2>2. ASSUME NEW o \in Objects, Table!NewRef(o) PROVE \E x \in Objects : Promise!New(x)
    BY <2>2, NewRefRefines
  <2>3. ASSUME NEW j \in Table!Names, Table!DeleteRef(j) \/ Table!Decode(j)
        PROVE  \E x \in Promise!Names : Promise!Delete(x) \/ Promise!Decode(x)
    BY <2>3, SameNames, DeleteRefRefines, DecodeRefines
  <2>4. ASSUME Table!Local PROVE Promise!Local
    <3>1. kind = "local"
      BY <2>4 DEF Table!Local
    <3>2. CASE \E o \in Objects : Table!CallNative(o)
      BY <3>1, <3>2, CallNativeRefines DEF Promise!Local
    <3>3. CASE \E n \in Capacities : Table!Ensure(n) \/ Table!PushLocalFrame(n)
      BY <3>1, <3>3, EnsureRefines, PushLocalFrameRefines DEF Promise!Local
    <3>4. CASE \E j \in Table!Names : Table!PopLocalFrame(j) \/ Table!Return(j)
      BY <3>1, <3>4, SameNames, PopLocalFrameRefines, ReturnRefines DEF Promise!Local
    <3> QED BY <2>4, <3>2, <3>3, <3>4 DEF Table!Local
  <2>5. \/ \E o \in Objects : Table!NewRef(o)
        \/ \E j \in Table!Names : Table!DeleteRef(j) \/ Table!Decode(j)
        \/ Table!Local \/ Table!SweepWeakJniGlobals
    BY <1>2 DEF Table!Next
  <2>6. \/ \E o \in Objects : Promise!New(o)
        \/ \E j \in Promise!Names : Promise!Delete(j) \/ Promise!Decode(j)
        \/ Promise!Local \/ Promise!Collect
    BY <2>2, <2>3, <2>4, <2>5, SweepRefines
  <2> QED BY <2>1, <2>6 DEF Promise!Next
<1> QED BY <1>1, <1>2

\* The table, with its segments, holes and cookies, keeps what JNI promises of references
\* (module JniRefs): whatever native code calls, what it was handed and has not given up
\* yields its object, what it has given up yields nothing, and no call touches the references
\* of another frame.
THEOREM TableKeepsPromises == Table!Spec => Implements
<1>1. RefinesInv /\ [Table!Next]_(Table!refs) => RefinesInv'
  BY TableNext, BottomKept DEF RefinesInv
<1>2. RefinesInv /\ [Table!Next]_(Table!refs) => [Promise!Next]_(Promise!vars)
  BY RefinesStep
<1> QED BY RefinesInit, <1>1, <1>2, PTL DEF Table!Spec, Implements, Promise!Spec
=============================================================================
