# Verification of the Android method hooking toolkit

This directory models in TLA+ the hooking toolkit of the repository and the
parts of its Dalvik VM in which threads meet: thread suspension, monitors,
class initialization, the garbage collector, the references of native code and
the caches that are read without a lock.  TLC checks the models, TLAPS proves the
main invariants of all of them, and three refinements.

The repository holds three generations of the same idea: make somebody else's
process run your code when it calls a function.

* `adbi/` injects a library into a running process with ptrace (`hijack`) and
  patches native functions in place (`instruments/base`);
* `ddi-master/` builds on it: once inside, it hooks Java methods of the Dalvik
  VM by rewriting the VM's `struct Method` (`dalvikhook`, with the examples
  `strmon` and `smsdispatch`);
* `JavaHook/` hooks Java methods with the VM's own functions (`ACC_NATIVE`,
  `dvmResolveNativeMethod`, `RegisterNatives`), and vendors the Dalvik VM's
  sources for that.

All of it changes, from one thread, memory that every other thread of the
process executes or dispatches through, without a lock.  The project is about
what that can and cannot break, and about what the VM underneath promises to
the threads it runs: that a stopped world stands still, that nobody waits for a
wake-up that was missed, that nobody uses a class that is not ready, that
nothing in use is collected, that a reference of native code keeps its meaning.

## The system's parts

| part | code | state it keeps | operations |
|---|---|---|---|
| injector | `adbi/hijack/hijack.c` | the traced process's registers and stack, `child_pid` | attach, follow zygote's forks, wait for a system call boundary, write stub, detach |
| in-line hooking | `adbi/instruments/base/hook.c` | the first words of the function, `struct hook_t` | `hook`, `hook_precall`, `hook_postcall`, `unhook` |
| epoll_wait instrumentation | `adbi/instruments/example/epoll.c`, `my_epoll_wait` in `mon.c`, `smsdispatch.c` | `counter`, `eph` | `my_init`, `my_epoll_wait` |
| symbol lookup | `adbi/instruments/base/util.c`, `hijack.c` | none | `find_name`, `load_memmap`, `lookup2` |
| Dalvik hooking | `ddi-master/dalvikhook/jni/dalvik_hook.c` | VM-wide `struct Method`, `struct dalvik_hook_t` | `dalvik_hook`, `dalvik_prepare`, `dalvik_postcall` |
| Dalvik hook handlers | `ddi-master/examples/*/jni/*.c` | hook tables | `do_patch`, `sb*_...`, `my_dispatch` |
| VM interface | `ddi-master/dalvikhook/jni/dexstuff.c` | resolved VM functions | `dexstuff_resolv_dvm`, `dexstuff_loaddex`, `dexstuff_defineclass` |
| JavaHook | `JavaHook/jni/MethodHooker.cpp`, `so.cpp`, `Test.c` | `g_bAttatedT`, `g_JavaVM`, the target's `struct Method` | `Hook`, `ClassMethodHook`, `HookDalvikMethod` |
| VM: binding | `JavaHook/jni/dalvik/vm/Native.cpp`, `Jni.cpp`, `oo/Class.cpp` | `struct Method` of native methods | `dvmResolveNativeMethod`, `RegisterNatives`, `UnregisterNatives` |
| VM: threads | `vm/Thread.cpp`, `alloc/Heap.cpp`, `alloc/HeapSource.cpp` | thread list, suspend counts, thread status, heap lock | stop and resume the world or one thread, safe points, attach, create, detach, allocate, collect |
| VM: monitors | `vm/Sync.cpp`, `native/java_lang_VMThread.cpp` | lock word, `Monitor` | enter, exit, wait, notify, interrupt |
| VM: initialization | `vm/oo/Class.cpp`, `oo/Resolve.cpp`, `Native.cpp` | class status and monitor, resolved fields, `gDvm.nativeLibs` | `dvmInitClass`, `dvmResolveStaticField`, `dvmLoadNativeCode` |
| VM: collector | `vm/alloc/` | objects, roots, mark and live bits, card table, lists of References | `dvmCollectGarbageInternal`, the write barrier, allocation |
| VM: references | `vm/IndirectRefTable.cpp`, `Jni.cpp`, `interp/Stack.cpp` | tables of local and global references, cookies on the stack | add, decode, delete, enter and leave native methods and local frames, sweep weak references |
| VM: caches | `vm/AtomicCache.h`, `.cpp` | entries with a version | lookup, update |
| VM: the rest | `vm/interp`, `mterp`, `compiler`, `analysis`, `jdwp`, ... | | not modelled |

How they interact: `hijack` makes a thread of the target call `dlopen`; the
library's constructor runs `hook()` on `epoll_wait`; the next `epoll_wait` call
of the main loop enters `my_epoll_wait`, which (in `strmon`, `smsdispatch`) puts
the original words back and runs `do_patch`, which calls `dalvik_hook` on a
table of methods.  From then on the VM's interpreter dispatches calls of those
methods through their native bridge into the handlers, which call the original
between `dalvik_prepare` and `dalvik_postcall`.  In JavaHook the constructor
calls `ClassMethodHook`, and the VM dispatches to the registered handler.  Every
thread that does so is a thread of the VM: it is stopped at safe points by the
collector, initializes the classes whose methods are called and loaded, and
enters the monitors of objects.

What is hard here: stores to code and to `struct Method` interleave with threads
that fetch and dispatch through the same words; several fields that belong
together are written one after the other; a handler takes the hook off and puts
it back while other threads call; a saved value may be saved again at the wrong
time; an instruction cache keeps old words until it is flushed; a hooking fails
half-way.  In the VM: a thread changes its status while another decides by it
whether to wait; a monitor is given up and slept on in two steps under two
mutexes; classes and libraries wait for each other in circles; the collector
marks, clears References and sweeps while threads rearrange the graph.

## Modules

Ten modules hold the models, each with an `MCX` that TLC runs, the first eight
with a module `X_proofs` of their theorems.  `DalvikHook_proofs` and
`InlineHook_proofs` extend `MCDalvikHook` and `MCInlineHook`, where the properties are
stated that hold for one thread, or for calls that do not overlap.  `MCThreadPauses`
is a second instance of `ThreadSuspend`, whose behaviours are some of those of
`MCThreadSuspend`.  Two models come in two
modules, so that proofs can be about them as well: `RefTable` has the state of
`IndirectRefTable`, the operators of the table and its promises, `CacheEntry` has the
state of `AtomicCache` and its promises; the modules that extend these have the steps.
`NativeBinding_proofs` extends `RefTable` and `CacheEntry`, takes
`IndirectRefTable` and `AtomicCache` as instances, and has their theorems in sections of
their own.  `ObjectMonitor`, `ObjectHeap` and
`JniRefs` are abstract specifications, which `Monitor`, `MarkSweep` and
`IndirectRefTable` implement.  The models share
conventions.  A thread's activity is a
record with a field `at` that names its next step, so that each load and each
store of shared memory is a step of its own.  A thread that has jumped through a
null pointer or into bytes that are not code is `wild`, and the behaviour ends
there (nothing can be claimed of what follows).  An operator whose comment says
`Mutant` is the same operator with a plausible mistake in it; no specification
uses it, it documents which mistake which property catches (`PROJECT.json`,
`mutants`).

### DalvikHook: rewriting `struct Method` in place

| state | code |
|---|---|
| `method[m]` | the VM's `struct Method`: ACC_NATIVE, insns, nativeFunc, the three size fields (one field, always written together), the top bit of jniArgInfo |
| `hook[m]` | `struct dalvik_hook_t`: the values saved before patching |
| `todo[t]` | what is left of `do_patch()`'s table in the thread's run of it |
| `frame`, `depth` | each thread's stack: method invocations, handlers between `dalvik_prepare` and `dalvik_postcall`, `do_patch` |

`Call`, `PushFrame`, `TestNative`, `EnterCode`, `CallNativeFunc`, `CallBridge`,
`Return` are the interpreter's `invokeMethod` and the bridge; `EpollWait`,
`HookFound`, `HookSaveSizes`, `HookNotFound`, `HookSizes` to `HookFunc`, `PatchDone` are
`do_patch` and `dalvik_hook` in the order of their stores; `PrepareSizes` to
`PrepareInsns` and `PostSizes` to `PostFunc` are `dalvik_prepare` and
`dalvik_postcall`, around `CallOriginal`.  Every thread of `Installers` runs `do_patch`
once, whenever it comes to it: the first handler of `epoll_wait` takes that hook off,
but a thread that is in `my_epoll_wait` by then goes on to `do_patch` as well
(`mon.c:460`), at the same time as the first or when the methods are hooked already.

The main results: whatever threads do to each other, a method whose hook was
installed ends up hooked again once no handler is between prepare and postcall, also
if it is hooked a second time meanwhile (`HookRestored`), and a call goes past an installed
hook only while some thread is in that window (`CallsIntercepted`).  What was saved of the
original method can be lost, in exactly two ways (`CodeKept`): the code pointer
and the sizes if a second `do_patch` comes to the method and saves the patched
ones, never through handlers, however they overlap; the access flags, which every
`dalvik_postcall` saves again, also if two handlers of the method overlap.
With one thread, also for methods that call
each other recursively, the original is reached (`OriginalReached`) and nothing jumps
wild (`NeverWild`).  The garbage collector, which goes by the method's present fields,
then scans bytecode frames whole and skips the native frame of a handler, except
exactly while that handler has the original's flags put back: there it takes the
handler's frame for bytecode, also with one thread (`FramesScanned`).  These three fail
with two threads: a call may be dispatched between two stores.  `MCDalvikHook` has both
kinds of behaviour in one instance, and states the three for the first
(`OriginalReachedAlone` and so on).

### InlineHook: rewriting a function's first words

| state | code |
|---|---|
| `mem`, `icache` | the words of `epoll_wait` in memory, and what an instruction fetch of them returns until `hook_cacheflush` |
| `store` | `eph.store` |
| `counter`, `lines`, `removing` | `counter` of `epoll.c`, and its two log lines |
| `patches` | runs of `do_patch` from `my_epoll_wait` of `mon.c` |
| `frame`, `depth` | a call of `epoll_wait` and the handler running in it |

`SaveWord`, `InstallWord`, `FlushInstalled` are `hook`; `RestoreWord` and
`FlushRestored` are `hook_precall`; `ReinstallWord`, `FlushReinstalled` are
`hook_postcall`.  `Fetch*`, `LoadTarget` are the processor executing the first
words, `Refill` a cache line that is read again early.  `Counted` chooses between
the handler of `epoll.c` (re-installs the hook, counts down) and the one of
`mon.c`/`smsdispatch.c` (removes it, runs `do_patch`).

`Coherent` holds for overlapping threads: no path skips a flush.  `NeverWild`,
`OriginalReached` and `HookRemoved` hold when calls of `epoll_wait` do not
overlap, as in a process with one event loop; with `Overlap` TRUE calls execute
torn patches, recurse, and lose decrements of the counter, none of which a text
of the repository excludes.  `MCInlineHook` has both handlers in one instance,
`epoll.c`'s without overlap and `mon.c`'s with it (`NeverWildSerial`,
`HookRemovedSerial`).  `OriginalReached`, `HookArmed` and `LoggedAtMostCount`
are proved for calls that do not overlap.  What a second `do_patch` does to the
methods is in `DalvikHook`.

### NativeBinding: how the VM binds native methods, and JavaHook on top

| state | code |
|---|---|
| `method[m]` | ACC_NATIVE, nativeFunc, insns |
| `library` | whether the library exporting the symbol is loaded |
| `op[t]` | the call, registration, unregistration or hooking a thread is in |
| `attached`, `gAttached` | the thread's attachment to the VM, and `g_bAttatedT` |
| `before`, `registered`, `hooked` | history: for properties only |

A call is `Call`, `TestNative`, `CallNativeFunc`, then one of the `Lookup...`
actions, `SetInternal`, `BindInsns`, `BindFunc` in the resolver or `CallBridge` in the bridge;
`Register`, `RegisterCheck`, `RegisterRefused`, and `Unregister`,
`UnregisterMethod` are the JNI functions; `GetEnv`, `FindClass`, `GetMethodID`,
`HookFlags`, `HookFunc`, `DetachCurrent`, and `ReturnFalse` and `HookFails` for
its early returns, are `ClassMethodHook` and what it calls.

The one instance has everything going on at once: two threads that call,
register and unregister an exported and an internal native method, and the
hooking of a third method of the class.  `NeverWild` says that no native goes
through a null or missing implementation, `HookTakesEffect` that a hooking that
returned true is in force until the class's natives are unregistered.

### Hijack: the injector as a tracer

| state | code |
|---|---|
| `proc[p]` | the kernel's view: alive, in which stop, collected by `waitpid`, how resumed, in a system call |
| `named` | processes whose `/proc/<pid>/cmdline` is final |
| `forked` | what `PTRACE_GETEVENTMSG` would return |
| `tracer`, `pid`, `childPid`, `round` | where `main` is, and its variables |
| `injected` | history: the stop the process was in when it was given new registers |

`Attach`, then `Found`, `NotYet`, `Forked`, `Ignored` (one round of the fork
loop, `Collect`), then `BeginRound`, `TestEntry`, `AwaitEntry`, `AwaitExit` (the
loop that waits for system calls) and `Inject`.  `Fork`, `Start`, `Rename`,
`EnterSyscall`, `ExitSyscall` and `Signal` are the traced processes; they and
the effect of the ptrace requests are modelled from how `hijack.c` uses them.

The fork loop is careful where it need not be and careless where it matters:
the first stop of a new child and the fork event of its parent come in either
order, and the loop handles every order (`LibraryInjected`, and `ChildResumed`,
which is proved); but it follows one child only, ignores any other stop of
zygote, and its `PTRACE_DETACH` of the running zygote fails.  None of that lets
it inject a wrong process (`RightProcess`).

### ThreadSuspend: stopping the world

| state | code |
|---|---|
| `status[t]`, `suspendCount[t]`, `sumSuspendCount` | `Thread.status`, `Thread.suspendCount`, `gDvm.sumThreadSuspendCount` |
| `threadList` | `gDvm.threadList` |
| `suspendLock`, `listLock`, `heapLock` | the owners of `_threadSuspendLock`, `threadListLock`, `gcHeapLock` |
| `sleepers`, `starters`, `gcWaiters` | who waits on `threadSuspendCountCond`, `threadStartCond`, `gcHeapCond` |
| `gcRunning` | `gcHeap->gcRunning` |
| `at`, `next`, `stop`, `todo`, `child` | where a thread is, and its local variables |
| `held`, `escaped` | history: whom it has suspended; that it runs though told to suspend |
| `overlapped` (`MCThreadSuspend`) | history: two threads have had the world suspended at once |

`SafePoint`, `Checked`, `SuspendedAtCheck`, `Resumed`, `SleepAgain` are
`fullSuspendCheck` and `dvmChangeStatus`; `UseList`, `AcquireList`, `LeaveList`
are `dvmLockThreadList` and its unlock; `TrySuspendLock` to `Broadcast` are
`dvmSuspendAllThreads` and `dvmResumeAllThreads`, with `AwaitStop` the inner
loop that looks at one status after another; `SuspendOne`, `AwaitOne`,
`ResumeOne` are `dvmSuspendThread` for `VMStack`; `Allocate` to `Collect` are
`tryMalloc`, `gcForMalloc`, the daemon and `dvmWaitForConcurrentGcToComplete`;
`Attach` to `Unlink` and `Create` to `Released` are the life of a thread.
`Does` says which operations each thread of an instance may start.

`WorldStopped`, `SnapshotStill` and `CountsBalanced` are the promises;
`StopCompletes`, `GcEnds`, `ChildRuns` say that nobody waits in a circle.

A resume-all takes one suspension from every thread that is listed then and has one,
not from those that were suspended.  While one thread at a time has the world
suspended that is the same, whatever joins and leaves the list.  But a thread that
waited in `dvmLockThreadList` comes back without a check (`Thread.cpp:394`), and may
dump stacks while a collector has the world stopped; then the first to resume takes
from a thread that has attached in between, and that only the other had suspended, a suspension
that is not its own (it is `Robbed`).  `CountsBalanced` therefore says: no listed
thread has more suspensions than there are to be undone, so that none outlives the
one who ordered it, and fewer only once such an overlap has occurred.
`WorldStopped` excepts the threads this concerns, and no others.  The copy of a stack
needs no exception (`SnapshotStill`): whoever makes it holds the list's lock from
suspending the thread to resuming it.

### Monitor and ObjectMonitor: thin and fat locks, wait and notify

| state | code |
|---|---|
| `fat`, `thinOwner`, `thinCount` | the lock word |
| `monOwner`, `lockCount`, `mutex`, `waitSet` | `struct Monitor` |
| `at`, `prev`, `wasInterrupted`, `answer` | where a thread is, and the locals of `waitMonitor` and `dvmThreadInterrupted` |
| `signalled`, `interrupted` | `waitCond`, `Thread.interrupted` |

`LockThin`, `LockAgainThin`, `Spin`, `SurpriseFattened`, `Fatten`,
`LockAgainFat`, `LockFat`, `Unlock` are `dvmLockObject` and `dvmUnlockObject`;
`StartWait`, `Sleep`, `InterruptedBefore`, `WakeSignalled`, `WakeAnyway`,
`Relock`, `Clear` are `waitMonitor`; `NotifyHead` and `NotifyNobody` are the loop
of both notify functions; `Interrupt`, `ReadFlag`, `ClearFlag` are `Thread.interrupt`
and `VMThread.interrupted`.

`ObjectMonitor` says what a monitor promises its users, in ten small actions: an
owner and a depth, threads that wait, that were notified, that are on the way
back; interrupts.  `Monitor!Promises` is that specification, under the mapping
from lock words and wait sets given at the end of `Monitor`.

### ClassInit: class initialization and native libraries

| state | code |
|---|---|
| `status`, `initThread`, `owner`, `waitSet` | `ClassObject.status`, `.initThreadId`, its monitor |
| `resolved` | `DvmDex.pResFields` |
| `slot`, `entry`, `condWait` | `gDvm.nativeLibs`, each `SharedLib` with its result and thread, who sleeps on its `onLoadCond` |
| `frame`, `depth` | each thread's stack: uses of a static field, classes it initializes, libraries it loads |

`Resolve`, `Cache`, `Used` are `dvmResolveStaticField`; `Verify`, `Loop`,
`Wakes`, `Woken`, `Begin`, `SuperReady`, `InitSuper`, `SuperFailed`,
`LockToNotify`, `Finish`, `NotifyAll`, `Unlock`, `Return` are `dvmInitClass`;
`Find` to `LoadReturns` are `dvmLoadNativeCode`, `addSharedLibEntry` and
`checkOnLoadResult`.  The code of `<clinit>` and `JNI_OnLoad` may use what `Body`
names, in any order and as often as it likes, and may fail.

Two threads may wait for each other's `<clinit>` for ever (the language allows
it, and so does the model), so progress is stated as what the VM can promise:
who sleeps waits for a thread that has the work on its stack (`SomebodyWorks`),
and is woken when the work is done (`WaitersWake`).

### MarkSweep and ObjectHeap: the collector

| state | code |
|---|---|
| `used`, `kind`, `field`, `referent`, `root` | the heap as the program sees it (`ObjectHeap`) |
| `barrier[t]`, `card` | between a store and its `dvmMarkCard`; the dirty cards |
| `live`, `mark`, `finger` | `liveBits`, `markBits`, `GcMarkContext.finger` |
| `gc`, `phase`, `stopped` | the `GcSpec`, how far the collection is, whether the threads are suspended |
| `batch`, `stack`, `cur`, `left` | the word or list being walked, the mark stack, the object being scanned and its fields not yet read |
| `pending`, `odd` | the lists of References, the counter of `preserveSomeSoftReferences` |

`Begin`, `WalkWord`, `WalkEnds`, `ScanNext`, `Pop`, `ScanField`, `ScanEnds` mark,
one field at a time, while `Store` and the other actions of the threads go on;
`Remark` is the second pause; `BeginReferences`, `Preserve`, `ClearSoftAndWeak`,
`EnqueueFinalizers`, `ClearRest` are `dvmHeapProcessReferences`; `Swap`,
`SweepWord`, `FreeList`, `Finish` the sweep, while threads allocate.

`ObjectHeap` is the heap of the language: storage is freed, and References lose
their referents, only for objects that cannot be reached.  `MarkSweep!Implements`
is that specification; `KeptForAReason` says the converse for collections that
stop the threads, that what is kept is kept for a reason.  A FinalizerReference that has
its zombie is given no other referent (`SetReferent`): its constructor runs before the
collector gets to see the object.  The proof of `KeptForAReason` found that guard missing; the run, with
two objects, cannot.

### IndirectRefTable, RefTable and JniRefs: references of native code

| state | code |
|---|---|
| `table` | `table_`, `alloc_entries_`, and `segmentState` as `top` and `holes` |
| `frames` | native methods and local frames on the interpreter's stack, each with its `localRefCookie`; `promised` is history |
| `kind`, `pointers` | `kind_`; `gDvmJni.workAroundAppJniBugs` |
| `vm` | whether the VM runs, has called `dvmAbort`, or has written through a null pointer |
| `call` | history: the last call, its argument and its result |

`RefTable` is the class: `Added`, `Removed`, `Found` are `add`, `remove` and `get`.
`NewRef`, `DeleteRef`, `Decode` are these as `Jni.cpp` calls
them; `CallNative` and `Return` are a native method, `PushLocalFrame`,
`PopLocalFrame` and `Ensure` the JNI functions; `SweepWeakJniGlobals` is the
collector's.  Native code may pass any reference it was ever given.

`JniRefs` knows no slots: frames hold sets of references, a reference is never
handed out twice, yields its object until it is deleted or its frame is left, and
then nothing (the VM aborts).  `RefTable!Implements` is that
specification, where `References` are the entries of each frame's segment and `Outcome`
makes no difference between an abort and a crash.  `HolesCounted` is what `add` and
`remove` rely on; `CapacityKept` says that the room granted by `EnsureLocalCapacity` and
`PushLocalFrame` is there.

### AtomicCache and CacheEntry: a cache entry read without a lock

| state | code |
|---|---|
| `entry`, `version` | `AtomicCacheEntry`; the version as its count and its lock flag |
| `at`, `keys`, `first`, `left`, `got` | where each thread is in `ATOMIC_CACHE_LOOKUP` or `dvmUpdateAtomicCache`, its keys, `firstVersion`, the fields it has yet to load or store, those it has loaded |

`Lookup`, `Read`, then `Hit`, `Clash` or `Miss` are the macro; `Skip`, `Lock`,
`BeginUpdate`, `Write`, `EndUpdate`, `Unlock` the update.  The fields are loaded and
stored in any order between the accesses to the version: the barriers of
the code order no more than that.  `LookupCorrect` says that a reader never returns
the result of other keys, `UpdatesExclude` that the update's assertions hold, and
`LookupReturns` that a lookup ends wherever the other threads stop.

## The runs

| run | instance | distinct states | shows |
|---|---|---|---|
| `dalvikhook_all` | 2 threads, each of which runs `do_patch`, 1 method, stack of 3; or 1 thread, 2 methods, stack of 4 | 1,692,555 | `HookRestored`, `CodeKept`, `CallsIntercepted`; nesting of prepare and postcall: `OriginalReachedAlone`, `NeverWildAlone`, `FramesScannedAlone` |
| `dalvikhook_null_nativefunc` | the same | | finding, below |
| `inlinehook_all` | 2 threads, 3 words; `epoll.c`, counter 3, no overlap; or `mon.c`, overlapping | 1,262 | flushes: `Coherent`; the ARM patch: `NeverWildSerial`, and in the end `HookRemovedSerial` |
| `nativebinding_hook` | 2 threads, an exported and an internal method, and the hooked one | 461,954 | `NeverWild`, `HookTakesEffect`, `ResolutionEnds` |
| `hijack_follow` | 3 children, 2 signals to the first | 19,771 | `SyscallCompleted`, `RightProcess`, `LibraryInjected` |
| `suspend_pauses` | 5 threads, one of three idle: the daemon attaches and collects; one allocates and uses the list; one attaches, creates another, copies stacks and exits; one dumps | 1,540,530 | `WorldStopped`, `SnapshotStill`, `CountsBalanced`; deadlock is checked |
| `suspend_threads` | 3 threads: the daemon attaches and collects, one runs native code, allocates, creates the third and exits | 43,903 | `StopCompletes`, `GcEnds`, `ChildRuns` |
| `monitor_all` | 3 threads, thin count up to 2, depth 2, 2 interrupted threads | 164,218 | `SignalReaches`, `NotifyReaches`, `WaiterWakes`, `HandedOver`, `Promises`; deadlock is checked |
| `classinit_circle` | 2 threads, B extends A and loads L, A and L use B, 2 loaders, stack of 5 | 155,340 | `UseInitialized`, `SomebodyWorks`, `LoadedReady`, `WaitersWake` |
| `marksweep_concurrent` | a thread, an object of the zygote, a chunk of any kind, a field, 2 words, 2 cards | 264,923 | `GrayOnDirtyCards`, `KeptForAReason`, `Implements`, `CollectionEnds`; deadlock is checked |
| `jnirefs_all` | 2 objects, 4 slots growing from 2, 4 references, 3 frames, room asked for 2, `realloc` may fail; or weak references | 839,738 | `HolesCounted`, `Implements`, `CapacityKept` |
| `atomiccache_all` | 2 threads, 3 pairs of keys in one entry, three updates, one thread sure to be scheduled | 146,048 | `LookupCorrect`, `UpdatesExclude`, `LookupReturns` |

Why these bounds are enough.  Every race in `DalvikHook` is between one thread's
stores and one other thread's loads or stores of the same method; methods share
no state.  A stack of 3 holds a handler of a method called from bytecode, and the
original it calls, one of 4 a hooked method called from a hooked method's
original.  In `InlineHook` the depth
bound cannot be reached without overlap, and `MaxPatches` only bounds the
overlapping runs.  In `NativeBinding` the two threads are the hooker, which goes
on to call and register when the hooking is over, and a thread that does
everything else meanwhile.  In `Hijack` three children are one whose fork is superseded
before it was resumed, one that is followed and turns out wrong, and the wanted
one.  In `ThreadSuspend` each thread of an instance does what the code has one
thread do (one daemon, one signal catcher); `suspend_pauses` has four threads
that suspend and one to be created; in a behaviour one of the daemon, the worker and
SIGQUIT's (`idle`, in `MCThreadPauses`) only passes safe points, and a thread is created
if that is the daemon.  So every two of the four overlap, and most three: a stop, a copy
of a stack, a dump and a use of the list, while threads attach, are created and exit.
`suspend_threads` has no dumps and no list users, and is small enough for
liveness.  In `Monitor` three threads are an
owner, a waiter and a third that notifies or interrupts it; a thin count of 2
is reached by the depth of the bound.  In `ClassInit` the superclass and the
library close every kind of circle, and a stack of 5 holds the longest chain in it
(a use of B, B's <clinit>, the load of L, its JNI_OnLoad, a use of B again).
In `MarkSweep` the finger is before, at and past either chunk, and the cards are
separate, so that each chunk is marked or not, passed or not, told or not; one
field and one chunk to allocate is small, and what needs more objects (chains,
moves between fields, shared cards) is left to the proof, which covers
any number.  In `IndirectRefTable` four slots hold a hole in an outer and one in an
inner segment, three frames a local frame in a native method called from another, and the
table grows once and fills up.  In `AtomicCache` the third pair of keys shares one key with each of
the others, so that a mixture of the two looks like it and has the wrong result;
a reader meets several updates in a row, and a writer another that comes first.  All theorems below are for all values of these constants.

`CHECK_DEADLOCK FALSE` is set where the system really stops: a wild thread, a
call that exceeds a bound, a VM that aborted, `hijack` and a thread that exits, threads that wait for
each other's `<clinit>`.

Fairness.  `InlineHook` (the part with `epoll.c`): every thread inside a call is scheduled, and the event
loop calls `epoll_wait` again and again.  `NativeBinding`: every thread is
scheduled.  `Hijack`: the processes and `hijack` are scheduled, zygote is asked
for the processes of the instance, `waitpid(-1)` returns every stop in the end,
and (strong fairness) a process that is stopped at its system calls again and
again still gets to set its name between two of them.  `ThreadSuspend` and
`ClassInit`: strong fairness for what the VM has begun, since a mutex or a monitor
may be free only from time to time, and for safe points, since interpreted code
polls; nothing is assumed of the start of an operation, nor of the code of `<clinit>` and
`JNI_OnLoad`.  `Monitor`: weak fairness for operations that have begun; leaving a
monitor is not fair.  `AtomicCache`: one thread is
scheduled, the others may stop anywhere.  `MarkSweep`: the collector is scheduled, a thread that has
stored goes on to its barrier, and (strong fairness) the second pause, for which
all threads must be at safe points, takes place; that they get there is
`StopCompletes` of `ThreadSuspend`.

## What the code does that its texts exclude

* `dalvik_hook` sets ACC_NATIVE before `dvmUseJNIBridge` has set `nativeFunc`;
  the VM says "nativeFunc must never be NULL for a native method"
  (`dalvikhook_null_nativefunc`).

Seen with TLC while modelling, without a run of their own:

* A lookup that misses updates the cache only if the result is 0 and
  `ATOMIC_CACHE_NULL_ALLOWED` is set (`AtomicCache.h:139`; `value != 0 ||` was surely
  meant), though the comment above says "Compute the result and update the cache":
  `instanceof` caches negative answers only, and the interface method caches
  never fill (`MissFills`).
* `IndirectRefTable::add` tests the old pointer after `realloc` (`IndirectRefTable.cpp:109`),
  and so writes through null where its header promises to return NULL
  (`FailsCleanly`).
* `dalvik_postcall` saves the access flags again (`dalvik_hook.c:215`), and with
  two threads in a handler saves the patched ones; the struct says "original
  values, saved before patching".  `CodeKept` excepts that case.
* While a handler calls the original its own frame is scanned as if it were a bytecode
  frame (`Visit.cpp:95`), though the comment there (79) excepts native methods.
* The VM's resolver may undo a `RegisterNatives` that came between its lookup and
  its stores (`Native.cpp:113`), though the comment at `Jni.cpp:2443` lets the
  caller redefine the method at will.
* A second thread already in `my_epoll_wait` of `mon.c` (460) runs `do_patch` a second
  time, and `dalvik_hook` then saves the handler as the original's code, of which nothing
  is left: the handler's call of the original runs the handler again.  `CodeKept`
  excepts that case.
* `epoll.c`'s counter may lose a decrement.
* With two threads in `DalvikHook` a handler may reach itself instead of the
  original; while JavaHook has flagged a method native and not yet set its
  nativeFunc a call of it goes through a null pointer; an internal native method
  keeps no insns.
* `hijack -s` never finds a process that is forked before another one, or after
  zygote got a signal; a signal to the wanted process while `hijack` waits makes
  it count a wrong stop as the end of the system call, and is dropped.
* A collection may be in progress while another thread has the thread list lock,
  which the comment at `Thread.cpp:360` excludes: the thread puts its status back
  without a check (`Thread.cpp:394`; `NoGcUnderListLock`).
* An interrupt may be lost in `VMThread.interrupted()` (`java_lang_VMThread.cpp:131`),
  or by `wait()` clearing the flag late, though `Thread.h:260` says the status
  "stays raised until queried or thrown" (`InterruptStaysRaised`).
* Two threads may both add a library (`Native.cpp:220` searches without the lock
  that `Hash.h:136` asks for), so that its `JNI_OnLoad` runs twice (`AddedOnce`);
  `UseInitialized`, `LoadedReady` and `Decided` hold nevertheless.  In Android the
  Java side may serialize loads.  The loser of that race is told the result
  without a look at the class loader.
* `CLASS_ERROR` is stored without the monitor at `Class.cpp:4454`; whoever looks in
  between is told the right thing, since the monitor is entered to notify.
* With stack dumps, attaching threads and list users together a suspension may be undone
  early, and a thread run while a collector has the world stopped: the exceptions of
  `CountsBalanced` and `WorldStopped`, which the run reaches.
* A thread that exits with suspensions pending never gives its share of
  `sumThreadSuspendCount` back (the sum is only a hint, `Globals.h:486`).  Dumps
  that follow each other without end may starve the collector.
* That the list of finalizer references is empty after processing
  (`MarkSweep.cpp:819`) relies on libcore keeping every FinalizerReference on a
  static list until it is done; the model has that list among the roots.

## What is proved

All for any number of threads, methods, words, children, objects, frames and keys, and any
counter, count and size of a table, by TLAPS from the named assumptions on the constants.

| module | theorem | says |
|---|---|---|
| `DalvikHook_proofs` | `Invariance`, `TypeCorrect` | `IInv`, `TypeOK` |
| | `HookSurvives`, `Interception` | `HookRestored`, `CallsIntercepted` |
| | `CodeNeverLost` | `CodeKept`, of `MCDalvikHook!MCSpec`: with its two exceptions, for any number of threads that run `do_patch` |
| | `AloneInvariance`, `AloneReachesOriginal`, `AloneNeverWild`, `AloneFramesScanned` | `AloneInv`, `OriginalReachedAlone`, `NeverWildAlone`, `FramesScannedAlone`, of `MCDalvikHook!MCSpec` |
| `InlineHook_proofs` | `Invariance`, `TypeCorrect`, `FlushesSuffice` | `IInv`, `TypeOK`, `Coherent`, for overlapping threads |
| | `NeverWildWhenSerial`, `ArmedWhenSerial`, `OriginalWhenSerial`, `CountedWhenSerial` | the others, assuming `~Overlap` |
| | `NeverWildUnlessShared` | `NeverWildSerial`, of `MCInlineHook!MCSpec`, where a behaviour may be one of the other program instead |
| `NativeBinding_proofs` | `Invariance`, `TypeCorrect`, `BridgeSafe`, `HookEffective` | `IInv`, `TypeOK`, `BridgeHasImpl`, `HookTakesEffect` |
| | `VMNeverWild`, `AttachmentKept` | `NeverWild`, `AttachmentRestored` |
| | `CachedIsComputed`, `CacheUpdatesExclude` | `LookupCorrect`, `UpdatesExclude`, of `AtomicCache!Spec` |
| | `TableHolesCounted`, `TableCapacityKept` | `HolesCounted`, `CapacityKept`, of `IndirectRefTable!Spec` |
| | `TableKeepsPromises` | `Implements`: `IndirectRefTable` implements `JniRefs` |
| `Hijack_proofs` | `Invariance`, `TypeCorrect`, `InjectsRightProcess`, `ChildAlwaysResumed` | `IInv`, `TypeOK`, `RightProcess`, `ChildResumed` |
| | `InjectsAfterSyscall` | `SyscallCompleted`, assuming zygote and the wanted process get no signal |
| `ThreadSuspend_proofs` | `Invariance`, `TypeCorrect`, `WorldStaysStopped`, `SnapshotsStill`, `CountsStayBalanced` | `IInv`, `TypeOK`, `WorldStopped`, `SnapshotStill`, `CountsBalanced`, of `MCThreadSuspend!MCSpec`, for whatever each thread may do |
| `Monitor_proofs` | `Invariance`, `TypeCorrect`, `AssertsNeverFail`, `NoMissedSignal`, `NotifyNeverSkips` | `IInv`, `TypeOK`, `AssertsHold`, `SignalReaches`, `NotifyReaches` |
| | `Implements` | `Promises`: `Monitor` implements `ObjectMonitor` |
| `MarkSweep_proofs` | `Invariance`, `TypeCorrect`, `CardTableVerified`, `ListsAreEmpty`, `SweepIsSafe` | `IInv`, `TypeOK`, `GrayOnDirtyCards`, and the assertions about lists and about what is swept |
| | `CollectorImplementsHeap` | `Implements`: `MarkSweep` implements `ObjectHeap` |
| | `NothingKeptInVain` | `KeptForAReason` |
| `ClassInit_proofs` | `Invariance`, `TypeCorrect` | `IInv`, `TypeOK` |
| | `UsedWhenReady`, `SuperclassFirst`, `SleepersHaveWorkers` | `UseInitialized`, `SuperFirst`, `SomebodyWorks` |
| | `LoadedWhenReady`, `OutcomesStay` | `LoadedReady`, `Decided` |

The inductive invariants, and what they add:

* `DalvikHook!IInv`: what is on a stack (only the top moves; below it are
  handlers in their call and bytecode), what each run of `do_patch` has got to and what
  a method that it came to first holds by then (`InstallOK`, `InstallProgress`), that
  only handlers of hooked methods run (`HandlersInstalled`), that the code pointer and
  sizes are the original's once the only `do_patch` that has come to the method
  has saved them (`SavedOK`; `SavedSome` is what remains when there were two), and per
  field which handlers may have it
  unpatched (`WindowsOK`).  The last is needed since the fields of a method are
  restored one by one by several threads: "some field is original" only
  follows from "some thread is between these two of its stores".
* `MCDalvikHook!FlagsOK`, next to `IInv`: until two handlers of a method have overlapped its
  saved flags are the original's, and so are its present ones while one handler has
  put them back and not yet saved them again, or `dalvik_hook` is about to save them.
* `InlineHook!IInv`: `Flushed`, which says who may have stored words without
  flushing them, and, for serial calls, the exact content of the words at each
  step of the only busy thread (`MemFor`), from which it follows that a fetch
  never meets a mixture.
* `MCDalvikHook!AloneInv`, for one thread, next to `IInv`: a method has one handler on
  the stack and its bytecode above it (`OneHandler`), a handler in its call has an
  invocation of its own method above it (`Nested`), and what the fields of a method
  hold while an invocation of it is at each step (`StepOK`).  So the stores of a
  handler cannot get between the loads of a dispatch, nor at bytecode of their
  method, wherever on the stack the others are.
* `NativeBinding!IInv`: that the operation of a thread in `bindFunc` or in the
  bridge has an implementation in insns already, since insns is stored first
  and nobody clears it, and who may be binding the hooked method.
* `Hijack!IInv`: which stop says what about being in a system call
  (`StopSound`), whom `main` works on (`MainSound`) and what that process may
  do at each place of the waiting loop (`WaitSound`).
* `ThreadSuspend_proofs!IInv`: which place goes with which status and lock, that
  one thread at a time collects, that counts are at most the
  suspensions still held (`Balanced`), and that whom a stopper has seen stopped cannot run
  before it is resumed, whatever happens to the list (`StopOK`).  Dumps are ordered under the
  list's lock and not under the heap's, so the invariant cannot say that one thread
  stops the world; it says what a thread's count is worth after an overlap: it is less than
  what is held only if `overlapped` (`CountPos`), and the target of a copy keeps its own (`SnapOK`).
* `Monitor_proofs!IInv`: which place goes with owning what, in a thin and in a fat
  lock; that whoever waits is in the wait set or was signalled.  The refinement has
  one step of `ObjectMonitor`, or none, for each action.
* `MarkSweep_proofs!IInv`: the tri-colour invariant as this collector keeps it.  A
  marked object's fields are marked, or the object is still to be scanned
  (`Coming`: on the stack, ahead of the finger, in the batch), or it was changed and is
  on a dirty card or about to be (`Told`), or the field is among those not
  yet read of the object being scanned (`FieldOK`; `ReferentOK` for
  referents, with the lists).  Around it: the roots are marked once the threads have
  stopped for good (`RootOK`), what is swept was garbage (`SweepOK`), live
  bits are closed under references (`HeapOK`), and no new FinalizerReference turns
  up after their list was processed (`FinalOK`).  That the marked set then contains what can be reached
  is the refinement's argument: it is one of the sets `Reachable` quantifies over.
* `MarkSweep_proofs!KeepInv`, for collections with the threads stopped: every set
  that holds the roots, the immune objects, what its members refer to, and the
  referents its soft References have marked already, contains the marked set
  (`AccountedFor`).  That a zombie is not overwritten (`ReferenceOK`) is needed: what
  the first one leads to would lose its reason to be marked.
* `ClassInit_proofs!IInv`: how frames lie on a stack (`StackOK`: below the top code
  runs, or a subclass waits for its superclass one frame up), what the place of a
  frame says of its class and its SharedLib (`ClassFrameOK`, `LoadFrameOK`), that no
  two frames work on one class, or on one SharedLib (`WorkPairOK`, `OwnPairOK`), and
  that a class that is being initialized, a SharedLib whose result is pending, and
  whoever sleeps on either have the frame of such a worker (`ClassOK`, `EntryOK`).
* `CacheInv` of `NativeBinding_proofs`: who has the lock of an entry, and how far its
  owner has brought the version (`LockOK`), so that the version is odd while a field is
  stored; that the fields are those of one update while it is even (`EntryOK`);
  and that what a reader has loaded is what the entry holds as long as the
  version is the even one that it read first (`ReaderOK`), for no version comes back.
* `Counted` of `NativeBinding_proofs`, about a table and a stack: the bottoms of the
  segments are in order, a cookie's count of holes is that of the slots below it, a
  segment that is not empty ends in an entry, and what a frame was promised
  fits above its segment.  That a segment ends in an entry is why the search for a hole,
  which does not look at the cookie, ends inside the segment, and why `remove` may stop at
  a count of holes.  It is also what the refinement needs: a call changes slots of the
  current segment only (`LastChanges`), one slot gets or loses a reference (`Puts`,
  `Takes`), and the first segment begins at slot 0, so that the frames' references are all
  there are (`LiveSeen`).  A new reference is new since its serial number is above those that
  its slot has handed out (`AddIssued`); here, where serial numbers do not wrap.

The proofs have one lemma per action.  Their common part is that a step changes
one record or one thread's entries, so that what the invariant says of the others
is untouched.

Only model-checked: liveness (`HookRemovedSerial`, `ResolutionEnds`,
`LibraryInjected`, `StopCompletes`, `GcEnds`, `ChildRuns`, `WaiterWakes`, `HandedOver`,
`WaitersWake`, `CollectionEnds`, `LookupReturns`; the prover cannot do ENABLED).
Properties that are proved for every instance and cheap to see
in a proof (the type invariants, `SuperFirst`, `Decided` and others) have no run.

## What is not modelled

* Weak memory, but for `AtomicCache`.  Elsewhere stores become visible in program order.
* The content of the injected stub, registers and stack; the parsing of maps
  and symbol tables; `hijack`'s error exits, and the death of a traced process.
* In `DalvikHook` the branch of `dalvik_prepare` that resolves the method again
  (`dalvik_hook.c:182`), which no hook of the repository turns on, and dispatch through vtables,
  by which a call of the original may reach an overriding method (70).
* In JavaHook the loading of the plug-in; that an inherited method is hooked for
  the superclass too (`MethodHooker.cpp:251`), and the unchecked NULL of `GetEnv` (215).
* In `ThreadSuspend` the debugger's suspensions, exit by an uncaught exception,
  VM shutdown, and the aborts after seconds of waiting.
* In `Monitor` `Thread.sleep`, the identity hash, lock sampling, and the end of a
  monitor when its object is swept.
* In `ClassInit` how classes are found and linked, and the other resolvers, which
  call `dvmInitClass` the same way.
* In `MarkSweep` classes as objects, interned strings, weak JNI globals, the
  reference queues, heap sizing and trimming, and the copying collector, which is not
  compiled in.
* In `IndirectRefTable` CheckJNI, pinned arrays, the wrap of the 12-bit serial numbers,
  and references passed to a table of another kind; in `AtomicCache` the wrap of the
  version, which the code says it does not handle.
* Of the vendored VM the interpreters, the JIT compilers, the verifier and
  optimizer, JDWP and the profilers: what they do is to transform data, one
  instruction or one class at a time.  The vendored `dx`, `dexgen`, `dexdump`
  and `libdex`; the Java demo code; `dexstuff.c`, which forwards; the pty
  connection of `adbi` (`start_coms`), pure I/O.  This is most of the
  repository by size.

## What could follow

1. `Injection`: the stub of `hijack.c` over a model of registers and stack:
   what the interrupted thread gets back, with and without the `mprotect` call.
2. `SymbolLookup`: `load_memmap`, `lookup2`, `find_name` as recursive functions
   over small tables, against a reference definition.
3. `Interposition`: an abstract specification (a call of a hooked method is
   the handler around the original), implemented by `DalvikHook` with one
   thread and by `InlineHook` without overlap.
4. The composition of `epoll_wait`'s in-line hook with `do_patch`, and of
   `MarkSweep`'s pauses with `ThreadSuspend`.
5. JDWP's suspensions in `ThreadSuspend`, and the sweep of monitors in `Monitor`.
