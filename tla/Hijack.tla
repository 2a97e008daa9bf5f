------------------------------- MODULE Hijack -------------------------------
(***************************************************************************)
(* The injector (adbi/hijack/hijack.c) as a tracer of other processes.     *)
(*                                                                         *)
(* With -s it attaches to zygote, follows the processes zygote forks until *)
(* one has the wanted name, waits until that one has completed a system    *)
(* call and then gives it registers and stack that load the library.  With *)
(* -z or -Z it does the last two for the process it was given.             *)
(*                                                                         *)
(* A traced process stops at events and its stop is collected by waitpid() *)
(* once, in any order among processes; a ptrace() request has no effect on *)
(* a process that is not stopped, and a resumed process has no stop to     *)
(* collect.  The calls main() makes between two waitpid() are one step:    *)
(* the processes it resumes cannot influence them, and whether the others  *)
(* have stopped by then is covered by their steps before and after it.     *)
(*                                                                         *)
(* Abstractions.  Only zygote forks, and no process dies.  System calls of *)
(* a process that runs without PTRACE_SYSCALL are left out, and so are the *)
(* contents of registers and stack.                                        *)
(***************************************************************************)
EXTENDS Naturals

CONSTANTS
  Zygote,     \* the process given with -p
  Children,   \* processes that zygote forks
  App,        \* the one whose cmdline becomes appname
  NoProcess,
  Follow,     \* whether -s is given
  Rounds,     \* zygote: system calls to wait for (1 with -s and -z, n with -Z n)
  Signalled,  \* processes that may receive a signal
  MaxSignals, \* bound on signals
  AppLast     \* whether zygote forks App after the others

Processes == {Zygote} \cup Children

ASSUME ProcessAssumption ==
  Zygote \notin Children /\ App \in Children /\ NoProcess \notin Processes
ASSUME RoundsAssumption  == Rounds \in Nat /\ (Follow => Rounds = 1)
ASSUME FlagAssumption    == Follow \in BOOLEAN /\ AppLast \in BOOLEAN
ASSUME SignalAssumption  == Signalled \subseteq Processes /\ MaxSignals \in Nat

VARIABLES
  proc,     \* the kernel's view of each process
  named,    \* children whose cmdline is final
  forked,   \* PTRACE_GETEVENTMSG of zygote's last fork event
  signals,  \* signals delivered
  tracer,   \* what main() does next
  pid,      \* process to inject
  childPid, \* child_pid of the fork loop
  round,    \* i of the system call loop
  injected  \* history: the kind of stop the library was injected at, or "no"

vars == <<proc, named, forked, signals, tracer, pid, childPid, round, injected>>

Stops == {"attach", "fork", "start", "entry", "exit", "signal"}

\* stop: the stop it is in, "none" if it runs; seen: collected by waitpid();
\* trace: how it was resumed; inside: in a system call traced at its entry
Process == [life : {"absent", "starting", "alive"}, stop : Stops \cup {"none"},
            seen : BOOLEAN, trace : {"free", "cont", "syscall"}, inside : BOOLEAN]

Absent == [life |-> "absent", stop |-> "none", seen |-> FALSE, trace |-> "free",
           inside |-> FALSE]
Free   == [Absent EXCEPT !.life = "alive"]

TypeOK ==
  /\ proc \in [Processes -> Process]
  /\ named \subseteq Children
  /\ forked \in Children \cup {NoProcess}
  /\ signals \in 0..MaxSignals
  /\ tracer \in {"attach", "wait", "round", "wait1", "wait2", "wait3", "inject", "done"}
  /\ pid \in Processes /\ childPid \in Children \cup {NoProcess}
  /\ round \in 0..Rounds
  /\ injected \in Stops \cup {"no"}

Init ==
  /\ proc = [p \in Processes |-> IF p = Zygote THEN Free ELSE Absent]
  /\ named = {}
  /\ forked = NoProcess
  /\ signals = 0
  /\ tracer = "attach"
  /\ pid = Zygote
  /\ childPid = NoProcess
  /\ round = 0
  /\ injected = "no"

Stopped(p) == proc[p].stop # "none"
Runs(p)    == proc[p].life = "alive" /\ ~Stopped(p)
Traced(p)  == proc[p].trace # "free"
(* waitpid() can return p's stop.                                          *)
Pending(p) == Stopped(p) /\ ~proc[p].seen

Halt(r, stop)    == [r EXCEPT !.stop = stop, !.seen = FALSE]
(* PTRACE_CONT and PTRACE_SYSCALL (the latter's pending signal is dropped) *)
(* and PTRACE_DETACH: no effect on a process that is not stopped.          *)
Resumed(r, mode) == IF r.stop = "none" THEN r
                    ELSE [r EXCEPT !.stop = "none", !.trace = mode]
Detached(r)      == IF r.stop = "none" THEN r ELSE Free

TracerUnchanged  == UNCHANGED <<tracer, pid, childPid, round, injected>>
ProcessUnchanged == UNCHANGED <<named, forked, signals>>

-----------------------------------------------------------------------------
(* What the traced processes do.                                           *)

(* zygote forks c: PTRACE_O_TRACEFORK stops the parent and attaches to the *)
(* child, which reports a stop of its own before its first instruction.    *)
Fork(c) ==
  /\ Runs(Zygote) /\ proc[Zygote].trace = "cont" /\ proc[c].life = "absent"
  /\ AppLast /\ c = App => \A d \in Children \ {App} : proc[d].life # "absent"
  /\ proc' = [proc EXCEPT ![Zygote] = Halt(@, "fork"),
                          ![c].life = "starting", ![c].trace = "cont"]
  /\ forked' = c
  /\ UNCHANGED <<named, signals>> /\ TracerUnchanged

Start(c) ==
  /\ proc[c].life = "starting"
  /\ proc' = [proc EXCEPT ![c] = IF Traced(c) THEN Halt([@ EXCEPT !.life = "alive"], "start")
                                 ELSE Free]
  /\ ProcessUnchanged /\ TracerUnchanged

(* The new process sets its name (setArgV0).                               *)
Rename(c) ==
  /\ Runs(c) /\ ~proc[c].inside /\ c \notin named
  /\ named' = named \cup {c}
  /\ UNCHANGED <<proc, forked, signals>> /\ TracerUnchanged

EnterSyscall(p) ==
  /\ Runs(p) /\ proc[p].trace = "syscall" /\ ~proc[p].inside
  /\ proc' = [proc EXCEPT ![p] = Halt([@ EXCEPT !.inside = TRUE], "entry")]
  /\ ProcessUnchanged /\ TracerUnchanged

ExitSyscall(p) ==
  /\ Runs(p) /\ proc[p].inside
  /\ proc' = [proc EXCEPT ![p] =
                IF @.trace = "syscall" THEN Halt([@ EXCEPT !.inside = FALSE], "exit")
                ELSE [@ EXCEPT !.inside = FALSE]]
  /\ ProcessUnchanged /\ TracerUnchanged

Signal(p) ==
  /\ p \in Signalled /\ signals < MaxSignals
  /\ Runs(p) /\ Traced(p) /\ ~proc[p].inside
  /\ proc' = [proc EXCEPT ![p] = Halt(@, "signal")]
  /\ signals' = signals + 1
  /\ UNCHANGED <<named, forked>> /\ TracerUnchanged

-----------------------------------------------------------------------------
(* main()                                                                  *)

(* PTRACE_ATTACH and its waitpid(); then either the fork loop is entered   *)
(* (PTRACE_SETOPTIONS, PTRACE_CONT) or pid is worked on.                   *)
Attach ==
  /\ tracer = "attach"
  /\ proc' = [proc EXCEPT ![pid] = IF Follow THEN [@ EXCEPT !.trace = "cont"]
                                   ELSE [Halt(@, "attach") EXCEPT !.seen = TRUE,
                                                                  !.trace = "cont"]]
  /\ tracer' = IF Follow THEN "wait" ELSE IF Rounds > 0 THEN "round" ELSE "inject"
  /\ ProcessUnchanged /\ UNCHANGED <<pid, childPid, round, injected>>

(* Mutant: the first stop of any child is taken for the wanted process.    *)
FoundAny ==
  /\ tracer = "wait" /\ childPid # NoProcess /\ Pending(childPid)
  /\ proc' = [proc EXCEPT ![childPid].seen = TRUE, ![pid] = Detached(@)]
  /\ pid' = childPid
  /\ tracer' = "round"
  /\ ProcessUnchanged /\ UNCHANGED <<childPid, round, injected>>

(* A stop of the current child: is it the wanted process by now?  zygote   *)
(* is detached from, and pid is that process from then on.                 *)
Found ==
  /\ tracer = "wait" /\ childPid # NoProcess /\ Pending(childPid)
  /\ childPid = App /\ App \in named
  /\ proc' = [proc EXCEPT ![childPid].seen = TRUE, ![pid] = Detached(@)]
  /\ pid' = childPid
  /\ tracer' = "round"
  /\ ProcessUnchanged /\ UNCHANGED <<childPid, round, injected>>

NotYet ==
  /\ tracer = "wait" /\ childPid # NoProcess /\ Pending(childPid)
  /\ ~(childPid = App /\ App \in named)
  /\ proc' = [proc EXCEPT ![childPid] = Resumed(@, "syscall")]
  /\ ProcessUnchanged /\ TracerUnchanged

(* Mutants: the child, or zygote, is not resumed after a fork event.       *)
ForkedChildKept(p) ==
  /\ tracer = "wait" /\ p # childPid /\ Pending(p) /\ proc[p].stop = "fork"
  /\ childPid' = forked
  /\ proc' = [proc EXCEPT ![p] = Resumed(@, "cont")]
  /\ ProcessUnchanged /\ UNCHANGED <<tracer, pid, round, injected>>

ForkedParentKept(p) ==
  /\ tracer = "wait" /\ p # childPid /\ Pending(p) /\ proc[p].stop = "fork"
  /\ childPid' = forked
  /\ proc' = [proc EXCEPT ![p].seen = TRUE, ![forked] = Resumed(@, "syscall")]
  /\ ProcessUnchanged /\ UNCHANGED <<tracer, pid, round, injected>>

(* A fork event of another process: its child is followed from now on.     *)
Forked(p) ==
  /\ tracer = "wait" /\ p # childPid /\ Pending(p) /\ proc[p].stop = "fork"
  /\ childPid' = forked
  /\ proc' = [proc EXCEPT ![p] = Resumed(@, "cont"), ![forked] = Resumed(@, "syscall")]
  /\ ProcessUnchanged /\ UNCHANGED <<tracer, pid, round, injected>>

(* Any other stop of another process is collected, and that is all.        *)
Ignored(p) ==
  /\ tracer = "wait" /\ p # childPid /\ Pending(p) /\ proc[p].stop # "fork"
  /\ proc' = [proc EXCEPT ![p].seen = TRUE]
  /\ ProcessUnchanged /\ TracerUnchanged

(* The loop that waits for system calls: resume, ...                       *)
BeginRound ==
  /\ tracer = "round"
  /\ proc' = [proc EXCEPT ![pid] = Resumed(@, "syscall")]
  /\ tracer' = "wait1"
  /\ ProcessUnchanged /\ UNCHANGED <<pid, childPid, round, injected>>

(* Mutant: any stop is taken for a system call entry.                      *)
TestEntrySkipped ==
  /\ tracer = "wait1" /\ Pending(pid)
  /\ tracer' = "wait3"
  /\ proc' = [proc EXCEPT ![pid] = Resumed(@, "syscall")]
  /\ ProcessUnchanged /\ UNCHANGED <<pid, childPid, round, injected>>

(* ... look at ip, which is 0 at an entry and 1 at an exit (and anything   *)
(* at another stop); if this is no entry wait for the next stop, ...       *)
TestEntry ==
  /\ tracer = "wait1" /\ Pending(pid)
  /\ \E ip \in {0, 1} :
       /\ proc[pid].stop = "entry" => ip = 0
       /\ proc[pid].stop = "exit"  => ip = 1
       /\ tracer' = IF ip # 0 THEN "wait2" ELSE "wait3"
  /\ proc' = [proc EXCEPT ![pid] = Resumed(@, "syscall")]
  /\ ProcessUnchanged /\ UNCHANGED <<pid, childPid, round, injected>>

AwaitEntry ==
  /\ tracer = "wait2" /\ Pending(pid)
  /\ proc' = [proc EXCEPT ![pid] = Resumed(@, "syscall")]
  /\ tracer' = "wait3"
  /\ ProcessUnchanged /\ UNCHANGED <<pid, childPid, round, injected>>

(* Mutant: i <= zygote.                                                    *)
AwaitExitTooFar ==
  /\ tracer = "wait3" /\ Pending(pid)
  /\ proc' = [proc EXCEPT ![pid].seen = TRUE]
  /\ round' = round + 1
  /\ tracer' = IF round < Rounds THEN "round" ELSE "inject"
  /\ ProcessUnchanged /\ UNCHANGED <<pid, childPid, injected>>

(* ... and then for the exit.                                              *)
AwaitExit ==
  /\ tracer = "wait3" /\ Pending(pid)
  /\ proc' = [proc EXCEPT ![pid].seen = TRUE]
  /\ round' = round + 1
  /\ tracer' = IF round + 1 < Rounds THEN "round" ELSE "inject"
  /\ ProcessUnchanged /\ UNCHANGED <<pid, childPid, injected>>

(* Registers and stack are set up and pid is detached from; hijack ends,   *)
(* which detaches it from everything that it still traces.                 *)
Inject ==
  /\ tracer = "inject"
  /\ injected' = proc[pid].stop
  /\ proc' = [p \in Processes |->
                IF Traced(p) THEN [proc[p] EXCEPT !.stop = "none", !.trace = "free",
                                                  !.seen = FALSE]
                ELSE proc[p]]
  /\ tracer' = "done"
  /\ ProcessUnchanged /\ UNCHANGED <<pid, childPid, round>>

-----------------------------------------------------------------------------
(* waitpid(-1) of the fork loop returns p.                                 *)
Collect(p) == \/ p = childPid /\ (Found \/ NotYet)
              \/ Forked(p)
              \/ Ignored(p)

Sequential == Attach \/ BeginRound \/ TestEntry \/ AwaitEntry \/ AwaitExit \/ Inject

Run(p) == EnterSyscall(p) \/ ExitSyscall(p)
Spawn  == \E c \in Children : Fork(c)

Next ==
  \/ Sequential
  \/ \E p \in Processes : Collect(p)
  \/ Spawn
  \/ \E c \in Children : Start(c) \/ Rename(c)
  \/ \E p \in Processes : Run(p) \/ Signal(p)

Spec == Init /\ [][Next]_vars

(* hijack is scheduled and waitpid(-1) returns every stop in the end;      *)
(* processes run, name themselves in time although system calls keep       *)
(* stopping them, and zygote is asked for the processes of Children.       *)
FairSpec ==
  /\ Spec
  /\ WF_vars(Sequential) /\ WF_vars(Spawn)
  /\ \A p \in Processes : WF_vars(Collect(p)) /\ WF_vars(Run(p))
  /\ \A c \in Children : WF_vars(Start(c)) /\ SF_vars(Rename(c))

-----------------------------------------------------------------------------
(* Properties                                                              *)

(***************************************************************************)
(* "we have to wait until the syscall is completed": the library is        *)
(* injected at the exit of a system call, whatever stop the process was in *)
(* when the waiting began.  (So it is unless the process stops for a       *)
(* signal while hijack waits.)                                             *)
(***************************************************************************)
SyscallCompleted == (injected # "no" /\ Rounds > 0) => injected = "exit"

(***************************************************************************)
(* With -s the library goes into the wanted process, never into zygote or  *)
(* another child, in whatever order forks, first stops and fork events are *)
(* reported.                                                               *)
(***************************************************************************)
RightProcess == (injected # "no" /\ Follow) => pid = App /\ App \in named

(***************************************************************************)
(* While hijack waits, the child it follows is not stopped with nobody to  *)
(* resume it: its first stop may be collected before zygote's fork event   *)
(* names it, after that, or be resumed before it is ever collected.        *)
(***************************************************************************)
ChildResumed ==
  (tracer = "wait" /\ childPid # NoProcess) => (Stopped(childPid) => Pending(childPid))

(***************************************************************************)
(* With -s the wanted process is found and injected in the end, although   *)
(* the fork loop leaves earlier children stopped and detaches from zygote  *)
(* while zygote runs.  (It needs the wanted process to be forked last: the *)
(* loop follows one child only.  And it needs zygote to get no signal: the *)
(* loop would leave it stopped.)                                           *)
(***************************************************************************)
LibraryInjected == Follow => <>(tracer = "done")

-----------------------------------------------------------------------------
(* The inductive invariant.                                                *)

(* A stop says whether the process is in a system call; some stops happen  *)
(* to zygote or to new children only.                                      *)
StopSound(p, r) ==
  /\ r.stop # "none" \/ r.inside => r.life = "alive"
  /\ r.stop = "entry" => r.inside
  /\ r.stop \in {"exit", "attach", "start"} => ~r.inside
  /\ r.stop = "signal" => p \in Signalled
  /\ r.stop \in {"fork", "attach"} => p = Zygote
  /\ r.stop = "fork" => forked \in Children
  /\ r.stop = "start" => p \notin named
  /\ p \in named \cup {Zygote} => r.life = "alive"

(* Where main() is, and whom it works on.                                  *)
Looping  == {"round", "wait1", "wait2", "wait3"}
MainSound ==
  /\ tracer = "attach" =>
       proc = [p \in Processes |-> IF p = Zygote THEN Free ELSE Absent]
  /\ tracer = "wait" => Follow
  /\ tracer \in {"attach", "wait"} => round = 0
  /\ tracer \in Looping => round < Rounds
  /\ IF Follow /\ tracer \notin {"attach", "wait"} THEN pid = App /\ App \in named
     ELSE pid = Zygote
  /\ tracer \in {"round", "inject"} => Stopped(pid)
  /\ injected # "no" => tracer = "done"

(* What the process to inject, if it gets no signal, may do at each place  *)
(* of the loop that waits for system calls.                                *)
Quiet == Signalled \cap {Zygote, App} = {}
WaitSound(r) ==
  /\ tracer = "round" => r.stop \in {"attach", "entry", "exit"}
  /\ tracer \in {"wait1", "wait2", "wait3"} => r.trace = "syscall"
  /\ tracer = "wait1" => r.stop \in {"none", "entry", "exit"}
  /\ tracer = "wait2" => r.stop = "entry" \/ (r.stop = "none" /\ ~r.inside)
  /\ tracer = "wait3" => r.stop = "exit" \/ (r.stop = "none" /\ r.inside)
  /\ tracer = "inject" /\ Rounds > 0 => r.stop = "exit"

IInv ==
  /\ TypeOK
  /\ \A p \in Processes : StopSound(p, proc[p])
  /\ MainSound
  /\ Quiet => WaitSound(proc[pid]) /\ SyscallCompleted
  /\ ChildResumed
=============================================================================
