---------------------------- MODULE Hijack_proofs ----------------------------
(***************************************************************************)
(* Proofs about Hijack: whom the library is injected into and when.        *)
(*                                                                         *)
(* Each action changes the records of one or two processes.  The lemmas    *)
(* below say what the new records are; what IInv says of one process then  *)
(* follows without looking at the function proc again.                     *)
(***************************************************************************)
EXTENDS Hijack, TLAPS

(* Processes have types.                                                   *)
LEMMA ProcessTypes ==
  /\ Zygote \in Processes /\ App \in Processes /\ App # Zygote
  /\ \A c \in Children : c \in Processes /\ c # Zygote /\ c # NoProcess
BY ProcessAssumption DEF Processes

(* Records built by the helpers: their fields.                             *)
LEMMA HaltFields ==
  ASSUME NEW r \in Process, NEW stop \in Stops
  PROVE  /\ Halt(r, stop) \in Process
         /\ Halt(r, stop).stop = stop /\ Halt(r, stop).seen = FALSE
         /\ Halt(r, stop).life = r.life /\ Halt(r, stop).trace = r.trace
         /\ Halt(r, stop).inside = r.inside
BY DEF Halt, Process

LEMMA ResumedFields ==
  ASSUME NEW r \in Process, NEW mode \in {"cont", "syscall"}
  PROVE  /\ Resumed(r, mode) \in Process
         /\ Resumed(r, mode).stop = "none"
         /\ Resumed(r, mode).life = r.life /\ Resumed(r, mode).inside = r.inside
         /\ r.stop # "none" => Resumed(r, mode).trace = mode
         /\ r.stop = "none" => Resumed(r, mode) = r
BY DEF Resumed, Process

LEMMA DetachedFields ==
  ASSUME NEW r \in Process
  PROVE  /\ Detached(r) \in Process
         /\ Detached(r).stop = "none"
         /\ r.life = "alive" => Detached(r).life = "alive"
BY DEF Detached, Process, Free, Absent

(* A changed function.                                                     *)
LEMMA ProcChanged ==
  ASSUME NEW f \in [Processes -> Process], NEW p \in Processes, NEW r \in Process
  PROVE  /\ [f EXCEPT ![p] = r] \in [Processes -> Process]
         /\ [f EXCEPT ![p] = r][p] = r
         /\ \A q \in Processes \ {p} : [f EXCEPT ![p] = r][q] = f[q]
OBVIOUS

LEMMA TwoChanged ==
  ASSUME NEW f \in [Processes -> Process], NEW p \in Processes, NEW r \in Process,
         NEW q \in Processes, NEW s \in Process, p # q
  PROVE  LET g == [f EXCEPT ![p] = r, ![q] = s]
         IN  /\ g \in [Processes -> Process]
             /\ g[p] = r /\ g[q] = s
             /\ \A o \in Processes \ {p, q} : g[o] = f[o]
OBVIOUS

-----------------------------------------------------------------------------
(* Steps of the traced processes, which leave main() where it is.          *)

(* What such a step has to establish for the one process it changes.       *)
LEMMA OneProcess ==
  ASSUME IInv, tracer # "attach",
         NEW p \in Processes, NEW r \in Process, proc' = [proc EXCEPT ![p] = r],
         named' = named, forked' = forked, signals' \in 0..MaxSignals, TracerUnchanged,
         StopSound(p, r),
         p = pid => tracer \notin {"round", "inject"},
         Quiet /\ p = pid => WaitSound(r),
         p = childPid => r.stop = "none" \/ ~r.seen
  PROVE  IInv'
<1>1. /\ proc' \in [Processes -> Process] /\ proc'[p] = r
      /\ \A q \in Processes \ {p} : proc'[q] = proc[q]
  BY ProcChanged DEF IInv, TypeOK
<1>2. TypeOK'
  BY <1>1 DEF IInv, TypeOK, TracerUnchanged
<1>3. ASSUME NEW q \in Processes PROVE StopSound(q, proc[q])'
  <2>1. StopSound(q, proc'[q])
    BY <1>1 DEF IInv
  <2> QED
    BY <2>1 DEF StopSound
<1>4. MainSound'
  <2>1. pid \in Processes
    BY DEF IInv, TypeOK
  <2> QED
    BY <1>1, <2>1 DEF IInv, MainSound, Looping, Stopped, TracerUnchanged
<1>5. ASSUME Quiet PROVE (WaitSound(proc[pid]) /\ SyscallCompleted)'
  <2>1. WaitSound(proc'[pid])
    BY <1>1, <1>5 DEF IInv, TypeOK
  <2> QED
    BY <2>1, <1>5 DEF IInv, WaitSound, SyscallCompleted, TracerUnchanged
<1>6. ChildResumed'
  <2> SUFFICES ASSUME tracer = "wait", childPid # NoProcess
               PROVE  (Stopped(childPid) => Pending(childPid))'
    BY DEF ChildResumed, TracerUnchanged
  <2>1. childPid \in Processes /\ childPid' = childPid
    BY ProcessTypes DEF IInv, TypeOK, TracerUnchanged
  <2>2. Stopped(childPid) => Pending(childPid)
    BY DEF IInv, ChildResumed
  <2> QED
    BY <1>1, <2>1, <2>2 DEF Stopped, Pending
<1> QED
  BY <1>2, <1>3, <1>4, <1>5, <1>6 DEF IInv, Quiet

(* While main() has not attached nothing else moves.                       *)
LEMMA NotAttached ==
  ASSUME IInv, NEW p \in Processes,
         proc[p].life = "starting" \/ Traced(p) \/ proc[p].inside
  PROVE  tracer # "attach"
BY DEF IInv, MainSound, Traced, Free, Absent

(* The record of a process and its soundness.                              *)
LEMMA RecordOf ==
  ASSUME IInv, NEW p \in Processes
  PROVE  proc[p] \in Process /\ StopSound(p, proc[p])
BY DEF IInv, TypeOK

(* The process to inject is alive and not new.                             *)
LEMMA InjectedAlive ==
  ASSUME IInv, tracer \notin {"attach", "wait"}
  PROVE  pid \in named \cup {Zygote} /\ pid \in Processes /\ proc[pid].life = "alive"
BY ProcessTypes DEF IInv, MainSound, StopSound, TypeOK

(* While main() acts on the process to inject, that process is stopped.    *)
LEMMA Held ==
  ASSUME IInv, proc[pid].stop = "none" \/ proc[pid].life = "starting"
  PROVE  tracer \notin {"round", "inject"}
BY InjectedAlive DEF IInv, MainSound, Stopped

LEMMA StartStep ==
  ASSUME IInv, NEW c \in Children, Start(c)
  PROVE  IInv'
<1>1. c \in Processes /\ c # Zygote
  BY ProcessTypes
<1>2. proc[c] \in Process /\ StopSound(c, proc[c]) /\ proc[c].life = "starting"
  BY <1>1, RecordOf DEF Start
<1> DEFINE a == [proc[c] EXCEPT !.life = "alive"]
           r == IF Traced(c) THEN Halt(a, "start") ELSE Free
<1>3. a \in Process /\ a.life = "alive" /\ ~a.inside
  BY <1>2 DEF Process, StopSound
<1>4. /\ Halt(a, "start") \in Process /\ Halt(a, "start").life = "alive"
      /\ Halt(a, "start").stop = "start" /\ ~Halt(a, "start").seen /\ ~Halt(a, "start").inside
  BY <1>3, HaltFields DEF Stops
<1>5. Free \in Process /\ Free.life = "alive" /\ Free.stop = "none" /\ ~Free.inside
  BY DEF Free, Absent, Process
<1>6. r \in Process /\ r.life = "alive" /\ ~r.inside /\ r.stop \in {"start", "none"}
      /\ (r.stop = "none" \/ ~r.seen)
  BY <1>4, <1>5
<1>7. c \notin named
  BY <1>2 DEF StopSound
<1>8. StopSound(c, r)
  BY <1>1, <1>6, <1>7 DEF StopSound
<1>9. c = pid => WaitSound(r)
  BY <1>1, <1>7, InjectedAlive DEF WaitSound
<1>10. proc' = [proc EXCEPT ![c] = r]
  BY DEF Start
<1>11. UNCHANGED <<named, forked>> /\ signals' \in 0..MaxSignals /\ TracerUnchanged
  BY DEF Start, ProcessUnchanged, IInv, TypeOK
<1>12. tracer # "attach"
  BY <1>1, <1>2, NotAttached
<1> HIDE DEF r
<1>13. c = pid => tracer \notin {"round", "inject"}
  BY <1>2, Held
<1> QED
  BY <1>1, <1>6, <1>8, <1>9, <1>10, <1>11, <1>12, <1>13, OneProcess

LEMMA EnterSyscallStep ==
  ASSUME IInv, NEW p \in Processes, EnterSyscall(p)
  PROVE  IInv'
<1>1. /\ proc[p] \in Process /\ StopSound(p, proc[p])
      /\ proc[p].life = "alive" /\ proc[p].stop = "none"
      /\ proc[p].trace = "syscall" /\ ~proc[p].inside
  BY RecordOf DEF EnterSyscall, Runs, Stopped
<1> DEFINE a == [proc[p] EXCEPT !.inside = TRUE]
           r == Halt(a, "entry")
<1>2. a \in Process /\ a.life = "alive" /\ a.inside /\ a.trace = "syscall"
  BY <1>1 DEF Process
<1>3. /\ r \in Process /\ r.life = "alive" /\ r.inside /\ r.trace = "syscall"
      /\ r.stop = "entry" /\ ~r.seen
  BY <1>2, HaltFields DEF Stops
<1>4. proc' = [proc EXCEPT ![p] = r]
  BY DEF EnterSyscall
<1> HIDE DEF r
<1>5. StopSound(p, r)
  BY <1>3 DEF StopSound
<1>6. Quiet /\ p = pid => WaitSound(r)
  BY <1>1, <1>3 DEF WaitSound, IInv
<1>7. UNCHANGED <<named, forked>> /\ signals' \in 0..MaxSignals /\ TracerUnchanged
  BY DEF EnterSyscall, ProcessUnchanged, IInv, TypeOK
<1>8. tracer # "attach"
  BY <1>1, NotAttached DEF Traced
<1>9. p = pid => tracer \notin {"round", "inject"}
  BY <1>1, Held
<1> QED
  BY <1>3, <1>4, <1>5, <1>6, <1>7, <1>8, <1>9, OneProcess

LEMMA ExitSyscallStep ==
  ASSUME IInv, NEW p \in Processes, ExitSyscall(p)
  PROVE  IInv'
<1>1. /\ proc[p] \in Process /\ StopSound(p, proc[p])
      /\ proc[p].life = "alive" /\ proc[p].stop = "none" /\ proc[p].inside
  BY RecordOf DEF ExitSyscall, Runs, Stopped
<1> DEFINE a == [proc[p] EXCEPT !.inside = FALSE]
           r == IF proc[p].trace = "syscall" THEN Halt(a, "exit") ELSE a
<1>2. /\ a \in Process /\ a.life = "alive" /\ ~a.inside /\ a.trace = proc[p].trace
      /\ a.stop = "none"
  BY <1>1 DEF Process
<1>3. /\ Halt(a, "exit") \in Process /\ Halt(a, "exit").life = "alive"
      /\ ~Halt(a, "exit").inside /\ Halt(a, "exit").trace = proc[p].trace
      /\ Halt(a, "exit").stop = "exit" /\ ~Halt(a, "exit").seen
  BY <1>2, HaltFields DEF Stops
<1>4. /\ r \in Process /\ r.life = "alive" /\ ~r.inside /\ r.trace = proc[p].trace
      /\ r.stop = IF proc[p].trace = "syscall" THEN "exit" ELSE "none"
      /\ r.stop = "none" \/ ~r.seen
  BY <1>2, <1>3
<1>5. proc' = [proc EXCEPT ![p] = r]
  BY DEF ExitSyscall
<1> HIDE DEF r
<1>6. StopSound(p, r)
  BY <1>4 DEF StopSound
<1>7. Quiet /\ p = pid => WaitSound(r)
  BY <1>1, <1>4 DEF WaitSound, IInv
<1>8. UNCHANGED <<named, forked>> /\ signals' \in 0..MaxSignals /\ TracerUnchanged
  BY DEF ExitSyscall, ProcessUnchanged, IInv, TypeOK
<1>9. tracer # "attach"
  BY <1>1, NotAttached
<1>10. p = pid => tracer \notin {"round", "inject"}
  BY <1>1, Held
<1> QED
  BY <1>4, <1>5, <1>6, <1>7, <1>8, <1>9, <1>10, OneProcess

LEMMA SignalStep ==
  ASSUME IInv, NEW p \in Processes, Signal(p)
  PROVE  IInv'
<1>1. /\ proc[p] \in Process /\ StopSound(p, proc[p])
      /\ proc[p].life = "alive" /\ proc[p].stop = "none" /\ Traced(p)
  BY RecordOf DEF Signal, Runs, Stopped
<1> DEFINE r == Halt(proc[p], "signal")
<1>2. /\ r \in Process /\ r.life = "alive" /\ r.stop = "signal" /\ ~r.seen
      /\ r.trace = proc[p].trace
  BY <1>1, HaltFields DEF Stops
<1>3. proc' = [proc EXCEPT ![p] = r]
  BY DEF Signal
<1> HIDE DEF r
<1>4. p \in Signalled
  BY DEF Signal
<1>5. StopSound(p, r)
  BY <1>2, <1>4 DEF StopSound
<1>6. Quiet /\ p = pid => tracer \in {"attach", "wait", "done"}
  BY <1>4 DEF Quiet, IInv, MainSound, TypeOK
<1>7. Quiet /\ p = pid => WaitSound(r)
  BY <1>6 DEF WaitSound
<1>8. UNCHANGED <<named, forked>> /\ signals' \in 0..MaxSignals /\ TracerUnchanged
  BY SignalAssumption DEF Signal, IInv, TypeOK
<1>9. tracer # "attach"
  BY <1>1, NotAttached
<1>10. p = pid => tracer \notin {"round", "inject"}
  BY <1>1, Held
<1> QED
  BY <1>2, <1>3, <1>5, <1>7, <1>8, <1>9, <1>10, OneProcess

LEMMA RenameStep ==
  ASSUME IInv, NEW c \in Children, Rename(c)
  PROVE  IInv'
<1>1. c \in Processes /\ c # Zygote /\ proc[c].life = "alive" /\ proc[c].stop = "none"
  BY ProcessTypes DEF Rename, Runs, Stopped
<1>2. proc' = proc /\ forked' = forked /\ signals' = signals /\ TracerUnchanged
      /\ named' = named \cup {c}
  BY DEF Rename
<1>3. TypeOK'
  BY <1>2 DEF IInv, TypeOK, TracerUnchanged
<1>4. ASSUME NEW q \in Processes PROVE StopSound(q, proc[q])'
  BY <1>1, <1>2 DEF IInv, StopSound
<1>5. MainSound'
  BY <1>2 DEF IInv, MainSound, Looping, Stopped, TracerUnchanged
<1>6. Quiet => (WaitSound(proc[pid]) /\ SyscallCompleted)'
  BY <1>2 DEF IInv, WaitSound, SyscallCompleted, TracerUnchanged
<1>7. ChildResumed'
  BY <1>2 DEF IInv, ChildResumed, Stopped, Pending, TracerUnchanged
<1> QED
  BY <1>3, <1>4, <1>5, <1>6, <1>7 DEF IInv, Quiet

LEMMA ForkStep ==
  ASSUME IInv, NEW c \in Children, Fork(c)
  PROVE  IInv'
<1>1. Zygote \in Processes /\ c \in Processes /\ c # Zygote
  BY ProcessTypes
<1>2. /\ proc[Zygote] \in Process /\ proc[Zygote].life = "alive"
      /\ proc[Zygote].stop = "none" /\ proc[Zygote].trace = "cont"
  BY <1>1, RecordOf DEF Fork, Runs, Stopped
<1>3. proc[c] \in Process /\ proc[c].life = "absent" /\ proc[c].stop = "none"
      /\ ~proc[c].inside /\ c \notin named
  BY <1>1, RecordOf DEF Fork, StopSound, Process
<1> DEFINE z == Halt(proc[Zygote], "fork")
           r == [[proc[c] EXCEPT !.life = "starting"] EXCEPT !.trace = "cont"]
<1>4. z \in Process /\ z.life = "alive" /\ z.stop = "fork" /\ ~z.seen /\ z.trace = "cont"
  BY <1>2, HaltFields DEF Stops
<1>5. r \in Process /\ r.life = "starting" /\ r.stop = "none" /\ ~r.inside
  BY <1>3 DEF Process
<1>6. proc' = [proc EXCEPT ![Zygote] = z, ![c] = r]
  BY <1>1, <1>3 DEF Fork, IInv, TypeOK
<1> HIDE DEF z, r
<1>7. /\ proc' \in [Processes -> Process] /\ proc'[Zygote] = z /\ proc'[c] = r
      /\ \A q \in Processes \ {Zygote, c} : proc'[q] = proc[q]
  BY <1>1, <1>4, <1>5, <1>6, TwoChanged DEF IInv, TypeOK
<1>8. named' = named /\ signals' = signals /\ forked' = c /\ TracerUnchanged
  BY DEF Fork
<1>9. tracer # "attach"
  BY <1>1, <1>2, NotAttached DEF Traced
<1>10. TypeOK'
  BY <1>7, <1>8 DEF IInv, TypeOK, TracerUnchanged
<1>11. ASSUME NEW q \in Processes PROVE StopSound(q, proc[q])'
  <2>1. CASE q = Zygote
    BY <2>1, <1>1, <1>4, <1>7, <1>8, ProcessAssumption DEF StopSound, IInv, TypeOK
  <2>2. CASE q = c
    BY <2>2, <1>1, <1>3, <1>5, <1>7, <1>8 DEF StopSound
  <2>3. CASE q \notin {Zygote, c}
    BY <2>3, <1>7, <1>8 DEF StopSound, IInv
  <2> QED
    BY <2>1, <2>2, <2>3
<1>12. MainSound'
  <2>1. tracer \in {"round", "inject"} => pid \in Processes /\ pid # c
    BY <1>3, <1>1, InjectedAlive
  <2>2. tracer \in {"round", "inject"} => proc'[pid].stop # "none"
    BY <2>1, <1>4, <1>7 DEF IInv, MainSound, Stopped
  <2> QED
    BY <2>2, <1>8, <1>9 DEF IInv, MainSound, Looping, Stopped, TracerUnchanged
<1>13. ASSUME Quiet PROVE (WaitSound(proc[pid]) /\ SyscallCompleted)'
  <2>1. WaitSound(proc[pid]) /\ SyscallCompleted
    BY <1>13 DEF IInv
  <2>2. CASE pid = Zygote
    <3>1. tracer \notin Looping /\ ~(tracer = "inject" /\ Rounds > 0)
      BY <2>1, <2>2, <1>2 DEF WaitSound, Looping
    <3> QED
      BY <3>1, <2>1, <1>8 DEF WaitSound, Looping, SyscallCompleted, TracerUnchanged
  <2>3. CASE pid # Zygote
    <3>1. pid # c /\ pid \in Processes
      BY <2>3, <1>3, <1>9 DEF IInv, TypeOK, MainSound
    <3> QED
      BY <3>1, <2>3, <2>1, <1>7, <1>8 DEF WaitSound, SyscallCompleted, TracerUnchanged
  <2> QED
    BY <2>2, <2>3
<1>14. ChildResumed'
  <2>1. childPid # NoProcess => childPid \in Processes \ {Zygote}
    BY ProcessTypes DEF IInv, TypeOK
  <2> QED
    BY <2>1, <1>5, <1>7, <1>8 DEF IInv, ChildResumed, Stopped, Pending, TracerUnchanged
<1> QED
  BY <1>10, <1>11, <1>12, <1>13, <1>14 DEF IInv, Quiet

-----------------------------------------------------------------------------
(* Steps of main().                                                        *)

(* One process changes; what holds of the others keeps holding.            *)
LEMMA OneSound ==
  ASSUME IInv, NEW p \in Processes, NEW r \in Process, proc' = [proc EXCEPT ![p] = r],
         ProcessUnchanged, StopSound(p, r)
  PROVE  /\ proc' \in [Processes -> Process] /\ proc'[p] = r
         /\ \A q \in Processes \ {p} : proc'[q] = proc[q]
         /\ \A q \in Processes : StopSound(q, proc[q])'
<1>1. /\ proc' \in [Processes -> Process] /\ proc'[p] = r
      /\ \A q \in Processes \ {p} : proc'[q] = proc[q]
  BY ProcChanged DEF IInv, TypeOK
<1>2. ASSUME NEW q \in Processes PROVE StopSound(q, proc[q])'
  <2>1. StopSound(q, proc'[q])
    BY <1>1 DEF IInv
  <2> QED
    BY <2>1 DEF StopSound, ProcessUnchanged
<1> QED
  BY <1>1, <1>2

(* Resuming a process, collecting its stop or detaching from it is sound.  *)
LEMMA ResumedSound ==
  ASSUME IInv, NEW p \in Processes, NEW mode \in {"cont", "syscall"}
  PROVE  StopSound(p, Resumed(proc[p], mode))
BY RecordOf, ResumedFields DEF StopSound

LEMMA SeenFields ==
  ASSUME IInv, NEW p \in Processes
  PROVE  LET r == [proc[p] EXCEPT !.seen = TRUE]
         IN  /\ r \in Process /\ StopSound(p, r)
             /\ r.stop = proc[p].stop /\ r.inside = proc[p].inside
             /\ r.trace = proc[p].trace
<1> DEFINE r == [proc[p] EXCEPT !.seen = TRUE]
<1>1. proc[p] \in Process /\ StopSound(p, proc[p])
  BY RecordOf
<1>2. /\ r \in Process /\ r.stop = proc[p].stop /\ r.inside = proc[p].inside
      /\ r.trace = proc[p].trace /\ r.life = proc[p].life
  BY <1>1 DEF Process
<1> HIDE DEF r
<1>3. StopSound(p, r)
  BY <1>1, <1>2 DEF StopSound
<1>4. r \in Process /\ StopSound(p, r) /\ r.stop = proc[p].stop
      /\ r.inside = proc[p].inside /\ r.trace = proc[p].trace
  BY <1>2, <1>3
<1> USE DEF r
<1> QED
  BY <1>4

(* A system call loop step that resumes pid (or collects its stop).        *)
LEMMA PidStep ==
  ASSUME IInv, NEW r \in Process, StopSound(pid, r),
         proc' = [proc EXCEPT ![pid] = r], ProcessUnchanged,
         UNCHANGED <<pid, childPid, injected>>,
         tracer \in Looping, tracer' \in Looping \cup {"inject"},
         round' \in 0..Rounds, tracer' \in Looping => round' < Rounds,
         tracer' \in {"round", "inject"} => r.stop # "none",
         Quiet => WaitSound(r)'
  PROVE  IInv'
<1>1. pid \in Processes
  BY DEF IInv, TypeOK
<1>2. /\ proc' \in [Processes -> Process] /\ proc'[pid] = r
      /\ \A q \in Processes : StopSound(q, proc[q])'
  BY <1>1, OneSound
<1>3. TypeOK'
  BY <1>2 DEF IInv, TypeOK, ProcessUnchanged, Looping
<1>4. MainSound'
  BY <1>2 DEF IInv, MainSound, ProcessUnchanged, Looping, Stopped
<1>5. Quiet => (WaitSound(proc[pid]) /\ SyscallCompleted)'
  BY <1>2 DEF IInv, WaitSound, SyscallCompleted
<1>6. ChildResumed'
  BY DEF ChildResumed, Looping
<1> QED
  BY <1>2, <1>3, <1>4, <1>5, <1>6 DEF IInv, Quiet

LEMMA BeginRoundStep ==
  ASSUME IInv, BeginRound
  PROVE  IInv'
<1>1. pid \in Processes /\ proc[pid] \in Process /\ StopSound(pid, proc[pid])
  BY RecordOf DEF IInv, TypeOK
<1>0. PICK r \in Process : r = Resumed(proc[pid], "syscall")
  BY <1>1, ResumedFields
<1>2. /\ r \in Process /\ r.stop = "none" /\ r.inside = proc[pid].inside
      /\ proc[pid].stop # "none" => r.trace = "syscall"
  BY <1>0, <1>1, ResumedFields
<1>3. StopSound(pid, r)
  BY <1>0, <1>1, ResumedSound
<1>4. proc' = [proc EXCEPT ![pid] = r]
  BY <1>0 DEF BeginRound
<1>5. tracer = "round" /\ tracer' = "wait1" /\ round' = round
  BY DEF BeginRound
<1>6. Quiet => WaitSound(r)'
  BY <1>2, <1>5 DEF WaitSound, IInv
<1>7. round' < Rounds /\ round' \in 0..Rounds
  BY <1>5 DEF IInv, TypeOK, MainSound, Looping
<1> QED
  BY <1>2, <1>3, <1>4, <1>5, <1>6, <1>7, PidStep DEF BeginRound, Looping

LEMMA TestEntryStep ==
  ASSUME IInv, TestEntry
  PROVE  IInv'
<1>1. pid \in Processes /\ proc[pid] \in Process /\ StopSound(pid, proc[pid])
  BY RecordOf DEF IInv, TypeOK
<1>0. PICK r \in Process : r = Resumed(proc[pid], "syscall")
  BY <1>1, ResumedFields
<1>2. proc[pid].stop # "none" /\ tracer = "wait1" /\ round' = round
      /\ UNCHANGED <<pid, childPid, injected>> /\ ProcessUnchanged
      /\ proc' = [proc EXCEPT ![pid] = r]
  BY <1>0 DEF TestEntry, Pending, Stopped
<1>3. /\ r \in Process /\ r.stop = "none" /\ r.inside = proc[pid].inside
      /\ r.trace = "syscall"
  BY <1>0, <1>1, <1>2, ResumedFields
<1>4. StopSound(pid, r)
  BY <1>0, <1>1, ResumedSound
<1>5. PICK ip \in {0, 1} :
        /\ proc[pid].stop = "entry" => ip = 0
        /\ proc[pid].stop = "exit"  => ip = 1
        /\ tracer' = IF ip # 0 THEN "wait2" ELSE "wait3"
  BY DEF TestEntry
<1>6. Quiet => WaitSound(r)'
  <2> SUFFICES ASSUME Quiet PROVE WaitSound(r)'
    OBVIOUS
  <2>1. proc[pid].stop \in {"entry", "exit"}
    BY <1>2 DEF WaitSound, IInv
  <2>2. CASE proc[pid].stop = "entry"
    BY <2>2, <1>1, <1>3, <1>5 DEF WaitSound, StopSound
  <2>3. CASE proc[pid].stop = "exit"
    BY <2>3, <1>1, <1>3, <1>5 DEF WaitSound, StopSound
  <2> QED
    BY <2>1, <2>2, <2>3
<1>7. round' < Rounds /\ round' \in 0..Rounds
  BY <1>2 DEF IInv, TypeOK, MainSound, Looping
<1>8. tracer' \in {"wait2", "wait3"}
  BY <1>5
<1> QED
  BY <1>2, <1>3, <1>4, <1>6, <1>7, <1>8, PidStep DEF Looping

LEMMA AwaitEntryStep ==
  ASSUME IInv, AwaitEntry
  PROVE  IInv'
<1>1. pid \in Processes /\ proc[pid] \in Process /\ StopSound(pid, proc[pid])
  BY RecordOf DEF IInv, TypeOK
<1>0. PICK r \in Process : r = Resumed(proc[pid], "syscall")
  BY <1>1, ResumedFields
<1>2. proc[pid].stop # "none" /\ tracer = "wait2" /\ tracer' = "wait3" /\ round' = round
      /\ UNCHANGED <<pid, childPid, injected>> /\ ProcessUnchanged
      /\ proc' = [proc EXCEPT ![pid] = r]
  BY <1>0 DEF AwaitEntry, Pending, Stopped
<1>3. /\ r \in Process /\ r.stop = "none" /\ r.inside = proc[pid].inside
      /\ r.trace = "syscall"
  BY <1>0, <1>1, <1>2, ResumedFields
<1>4. StopSound(pid, r)
  BY <1>0, <1>1, ResumedSound
<1>5. Quiet => WaitSound(r)'
  BY <1>1, <1>2, <1>3 DEF WaitSound, StopSound, IInv
<1>6. round' < Rounds /\ round' \in 0..Rounds
  BY <1>2 DEF IInv, TypeOK, MainSound, Looping
<1> QED
  BY <1>2, <1>3, <1>4, <1>5, <1>6, PidStep DEF Looping

LEMMA AwaitExitStep ==
  ASSUME IInv, AwaitExit
  PROVE  IInv'
<1>1. pid \in Processes
  BY DEF IInv, TypeOK
<1>0. PICK r \in Process : r = [proc[pid] EXCEPT !.seen = TRUE]
  BY <1>1, SeenFields
<1>2. /\ r \in Process /\ StopSound(pid, r) /\ r.stop = proc[pid].stop
  BY <1>0, <1>1, SeenFields
<1>3. /\ proc[pid].stop # "none" /\ tracer = "wait3" /\ round' = round + 1
      /\ tracer' = IF round + 1 < Rounds THEN "round" ELSE "inject"
      /\ UNCHANGED <<pid, childPid, injected>> /\ ProcessUnchanged
  BY DEF AwaitExit, Pending, Stopped
<1>4. proc' = [proc EXCEPT ![pid] = r]
  BY <1>0, <1>1 DEF AwaitExit, IInv, TypeOK
<1>5. Quiet => WaitSound(r)'
  BY <1>2, <1>3 DEF WaitSound, IInv
<1>6. round \in 0..Rounds /\ round < Rounds
  BY <1>3 DEF IInv, TypeOK, MainSound, Looping
<1>7. round' \in 0..Rounds /\ (tracer' \in Looping => round' < Rounds)
      /\ tracer' \in Looping \cup {"inject"}
  BY <1>3, <1>6, RoundsAssumption DEF Looping
<1> QED
  BY <1>2, <1>3, <1>4, <1>5, <1>7, PidStep DEF Looping

LEMMA AttachStep ==
  ASSUME IInv, Attach
  PROVE  IInv'
<1>1. /\ tracer = "attach" /\ pid = Zygote /\ Zygote \in Processes
      /\ proc = [p \in Processes |-> IF p = Zygote THEN Free ELSE Absent]
      /\ round = 0 /\ injected = "no"
  BY ProcessTypes DEF Attach, IInv, MainSound
<1>2. proc[Zygote] = Free
  BY <1>1
<1> DEFINE v == IF Follow THEN [Free EXCEPT !.trace = "cont"]
                ELSE [[Halt(Free, "attach") EXCEPT !.seen = TRUE] EXCEPT !.trace = "cont"]
<1>3. /\ v \in Process /\ v.life = "alive" /\ ~v.inside
      /\ v.stop = IF Follow THEN "none" ELSE "attach"
  BY DEF Halt, Free, Absent, Process, Stops
<1>4. proc' = [proc EXCEPT ![Zygote] = v]
  BY <1>1, <1>2 DEF Attach
<1> HIDE DEF v
<1>5. PICK r \in Process : r = v
  BY <1>3
<1>6. StopSound(Zygote, r)
  BY <1>3, <1>5 DEF StopSound
<1>7. /\ proc' \in [Processes -> Process] /\ proc'[Zygote] = r
      /\ \A q \in Processes \ {Zygote} : proc'[q] = proc[q]
      /\ \A q \in Processes : StopSound(q, proc[q])'
  BY <1>1, <1>4, <1>5, <1>6, OneSound DEF Attach
<1>8. /\ tracer' = IF Follow THEN "wait" ELSE IF Rounds > 0 THEN "round" ELSE "inject"
      /\ UNCHANGED <<pid, childPid, round, injected>> /\ ProcessUnchanged
  BY DEF Attach
<1>9. TypeOK'
  BY <1>7, <1>8 DEF IInv, TypeOK, ProcessUnchanged
<1>10. MainSound'
  BY <1>1, <1>3, <1>5, <1>7, <1>8, RoundsAssumption DEF MainSound, Looping, Stopped
<1>11. Quiet => (WaitSound(proc[pid]) /\ SyscallCompleted)'
  BY <1>1, <1>3, <1>5, <1>7, <1>8 DEF WaitSound, SyscallCompleted
<1>12. ChildResumed'
  <2>1. childPid # NoProcess => childPid \in Processes \ {Zygote}
    BY ProcessTypes DEF IInv, TypeOK
  <2>2. childPid # NoProcess => proc'[childPid].stop = "none"
    BY <1>1, <1>7, <2>1 DEF Absent
  <2> QED
    BY <2>2, <1>8 DEF ChildResumed, Stopped
<1> QED
  BY <1>7, <1>9, <1>10, <1>11, <1>12 DEF IInv, Quiet

LEMMA NotYetStep ==
  ASSUME IInv, NotYet
  PROVE  IInv'
<1>1. tracer = "wait" /\ childPid \in Processes
  BY ProcessTypes DEF NotYet, IInv, TypeOK
<1>2. proc[childPid] \in Process
  BY <1>1, RecordOf
<1> DEFINE r == Resumed(proc[childPid], "syscall")
<1>3. r \in Process /\ r.stop = "none" /\ StopSound(childPid, r)
  BY <1>1, <1>2, ResumedFields, ResumedSound
<1>4. proc' = [proc EXCEPT ![childPid] = r]
  BY DEF NotYet
<1> HIDE DEF r
<1>5. WaitSound(r)
  BY <1>1 DEF WaitSound
<1>6. UNCHANGED <<named, forked>> /\ signals' \in 0..MaxSignals /\ TracerUnchanged
  BY DEF NotYet, ProcessUnchanged, IInv, TypeOK
<1> QED
  BY <1>1, <1>3, <1>4, <1>5, <1>6, OneProcess

LEMMA IgnoredStep ==
  ASSUME IInv, NEW p \in Processes, Ignored(p)
  PROVE  IInv'
<1>1. tracer = "wait" /\ p # childPid
  BY DEF Ignored
<1> DEFINE r == [proc[p] EXCEPT !.seen = TRUE]
<1>2. r \in Process /\ StopSound(p, r)
  BY SeenFields
<1>3. proc' = [proc EXCEPT ![p] = r]
  BY DEF Ignored, IInv, TypeOK
<1> HIDE DEF r
<1>4. WaitSound(r)
  BY <1>1 DEF WaitSound
<1>5. UNCHANGED <<named, forked>> /\ signals' \in 0..MaxSignals /\ TracerUnchanged
  BY DEF Ignored, ProcessUnchanged, IInv, TypeOK
<1> QED
  BY <1>1, <1>2, <1>3, <1>4, <1>5, OneProcess

LEMMA ForkedStep ==
  ASSUME IInv, NEW p \in Processes, Forked(p)
  PROVE  IInv'
<1>1. /\ tracer = "wait" /\ proc[p].stop = "fork" /\ ProcessUnchanged
      /\ childPid' = forked /\ UNCHANGED <<tracer, pid, round, injected>>
  BY DEF Forked
<1>2. p = Zygote /\ forked \in Processes /\ forked \in Children /\ p # forked
  BY <1>1, ProcessTypes DEF IInv, StopSound
<1>3. proc[p] \in Process /\ proc[forked] \in Process
  BY <1>2, RecordOf
<1> DEFINE z == Resumed(proc[p], "cont")
           c == Resumed(proc[forked], "syscall")
<1>4. z \in Process /\ c \in Process /\ c.stop = "none"
  BY <1>3, ResumedFields
<1>5. StopSound(p, z) /\ StopSound(forked, c)
  BY <1>2, ResumedSound
<1>6. proc' = [proc EXCEPT ![p] = z, ![forked] = c]
  BY <1>2, <1>3 DEF Forked, IInv, TypeOK
<1> HIDE DEF z, c
<1>7. /\ proc' \in [Processes -> Process] /\ proc'[p] = z /\ proc'[forked] = c
      /\ \A q \in Processes \ {p, forked} : proc'[q] = proc[q]
  BY <1>2, <1>4, <1>6, TwoChanged DEF IInv, TypeOK
<1>8. ASSUME NEW q \in Processes PROVE StopSound(q, proc[q])'
  <2>1. StopSound(q, proc'[q])
    BY <1>5, <1>7 DEF IInv
  <2> QED
    BY <2>1, <1>1 DEF StopSound, ProcessUnchanged
<1>9. TypeOK'
  BY <1>1, <1>2, <1>7 DEF IInv, TypeOK, ProcessUnchanged
<1>10. MainSound'
  BY <1>1 DEF IInv, MainSound, Looping, ProcessUnchanged
<1>11. Quiet => (WaitSound(proc[pid]) /\ SyscallCompleted)'
  BY <1>1 DEF IInv, WaitSound, SyscallCompleted
<1>12. ChildResumed'
  BY <1>1, <1>4, <1>7 DEF ChildResumed, Stopped
<1> QED
  BY <1>8, <1>9, <1>10, <1>11, <1>12 DEF IInv, Quiet

LEMMA FoundStep ==
  ASSUME IInv, Found
  PROVE  IInv'
<1>1. /\ tracer = "wait" /\ childPid = App /\ App \in named /\ proc[App].stop # "none"
      /\ tracer' = "round" /\ pid' = App /\ ProcessUnchanged
      /\ UNCHANGED <<childPid, round, injected>>
  BY DEF Found, Pending, Stopped
<1>2. Follow /\ pid = Zygote /\ round = 0 /\ injected = "no" /\ Rounds = 1
  BY <1>1, RoundsAssumption DEF IInv, MainSound
<1>3. App \in Processes /\ Zygote \in Processes /\ App # Zygote
  BY ProcessTypes
<1> DEFINE a == [proc[App] EXCEPT !.seen = TRUE]
           z == Detached(proc[Zygote])
<1>4. a \in Process /\ StopSound(App, a) /\ a.stop = proc[App].stop
  BY <1>3, SeenFields
<1>5. proc[Zygote] \in Process /\ proc[Zygote].life = "alive"
      /\ StopSound(Zygote, proc[Zygote])
  BY <1>3, RecordOf DEF StopSound
<1>6. z \in Process /\ StopSound(Zygote, z)
  BY <1>5, DetachedFields DEF StopSound
<1>7. proc' = [proc EXCEPT ![App] = a, ![Zygote] = z]
  BY <1>1, <1>2, <1>3 DEF Found, IInv, TypeOK
<1> HIDE DEF a, z
<1>8. /\ proc' \in [Processes -> Process] /\ proc'[App] = a /\ proc'[Zygote] = z
      /\ \A q \in Processes \ {App, Zygote} : proc'[q] = proc[q]
  BY <1>3, <1>4, <1>6, <1>7, TwoChanged DEF IInv, TypeOK
<1>9. ASSUME NEW q \in Processes PROVE StopSound(q, proc[q])'
  <2>1. StopSound(q, proc'[q])
    BY <1>4, <1>6, <1>8 DEF IInv
  <2> QED
    BY <2>1, <1>1 DEF StopSound, ProcessUnchanged
<1>10. TypeOK'
  BY <1>1, <1>3, <1>8 DEF IInv, TypeOK, ProcessUnchanged
<1>11. MainSound'
  BY <1>1, <1>2, <1>4, <1>8 DEF MainSound, Looping, Stopped, ProcessUnchanged
<1>12. ASSUME Quiet PROVE (WaitSound(proc[pid]) /\ SyscallCompleted)'
  <2>1. a.stop \in Stops /\ a.stop \notin {"fork", "start", "signal"}
    BY <1>1, <1>3, <1>4, <1>12 DEF StopSound, Quiet, Process
  <2> QED
    BY <2>1, <1>1, <1>2, <1>8 DEF WaitSound, SyscallCompleted, Stops
<1>13. ChildResumed'
  BY <1>1 DEF ChildResumed
<1> QED
  BY <1>9, <1>10, <1>11, <1>12, <1>13 DEF IInv, Quiet

LEMMA InjectStep ==
  ASSUME IInv, Inject
  PROVE  IInv'
<1>1. /\ tracer = "inject" /\ tracer' = "done" /\ injected' = proc[pid].stop
      /\ UNCHANGED <<pid, childPid, round>> /\ ProcessUnchanged
  BY DEF Inject
<1> DEFINE Left(p) == [[[proc[p] EXCEPT !.stop = "none"] EXCEPT !.trace = "free"]
                         EXCEPT !.seen = FALSE]
<1>2. proc' = [p \in Processes |-> IF Traced(p) THEN Left(p) ELSE proc[p]]
  BY DEF Inject
<1>3. ASSUME NEW p \in Processes
      PROVE  proc'[p] \in Process /\ StopSound(p, proc'[p])
  <2>1. proc[p] \in Process /\ StopSound(p, proc[p])
    BY RecordOf
  <2>2. /\ Left(p) \in Process /\ Left(p).stop = "none"
        /\ Left(p).life = proc[p].life /\ Left(p).inside = proc[p].inside
    BY <2>1 DEF Process
  <2> HIDE DEF Left
  <2>3. StopSound(p, Left(p))
    BY <2>1, <2>2 DEF StopSound
  <2>4. proc'[p] = Left(p) \/ proc'[p] = proc[p]
    BY <1>2
  <2> QED
    BY <2>1, <2>2, <2>3, <2>4
<1>4. proc' \in [Processes -> Process]
  BY <1>2, <1>3
<1>5. pid \in Processes /\ proc[pid].stop \in Stops \cup {"none"}
  BY DEF IInv, TypeOK, Process
<1>6. pid \in Processes /\ proc[pid].stop \in Stops \cup {"no"}
  BY <1>1, <1>5 DEF IInv, MainSound, Stopped
<1>7. TypeOK'
  BY <1>1, <1>4, <1>6 DEF IInv, TypeOK, ProcessUnchanged
<1>8. \A p \in Processes : StopSound(p, proc[p])'
  BY <1>1, <1>3 DEF StopSound, ProcessUnchanged
<1>9. MainSound'
  BY <1>1 DEF IInv, MainSound, Looping, ProcessUnchanged
<1>10. Quiet => (WaitSound(proc[pid]) /\ SyscallCompleted)'
  BY <1>1 DEF IInv, WaitSound, SyscallCompleted
<1>11. ChildResumed'
  BY <1>1 DEF ChildResumed
<1> QED
  BY <1>7, <1>8, <1>9, <1>10, <1>11 DEF IInv, Quiet

-----------------------------------------------------------------------------
(* The invariant.                                                          *)

LEMMA InitIInv == Init => IInv
<1> SUFFICES ASSUME Init PROVE IInv
  OBVIOUS
<1>1. Free \in Process /\ Absent \in Process
  BY DEF Free, Absent, Process
<1>2. TypeOK
  BY <1>1, ProcessTypes, RoundsAssumption, SignalAssumption DEF Init, TypeOK, Stops
<1>3. ASSUME NEW p \in Processes PROVE StopSound(p, proc[p])
  BY <1>3 DEF Init, StopSound, Free, Absent
<1>4. MainSound
  BY DEF Init, MainSound, Looping
<1>5. Quiet => WaitSound(proc[pid]) /\ SyscallCompleted
  BY DEF Init, WaitSound, SyscallCompleted
<1>6. ChildResumed
  BY DEF Init, ChildResumed
<1> QED
  BY <1>2, <1>3, <1>4, <1>5, <1>6 DEF IInv

LEMMA StutterStep == IInv /\ UNCHANGED vars => IInv'
BY DEF IInv, vars, TypeOK, StopSound, MainSound, Looping, Quiet, WaitSound,
       SyscallCompleted, ChildResumed, Stopped, Pending

LEMMA NextIInv == IInv /\ [Next]_vars => IInv'
<1> SUFFICES ASSUME IInv, [Next]_vars PROVE IInv'
  OBVIOUS
<1>1. CASE Sequential
  BY <1>1, AttachStep, BeginRoundStep, TestEntryStep, AwaitEntryStep, AwaitExitStep,
     InjectStep DEF Sequential
<1>2. CASE \E p \in Processes : Collect(p)
  BY <1>2, FoundStep, NotYetStep, ForkedStep, IgnoredStep DEF Collect
<1>3. CASE Spawn
  BY <1>3, ForkStep DEF Spawn
<1>4. CASE \E c \in Children : Start(c) \/ Rename(c)
  BY <1>4, StartStep, RenameStep
<1>5. CASE \E p \in Processes : Run(p) \/ Signal(p)
  BY <1>5, EnterSyscallStep, ExitSyscallStep, SignalStep DEF Run
<1>6. CASE UNCHANGED vars
  BY <1>6, StutterStep
<1> QED
  BY <1>1, <1>2, <1>3, <1>4, <1>5, <1>6 DEF Next

(***************************************************************************)
(* The invariant of hijack.c: for any number of children, in any order of  *)
(* forks, stops and signals, with and without -s, for any -Z count.        *)
(***************************************************************************)
THEOREM Invariance == Spec => []IInv
BY InitIInv, NextIInv, PTL DEF Spec

(***************************************************************************)
(* Type correctness; in particular a process is never injected while it    *)
(* runs.                                                                   *)
(***************************************************************************)
THEOREM TypeCorrect == Spec => []TypeOK
<1>1. IInv => TypeOK
  BY DEF IInv
<1> QED
  BY <1>1, Invariance, PTL

(***************************************************************************)
(* hijack -s injects the wanted process and no other.                      *)
(***************************************************************************)
THEOREM InjectsRightProcess == Spec => []RightProcess
<1>1. IInv => RightProcess
  BY DEF IInv, MainSound, RightProcess
<1> QED
  BY <1>1, Invariance, PTL

(***************************************************************************)
(* The followed child is never left stopped.                               *)
(***************************************************************************)
THEOREM ChildAlwaysResumed == Spec => []ChildResumed
<1>1. IInv => ChildResumed
  BY DEF IInv
<1> QED
  BY <1>1, Invariance, PTL

(***************************************************************************)
(* The process that is injected is at the exit of a system call, whatever  *)
(* stop the waiting began at and however often it is repeated (-Z), if     *)
(* neither zygote nor the wanted process receives a signal.                *)
(***************************************************************************)
THEOREM InjectsAfterSyscall ==
  ASSUME Signalled \cap {Zygote, App} = {}
  PROVE  Spec => []SyscallCompleted
<1>1. IInv => SyscallCompleted
  BY DEF IInv, Quiet
<1> QED
  BY <1>1, Invariance, PTL
=============================================================================
