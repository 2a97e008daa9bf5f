-------------------------- MODULE DalvikHook_proofs --------------------------
(***************************************************************************)
(* Proofs about DalvikHook for any number of threads, methods and levels   *)
(* of nesting: type correctness, and that an installed hook survives every *)
(* interleaving of its handlers.                                           *)
(***************************************************************************)
EXTENDS MCDalvikHook, TLAPS

(* A thread with an invocation on its stack has a top frame.               *)
LEMMA TopFrame ==
  ASSUME TypeOK, NEW t \in Threads, depth[t] > 0
  PROVE  depth[t] \in Levels /\ frame[t][depth[t]] \in Frame
  BY DepthAssumption DEF TypeOK, Levels

(* A Goto changes the top frame's next step and nothing else.              *)
LEMMA GotoStep ==
  ASSUME TypeOK, NEW t \in Threads, depth[t] > 0, NEW s \in Steps, Goto(t, s)
  PROVE  /\ depth[t] \in Levels
         /\ frame' \in [Threads -> [Levels -> Frame]]
         /\ frame'[t][depth[t]].at = s
         /\ frame'[t][depth[t]].m = Top(t).m
         /\ frame'[t][depth[t]].regs = Top(t).regs
         /\ \A u \in Threads, d \in Levels :
              u # t \/ d # depth[t] => frame'[u][d] = frame[u][d]
  <1>1. depth[t] \in Levels
    BY TopFrame
  <1>2. frame[t] \in [Levels -> Frame] /\ frame[t][depth[t]] \in Frame
    BY TopFrame DEF TypeOK
  <1>3. [frame[t][depth[t]] EXCEPT !.at = s] \in Frame
    BY <1>2 DEF Frame
  <1>4. frame' = [frame EXCEPT ![t] = [frame[t] EXCEPT
                    ![depth[t]] = [frame[t][depth[t]] EXCEPT !.at = s]]]
    BY DEF Goto
  <1>5. frame' \in [Threads -> [Levels -> Frame]]
    BY <1>2, <1>3, <1>4 DEF TypeOK
  <1>6. frame'[t][depth[t]] = [frame[t][depth[t]] EXCEPT !.at = s]
    BY <1>1, <1>2, <1>4 DEF TypeOK
  <1>7. /\ frame'[t][depth[t]].at = s
        /\ frame'[t][depth[t]].m = Top(t).m
        /\ frame'[t][depth[t]].regs = Top(t).regs
    BY <1>2, <1>6 DEF Top, Frame
  <1>8. ASSUME NEW u \in Threads, NEW d \in Levels, u # t \/ d # depth[t]
        PROVE  frame'[u][d] = frame[u][d]
    BY <1>1, <1>2, <1>4, <1>8 DEF TypeOK
  <1>9. QED
    BY <1>1, <1>5, <1>7, <1>8

(* A window that some handler of m is in stays occupied when a thread's    *)
(* top frame moves on, unless that frame is itself a frame of m leaving.   *)
LEMMA WindowKept ==
  ASSUME TypeOK, NEW t \in Threads, depth[t] > 0, NEW s \in Steps, Goto(t, s),
         NEW m, NEW S, SomeFrame(m, S),
         Top(t).at \notin S \/ s \in S \/ Top(t).m # m
  PROVE  SomeFrame(m, S)'
  <1>1. PICK u \in Threads, d \in Levels :
          frame[u][d].m = m /\ frame[u][d].at \in S
    BY DEF SomeFrame
  <1>2. frame[t][depth[t]] \in Frame
    BY TopFrame
  <1>3. frame'[u][d].m = m /\ frame'[u][d].at \in S
    <2>1. CASE u = t /\ d = depth[t]
      BY <1>1, <1>2, <2>1, GotoStep DEF Top, Frame
    <2>2. CASE u # t \/ d # depth[t]
      BY <1>1, <2>2, GotoStep
    <2>3. QED
      BY <2>1, <2>2
  <1>4. QED
    BY <1>3 DEF SomeFrame

(* A frame of m that moves to a step of S occupies S.                      *)
LEMMA WindowEntered ==
  ASSUME TypeOK, NEW t \in Threads, depth[t] > 0, NEW s \in Steps, Goto(t, s),
         NEW m, NEW S, s \in S, Top(t).m = m
  PROVE  SomeFrame(m, S)'
  BY GotoStep DEF SomeFrame

(***************************************************************************)
(* Every step of an invocation but a push or a pop replaces the Method of  *)
(* the top frame by some record (perhaps the one it has) and moves the     *)
(* frame from one step to the next.  The conditions on the record and on   *)
(* the two steps are what IInv asks of it.                                 *)
(***************************************************************************)
MovingSteps == StoreSteps \cup DispatchSteps \cup HandlerSteps

(* Only dalvik_hook()'s second store to the hook changes what it saved of  *)
(* the code and the sizes.                                                 *)
HookKept(t, from) ==
  /\ hook' \in [Methods -> HookRecord]
  /\ \A n \in Methods : hook'[n].insns = hook[n].insns
  /\ \A n \in Methods :
       n # Top(t).m \/ from # "hookSaveSizes" => hook'[n].regs = hook[n].regs
  /\ from = "hookSaveSizes" => hook'[Top(t).m].regs = M(t).regs

Moves(t, from, to, record) ==
  /\ At(t, from)
  /\ Goto(t, to)
  /\ method' = [method EXCEPT ![Top(t).m] = record]
  /\ HookKept(t, from)
  /\ UNCHANGED <<todo, depth>>

StepsFit(t, from, to, record) ==
  /\ to \in InstallSteps => from \in InstallSteps
  /\ to \in StoreSteps => from \in StoreSteps /\ record.func = M(t).func
  /\ to \in HandlerSteps \cup {"bridge"} => record.func = "bridge"
  /\ M(t).func = "bridge" => record.func = "bridge"
  /\ from \in StoreSteps \/ M(t).func = "bridge" \/ record = M(t)
  /\ from = "hookSaveSizes" => to = "hookSizes"
  /\ to # "hookSaveSizes"

InstallFits(t, from, to, record) ==
  /\ record.func # "bridge" =>
       /\ to \in {"hookArgInfo", "hookSave", "hookFlags", "hookInsns", "hookFunc"}
            => record.regs = ArgSize[Top(t).m]
       /\ to \in {"hookSave", "hookFlags", "hookInsns", "hookFunc"}
            => record.compute
       /\ to \in {"hookInsns", "hookFunc"} => record.native
       /\ to = "hookFunc" => record.insns = "handler"
  /\ from \in StoreSteps =>
       /\ record.regs = M(t).regs \/ record.regs = ArgSize[Top(t).m]
       /\ record.compute = M(t).compute \/ record.compute
       /\ record.native = M(t).native \/ record.native
       /\ record.insns = M(t).insns \/ record.insns = "handler"

WindowsFit(t, from, to, record) ==
  LET m == Top(t).m
      Hooked == method[m].func = "bridge"
  IN
  record.func = "bridge" =>
    /\ \/ record.native
       \/ to \in FlagsWindow
       \/ Hooked /\ record.native = method[m].native /\ from \notin FlagsWindow
    /\ \/ record.compute
       \/ to \in ArgInfoWindow
       \/ /\ Hooked /\ record.compute = method[m].compute
          /\ from \notin ArgInfoWindow
    /\ \/ record.insns = "handler"
       \/ to \in InsnsWindow
       \/ Hooked /\ record.insns = method[m].insns /\ from \notin InsnsWindow
    /\ \/ record.regs \in {ArgSize[m], Ns[m]}
       \/ to \in SizesWindow
       \/ Hooked /\ record.regs = method[m].regs /\ from \notin SizesWindow

LEMMA MovePreserves ==
  ASSUME IInv, NEW t \in Threads, NEW from \in MovingSteps,
         NEW to \in Steps \ {"none"}, NEW record \in MethodRecord,
         Moves(t, from, to, record), StepsFit(t, from, to, record),
         InstallFits(t, from, to, record), WindowsFit(t, from, to, record)
  PROVE  IInv'
  <1> DEFINE d == depth[t]
             m == Top(t).m
  <1>1. /\ TypeOK
        /\ d > 0
        /\ to \in Steps
        /\ Goto(t, to)
    BY DEF IInv, Moves, At
  <1>2. /\ d \in Levels
        /\ frame' \in [Threads -> [Levels -> Frame]]
        /\ frame'[t][d].at = to
        /\ frame'[t][d].m = m
        /\ \A u \in Threads, e \in Levels :
             u # t \/ e # d => frame'[u][e] = frame[u][e]
    BY <1>1, GotoStep
  <1>3. frame[t][d].at = from /\ frame[t][d].m = m
    BY DEF Moves, At, Top
  <1>4. m \in Methods
    BY <1>2, <1>3 DEF IInv, StackOK, MovingSteps
  <1>5. /\ method' \in [Methods -> MethodRecord]
        /\ method'[m] = record
        /\ \A n \in Methods : n # m => method'[n] = method[n]
    BY <1>1, <1>4 DEF Moves, TypeOK
  <1>6. todo' = todo /\ depth' = depth
    BY DEF Moves
  <1>7. TypeOK'
    BY <1>1, <1>2, <1>5, <1>6 DEF TypeOK, Moves, HookKept
  <1>8. StackOK'
    <2> SUFFICES ASSUME NEW u \in Threads, NEW e \in Levels
                 PROVE  /\ e > depth'[u] => frame'[u][e].at = "none"
                        /\ frame'[u][e].at \in MovingSteps \cup {"body"}
                             => frame'[u][e].m \in Methods
      BY DEF StackOK, MovingSteps
    <2>1. CASE u = t /\ e = d
      <3>1. ~(e > depth'[u])
        BY <1>1, <1>2, <1>6, <2>1 DEF TypeOK, Levels
      <3>2. QED
        BY <1>2, <1>4, <2>1, <3>1
    <2>2. CASE u # t \/ e # d
      BY <1>2, <1>6, <2>2 DEF IInv, StackOK, MovingSteps
    <2>3. QED
      BY <2>1, <2>2
  <1>9. from \in StoreSteps => d = 1 /\ m \notin todo[t]
                                /\ (Once(m, todo) => method[m].func # "bridge")
    BY <1>2, <1>3 DEF IInv, InstallOK, StoreSteps, Installed
  <1>10. ASSUME NEW u \in Threads, NEW e \in Levels, u # t \/ e # d,
                frame[u][e].at \in StoreSteps
         PROVE  /\ frame[u][e].m \in Methods
                /\ e = 1 /\ frame[u][e].m \notin todo[u]
                /\ frame[u][e].m = m => from \notin StoreSteps \/ ~Once(m, todo)
                /\ Once(frame[u][e].m, todo) =>
                     /\ method[frame[u][e].m].func # "bridge"
                     /\ method'[frame[u][e].m] = method[frame[u][e].m]
    <2>1. /\ frame[u][e].m \in Methods
          /\ e = 1 /\ frame[u][e].m \notin todo[u]
          /\ Once(frame[u][e].m, todo) => method[frame[u][e].m].func # "bridge"
      BY <1>10 DEF IInv, StackOK, InstallOK, StoreSteps, Installed
    <2>2. ASSUME frame[u][e].m = m, from \in StoreSteps, Once(m, todo) PROVE FALSE
      <3>1. m \notin todo[t] /\ m \notin todo[u] /\ d = 1
        BY <1>9, <2>1, <2>2
      <3>2. u = t
        BY <2>2, <3>1 DEF Once
      <3>3. QED
        BY <1>10, <2>1, <3>1, <3>2
    <2>3. ASSUME Once(frame[u][e].m, todo)
          PROVE  method'[frame[u][e].m] = method[frame[u][e].m]
      <3>1. CASE frame[u][e].m = m
        <4>1. from \notin StoreSteps /\ method[m].func # "bridge"
          BY <2>1, <2>2, <2>3, <3>1
        <4>2. record = method[m]
          BY <4>1 DEF StepsFit, M
        <4>3. QED
          BY <1>5, <3>1, <4>2
      <3>2. CASE frame[u][e].m # m
        BY <1>5, <2>1, <3>2
      <3>3. QED
        BY <3>1, <3>2
    <2>4. QED
      BY <2>1, <2>2, <2>3
  <1>11. /\ \A n : Once(n, todo') <=> Once(n, todo)
         /\ \A n : Fresh(n, todo') <=> Fresh(n, todo)
    BY <1>6 DEF Once, Fresh
  <1>20. ASSUME NEW n \in Methods, Fresh(n, todo)
         PROVE  method'[n] = method[n] /\ method[n].func # "bridge"
    <2>1. method[n].func # "bridge" /\ n \in todo[t]
      BY <1>20 DEF IInv, InstallOK, Installed, Fresh
    <2>2. CASE n = m
      BY <1>5, <1>9, <2>1, <2>2 DEF StepsFit, M
    <2>3. CASE n # m
      BY <1>5, <2>1, <2>3
    <2>4. QED
      BY <2>1, <2>2, <2>3
  <1>21. InstallOK'
    <2>1. ASSUME NEW u \in Threads, NEW e \in Levels,
                 frame'[u][e].at \in InstallSteps
          PROVE  e = 1
      <3>1. CASE u = t /\ e = d
        BY <1>2, <1>3, <2>1, <3>1 DEF IInv, InstallOK, StepsFit
      <3>2. CASE u # t \/ e # d
        BY <1>2, <2>1, <3>2 DEF IInv, InstallOK
      <3>3. QED
        BY <3>1, <3>2
    <2>2. ASSUME NEW u \in Threads, NEW e \in Levels,
                 frame'[u][e].at \in StoreSteps
          PROVE  /\ frame'[u][e].m \notin todo'[u]
                 /\ Once(frame'[u][e].m, todo') => method'[frame'[u][e].m].func # "bridge"
      <3>1. CASE u = t /\ e = d
        <4>1. from \in StoreSteps /\ record.func = method[m].func /\ frame'[u][e].m = m
          BY <1>2, <2>2, <3>1 DEF StepsFit, M
        <4>2. QED
          BY <1>5, <1>6, <1>9, <1>11, <3>1, <4>1
      <3>2. CASE u # t \/ e # d
        <4>1. frame'[u][e] = frame[u][e]
          BY <1>2, <3>2
        <4>2. frame[u][e].at \in StoreSteps
          BY <2>2, <4>1
        <4>3. /\ frame[u][e].m \notin todo[u]
              /\ Once(frame[u][e].m, todo) => method'[frame[u][e].m].func # "bridge"
          BY <1>10, <3>2, <4>2
        <4>4. QED
          BY <1>6, <1>11, <4>1, <4>3
      <3>3. QED
        BY <3>1, <3>2
    <2>3. \A n \in Methods : Fresh(n, todo') => method'[n].func # "bridge"
      BY <1>11, <1>20
    <2>4. ASSUME NEW u \in Threads, NEW e \in Levels
          PROVE  /\ frame'[u][e].at \in InstallSteps => e = 1
                 /\ frame'[u][e].at \in StoreSteps =>
                      /\ frame'[u][e].m \notin todo'[u]
                      /\ Once(frame'[u][e].m, todo') => ~(method'[frame'[u][e].m].func = "bridge")
      BY <2>1, <2>2
    <2>5. QED
      BY <2>3, <2>4 DEF InstallOK, Installed
  <1>12. InstallProgress'
    <2> SUFFICES ASSUME NEW u \in Threads, NEW e \in Levels
                 PROVE  InstallProgress!(u, e)'
      BY DEF InstallProgress
    <2>1. CASE u = t /\ e = d
      BY <1>2, <1>5, <2>1 DEF InstallFits, Installed
    <2>2. CASE (u # t \/ e # d) /\ frame[u][e].at \in StoreSteps
      <3> DEFINE n == frame[u][e].m
      <3>1. n \in Methods /\ frame'[u][e] = frame[u][e]
        BY <1>2, <1>10, <2>2
      <3>2. CASE n = m
        <4>1. record = method[m] \/ method[m].func = "bridge" \/ from \in StoreSteps
          BY DEF StepsFit, M
        <4>2. CASE method[m].func = "bridge"
          <5>1. method'[n].func = "bridge"
            BY <1>5, <3>2, <4>2 DEF StepsFit, M
          <5>2. QED
            BY <3>1, <5>1 DEF Installed
        <4>3. CASE method[m].func # "bridge"
          <5>1. InstallProgress!(u, e)
            BY DEF IInv, InstallProgress
          <5>2. from \in StoreSteps =>
                  /\ record.regs = method[m].regs \/ record.regs = ArgSize[m]
                  /\ record.compute = method[m].compute \/ record.compute
                  /\ record.native = method[m].native \/ record.native
                  /\ record.insns = method[m].insns \/ record.insns = "handler"
            BY DEF InstallFits, M
          <5>3. QED
            BY <1>5, <3>1, <3>2, <2>2, <4>1, <4>3, <5>1, <5>2 DEF Installed
        <4>4. QED
          BY <4>2, <4>3
      <3>3. CASE n # m
        <4>1. method'[n] = method[n]
          BY <1>5, <3>1, <3>3
        <4>2. InstallProgress!(u, e)
          BY DEF IInv, InstallProgress
        <4>3. QED
          BY <3>1, <4>1, <4>2 DEF Installed
      <3>4. QED
        BY <3>2, <3>3
    <2>3. CASE (u # t \/ e # d) /\ frame[u][e].at \notin StoreSteps
      BY <1>2, <2>3
    <2>4. QED
      BY <2>1, <2>2, <2>3
  <1>13. HandlersInstalled'
    <2> SUFFICES ASSUME NEW u \in Threads, NEW e \in Levels,
                        frame'[u][e].at \in HandlerSteps \cup {"bridge"}
                 PROVE  method'[frame'[u][e].m].func = "bridge"
      BY DEF HandlersInstalled, Installed
    <2>1. CASE u = t /\ e = d
      BY <1>2, <1>5, <2>1 DEF StepsFit
    <2>2. CASE u # t \/ e # d
      <3>1. /\ frame[u][e].m \in Methods
            /\ method[frame[u][e].m].func = "bridge"
        BY <1>2, <2>2 DEF IInv, HandlersInstalled, StackOK, Installed, DispatchSteps
      <3>2. CASE frame[u][e].m = m
        BY <1>2, <1>5, <2>2, <3>1, <3>2 DEF StepsFit, M
      <3>3. CASE frame[u][e].m # m
        BY <1>2, <1>5, <2>2, <3>1, <3>3
      <3>4. QED
        BY <3>2, <3>3
    <2>3. QED
      BY <2>1, <2>2
  <1>14. WindowsOK'
    <2> SUFFICES ASSUME NEW n \in Methods, method'[n].func = "bridge"
                 PROVE
           /\ method'[n].native \/ SomeFrame(n, FlagsWindow)'
           /\ method'[n].compute \/ SomeFrame(n, ArgInfoWindow)'
           /\ method'[n].insns = "handler" \/ SomeFrame(n, InsnsWindow)'
           /\ method'[n].regs \in {ArgSize[n], Ns[n]} \/ SomeFrame(n, SizesWindow)'
      BY DEF WindowsOK, Installed, SomeFrame, FlagsWindow, ArgInfoWindow,
             InsnsWindow, SizesWindow, CallSteps
    <2>1. /\ Top(t).at = from
          /\ Top(t).m = m
      BY <1>3 DEF Top
    <2>2. ASSUME method[n].func = "bridge"
          PROVE
           /\ method[n].native \/ SomeFrame(n, FlagsWindow)
           /\ method[n].compute \/ SomeFrame(n, ArgInfoWindow)
           /\ method[n].insns = "handler" \/ SomeFrame(n, InsnsWindow)
           /\ method[n].regs \in {ArgSize[n], Ns[n]} \/ SomeFrame(n, SizesWindow)
      BY <2>2 DEF IInv, WindowsOK, Installed
    <2>3. ASSUME NEW S, SomeFrame(n, S), from \notin S \/ n # m
          PROVE  SomeFrame(n, S)'
      BY <1>1, <2>1, <2>3, WindowKept
    <2>4. ASSUME NEW S, to \in S, n = m
          PROVE  SomeFrame(n, S)'
      BY <1>1, <2>1, <2>4, WindowEntered
    <2>5. CASE n = m
      <3>1. method'[n] = record
        BY <1>5, <2>5
      <3>2. WindowsFit(t, from, to, record)
        OBVIOUS
      <3>3. method'[n].native \/ SomeFrame(n, FlagsWindow)'
        BY <2>2, <2>3, <2>4, <2>5, <3>1, <3>2 DEF WindowsFit
      <3>4. method'[n].compute \/ SomeFrame(n, ArgInfoWindow)'
        BY <2>2, <2>3, <2>4, <2>5, <3>1, <3>2 DEF WindowsFit
      <3>5. method'[n].insns = "handler" \/ SomeFrame(n, InsnsWindow)'
        BY <2>2, <2>3, <2>4, <2>5, <3>1, <3>2 DEF WindowsFit
      <3>6. method'[n].regs \in {ArgSize[n], Ns[n]} \/ SomeFrame(n, SizesWindow)'
        BY <2>2, <2>3, <2>4, <2>5, <3>1, <3>2 DEF WindowsFit
      <3>7. QED
        BY <3>3, <3>4, <3>5, <3>6
    <2>6. CASE n # m
      BY <1>5, <2>2, <2>3, <2>6
    <2>7. QED
      BY <2>5, <2>6
  <1>22. SavedSome'
    <2>1. \A n \in Methods : hook'[n].insns = hook[n].insns
      BY DEF Moves, HookKept
    <2>2. ASSUME NEW n \in Methods, method'[n].func = "bridge"
          PROVE  hook'[n].insns # "none"
      <3>1. method[n].func = "bridge" \/ (n = m /\ from \in StoreSteps)
        BY <1>5, <2>2 DEF StepsFit, M
      <3>2. hook[n].insns # "none"
        BY <1>2, <1>3, <3>1 DEF IInv, SavedSome, Installed
      <3>3. QED
        BY <2>1, <3>2
    <2>3. ASSUME NEW u \in Threads, NEW e \in Levels,
                 frame'[u][e].at \in StoreSteps
          PROVE  hook'[frame'[u][e].m].insns # "none"
      <3>1. /\ frame[u][e].at \in StoreSteps /\ frame'[u][e].m = frame[u][e].m
            /\ frame[u][e].m \in Methods
        <4>1. CASE u = t /\ e = d
          BY <1>2, <1>3, <1>4, <2>3, <4>1 DEF StepsFit
        <4>2. CASE u # t \/ e # d
          BY <1>2, <1>10, <2>3, <4>2
        <4>3. QED
          BY <4>1, <4>2
      <3>2. hook[frame[u][e].m].insns # "none"
        BY <3>1 DEF IInv, SavedSome
      <3>3. QED
        BY <2>1, <3>1, <3>2
    <2>4. QED
      BY <2>2, <2>3 DEF SavedSome, Installed
  <1>15. SavedOK'
    <2>1. \A n \in Methods : hook'[n].insns = hook[n].insns
      BY DEF Moves, HookKept
    <2>2. \A n \in Methods :
            n # m \/ from # "hookSaveSizes" => hook'[n].regs = hook[n].regs
      BY DEF Moves, HookKept
    <2>3. from = "hookSaveSizes" => hook'[m].regs = method[m].regs
      BY DEF Moves, HookKept, M
    <2>4. ASSUME NEW n \in Methods, Fresh(n, todo')
          PROVE  ~method'[n].native /\ method'[n].insns = "code" /\ method'[n].regs = Rss[n]
      <3>1. Fresh(n, todo)
        BY <1>11, <2>4
      <3>2. method'[n] = method[n]
        BY <1>20, <3>1
      <3>3. QED
        BY <3>1, <3>2 DEF IInv, SavedOK
    <2>5. ASSUME NEW u \in Threads, NEW e \in Levels,
                 frame'[u][e].at \in StoreSteps, Once(frame'[u][e].m, todo')
          PROVE  /\ hook'[frame'[u][e].m].insns = "code"
                 /\ frame'[u][e].at = "hookSaveSizes" =>
                      method'[frame'[u][e].m].regs = Rss[frame'[u][e].m]
                 /\ frame'[u][e].at # "hookSaveSizes" =>
                      hook'[frame'[u][e].m].regs = Rss[frame'[u][e].m]
      <3>1. CASE u = t /\ e = d
        <4>1. /\ from \in StoreSteps /\ to # "hookSaveSizes"
              /\ frame'[u][e].m = m /\ frame'[u][e].at = to
          BY <1>2, <2>5, <3>1 DEF StepsFit
        <4>2. Once(m, todo)
          BY <1>11, <2>5, <4>1
        <4>3. /\ hook[m].insns = "code"
              /\ from = "hookSaveSizes" => method[m].regs = Rss[m]
              /\ from # "hookSaveSizes" => hook[m].regs = Rss[m]
          BY <1>2, <1>3, <4>1, <4>2 DEF IInv, SavedOK
        <4>4. QED
          BY <1>4, <2>1, <2>2, <2>3, <4>1, <4>3
      <3>2. CASE u # t \/ e # d
        <4> DEFINE n == frame[u][e].m
        <4>1. frame'[u][e] = frame[u][e]
          BY <1>2, <3>2
        <4>2. frame[u][e].at \in StoreSteps /\ Once(n, todo)
          BY <1>11, <2>5, <4>1
        <4>3. /\ n \in Methods /\ method'[n] = method[n]
              /\ n = m => from \notin StoreSteps
          BY <1>10, <3>2, <4>2
        <4>4. hook'[n].regs = hook[n].regs
          BY <2>2, <4>3 DEF StoreSteps, InstallSteps
        <4>5. /\ hook[n].insns = "code"
              /\ frame[u][e].at = "hookSaveSizes" => method[n].regs = Rss[n]
              /\ frame[u][e].at # "hookSaveSizes" => hook[n].regs = Rss[n]
          BY <4>2 DEF IInv, SavedOK
        <4>6. QED
          BY <2>1, <4>1, <4>3, <4>4, <4>5
      <3>3. QED
        BY <3>1, <3>2
    <2>6. ASSUME NEW n \in Methods, Installed(n)', Once(n, todo')
          PROVE  hook'[n].insns = "code" /\ hook'[n].regs = Rss[n]
      <3>1. Once(n, todo)
        BY <1>11, <2>6
      <3>2. CASE n = m /\ from \in StoreSteps
        <4>1. from # "hookSaveSizes"
          <5> SUFFICES ASSUME from = "hookSaveSizes" PROVE FALSE
            OBVIOUS
          <5>1. record.func = method[m].func
            BY DEF StepsFit, M, StoreSteps, InstallSteps
          <5>2. QED
            BY <1>5, <1>9, <2>6, <3>1, <3>2, <5>1 DEF Installed
        <4>2. hook[m].insns = "code" /\ hook[m].regs = Rss[m]
          BY <1>2, <1>3, <3>1, <3>2, <4>1 DEF IInv, SavedOK
        <4>3. QED
          BY <2>1, <2>2, <3>2, <4>1, <4>2
      <3>3. CASE n = m /\ from \notin StoreSteps
        <4>1. method[n].func = "bridge"
          BY <1>5, <2>6, <3>3 DEF StepsFit, M, Installed
        <4>2. hook[n].insns = "code" /\ hook[n].regs = Rss[n]
          BY <3>1, <4>1 DEF IInv, SavedOK, CodeSaved, Installed
        <4>3. from # "hookSaveSizes"
          BY <3>3 DEF StoreSteps, InstallSteps
        <4>4. QED
          BY <2>1, <2>2, <4>2, <4>3
      <3>4. CASE n # m
        <4>1. method[n].func = "bridge"
          BY <1>5, <2>6, <3>4 DEF Installed
        <4>2. QED
          BY <2>1, <2>2, <3>1, <3>4, <4>1 DEF IInv, SavedOK, CodeSaved, Installed
      <3>5. QED
        BY <3>2, <3>3, <3>4
    <2>7. QED
      BY <2>4, <2>5, <2>6 DEF SavedOK, CodeSaved
  <1>16. QED
    BY <1>7, <1>8, <1>21, <1>12, <1>13, <1>14, <1>15, <1>22 DEF IInv

(* The top frame of a moving invocation names a method of the program.     *)
LEMMA TopMethod ==
  ASSUME IInv, NEW t \in Threads, NEW from \in MovingSteps \cup {"body"},
         At(t, from)
  PROVE  /\ Top(t).m \in Methods
         /\ M(t) \in MethodRecord
         /\ H(t) \in HookRecord
         /\ Top(t).at = from
  <1>1. TypeOK /\ depth[t] > 0
    BY DEF IInv, At
  <1>2. depth[t] \in Levels
    BY <1>1, TopFrame
  <1>3. QED
    BY <1>1, <1>2 DEF At, Top, IInv, StackOK, MovingSteps, TypeOK, M, H

(***************************************************************************)
(* Storing one field of a Method leaves the others.                        *)
(***************************************************************************)
LEMMA SetNative ==
  ASSUME NEW r \in MethodRecord, NEW x \in BOOLEAN,
         NEW u, u = [r EXCEPT !.native = x]
  PROVE  /\ u \in MethodRecord
         /\ u.native = x
         /\ u.insns = r.insns
         /\ u.func = r.func
         /\ u.regs = r.regs
         /\ u.compute = r.compute
  BY DEF MethodRecord

LEMMA SetInsns ==
  ASSUME NEW r \in MethodRecord, NEW x \in {"code", "handler"},
         NEW u, u = [r EXCEPT !.insns = x]
  PROVE  /\ u \in MethodRecord
         /\ u.insns = x
         /\ u.native = r.native
         /\ u.func = r.func
         /\ u.regs = r.regs
         /\ u.compute = r.compute
  BY DEF MethodRecord

LEMMA SetFunc ==
  ASSUME NEW r \in MethodRecord, NEW x \in {"null", "bridge"},
         NEW u, u = [r EXCEPT !.func = x]
  PROVE  /\ u \in MethodRecord
         /\ u.func = x
         /\ u.native = r.native
         /\ u.insns = r.insns
         /\ u.regs = r.regs
         /\ u.compute = r.compute
  BY DEF MethodRecord

LEMMA SetRegs ==
  ASSUME NEW r \in MethodRecord, NEW x \in Nat,
         NEW u, u = [r EXCEPT !.regs = x]
  PROVE  /\ u \in MethodRecord
         /\ u.regs = x
         /\ u.native = r.native
         /\ u.insns = r.insns
         /\ u.func = r.func
         /\ u.compute = r.compute
  BY DEF MethodRecord

LEMMA SetCompute ==
  ASSUME NEW r \in MethodRecord, NEW x \in BOOLEAN,
         NEW u, u = [r EXCEPT !.compute = x]
  PROVE  /\ u \in MethodRecord
         /\ u.compute = x
         /\ u.native = r.native
         /\ u.insns = r.insns
         /\ u.func = r.func
         /\ u.regs = r.regs
  BY DEF MethodRecord

LEMMA WritePreserves ==
  ASSUME IInv, NEW t \in Threads, NEW from \in MovingSteps,
         NEW to \in Steps \ {"none"}, NEW record \in MethodRecord,
         Write(t, from, to, record), from # "hookSaveSizes",
         StepsFit(t, from, to, record),
         InstallFits(t, from, to, record), WindowsFit(t, from, to, record)
  PROVE  IInv'
  <1>1. Moves(t, from, to, record)
    BY DEF IInv, TypeOK, Write, Moves, HookKept
  <1>2. QED
    BY <1>1, MovePreserves

(* A step that leaves the Method alone needs to fit by its move only.      *)
LEMMA StillPreserves ==
  ASSUME IInv, NEW t \in Threads, NEW from \in MovingSteps,
         NEW to \in Steps \ {"none"},
         At(t, from), Goto(t, to), HookKept(t, from),
         UNCHANGED <<method, todo, depth>>,
         StepsFit(t, from, to, M(t)), InstallFits(t, from, to, M(t)),
         WindowsFit(t, from, to, M(t))
  PROVE  IInv'
  <1>1. method' = [method EXCEPT ![Top(t).m] = M(t)]
    BY DEF M, IInv, TypeOK
  <1>2. Moves(t, from, to, M(t))
    BY <1>1 DEF Moves
  <1>3. M(t) \in MethodRecord
    BY TopMethod
  <1>4. QED
    BY <1>2, <1>3, MovePreserves

-----------------------------------------------------------------------------
(* What IInv says of dalvik_hook() about to make a store.                  *)
LEMMA HookState ==
  ASSUME IInv, NEW t \in Threads, NEW from \in StoreSteps, At(t, from)
  PROVE  /\ Top(t).m \in Methods /\ M(t) \in MethodRecord
         /\ H(t) \in HookRecord
         /\ M(t).func # "bridge" =>
              /\ from \notin {"hookSaveSizes", "hookSizes"}
                   => M(t).regs = ArgSize[Top(t).m]
              /\ from \in {"hookSave", "hookFlags", "hookInsns", "hookFunc"}
                   => M(t).compute
              /\ from \in {"hookInsns", "hookFunc"} => M(t).native
              /\ from = "hookFunc" => M(t).insns = "handler"
  <1>1. TypeOK /\ depth[t] > 0
    BY DEF IInv, At
  <1>2. depth[t] \in Levels /\ Top(t).at = from
    BY <1>1, TopFrame DEF At
  <1>3. Top(t).m \in Methods /\ M(t) \in MethodRecord /\ H(t) \in HookRecord
    BY TopMethod DEF MovingSteps
  <1>4. InstallProgress!(t, depth[t])
    BY <1>2 DEF IInv, InstallProgress
  <1>5. QED
    BY <1>2, <1>3, <1>4
       DEF Top, M, Installed, StoreSteps, InstallSteps

(* What IInv says of a handler about to make a store.                      *)
LEMMA HandlerState ==
  ASSUME IInv, NEW t \in Threads, NEW from \in HandlerSteps, At(t, from)
  PROVE  /\ Top(t).m \in Methods /\ M(t) \in MethodRecord
         /\ H(t) \in HookRecord /\ M(t).func = "bridge"
         /\ H(t).insns \in {"code", "handler"}
  <1>1. TypeOK /\ depth[t] > 0
    BY DEF IInv, At
  <1>2. depth[t] \in Levels /\ Top(t).at = from
    BY <1>1, TopFrame DEF At
  <1>3. Top(t).m \in Methods /\ M(t) \in MethodRecord /\ H(t) \in HookRecord
    BY TopMethod DEF MovingSteps
  <1>4. QED
    BY <1>2, <1>3 
       DEF Top, M, H, IInv, HandlersInstalled, SavedSome, Installed, HookRecord

LEMMA HookSizesStep ==
  ASSUME IInv, NEW t \in Threads, HookSizes(t)
  PROVE  IInv'
  <1> DEFINE r == [M(t) EXCEPT !.regs = ArgSize[Top(t).m]]
  <1>1. At(t, "hookSizes") /\ Write(t, "hookSizes", "hookArgInfo", r)
    BY DEF HookSizes, Write
  <1>2. "hookSizes" \in StoreSteps
    BY DEF StoreSteps, InstallSteps, HandlerSteps, PrepareSteps, PostSteps
  <1> DEFINE m == Top(t).m
             k == M(t)
  <1>3. /\ m \in Methods /\ k \in MethodRecord /\ H(t) \in HookRecord
    BY <1>1, <1>2, HookState
  <1>4. /\ r \in MethodRecord
        /\ r.regs = ArgSize[Top(t).m]
        /\ r.native = k.native
        /\ r.insns = k.insns
        /\ r.func = k.func
        /\ r.compute = k.compute
    BY <1>3, SetRegs, SizeAssumption
  <1>5. k = method[m]
    BY DEF M
  <1> HIDE DEF r, k
  <1>6. StepsFit(t, "hookSizes", "hookArgInfo", r)
    BY <1>2, <1>3, <1>4 DEF StepsFit, k, StoreSteps, InstallSteps, DispatchSteps, HandlerSteps, PrepareSteps,
                 PostSteps
  <1>7. InstallFits(t, "hookSizes", "hookArgInfo", r)
    BY <1>3, <1>4 DEF InstallFits, k
  <1>8. WindowsFit(t, "hookSizes", "hookArgInfo", r)
    BY <1>3, <1>4, <1>5 DEF WindowsFit, FlagsWindow, ArgInfoWindow, InsnsWindow,
       SizesWindow, CallSteps
  <1>9. "hookSizes" \in MovingSteps /\ "hookArgInfo" \in Steps \ {"none"}
    BY DEF MovingSteps, Steps, StoreSteps, InstallSteps, DispatchSteps, HandlerSteps, PrepareSteps,
                 PostSteps
  <1>10. QED
    BY <1>1, <1>4, <1>6, <1>7, <1>8, <1>9, WritePreserves

LEMMA HookArgInfoStep ==
  ASSUME IInv, NEW t \in Threads, HookArgInfo(t)
  PROVE  IInv'
  <1> DEFINE r == [M(t) EXCEPT !.compute = TRUE]
  <1>1. At(t, "hookArgInfo") /\ Write(t, "hookArgInfo", "hookSave", r)
    BY DEF HookArgInfo, Write
  <1>2. "hookArgInfo" \in StoreSteps
    BY DEF StoreSteps, InstallSteps, HandlerSteps, PrepareSteps, PostSteps
  <1> DEFINE m == Top(t).m
             k == M(t)
  <1>3. /\ m \in Methods /\ k \in MethodRecord /\ H(t) \in HookRecord
        /\ k.func # "bridge" =>
             /\ k.regs = ArgSize[m]
    BY <1>1, <1>2, HookState
  <1>4. /\ r \in MethodRecord
        /\ r.compute = TRUE
        /\ r.native = k.native
        /\ r.insns = k.insns
        /\ r.func = k.func
        /\ r.regs = k.regs
    BY <1>3, SetCompute
  <1>5. k = method[m]
    BY DEF M
  <1> HIDE DEF r, k
  <1>6. StepsFit(t, "hookArgInfo", "hookSave", r)
    BY <1>2, <1>3, <1>4 DEF StepsFit, k, StoreSteps, InstallSteps, DispatchSteps, HandlerSteps, PrepareSteps,
                 PostSteps
  <1>7. InstallFits(t, "hookArgInfo", "hookSave", r)
    BY <1>3, <1>4 DEF InstallFits, k
  <1>8. WindowsFit(t, "hookArgInfo", "hookSave", r)
    BY <1>3, <1>4, <1>5 DEF WindowsFit, FlagsWindow, ArgInfoWindow, InsnsWindow,
       SizesWindow, CallSteps
  <1>9. "hookArgInfo" \in MovingSteps /\ "hookSave" \in Steps \ {"none"}
    BY DEF MovingSteps, Steps, StoreSteps, InstallSteps, DispatchSteps, HandlerSteps, PrepareSteps,
                 PostSteps
  <1>10. QED
    BY <1>1, <1>4, <1>6, <1>7, <1>8, <1>9, WritePreserves

LEMMA HookFlagsStep ==
  ASSUME IInv, NEW t \in Threads, HookFlags(t)
  PROVE  IInv'
  <1> DEFINE r == [M(t) EXCEPT !.native = TRUE]
  <1>1. At(t, "hookFlags") /\ Write(t, "hookFlags", "hookInsns", r)
    BY DEF HookFlags, Write
  <1>2. "hookFlags" \in StoreSteps
    BY DEF StoreSteps, InstallSteps, HandlerSteps, PrepareSteps, PostSteps
  <1> DEFINE m == Top(t).m
             k == M(t)
  <1>3. /\ m \in Methods /\ k \in MethodRecord /\ H(t) \in HookRecord
        /\ k.func # "bridge" =>
             /\ k.regs = ArgSize[m]
             /\ k.compute
    BY <1>1, <1>2, HookState
  <1>4. /\ r \in MethodRecord
        /\ r.native = TRUE
        /\ r.insns = k.insns
        /\ r.func = k.func
        /\ r.regs = k.regs
        /\ r.compute = k.compute
    BY <1>3, SetNative
  <1>5. k = method[m]
    BY DEF M
  <1> HIDE DEF r, k
  <1>6. StepsFit(t, "hookFlags", "hookInsns", r)
    BY <1>2, <1>3, <1>4 DEF StepsFit, k, StoreSteps, InstallSteps, DispatchSteps, HandlerSteps, PrepareSteps,
                 PostSteps
  <1>7. InstallFits(t, "hookFlags", "hookInsns", r)
    BY <1>3, <1>4 DEF InstallFits, k
  <1>8. WindowsFit(t, "hookFlags", "hookInsns", r)
    BY <1>3, <1>4, <1>5 DEF WindowsFit, FlagsWindow, ArgInfoWindow, InsnsWindow,
       SizesWindow, CallSteps
  <1>9. "hookFlags" \in MovingSteps /\ "hookInsns" \in Steps \ {"none"}
    BY DEF MovingSteps, Steps, StoreSteps, InstallSteps, DispatchSteps, HandlerSteps, PrepareSteps,
                 PostSteps
  <1>10. QED
    BY <1>1, <1>4, <1>6, <1>7, <1>8, <1>9, WritePreserves

LEMMA HookInsnsStep ==
  ASSUME IInv, NEW t \in Threads, HookInsns(t)
  PROVE  IInv'
  <1> DEFINE r == [M(t) EXCEPT !.insns = "handler"]
  <1>1. At(t, "hookInsns") /\ Write(t, "hookInsns", "hookFunc", r)
    BY DEF HookInsns, Write
  <1>2. "hookInsns" \in StoreSteps
    BY DEF StoreSteps, InstallSteps, HandlerSteps, PrepareSteps, PostSteps
  <1> DEFINE m == Top(t).m
             k == M(t)
  <1>3. /\ m \in Methods /\ k \in MethodRecord /\ H(t) \in HookRecord
        /\ k.func # "bridge" =>
             /\ k.regs = ArgSize[m]
             /\ k.compute
             /\ k.native
    BY <1>1, <1>2, HookState
  <1>4. /\ r \in MethodRecord
        /\ r.insns = "handler"
        /\ r.native = k.native
        /\ r.func = k.func
        /\ r.regs = k.regs
        /\ r.compute = k.compute
    BY <1>3, SetInsns
  <1>5. k = method[m]
    BY DEF M
  <1> HIDE DEF r, k
  <1>6. StepsFit(t, "hookInsns", "hookFunc", r)
    BY <1>2, <1>3, <1>4 DEF StepsFit, k, StoreSteps, InstallSteps, DispatchSteps, HandlerSteps, PrepareSteps,
                 PostSteps
  <1>7. InstallFits(t, "hookInsns", "hookFunc", r)
    BY <1>3, <1>4 DEF InstallFits, k
  <1>8. WindowsFit(t, "hookInsns", "hookFunc", r)
    BY <1>3, <1>4, <1>5 DEF WindowsFit, FlagsWindow, ArgInfoWindow, InsnsWindow,
       SizesWindow, CallSteps
  <1>9. "hookInsns" \in MovingSteps /\ "hookFunc" \in Steps \ {"none"}
    BY DEF MovingSteps, Steps, StoreSteps, InstallSteps, DispatchSteps, HandlerSteps, PrepareSteps,
                 PostSteps
  <1>10. QED
    BY <1>1, <1>4, <1>6, <1>7, <1>8, <1>9, WritePreserves

LEMMA HookFuncStep ==
  ASSUME IInv, NEW t \in Threads, HookFunc(t)
  PROVE  IInv'
  <1> DEFINE r == [M(t) EXCEPT !.func = "bridge"]
  <1>1. At(t, "hookFunc") /\ Write(t, "hookFunc", "find", r)
    BY DEF HookFunc, Write
  <1>2. "hookFunc" \in StoreSteps
    BY DEF StoreSteps, InstallSteps, HandlerSteps, PrepareSteps, PostSteps
  <1> DEFINE m == Top(t).m
             k == M(t)
  <1>3. /\ m \in Methods /\ k \in MethodRecord /\ H(t) \in HookRecord
        /\ k.func # "bridge" =>
             /\ k.regs = ArgSize[m]
             /\ k.compute
             /\ k.native
             /\ k.insns = "handler"
    BY <1>1, <1>2, HookState
  <1>4. /\ r \in MethodRecord
        /\ r.func = "bridge"
        /\ r.native = k.native
        /\ r.insns = k.insns
        /\ r.regs = k.regs
        /\ r.compute = k.compute
    BY <1>3, SetFunc
  <1>5. k = method[m]
    BY DEF M
  <1> HIDE DEF r, k
  <1>6. StepsFit(t, "hookFunc", "find", r)
    BY <1>2, <1>3, <1>4 DEF StepsFit, k, StoreSteps, InstallSteps, DispatchSteps, HandlerSteps, PrepareSteps,
                 PostSteps
  <1>7. InstallFits(t, "hookFunc", "find", r)
    BY <1>3, <1>4 DEF InstallFits, k
  <1>8. WindowsFit(t, "hookFunc", "find", r)
    BY <1>3, <1>4, <1>5 DEF WindowsFit, FlagsWindow, ArgInfoWindow, InsnsWindow,
       SizesWindow, CallSteps
  <1>9. "hookFunc" \in MovingSteps /\ "find" \in Steps \ {"none"}
    BY DEF MovingSteps, Steps, StoreSteps, InstallSteps, DispatchSteps, HandlerSteps, PrepareSteps,
                 PostSteps
  <1>10. QED
    BY <1>1, <1>4, <1>6, <1>7, <1>8, <1>9, WritePreserves

-----------------------------------------------------------------------------
LEMMA PrepareSizesStep ==
  ASSUME IInv, NEW t \in Threads, PrepareSizes(t)
  PROVE  IInv'
  <1> DEFINE r == [M(t) EXCEPT !.regs = H(t).regs]
  <1>1. At(t, "prepareSizes") /\ Write(t, "prepareSizes", "prepareFlags", r)
    BY DEF PrepareSizes, Write
  <1>2. "prepareSizes" \in HandlerSteps
    BY DEF StoreSteps, InstallSteps, HandlerSteps, PrepareSteps, PostSteps
  <1> DEFINE m == Top(t).m
             k == M(t)
  <1>3. /\ m \in Methods /\ k \in MethodRecord /\ H(t) \in HookRecord
        /\ k.func = "bridge"
    BY <1>1, <1>2, HandlerState
  <1>4. /\ r \in MethodRecord
        /\ r.regs = H(t).regs
        /\ r.native = k.native
        /\ r.insns = k.insns
        /\ r.func = k.func
        /\ r.compute = k.compute
    BY <1>3, SetRegs DEF HookRecord
  <1>5. k = method[m]
    BY DEF M
  <1> HIDE DEF r, k
  <1>6. StepsFit(t, "prepareSizes", "prepareFlags", r)
    BY <1>2, <1>3, <1>4 DEF StepsFit, k, StoreSteps, InstallSteps, DispatchSteps, HandlerSteps, PrepareSteps,
                 PostSteps
  <1>7. InstallFits(t, "prepareSizes", "prepareFlags", r)
    BY <1>3, <1>4 DEF InstallFits, StoreSteps, InstallSteps
  <1>8. WindowsFit(t, "prepareSizes", "prepareFlags", r)
    BY <1>3, <1>4, <1>5 DEF WindowsFit, FlagsWindow, ArgInfoWindow, InsnsWindow,
       SizesWindow, CallSteps
  <1>9. "prepareSizes" \in MovingSteps /\ "prepareFlags" \in Steps \ {"none"}
    BY DEF MovingSteps, Steps, StoreSteps, InstallSteps, DispatchSteps, HandlerSteps, PrepareSteps,
                 PostSteps
  <1>10. QED
    BY <1>1, <1>4, <1>6, <1>7, <1>8, <1>9, WritePreserves

LEMMA PrepareFlagsStep ==
  ASSUME IInv, NEW t \in Threads, PrepareFlags(t)
  PROVE  IInv'
  <1> DEFINE r == [M(t) EXCEPT !.native = H(t).native]
  <1>1. At(t, "prepareFlags") /\ Write(t, "prepareFlags", "prepareArgInfo", r)
    BY DEF PrepareFlags, Write
  <1>2. "prepareFlags" \in HandlerSteps
    BY DEF StoreSteps, InstallSteps, HandlerSteps, PrepareSteps, PostSteps
  <1> DEFINE m == Top(t).m
             k == M(t)
  <1>3. /\ m \in Methods /\ k \in MethodRecord /\ H(t) \in HookRecord
        /\ k.func = "bridge"
    BY <1>1, <1>2, HandlerState
  <1>4. /\ r \in MethodRecord
        /\ r.native = H(t).native
        /\ r.insns = k.insns
        /\ r.func = k.func
        /\ r.regs = k.regs
        /\ r.compute = k.compute
    BY <1>3, SetNative DEF HookRecord
  <1>5. k = method[m]
    BY DEF M
  <1> HIDE DEF r, k
  <1>6. StepsFit(t, "prepareFlags", "prepareArgInfo", r)
    BY <1>2, <1>3, <1>4 DEF StepsFit, k, StoreSteps, InstallSteps, DispatchSteps, HandlerSteps, PrepareSteps,
                 PostSteps
  <1>7. InstallFits(t, "prepareFlags", "prepareArgInfo", r)
    BY <1>3, <1>4 DEF InstallFits, StoreSteps, InstallSteps
  <1>8. WindowsFit(t, "prepareFlags", "prepareArgInfo", r)
    BY <1>3, <1>4, <1>5 DEF WindowsFit, FlagsWindow, ArgInfoWindow, InsnsWindow,
       SizesWindow, CallSteps
  <1>9. "prepareFlags" \in MovingSteps /\ "prepareArgInfo" \in Steps \ {"none"}
    BY DEF MovingSteps, Steps, StoreSteps, InstallSteps, DispatchSteps, HandlerSteps, PrepareSteps,
                 PostSteps
  <1>10. QED
    BY <1>1, <1>4, <1>6, <1>7, <1>8, <1>9, WritePreserves

LEMMA PrepareArgInfoStep ==
  ASSUME IInv, NEW t \in Threads, PrepareArgInfo(t)
  PROVE  IInv'
  <1> DEFINE r == [M(t) EXCEPT !.compute = FALSE]
  <1>1. At(t, "prepareArgInfo") /\ Write(t, "prepareArgInfo", "prepareInsns", r)
    BY DEF PrepareArgInfo, Write
  <1>2. "prepareArgInfo" \in HandlerSteps
    BY DEF StoreSteps, InstallSteps, HandlerSteps, PrepareSteps, PostSteps
  <1> DEFINE m == Top(t).m
             k == M(t)
  <1>3. /\ m \in Methods /\ k \in MethodRecord /\ H(t) \in HookRecord
        /\ k.func = "bridge"
    BY <1>1, <1>2, HandlerState
  <1>4. /\ r \in MethodRecord
        /\ r.compute = FALSE
        /\ r.native = k.native
        /\ r.insns = k.insns
        /\ r.func = k.func
        /\ r.regs = k.regs
    BY <1>3, SetCompute
  <1>5. k = method[m]
    BY DEF M
  <1> HIDE DEF r, k
  <1>6. StepsFit(t, "prepareArgInfo", "prepareInsns", r)
    BY <1>2, <1>3, <1>4 DEF StepsFit, k, StoreSteps, InstallSteps, DispatchSteps, HandlerSteps, PrepareSteps,
                 PostSteps
  <1>7. InstallFits(t, "prepareArgInfo", "prepareInsns", r)
    BY <1>3, <1>4 DEF InstallFits, StoreSteps, InstallSteps
  <1>8. WindowsFit(t, "prepareArgInfo", "prepareInsns", r)
    BY <1>3, <1>4, <1>5 DEF WindowsFit, FlagsWindow, ArgInfoWindow, InsnsWindow,
       SizesWindow, CallSteps
  <1>9. "prepareArgInfo" \in MovingSteps /\ "prepareInsns" \in Steps \ {"none"}
    BY DEF MovingSteps, Steps, StoreSteps, InstallSteps, DispatchSteps, HandlerSteps, PrepareSteps,
                 PostSteps
  <1>10. QED
    BY <1>1, <1>4, <1>6, <1>7, <1>8, <1>9, WritePreserves

LEMMA PrepareInsnsStep ==
  ASSUME IInv, NEW t \in Threads, PrepareInsns(t)
  PROVE  IInv'
  <1> DEFINE r == [M(t) EXCEPT !.insns = H(t).insns]
  <1>1. At(t, "prepareInsns") /\ Write(t, "prepareInsns", "original", r)
    BY DEF PrepareInsns, Write
  <1>2. "prepareInsns" \in HandlerSteps
    BY DEF StoreSteps, InstallSteps, HandlerSteps, PrepareSteps, PostSteps
  <1> DEFINE m == Top(t).m
             k == M(t)
  <1>3. /\ m \in Methods /\ k \in MethodRecord /\ H(t) \in HookRecord
        /\ k.func = "bridge" /\ H(t).insns \in {"code", "handler"}
    BY <1>1, <1>2, HandlerState
  <1>4. /\ r \in MethodRecord
        /\ r.insns = H(t).insns
        /\ r.native = k.native
        /\ r.func = k.func
        /\ r.regs = k.regs
        /\ r.compute = k.compute
    BY <1>3, SetInsns DEF HookRecord
  <1>5. k = method[m]
    BY DEF M
  <1> HIDE DEF r, k
  <1>6. StepsFit(t, "prepareInsns", "original", r)
    BY <1>2, <1>3, <1>4 DEF StepsFit, k, StoreSteps, InstallSteps, DispatchSteps, HandlerSteps, PrepareSteps,
                 PostSteps
  <1>7. InstallFits(t, "prepareInsns", "original", r)
    BY <1>3, <1>4 DEF InstallFits, StoreSteps, InstallSteps
  <1>8. WindowsFit(t, "prepareInsns", "original", r)
    BY <1>3, <1>4, <1>5 DEF WindowsFit, FlagsWindow, ArgInfoWindow, InsnsWindow,
       SizesWindow, CallSteps
  <1>9. "prepareInsns" \in MovingSteps /\ "original" \in Steps \ {"none"}
    BY DEF MovingSteps, Steps, StoreSteps, InstallSteps, DispatchSteps, HandlerSteps, PrepareSteps,
                 PostSteps
  <1>10. QED
    BY <1>1, <1>4, <1>6, <1>7, <1>8, <1>9, WritePreserves

LEMMA PostSizesStep ==
  ASSUME IInv, NEW t \in Threads, PostSizes(t)
  PROVE  IInv'
  <1> DEFINE r == [M(t) EXCEPT !.regs = Ns[Top(t).m]]
  <1>1. At(t, "calling") /\ Write(t, "calling", "postArgInfo", r)
    BY DEF PostSizes, Write
  <1>2. "calling" \in HandlerSteps
    BY DEF StoreSteps, InstallSteps, HandlerSteps, PrepareSteps, PostSteps
  <1> DEFINE m == Top(t).m
             k == M(t)
  <1>3. /\ m \in Methods /\ k \in MethodRecord /\ H(t) \in HookRecord
        /\ k.func = "bridge"
    BY <1>1, <1>2, HandlerState
  <1>4. /\ r \in MethodRecord
        /\ r.regs = Ns[Top(t).m]
        /\ r.native = k.native
        /\ r.insns = k.insns
        /\ r.func = k.func
        /\ r.compute = k.compute
    BY <1>3, SetRegs, SizeAssumption
  <1>5. k = method[m]
    BY DEF M
  <1> HIDE DEF r, k
  <1>6. StepsFit(t, "calling", "postArgInfo", r)
    BY <1>2, <1>3, <1>4 DEF StepsFit, k, StoreSteps, InstallSteps, DispatchSteps, HandlerSteps, PrepareSteps,
                 PostSteps
  <1>7. InstallFits(t, "calling", "postArgInfo", r)
    BY <1>3, <1>4 DEF InstallFits, StoreSteps, InstallSteps
  <1>8. WindowsFit(t, "calling", "postArgInfo", r)
    BY <1>3, <1>4, <1>5 DEF WindowsFit, FlagsWindow, ArgInfoWindow, InsnsWindow,
       SizesWindow, CallSteps
  <1>9. "calling" \in MovingSteps /\ "postArgInfo" \in Steps \ {"none"}
    BY DEF MovingSteps, Steps, StoreSteps, InstallSteps, DispatchSteps, HandlerSteps, PrepareSteps,
                 PostSteps
  <1>10. QED
    BY <1>1, <1>4, <1>6, <1>7, <1>8, <1>9, WritePreserves

LEMMA PostArgInfoStep ==
  ASSUME IInv, NEW t \in Threads, PostArgInfo(t)
  PROVE  IInv'
  <1> DEFINE r == [M(t) EXCEPT !.compute = TRUE]
  <1>1. At(t, "postArgInfo") /\ Write(t, "postArgInfo", "postSave", r)
    BY DEF PostArgInfo, Write
  <1>2. "postArgInfo" \in HandlerSteps
    BY DEF StoreSteps, InstallSteps, HandlerSteps, PrepareSteps, PostSteps
  <1> DEFINE m == Top(t).m
             k == M(t)
  <1>3. /\ m \in Methods /\ k \in MethodRecord /\ H(t) \in HookRecord
        /\ k.func = "bridge"
    BY <1>1, <1>2, HandlerState
  <1>4. /\ r \in MethodRecord
        /\ r.compute = TRUE
        /\ r.native = k.native
        /\ r.insns = k.insns
        /\ r.func = k.func
        /\ r.regs = k.regs
    BY <1>3, SetCompute
  <1>5. k = method[m]
    BY DEF M
  <1> HIDE DEF r, k
  <1>6. StepsFit(t, "postArgInfo", "postSave", r)
    BY <1>2, <1>3, <1>4 DEF StepsFit, k, StoreSteps, InstallSteps, DispatchSteps, HandlerSteps, PrepareSteps,
                 PostSteps
  <1>7. InstallFits(t, "postArgInfo", "postSave", r)
    BY <1>3, <1>4 DEF InstallFits, StoreSteps, InstallSteps
  <1>8. WindowsFit(t, "postArgInfo", "postSave", r)
    BY <1>3, <1>4, <1>5 DEF WindowsFit, FlagsWindow, ArgInfoWindow, InsnsWindow,
       SizesWindow, CallSteps
  <1>9. "postArgInfo" \in MovingSteps /\ "postSave" \in Steps \ {"none"}
    BY DEF MovingSteps, Steps, StoreSteps, InstallSteps, DispatchSteps, HandlerSteps, PrepareSteps,
                 PostSteps
  <1>10. QED
    BY <1>1, <1>4, <1>6, <1>7, <1>8, <1>9, WritePreserves

LEMMA PostFlagsStep ==
  ASSUME IInv, NEW t \in Threads, PostFlags(t)
  PROVE  IInv'
  <1> DEFINE r == [M(t) EXCEPT !.native = TRUE]
  <1>1. At(t, "postFlags") /\ Write(t, "postFlags", "postInsns", r)
    BY DEF PostFlags, Write
  <1>2. "postFlags" \in HandlerSteps
    BY DEF StoreSteps, InstallSteps, HandlerSteps, PrepareSteps, PostSteps
  <1> DEFINE m == Top(t).m
             k == M(t)
  <1>3. /\ m \in Methods /\ k \in MethodRecord /\ H(t) \in HookRecord
        /\ k.func = "bridge"
    BY <1>1, <1>2, HandlerState
  <1>4. /\ r \in MethodRecord
        /\ r.native = TRUE
        /\ r.insns = k.insns
        /\ r.func = k.func
        /\ r.regs = k.regs
        /\ r.compute = k.compute
    BY <1>3, SetNative
  <1>5. k = method[m]
    BY DEF M
  <1> HIDE DEF r, k
  <1>6. StepsFit(t, "postFlags", "postInsns", r)
    BY <1>2, <1>3, <1>4 DEF StepsFit, k, StoreSteps, InstallSteps, DispatchSteps, HandlerSteps, PrepareSteps,
                 PostSteps
  <1>7. InstallFits(t, "postFlags", "postInsns", r)
    BY <1>3, <1>4 DEF InstallFits, StoreSteps, InstallSteps
  <1>8. WindowsFit(t, "postFlags", "postInsns", r)
    BY <1>3, <1>4, <1>5 DEF WindowsFit, FlagsWindow, ArgInfoWindow, InsnsWindow,
       SizesWindow, CallSteps
  <1>9. "postFlags" \in MovingSteps /\ "postInsns" \in Steps \ {"none"}
    BY DEF MovingSteps, Steps, StoreSteps, InstallSteps, DispatchSteps, HandlerSteps, PrepareSteps,
                 PostSteps
  <1>10. QED
    BY <1>1, <1>4, <1>6, <1>7, <1>8, <1>9, WritePreserves

LEMMA PostInsnsStep ==
  ASSUME IInv, NEW t \in Threads, PostInsns(t)
  PROVE  IInv'
  <1> DEFINE r == [M(t) EXCEPT !.insns = "handler"]
  <1>1. At(t, "postInsns") /\ Write(t, "postInsns", "postFunc", r)
    BY DEF PostInsns, Write
  <1>2. "postInsns" \in HandlerSteps
    BY DEF StoreSteps, InstallSteps, HandlerSteps, PrepareSteps, PostSteps
  <1> DEFINE m == Top(t).m
             k == M(t)
  <1>3. /\ m \in Methods /\ k \in MethodRecord /\ H(t) \in HookRecord
        /\ k.func = "bridge"
    BY <1>1, <1>2, HandlerState
  <1>4. /\ r \in MethodRecord
        /\ r.insns = "handler"
        /\ r.native = k.native
        /\ r.func = k.func
        /\ r.regs = k.regs
        /\ r.compute = k.compute
    BY <1>3, SetInsns
  <1>5. k = method[m]
    BY DEF M
  <1> HIDE DEF r, k
  <1>6. StepsFit(t, "postInsns", "postFunc", r)
    BY <1>2, <1>3, <1>4 DEF StepsFit, k, StoreSteps, InstallSteps, DispatchSteps, HandlerSteps, PrepareSteps,
                 PostSteps
  <1>7. InstallFits(t, "postInsns", "postFunc", r)
    BY <1>3, <1>4 DEF InstallFits, StoreSteps, InstallSteps
  <1>8. WindowsFit(t, "postInsns", "postFunc", r)
    BY <1>3, <1>4, <1>5 DEF WindowsFit, FlagsWindow, ArgInfoWindow, InsnsWindow,
       SizesWindow, CallSteps
  <1>9. "postInsns" \in MovingSteps /\ "postFunc" \in Steps \ {"none"}
    BY DEF MovingSteps, Steps, StoreSteps, InstallSteps, DispatchSteps, HandlerSteps, PrepareSteps,
                 PostSteps
  <1>10. QED
    BY <1>1, <1>4, <1>6, <1>7, <1>8, <1>9, WritePreserves

LEMMA PostFuncStep ==
  ASSUME IInv, NEW t \in Threads, PostFunc(t)
  PROVE  IInv'
  <1> DEFINE r == [M(t) EXCEPT !.func = "bridge"]
  <1>1. At(t, "postFunc") /\ Write(t, "postFunc", "return", r)
    BY DEF PostFunc, Write
  <1>2. "postFunc" \in HandlerSteps
    BY DEF StoreSteps, InstallSteps, HandlerSteps, PrepareSteps, PostSteps
  <1> DEFINE m == Top(t).m
             k == M(t)
  <1>3. /\ m \in Methods /\ k \in MethodRecord /\ H(t) \in HookRecord
        /\ k.func = "bridge"
    BY <1>1, <1>2, HandlerState
  <1>4. /\ r \in MethodRecord
        /\ r.func = "bridge"
        /\ r.native = k.native
        /\ r.insns = k.insns
        /\ r.regs = k.regs
        /\ r.compute = k.compute
    BY <1>3, SetFunc
  <1>5. k = method[m]
    BY DEF M
  <1> HIDE DEF r, k
  <1>6. StepsFit(t, "postFunc", "return", r)
    BY <1>2, <1>3, <1>4 DEF StepsFit, k, StoreSteps, InstallSteps, DispatchSteps, HandlerSteps, PrepareSteps,
                 PostSteps
  <1>7. InstallFits(t, "postFunc", "return", r)
    BY <1>3, <1>4 DEF InstallFits, StoreSteps, InstallSteps
  <1>8. WindowsFit(t, "postFunc", "return", r)
    BY <1>3, <1>4, <1>5 DEF WindowsFit, FlagsWindow, ArgInfoWindow, InsnsWindow,
       SizesWindow, CallSteps
  <1>9. "postFunc" \in MovingSteps /\ "return" \in Steps \ {"none"}
    BY DEF MovingSteps, Steps, StoreSteps, InstallSteps, DispatchSteps, HandlerSteps, PrepareSteps,
                 PostSteps
  <1>10. QED
    BY <1>1, <1>4, <1>6, <1>7, <1>8, <1>9, WritePreserves

LEMMA HookSaveSizesStep ==
  ASSUME IInv, NEW t \in Threads, HookSaveSizes(t)
  PROVE  IInv'
  <1>1. /\ At(t, "hookSaveSizes") /\ Goto(t, "hookSizes")
        /\ hook' = [hook EXCEPT ![Top(t).m] = [H(t) EXCEPT !.regs = M(t).regs]]
        /\ UNCHANGED <<method, todo, depth>>
    BY DEF HookSaveSizes, Save
  <1>2. "hookSaveSizes" \in StoreSteps /\ "hookSaveSizes" \in MovingSteps
        /\ "hookSizes" \in Steps \ {"none"}
    BY DEF Steps, MovingSteps, StoreSteps, InstallSteps, DispatchSteps, HandlerSteps, PrepareSteps,
             PostSteps
  <1>3. Top(t).m \in Methods /\ M(t) \in MethodRecord /\ H(t) \in HookRecord
    BY <1>1, <1>2, TopMethod
  <1>4. HookKept(t, "hookSaveSizes")
    BY <1>1, <1>3 DEF HookKept, HookRecord, MethodRecord, H, IInv, TypeOK
  <1>5. StepsFit(t, "hookSaveSizes", "hookSizes", M(t))
    BY <1>2 DEF StepsFit, StoreSteps, InstallSteps, DispatchSteps, HandlerSteps, PrepareSteps,
             PostSteps
  <1>6. InstallFits(t, "hookSaveSizes", "hookSizes", M(t))
    BY DEF InstallFits
  <1>7. WindowsFit(t, "hookSaveSizes", "hookSizes", M(t))
    BY DEF WindowsFit, M, FlagsWindow, ArgInfoWindow, InsnsWindow, SizesWindow, CallSteps
  <1>8. QED
    BY <1>1, <1>2, <1>4, <1>5, <1>6, <1>7, StillPreserves

LEMMA HookSaveStep ==
  ASSUME IInv, NEW t \in Threads, HookSave(t)
  PROVE  IInv'
  <1>1. /\ At(t, "hookSave") /\ Goto(t, "hookFlags")
        /\ hook' = [hook EXCEPT ![Top(t).m] = [H(t) EXCEPT !.native = M(t).native]]
        /\ UNCHANGED <<method, todo, depth>>
    BY DEF HookSave, Save
  <1>2. "hookSave" \in StoreSteps /\ "hookSave" \in MovingSteps
        /\ "hookFlags" \in Steps \ {"none"}
    BY DEF Steps, MovingSteps, StoreSteps, InstallSteps, DispatchSteps, HandlerSteps, PrepareSteps,
             PostSteps
  <1>3. Top(t).m \in Methods /\ M(t) \in MethodRecord /\ H(t) \in HookRecord
    BY <1>1, <1>2, TopMethod
  <1>4. HookKept(t, "hookSave")
    BY <1>1, <1>3 DEF HookKept, HookRecord, MethodRecord, H, IInv, TypeOK
  <1>5. StepsFit(t, "hookSave", "hookFlags", M(t))
    BY <1>1, <1>2, HookState DEF StepsFit, StoreSteps, InstallSteps, DispatchSteps, HandlerSteps, PrepareSteps,
             PostSteps
  <1>6. InstallFits(t, "hookSave", "hookFlags", M(t))
    BY <1>1, <1>2, HookState DEF InstallFits
  <1>7. WindowsFit(t, "hookSave", "hookFlags", M(t))
    BY DEF WindowsFit, M, FlagsWindow, ArgInfoWindow, InsnsWindow, SizesWindow, CallSteps
  <1>8. QED
    BY <1>1, <1>2, <1>4, <1>5, <1>6, <1>7, StillPreserves

LEMMA PostSaveStep ==
  ASSUME IInv, NEW t \in Threads, PostSave(t)
  PROVE  IInv'
  <1>1. /\ At(t, "postSave") /\ Goto(t, "postFlags")
        /\ hook' = [hook EXCEPT ![Top(t).m] = [H(t) EXCEPT !.native = M(t).native]]
        /\ UNCHANGED <<method, todo, depth>>
    BY DEF PostSave, Save
  <1>2. "postSave" \in HandlerSteps /\ "postSave" \in MovingSteps
        /\ "postFlags" \in Steps \ {"none"}
    BY DEF Steps, MovingSteps, StoreSteps, InstallSteps, DispatchSteps, HandlerSteps, PrepareSteps,
             PostSteps
  <1>3. Top(t).m \in Methods /\ M(t) \in MethodRecord /\ H(t) \in HookRecord
    BY <1>1, <1>2, TopMethod
  <1>4. HookKept(t, "postSave")
    BY <1>1, <1>3 DEF HookKept, HookRecord, MethodRecord, H, IInv, TypeOK
  <1>5. StepsFit(t, "postSave", "postFlags", M(t))
    BY <1>1, <1>2, HandlerState DEF StepsFit, StoreSteps, InstallSteps, DispatchSteps, HandlerSteps, PrepareSteps,
             PostSteps
  <1>6. InstallFits(t, "postSave", "postFlags", M(t))
    BY DEF InstallFits
  <1>7. WindowsFit(t, "postSave", "postFlags", M(t))
    BY DEF WindowsFit, M, FlagsWindow, ArgInfoWindow, InsnsWindow, SizesWindow, CallSteps
  <1>8. QED
    BY <1>1, <1>2, <1>4, <1>5, <1>6, <1>7, StillPreserves

(* The steps that only look at a Method and decide where to go.            *)
LEMMA DispatchPreserves ==
  ASSUME IInv, NEW t \in Threads, NEW from \in DispatchSteps,
         NEW to \in {"native", "code", "body", "wild", "bridge", "prepareSizes"},
         Dispatch(t, from, to),
         to \in {"bridge", "prepareSizes"} => M(t).func = "bridge"
  PROVE  IInv'
  <1>1. At(t, from) /\ Goto(t, to) /\ UNCHANGED <<method, hook, todo, depth>>
    BY DEF Dispatch
  <1>2. from \in MovingSteps /\ to \in Steps \ {"none"}
    BY DEF MovingSteps, Steps, StoreSteps, InstallSteps, DispatchSteps, HandlerSteps, PrepareSteps,
             PostSteps
  <1>3. HookKept(t, from)
    BY <1>1 DEF HookKept, IInv, TypeOK, DispatchSteps
  <1>4. StepsFit(t, from, to, M(t))
    BY DEF StepsFit, StoreSteps, InstallSteps, DispatchSteps, HandlerSteps, PrepareSteps,
             PostSteps
  <1>5. InstallFits(t, from, to, M(t))
    BY DEF InstallFits
  <1>6. WindowsFit(t, from, to, M(t))
    BY DEF WindowsFit, M, DispatchSteps, FlagsWindow, ArgInfoWindow, InsnsWindow, SizesWindow, CallSteps
  <1>7. QED
    BY <1>1, <1>2, <1>3, <1>4, <1>5, <1>6, StillPreserves

LEMMA TestNativeStep ==
  ASSUME IInv, NEW t \in Threads, TestNative(t)
  PROVE  IInv'
  <1>1. \E to \in {"native", "code"} : Dispatch(t, "test", to)
    BY DEF TestNative
  <1>2. QED
    BY <1>1, DispatchPreserves DEF DispatchSteps

LEMMA EnterCodeStep ==
  ASSUME IInv, NEW t \in Threads, EnterCode(t)
  PROVE  IInv'
  <1>1. \E to \in {"body", "wild"} : Dispatch(t, "code", to)
    BY DEF EnterCode
  <1>2. QED
    BY <1>1, DispatchPreserves DEF DispatchSteps

LEMMA CallNativeFuncStep ==
  ASSUME IInv, NEW t \in Threads, CallNativeFunc(t)
  PROVE  IInv'
  <1>1. CASE M(t).func = "bridge"
    <2>1. Dispatch(t, "native", "bridge")
      BY <1>1 DEF CallNativeFunc
    <2>2. QED
      BY <1>1, <2>1, DispatchPreserves DEF DispatchSteps
  <1>2. CASE M(t).func # "bridge"
    <2>1. Dispatch(t, "native", "wild")
      BY <1>2 DEF CallNativeFunc
    <2>2. QED
      BY <2>1, DispatchPreserves DEF DispatchSteps
  <1>3. QED
    BY <1>1, <1>2

LEMMA CallBridgeStep ==
  ASSUME IInv, NEW t \in Threads, CallBridge(t)
  PROVE  IInv'
  <1>1. At(t, "bridge") /\ \E to \in {"prepareSizes", "wild"} : Dispatch(t, "bridge", to)
    BY DEF CallBridge, Dispatch
  <1>2. depth[t] \in Levels /\ Top(t).at = "bridge"
    BY <1>1, TopFrame DEF At, IInv
  <1>3. M(t).func = "bridge"
    BY <1>2 DEF IInv, HandlersInstalled, Installed, Top, M
  <1>4. QED
    BY <1>1, <1>3, DispatchPreserves DEF DispatchSteps

-----------------------------------------------------------------------------
(***************************************************************************)
(* Steps that push or pop an invocation, or only lay out its frame.        *)
(***************************************************************************)

(* A frame keeps its place and method, or a handler's starts waiting for   *)
(* the original, or the frame begins or ends outside every window.         *)
Reframed(u, d) ==
  LET f == frame[u][d]
      g == frame'[u][d]
  IN
  \/ g.at = f.at /\ g.m = f.m
  \/ f.at = "original" /\ g.at = "calling" /\ g.m = f.m
  \/ /\ f.at \in {"none", "push", "body", "return", "find"}
     /\ \/ g.at \in {"push", "test"} /\ g.m \in Methods
        \/ g.at \in {"none", "return"}
        \/ g.at = "find" /\ d = 1

Reframing ==
  /\ UNCHANGED <<method, hook, todo>>
  /\ frame' \in [Threads -> [Levels -> Frame]]
  /\ depth' \in [Threads -> 0..MaxDepth]
  /\ \A u \in Threads, d \in Levels :
       Reframed(u, d) /\ (d > depth'[u] => frame'[u][d].at = "none")

LEMMA ReframePreserves ==
  ASSUME IInv, Reframing
  PROVE  IInv'
  <1> USE DEF Reframed, Reframing
  <1>1. TypeOK'
    BY DEF IInv, TypeOK
  <1>2. StackOK'
    BY DEF IInv, StackOK, StoreSteps, InstallSteps, DispatchSteps, HandlerSteps, PrepareSteps,
             PostSteps
  <1>3. ASSUME NEW u \in Threads, NEW d \in Levels,
               frame'[u][d].at \in StoreSteps
        PROVE  frame'[u][d].at = frame[u][d].at /\ frame'[u][d].m = frame[u][d].m
    BY <1>3 DEF StoreSteps, InstallSteps
  <1>11. /\ \A n : Once(n, todo') <=> Once(n, todo)
         /\ \A n : Fresh(n, todo') <=> Fresh(n, todo)
    BY DEF Once, Fresh
  <1>4. InstallOK'
    BY <1>3, <1>11, SMTT(30) DEF IInv, InstallOK, Installed, StoreSteps, InstallSteps
  <1>5. InstallProgress'
    BY <1>3 DEF IInv, InstallProgress, Installed
  <1>6. HandlersInstalled'
    BY DEF IInv, HandlersInstalled, Installed, HandlerSteps, PrepareSteps, PostSteps
  <1>12. SavedSome'
    BY <1>3 DEF IInv, SavedSome, Installed
  <1>7. SavedOK'
    BY <1>3, <1>11 DEF IInv, SavedOK, Installed, CodeSaved
  <1>8. ASSUME NEW m, NEW S \in {FlagsWindow, ArgInfoWindow, InsnsWindow, SizesWindow},
               SomeFrame(m, S)
        PROVE  SomeFrame(m, S)'
    <2>1. PICK u \in Threads, d \in Levels :
            frame[u][d].m = m /\ frame[u][d].at \in S
      BY <1>8 DEF SomeFrame
    <2>2. frame[u][d].at \notin {"none", "push", "body", "return", "find"}
      BY <1>8, <2>1 DEF FlagsWindow, ArgInfoWindow, InsnsWindow, SizesWindow, CallSteps
    <2>3. frame'[u][d].m = m
      BY <2>1, <2>2
    <2>4. \/ frame'[u][d].at = frame[u][d].at
          \/ frame[u][d].at = "original" /\ frame'[u][d].at = "calling"
      BY <2>2
    <2>5. frame'[u][d].at \in S
      BY <2>1, <2>4 DEF FlagsWindow, ArgInfoWindow, InsnsWindow, SizesWindow, CallSteps
    <2>6. QED
      BY <2>3, <2>5 DEF SomeFrame
  <1>9. WindowsOK'
    <2> SUFFICES ASSUME NEW m \in Methods, Installed(m)'
                 PROVE
           /\ method'[m].native \/ SomeFrame(m, FlagsWindow)'
           /\ method'[m].compute \/ SomeFrame(m, ArgInfoWindow)'
           /\ method'[m].insns = "handler" \/ SomeFrame(m, InsnsWindow)'
           /\ method'[m].regs \in {ArgSize[m], Ns[m]} \/ SomeFrame(m, SizesWindow)'
      BY DEF WindowsOK, SomeFrame, FlagsWindow, ArgInfoWindow, InsnsWindow, SizesWindow, CallSteps
    <2>1. /\ method[m].native \/ SomeFrame(m, FlagsWindow)
          /\ method[m].compute \/ SomeFrame(m, ArgInfoWindow)
          /\ method[m].insns = "handler" \/ SomeFrame(m, InsnsWindow)
          /\ method[m].regs \in {ArgSize[m], Ns[m]} \/ SomeFrame(m, SizesWindow)
      BY DEF IInv, WindowsOK, Installed
    <2>2. QED
      BY <1>8, <2>1
  <1>10. QED
    BY <1>1, <1>2, <1>4, <1>5, <1>6, <1>7, <1>9, <1>12 DEF IInv

(* Pushing an invocation on an empty level.                                *)
LEMMA CallReframes ==
  ASSUME IInv, NEW t \in Threads, NEW m \in Methods, Call(t, m)
  PROVE  Reframing
  <1> DEFINE e == depth[t] + 1
  <1>1. /\ e \in Levels
        /\ depth' = [depth EXCEPT ![t] = e]
        /\ frame' = [frame EXCEPT ![t] = [frame[t] EXCEPT ![e] = Invocation(m)]]
        /\ UNCHANGED <<method, hook, todo>>
    BY DepthAssumption DEF Call, Levels, IInv, TypeOK
  <1>2. Invocation(m) \in Frame
    BY DEF Invocation, Frame, Steps, DispatchSteps
  <1>3. /\ frame[t] \in [Levels -> Frame] /\ frame \in [Threads -> [Levels -> Frame]]
        /\ depth \in [Threads -> 0..MaxDepth]
    BY DEF IInv, TypeOK
  <1>4. frame' \in [Threads -> [Levels -> Frame]] /\ depth' \in [Threads -> 0..MaxDepth]
    BY <1>1, <1>2, <1>3, DepthAssumption DEF Levels
  <1>5. frame[t][e].at = "none"
    BY <1>1, <1>3, DepthAssumption DEF IInv, StackOK
  <1>6. ASSUME NEW u \in Threads, NEW d \in Levels
        PROVE  Reframed(u, d) /\ (d > depth'[u] => frame'[u][d].at = "none")
    <2>1. CASE u = t /\ d = e
      <3>1. frame'[u][d] = Invocation(m) /\ depth'[u] = e
        BY <1>1, <1>3, <2>1
      <3>2. ~(d > depth'[u])
        BY <2>1, <3>1 DEF Levels
      <3>3. QED
        BY <1>5, <2>1, <3>1, <3>2 DEF Reframed, Invocation
    <2>2. CASE u # t \/ d # e
      <3>1. frame'[u][d] = frame[u][d]
        BY <1>1, <1>3, <2>2
      <3>2. d > depth'[u] => d > depth[u]
        BY <1>1, <1>3, DepthAssumption DEF Levels
      <3>3. QED
        BY <3>1, <3>2 DEF Reframed, IInv, StackOK
    <2>3. QED
      BY <2>1, <2>2
  <1>7. QED
    BY <1>1, <1>4, <1>6 DEF Reframing

LEMMA PushFrameReframes ==
  ASSUME IInv, NEW t \in Threads, PushFrame(t)
  PROVE  Reframing
  <1> DEFINE e == depth[t]
             f == [frame[t][e] EXCEPT !.regs = M(t).regs, !.at = "test"]
  <1>1. At(t, "push") /\ UNCHANGED <<method, hook, todo, depth>>
    BY DEF PushFrame
  <1>2. e \in Levels /\ frame[t][e] \in Frame
    BY <1>1, TopFrame DEF At, IInv
  <1>3. frame[t][e].at = "push" /\ frame[t][e].m \in Methods /\ M(t) \in MethodRecord
    BY <1>1, TopMethod DEF MovingSteps, DispatchSteps, Top
  <1>4. f \in Frame /\ f.at = "test" /\ f.m = frame[t][e].m
    BY <1>2, <1>3 DEF Frame, MethodRecord, Steps, DispatchSteps
  <1> HIDE DEF f
  <1>5. frame' = [frame EXCEPT ![t] = [frame[t] EXCEPT ![e] = f]]
    <2>1. frame' = [frame EXCEPT ![t][e].regs = M(t).regs, ![t][e].at = "test"]
      BY DEF PushFrame
    <2>2. QED
      BY <1>2, <2>1 DEF f, IInv, TypeOK
  <1>6. /\ frame[t] \in [Levels -> Frame] /\ frame \in [Threads -> [Levels -> Frame]]
        /\ depth \in [Threads -> 0..MaxDepth]
    BY DEF IInv, TypeOK
  <1>7. frame' \in [Threads -> [Levels -> Frame]] /\ depth' \in [Threads -> 0..MaxDepth]
    BY <1>1, <1>4, <1>5, <1>6
  <1>8. ASSUME NEW u \in Threads, NEW d \in Levels
        PROVE  Reframed(u, d) /\ (d > depth'[u] => frame'[u][d].at = "none")
    <2>1. CASE u = t /\ d = e
      <3>1. frame'[u][d] = f
        BY <1>2, <1>5, <1>6, <2>1
      <3>2. ~(d > depth'[u])
        BY <1>1, <1>2, <2>1 DEF Levels
      <3>3. QED
        BY <1>3, <1>4, <2>1, <3>1, <3>2 DEF Reframed
    <2>2. CASE u # t \/ d # e
      <3>1. frame'[u][d] = frame[u][d]
        BY <1>2, <1>5, <1>6, <2>2
      <3>2. QED
        BY <1>1, <3>1 DEF Reframed, IInv, StackOK
    <2>3. QED
      BY <2>1, <2>2
  <1>9. QED
    BY <1>1, <1>7, <1>8 DEF Reframing

LEMMA ReturnReframes ==
  ASSUME IInv, NEW t \in Threads, Return(t)
  PROVE  Reframing
  <1> DEFINE e == depth[t]
  <1>1. /\ At(t, "body") \/ At(t, "return")
        /\ UNCHANGED <<method, hook, todo>>
        /\ depth' = [depth EXCEPT ![t] = e - 1]
        /\ frame' = [frame EXCEPT ![t] = [frame[t] EXCEPT ![e] = NoFrame]]
    BY DEF Return
  <1>2. e \in Levels /\ frame[t][e] \in Frame /\ frame[t][e].at \in {"body", "return"}
    BY <1>1, TopFrame DEF At, Top, IInv
  <1>3. NoFrame \in Frame
    BY DEF NoFrame, Frame, Steps
  <1>4. /\ frame[t] \in [Levels -> Frame] /\ frame \in [Threads -> [Levels -> Frame]]
        /\ depth \in [Threads -> 0..MaxDepth]
    BY DEF IInv, TypeOK
  <1>5. frame' \in [Threads -> [Levels -> Frame]] /\ depth' \in [Threads -> 0..MaxDepth]
    BY <1>1, <1>2, <1>3, <1>4, DepthAssumption DEF Levels
  <1>6. ASSUME NEW u \in Threads, NEW d \in Levels
        PROVE  Reframed(u, d) /\ (d > depth'[u] => frame'[u][d].at = "none")
    <2>1. CASE u = t /\ d = e
      <3>1. frame'[u][d] = NoFrame
        BY <1>1, <1>2, <1>4, <2>1
      <3>2. QED
        BY <1>2, <2>1, <3>1 DEF Reframed, NoFrame
    <2>2. CASE u # t \/ d # e
      <3>1. frame'[u][d] = frame[u][d]
        BY <1>1, <1>2, <1>4, <2>2
      <3>2. d > depth'[u] => d > depth[u]
        BY <1>1, <1>2, <1>4, <2>2, DepthAssumption DEF Levels
      <3>3. QED
        BY <3>1, <3>2 DEF Reframed, IInv, StackOK
    <2>3. QED
      BY <2>1, <2>2
  <1>7. QED
    BY <1>1, <1>5, <1>6 DEF Reframing

LEMMA CallOriginalReframes ==
  ASSUME IInv, NEW t \in Threads, CallOriginal(t)
  PROVE  Reframing
  <1> DEFINE e == depth[t]
             m == Top(t).m
             f == [frame[t][e] EXCEPT !.at = "calling"]
  <1>1. At(t, "original") /\ UNCHANGED <<method, hook, todo>>
    BY DEF CallOriginal
  <1>2. e \in Levels /\ frame[t][e] \in Frame /\ frame[t][e].at = "original"
        /\ frame[t][e].m = m
    BY <1>1, TopFrame DEF At, Top, IInv
  <1>3. m \in Methods
    BY <1>1, TopMethod DEF MovingSteps, HandlerSteps
  <1>4. f \in Frame /\ f.at = "calling" /\ f.m = m
    BY <1>2 DEF Frame, Steps, HandlerSteps
  <1>5. Invocation(m) \in Frame /\ Invocation(m).at = "push" /\ Invocation(m).m = m
    BY <1>3 DEF Invocation, Frame, Steps, DispatchSteps
  <1>6. /\ frame[t] \in [Levels -> Frame] /\ frame \in [Threads -> [Levels -> Frame]]
        /\ depth \in [Threads -> 0..MaxDepth]
    BY DEF IInv, TypeOK
  <1>7. CASE depth[t] < MaxDepth
    <2>1. e + 1 \in Levels /\ e + 1 # e
      BY <1>2, <1>7, DepthAssumption DEF Levels
    <2>2. /\ depth' = [depth EXCEPT ![t] = e + 1]
          /\ frame' = [frame EXCEPT ![t][e].at = "calling",
                                    ![t][e + 1] = Invocation(m)]
      BY <1>7 DEF CallOriginal
    <2>3. frame' = [frame EXCEPT ![t] = [[frame[t] EXCEPT ![e] = f]
                                          EXCEPT ![e + 1] = Invocation(m)]]
      BY <1>2, <1>6, <2>1, <2>2
    <2> HIDE DEF f
    <2>4. /\ frame' \in [Threads -> [Levels -> Frame]]
          /\ depth' \in [Threads -> 0..MaxDepth]
      <3>1. frame' \in [Threads -> [Levels -> Frame]]
        BY <1>2, <1>4, <1>5, <1>6, <2>1, <2>3
      <3>2. e + 1 \in 0..MaxDepth
        BY <2>1, DepthAssumption DEF Levels
      <3>3. QED
        BY <1>6, <2>2, <3>1, <3>2
    <2>5. frame[t][e + 1].at = "none"
      BY <1>6, <2>1, DepthAssumption DEF IInv, StackOK
    <2>6. ASSUME NEW u \in Threads, NEW d \in Levels
          PROVE  Reframed(u, d) /\ (d > depth'[u] => frame'[u][d].at = "none")
      <3>1. CASE u = t /\ d = e
        <4>1. frame'[u][d] = f
          BY <1>2, <1>6, <2>1, <2>3, <3>1
        <4>2. ~(d > depth'[u])
          BY <1>2, <1>6, <2>2, <3>1 DEF Levels
        <4>3. QED
          BY <1>2, <1>4, <3>1, <4>1, <4>2 DEF Reframed
      <3>2. CASE u = t /\ d = e + 1
        <4>1. frame'[u][d] = Invocation(m)
          BY <1>2, <1>6, <2>1, <2>3, <3>2
        <4>2. ~(d > depth'[u])
          BY <1>2, <1>6, <2>2, <3>2 DEF Levels
        <4>3. QED
          BY <1>3, <1>5, <2>5, <3>2, <4>1, <4>2 DEF Reframed
      <3>3. CASE u # t \/ (d # e /\ d # e + 1)
        <4>1. frame'[u][d] = frame[u][d]
          BY <1>2, <1>6, <2>1, <2>3, <3>3
        <4>2. d > depth'[u] => d > depth[u]
          BY <1>6, <2>1, <2>2, DepthAssumption DEF Levels
        <4>3. QED
          BY <4>1, <4>2 DEF Reframed, IInv, StackOK
      <3>4. QED
        BY <3>1, <3>2, <3>3
    <2>7. QED
      BY <1>1, <2>4, <2>6 DEF Reframing
  <1>8. CASE ~(depth[t] < MaxDepth)
    <2>1. /\ depth[t] > 0 /\ depth' = depth /\ Goto(t, "calling")
          /\ TypeOK /\ "calling" \in Steps
      BY <1>1, <1>8 DEF CallOriginal, At, IInv, Steps, HandlerSteps
    <2>2. /\ frame' \in [Threads -> [Levels -> Frame]]
          /\ frame'[t][e].at = "calling" /\ frame'[t][e].m = m
          /\ \A u \in Threads, d \in Levels :
               u # t \/ d # e => frame'[u][d] = frame[u][d]
      BY <2>1, GotoStep
    <2>3. ASSUME NEW u \in Threads, NEW d \in Levels
          PROVE  Reframed(u, d) /\ (d > depth'[u] => frame'[u][d].at = "none")
      <3>1. CASE u = t /\ d = e
        <4>1. ~(d > depth'[u])
          BY <1>2, <2>1, <3>1 DEF Levels
        <4>2. QED
          BY <1>2, <2>2, <3>1, <4>1 DEF Reframed
      <3>2. CASE u # t \/ d # e
        BY <2>1, <2>2, <3>2 DEF Reframed, IInv, StackOK
      <3>3. QED
        BY <3>1, <3>2
    <2>4. QED
      BY <1>1, <1>6, <2>1, <2>2, <2>3 DEF Reframing
  <1>9. QED
    BY <1>7, <1>8

(* The installing thread enters do_patch() with an empty stack.            *)
LEMMA EpollWaitReframes ==
  ASSUME IInv, NEW t \in Threads, EpollWait(t)
  PROVE  Reframing
  <1> DEFINE f == [frame[t][1] EXCEPT !.at = "find"]
  <1>1. /\ depth[t] = 0 /\ UNCHANGED <<method, hook, todo>>
        /\ depth' = [depth EXCEPT ![t] = 1]
        /\ frame' = [frame EXCEPT ![t] = [frame[t] EXCEPT ![1] = f]]
    BY DEF EpollWait
  <1>2. /\ frame[t] \in [Levels -> Frame] /\ frame \in [Threads -> [Levels -> Frame]]
        /\ depth \in [Threads -> 0..MaxDepth] /\ 1 \in Levels
    BY DepthAssumption DEF IInv, TypeOK, Levels
  <1>3. f \in Frame /\ f.at = "find"
    BY <1>2 DEF Frame, Steps, InstallSteps
  <1> HIDE DEF f
  <1>4. frame' \in [Threads -> [Levels -> Frame]] /\ depth' \in [Threads -> 0..MaxDepth]
    BY <1>1, <1>2, <1>3, DepthAssumption
  <1>5. frame[t][1].at = "none"
    BY <1>1, <1>2 DEF IInv, StackOK
  <1>6. ASSUME NEW u \in Threads, NEW d \in Levels
        PROVE  Reframed(u, d) /\ (d > depth'[u] => frame'[u][d].at = "none")
    <2>1. CASE u = t /\ d = 1
      <3>1. frame'[u][d] = f /\ ~(d > depth'[u])
        BY <1>1, <1>2, <2>1
      <3>2. QED
        BY <1>1, <1>3, <1>5, <2>1, <3>1 DEF Reframed
    <2>2. CASE u # t \/ d # 1
      <3>1. frame'[u][d] = frame[u][d]
        BY <1>1, <1>2, <2>2
      <3>2. d > depth'[u] => d > depth[u]
        BY <1>1, <1>2, DepthAssumption DEF Levels
      <3>3. QED
        BY <3>1, <3>2 DEF Reframed, IInv, StackOK
    <2>3. QED
      BY <2>1, <2>2
  <1>7. QED
    BY <1>1, <1>4, <1>6 DEF Reframing

LEMMA PatchDoneReframes ==
  ASSUME IInv, NEW t \in Threads, PatchDone(t)
  PROVE  Reframing
  <1>1. /\ TypeOK /\ depth[t] > 0 /\ Goto(t, "return") /\ "return" \in Steps
        /\ Top(t).at = "find" /\ UNCHANGED <<method, hook, todo, depth>>
    BY DEF PatchDone, Dispatch, At, IInv, Steps
  <1>2. /\ frame' \in [Threads -> [Levels -> Frame]] /\ depth[t] \in Levels
        /\ frame'[t][depth[t]].at = "return"
        /\ \A u \in Threads, d \in Levels :
             u # t \/ d # depth[t] => frame'[u][d] = frame[u][d]
    BY <1>1, GotoStep
  <1>3. ASSUME NEW u \in Threads, NEW d \in Levels
        PROVE  Reframed(u, d) /\ (d > depth'[u] => frame'[u][d].at = "none")
    <2>1. CASE u = t /\ d = depth[t]
      <3>1. ~(d > depth'[u])
        BY <1>1, <1>2, <2>1 DEF Levels
      <3>2. QED
        BY <1>1, <1>2, <2>1, <3>1 DEF Reframed, Top
    <2>2. CASE u # t \/ d # depth[t]
      BY <1>1, <1>2, <2>2 DEF Reframed, IInv, StackOK
    <2>3. QED
      BY <2>1, <2>2
  <1>4. depth' \in [Threads -> 0..MaxDepth]
    BY <1>1 DEF TypeOK
  <1>5. QED
    BY <1>1, <1>2, <1>3, <1>4 DEF Reframing

(* A do_patch() that takes an entry off its table comes to that method; no *)
(* other method has more threads come to it.                               *)
LEMMA TodoTaken ==
  ASSUME IInv, NEW t \in Threads, NEW m \in todo[t],
         todo' = [todo EXCEPT ![t] = @ \ {m}]
  PROVE  /\ todo' \in [Threads -> SUBSET Methods]
         /\ m \in Methods /\ m \notin todo'[t]
         /\ \A u \in Threads : \A n : n \notin todo[u] => n \notin todo'[u]
         /\ \A n : Once(n, todo') => Once(n, todo)
         /\ \A n : Fresh(n, todo') => Fresh(n, todo) /\ n # m
         /\ Once(m, todo') => Fresh(m, todo)
  <1>1. todo \in [Threads -> SUBSET Methods]
    BY DEF IInv, TypeOK
  <1>2. /\ todo' \in [Threads -> SUBSET Methods]
        /\ m \in Methods /\ m \notin todo'[t]
        /\ \A u \in Threads : \A n : n \notin todo[u] => n \notin todo'[u]
        /\ \A u \in Threads : u # t => todo'[u] = todo[u]
    BY <1>1
  <1>3. ASSUME NEW n, Once(n, todo') PROVE Once(n, todo)
    BY <1>2, <1>3 DEF Once
  <1>4. ASSUME NEW n, Fresh(n, todo') PROVE Fresh(n, todo) /\ n # m
    BY <1>2, <1>4 DEF Fresh
  <1>5. ASSUME Once(m, todo') PROVE Fresh(m, todo)
    <2>1. ASSUME NEW u \in Threads PROVE m \in todo[u]
      <3>1. CASE u = t
        BY <3>1
      <3>2. CASE u # t
        BY <1>2, <1>5, <3>2 DEF Once
      <3>3. QED
        BY <3>1, <3>2
    <2>2. QED
      BY <2>1 DEF Fresh
  <1>6. QED
    BY <1>2, <1>3, <1>4, <1>5

LEMMA HookNotFoundStep ==
  ASSUME IInv, NEW t \in Threads, NEW m \in Methods, HookNotFound(t, m)
  PROVE  IInv'
  <1>1. /\ m \in todo[t] /\ todo' = [todo EXCEPT ![t] = @ \ {m}]
        /\ UNCHANGED <<method, hook, frame, depth>>
    BY DEF HookNotFound
  <1>2. /\ todo' \in [Threads -> SUBSET Methods]
        /\ \A u \in Threads : \A n : n \notin todo[u] => n \notin todo'[u]
        /\ \A n : Once(n, todo') => Once(n, todo)
        /\ \A n : Fresh(n, todo') => Fresh(n, todo)
    BY <1>1, TodoTaken
  <1>3. TypeOK'
    BY <1>1, <1>2 DEF IInv, TypeOK
  <1>4. StackOK' /\ InstallProgress' /\ HandlersInstalled'
    BY <1>1 DEF IInv, StackOK, InstallProgress, HandlersInstalled, Installed
  <1>5. InstallOK'
    BY <1>1, <1>2 DEF IInv, InstallOK, Installed, StoreSteps
  <1>9. SavedSome'
    BY <1>1 DEF IInv, SavedSome, Installed
  <1>6. SavedOK'
    <2>1. /\ \A n \in Methods : Fresh(n, todo') =>
               ~method[n].native /\ method[n].insns = "code" /\ method[n].regs = Rss[n]
          /\ \A n \in Methods : Installed(n) /\ Once(n, todo') => CodeSaved(n)
      BY <1>2 DEF IInv, SavedOK
    <2>2. ASSUME NEW u \in Threads, NEW d \in Levels,
                 frame[u][d].at \in StoreSteps, Once(frame[u][d].m, todo')
          PROVE  /\ hook[frame[u][d].m].insns = "code"
                 /\ frame[u][d].at = "hookSaveSizes" =>
                      method[frame[u][d].m].regs = Rss[frame[u][d].m]
                 /\ frame[u][d].at # "hookSaveSizes" =>
                      hook[frame[u][d].m].regs = Rss[frame[u][d].m]
      BY <1>2, <2>2 DEF IInv, SavedOK
    <2>3. QED
      BY <1>1, <2>1, <2>2 DEF SavedOK, Installed, CodeSaved
  <1>7. WindowsOK'
    BY <1>1 DEF IInv, WindowsOK, Installed, SomeFrame, FlagsWindow, ArgInfoWindow,
                InsnsWindow, SizesWindow, CallSteps
  <1>8. QED
    BY <1>3, <1>4, <1>5, <1>6, <1>7, <1>9 DEF IInv

(* dalvik_hook() saves insns, of an untouched method or of another's.      *)
LEMMA HookFoundStep ==
  ASSUME IInv, NEW t \in Threads, NEW m \in Methods, HookFound(t, m)
  PROVE  IInv'
  <1> DEFINE e == depth[t]
             f == [frame[t][e] EXCEPT !.at = "hookSaveSizes", !.m = m]
             h == [hook[m] EXCEPT !.insns = method[m].insns]
  <1>1. /\ At(t, "find") /\ m \in todo[t] /\ todo' = [todo EXCEPT ![t] = @ \ {m}]
        /\ UNCHANGED <<method, depth>>
    BY DEF HookFound
  <1>2. e \in Levels /\ frame[t][e] \in Frame /\ frame[t][e].at = "find"
    BY <1>1, TopFrame DEF At, Top, IInv
  <1>3. e = 1
    BY <1>2 DEF IInv, InstallOK, InstallSteps
  <1>4. /\ frame[t] \in [Levels -> Frame] /\ frame \in [Threads -> [Levels -> Frame]]
        /\ method \in [Methods -> MethodRecord] /\ hook \in [Methods -> HookRecord]
        /\ depth \in [Threads -> 0..MaxDepth]
    BY DEF IInv, TypeOK
  <1>5. /\ todo' \in [Threads -> SUBSET Methods] /\ m \notin todo'[t]
        /\ \A u \in Threads : \A n : n \notin todo[u] => n \notin todo'[u]
        /\ \A n : Once(n, todo') => Once(n, todo)
        /\ \A n : Fresh(n, todo') => Fresh(n, todo) /\ n # m
        /\ Once(m, todo') => Fresh(m, todo)
    BY <1>1, TodoTaken
  <1>21. Fresh(m, todo) => /\ method[m].insns = "code" /\ method[m].regs = Rss[m]
                     /\ method[m].func # "bridge"
    BY DEF IInv, SavedOK, InstallOK, Installed
  <1>6. f \in Frame /\ f.at = "hookSaveSizes" /\ f.m = m
    BY <1>2 DEF Frame, Steps, InstallSteps
  <1>7. h \in HookRecord /\ h.insns = method[m].insns
    <2>1. hook[m] \in HookRecord /\ method[m].insns \in {"code", "handler"}
      BY <1>4 DEF MethodRecord
    <2>2. QED
      BY <2>1 DEF HookRecord
  <1>8. frame' = [frame EXCEPT ![t] = [frame[t] EXCEPT ![e] = f]]
    <2>1. frame' = [frame EXCEPT ![t][e].at = "hookSaveSizes", ![t][e].m = m]
      BY DEF HookFound
    <2>2. QED
      BY <1>2, <1>4, <2>1
  <1>9. hook' = [hook EXCEPT ![m] = h]
    <2>1. hook' = [hook EXCEPT ![m].insns = method[m].insns]
      BY DEF HookFound
    <2>2. QED
      BY <1>4, <2>1
  <1> HIDE DEF f, h
  <1>10. /\ frame' \in [Threads -> [Levels -> Frame]]
         /\ frame'[t][e].at = "hookSaveSizes" /\ frame'[t][e].m = m
         /\ \A u \in Threads, d \in Levels :
              u # t \/ d # e => frame'[u][d] = frame[u][d]
    BY <1>2, <1>4, <1>6, <1>8
  <1>11. /\ hook' \in [Methods -> HookRecord]
         /\ hook'[m].insns = method[m].insns
         /\ \A n \in Methods : n # m => hook'[n] = hook[n]
    BY <1>4, <1>7, <1>9
  <1>12. TypeOK'
    BY <1>1, <1>4, <1>5, <1>10, <1>11 DEF TypeOK
  <1>13. StackOK'
    <2> SUFFICES ASSUME NEW u \in Threads, NEW d \in Levels
                 PROVE  /\ d > depth'[u] => frame'[u][d].at = "none"
                        /\ frame'[u][d].at \in MovingSteps \cup {"body"}
                             => frame'[u][d].m \in Methods
      BY DEF StackOK, MovingSteps
    <2>1. CASE u = t /\ d = e
      <3>1. ~(d > depth'[u])
        BY <1>1, <1>2, <2>1 DEF Levels
      <3>2. QED
        BY <1>10, <2>1, <3>1
    <2>2. CASE u # t \/ d # e
      BY <1>1, <1>10, <2>2 DEF IInv, StackOK, MovingSteps
    <2>3. QED
      BY <2>1, <2>2
  <1>14. ASSUME NEW u \in Threads, NEW d \in Levels, u # t \/ d # e,
                frame[u][d].at \in StoreSteps, Once(frame[u][d].m, todo')
         PROVE  frame[u][d].m # m
    <2>1. CASE frame[u][d].m = m
      <3>1. m \in todo[u]
        BY <1>5, <1>14, <2>1 DEF Fresh
      <3>2. QED
        BY <1>14, <2>1, <3>1 DEF IInv, InstallOK
    <2>2. QED
      BY <2>1
  <1>15. InstallOK'
    <2>1. ASSUME NEW u \in Threads, NEW d \in Levels
          PROVE  /\ frame'[u][d].at \in InstallSteps => d = 1
                 /\ frame'[u][d].at \in StoreSteps =>
                      /\ frame'[u][d].m \notin todo'[u]
                      /\ Once(frame'[u][d].m, todo') => ~(method'[frame'[u][d].m].func = "bridge")
      <3>1. CASE u = t /\ d = e
        BY <1>1, <1>3, <1>5, <1>10, <1>21, <3>1
      <3>2. CASE u # t \/ d # e
        <4>1. frame'[u][d] = frame[u][d]
          BY <1>10, <3>2
        <4>2. /\ frame[u][d].at \in InstallSteps => d = 1
              /\ frame[u][d].at \in StoreSteps =>
                   /\ frame[u][d].m \notin todo[u]
                   /\ Once(frame[u][d].m, todo) => ~(method[frame[u][d].m].func = "bridge")
          BY DEF IInv, InstallOK, Installed
        <4>3. QED
          BY <1>1, <1>5, <4>1, <4>2
      <3>3. QED
        BY <3>1, <3>2
    <2>2. \A n \in Methods : Fresh(n, todo') => ~(method'[n].func = "bridge")
      BY <1>1, <1>5 DEF IInv, InstallOK, Installed
    <2>3. QED
      BY <2>1, <2>2 DEF InstallOK, Installed
  <1>16. InstallProgress'
    <2>1. ASSUME NEW u \in Threads, NEW d \in Levels
          PROVE  LET f1 == frame'[u][d] IN
                 f1.at \in StoreSteps /\ ~(method'[f1.m].func = "bridge") =>
                   /\ f1.at \in {"hookArgInfo", "hookSave", "hookFlags", "hookInsns", "hookFunc"}
                        => method'[f1.m].regs = ArgSize[f1.m]
                   /\ f1.at \in {"hookSave", "hookFlags", "hookInsns", "hookFunc"}
                        => method'[f1.m].compute
                   /\ f1.at \in {"hookInsns", "hookFunc"} => method'[f1.m].native
                   /\ f1.at = "hookFunc" => method'[f1.m].insns = "handler"
      <3>1. CASE u = t /\ d = e
        BY <1>10, <3>1
      <3>2. CASE u # t \/ d # e
        <4>1. frame'[u][d] = frame[u][d] /\ method' = method
          BY <1>1, <1>10, <3>2
        <4>2. InstallProgress!(u, d)
          BY DEF IInv, InstallProgress
        <4>3. QED
          BY <4>1, <4>2 DEF Installed
      <3>3. QED
        BY <3>1, <3>2
    <2>2. QED
      BY <2>1 DEF InstallProgress, Installed
  <1>17. HandlersInstalled'
    BY <1>1, <1>10 DEF IInv, HandlersInstalled, Installed, HandlerSteps,
       PrepareSteps, PostSteps
  <1>22. SavedSome'
    <2>1. \A n \in Methods : hook[n].insns # "none" => hook'[n].insns # "none"
      BY <1>4, <1>11 DEF MethodRecord
    <2>2. hook'[m].insns # "none"
      BY <1>4, <1>11 DEF MethodRecord
    <2>3. ASSUME NEW u \in Threads, NEW d \in Levels,
                 frame'[u][d].at \in StoreSteps
          PROVE  hook'[frame'[u][d].m].insns # "none"
      <3>1. CASE u = t /\ d = e
        BY <1>10, <2>2, <3>1
      <3>2. CASE u # t \/ d # e
        <4>1. /\ frame'[u][d] = frame[u][d] /\ frame[u][d].m \in Methods
              /\ hook[frame[u][d].m].insns # "none"
          BY <1>10, <2>3, <3>2 DEF IInv, StackOK, SavedSome
        <4>2. QED
          BY <2>1, <4>1
      <3>3. QED
        BY <3>1, <3>2
    <2>4. QED
      BY <1>1, <2>1, <2>3 DEF IInv, SavedSome, Installed
  <1>18. SavedOK'
    <2>1. \A n \in Methods : Fresh(n, todo') =>
            ~method'[n].native /\ method'[n].insns = "code" /\ method'[n].regs = Rss[n]
      BY <1>1, <1>5 DEF IInv, SavedOK
    <2>2. ASSUME NEW u \in Threads, NEW d \in Levels,
                 frame'[u][d].at \in StoreSteps, Once(frame'[u][d].m, todo')
          PROVE  /\ hook'[frame'[u][d].m].insns = "code"
                 /\ frame'[u][d].at = "hookSaveSizes" =>
                      method'[frame'[u][d].m].regs = Rss[frame'[u][d].m]
                 /\ frame'[u][d].at # "hookSaveSizes" =>
                      hook'[frame'[u][d].m].regs = Rss[frame'[u][d].m]
      <3>1. CASE u = t /\ d = e
        BY <1>1, <1>5, <1>10, <1>11, <1>21, <2>2, <3>1
      <3>2. CASE u # t \/ d # e
        <4> DEFINE n == frame[u][d].m
        <4>1. frame'[u][d] = frame[u][d]
          BY <1>10, <3>2
        <4>2. frame[u][d].at \in StoreSteps /\ Once(n, todo') /\ Once(n, todo)
          BY <1>5, <2>2, <4>1
        <4>3. n # m
          BY <1>14, <3>2, <4>2
        <4>4. n \in Methods
          BY <4>2 DEF IInv, StackOK
        <4>5. /\ hook[n].insns = "code"
              /\ frame[u][d].at = "hookSaveSizes" => method[n].regs = Rss[n]
              /\ frame[u][d].at # "hookSaveSizes" => hook[n].regs = Rss[n]
          BY <4>2 DEF IInv, SavedOK
        <4>6. QED
          BY <1>1, <1>11, <4>1, <4>3, <4>4, <4>5
      <3>3. QED
        BY <3>1, <3>2
    <2>3. ASSUME NEW n \in Methods, Installed(n)', Once(n, todo')
          PROVE  CodeSaved(n)'
      <3>1. n # m /\ Installed(n) /\ Once(n, todo)
        BY <1>1, <1>5, <1>21, <2>3 DEF Installed
      <3>2. QED
        BY <1>11, <3>1 DEF IInv, SavedOK, CodeSaved
    <2>4. QED
      BY <2>1, <2>2, <2>3 DEF SavedOK
  <1>19. WindowsOK'
    <2>1. ASSUME NEW n, NEW S \in {FlagsWindow, ArgInfoWindow, InsnsWindow, SizesWindow},
                 SomeFrame(n, S)
          PROVE  SomeFrame(n, S)'
      <3>1. PICK u \in Threads, d \in Levels :
              frame[u][d].m = n /\ frame[u][d].at \in S
        BY <2>1 DEF SomeFrame
      <3>2. u # t \/ d # e
        BY <1>2, <3>1 DEF FlagsWindow, ArgInfoWindow, InsnsWindow, SizesWindow, CallSteps
      <3>3. frame'[u][d] = frame[u][d]
        BY <1>10, <3>2
      <3>4. QED
        BY <3>1, <3>3 DEF SomeFrame
    <2> SUFFICES ASSUME NEW n \in Methods, Installed(n)'
                 PROVE
           /\ method'[n].native \/ SomeFrame(n, FlagsWindow)'
           /\ method'[n].compute \/ SomeFrame(n, ArgInfoWindow)'
           /\ method'[n].insns = "handler" \/ SomeFrame(n, InsnsWindow)'
           /\ method'[n].regs \in {ArgSize[n], Ns[n]} \/ SomeFrame(n, SizesWindow)'
      BY DEF WindowsOK, SomeFrame, FlagsWindow, ArgInfoWindow, InsnsWindow,
             SizesWindow, CallSteps
    <2>2. /\ method[n].native \/ SomeFrame(n, FlagsWindow)
          /\ method[n].compute \/ SomeFrame(n, ArgInfoWindow)
          /\ method[n].insns = "handler" \/ SomeFrame(n, InsnsWindow)
          /\ method[n].regs \in {ArgSize[n], Ns[n]} \/ SomeFrame(n, SizesWindow)
      BY <1>1 DEF IInv, WindowsOK, Installed
    <2>3. QED
      BY <1>1, <2>1, <2>2
  <1>20. QED
    BY <1>12, <1>13, <1>15, <1>16, <1>17, <1>18, <1>19, <1>22 DEF IInv

-----------------------------------------------------------------------------
LEMMA InitIInv == Init => IInv
  <1> SUFFICES ASSUME Init PROVE IInv
    OBVIOUS
  <1>1. \A m \in Methods : /\ method[m] = LoadedMethod(m)
                           /\ LoadedMethod(m) \in MethodRecord
    BY SizeAssumption DEF Init, LoadedMethod, MethodRecord
  <1>2. \A t \in Threads, d \in Levels : frame[t][d] = NoFrame /\ NoFrame \in Frame
    BY DEF Init, NoFrame, Frame, Steps
  <1>3. \A m \in Methods : hook[m] \in HookRecord
    BY DEF Init, HookRecord
  <1>4. TypeOK
    BY <1>1, <1>2, <1>3, DepthAssumption DEF Init, TypeOK
  <1>5. StackOK /\ InstallProgress /\ HandlersInstalled
    BY <1>2 DEF StackOK, InstallProgress, HandlersInstalled, NoFrame, StoreSteps,
       InstallSteps, DispatchSteps, HandlerSteps, PrepareSteps, PostSteps
  <1>6. InstallOK /\ SavedSome /\ SavedOK /\ WindowsOK
    BY <1>1, <1>2 DEF Init, InstallOK, SavedSome, SavedOK, WindowsOK, Fresh, Once, Installed, LoadedMethod,
       NoFrame, StoreSteps, InstallSteps
  <1>7. QED
    BY <1>4, <1>5, <1>6 DEF IInv

LEMMA NextIInv == IInv /\ [Next]_vars => IInv'
  <1> SUFFICES ASSUME IInv, [Next]_vars PROVE IInv'
    OBVIOUS
  <1>1. CASE UNCHANGED vars
    <2>1. /\ \A u \in Threads, d \in Levels :
               Reframed(u, d) /\ (d > depth'[u] => frame'[u][d].at = "none")
          /\ UNCHANGED <<method, hook, todo, frame, depth>>
      BY <1>1 DEF vars, Reframed, IInv, StackOK
    <2>2. QED
      BY <2>1, ReframePreserves DEF Reframing, IInv, TypeOK
  <1>2. ASSUME NEW t \in Threads, Invoke(t)
        PROVE  IInv'
    BY <1>2, CallReframes, PushFrameReframes, ReframePreserves, TestNativeStep, EnterCodeStep,
       CallNativeFuncStep, CallBridgeStep, ReturnReframes DEF Invoke
  <1>3. ASSUME NEW t \in Threads, Install(t)
        PROVE  IInv'
    BY <1>3, EpollWaitReframes, ReframePreserves, HookNotFoundStep, HookFoundStep, HookSaveSizesStep,
       HookSizesStep, HookArgInfoStep, HookSaveStep, HookFlagsStep, HookInsnsStep, HookFuncStep,
       PatchDoneReframes DEF Install
  <1>4. ASSUME NEW t \in Threads, Handle(t)
        PROVE  IInv'
    BY <1>4, PrepareSizesStep, PrepareFlagsStep, PrepareArgInfoStep,
       PrepareInsnsStep, CallOriginalReframes, ReframePreserves, PostSizesStep, PostArgInfoStep,
       PostSaveStep, PostFlagsStep, PostInsnsStep, PostFuncStep DEF Handle
  <1>5. QED
    BY <1>1, <1>2, <1>3, <1>4 DEF Next

(* The inductive invariant holds of every behaviour.                       *)
THEOREM Invariance == Spec => []IInv
  <1>1. QED
    BY InitIInv, NextIInv, PTL DEF Spec

(* Every variable of the model keeps its type, whatever the threads do.    *)
THEOREM TypeCorrect == Spec => []TypeOK
  <1>1. IInv => TypeOK
    BY DEF IInv
  <1>2. QED
    BY <1>1, Invariance, PTL

(* An installed hook survives any interleaving of any number of handlers:  *)
(* the method is fully hooked whenever no handler of it is between         *)
(* dalvik_prepare() and dalvik_postcall().                                 *)
THEOREM HookSurvives == Spec => []HookRestored
  <1>1. IInv => HookRestored
    <2> SUFFICES ASSUME IInv, NEW m \in Methods, Installed(m),
                        ~SomeFrame(m, Window)
                 PROVE  FullyHooked(m)
      BY DEF HookRestored
    <2>1. ~SomeFrame(m, FlagsWindow) /\ ~SomeFrame(m, ArgInfoWindow)
          /\ ~SomeFrame(m, InsnsWindow) /\ ~SomeFrame(m, SizesWindow)
      BY DEF SomeFrame, Window
    <2>2. QED
      BY <2>1 DEF IInv, WindowsOK, FullyHooked
  <1>2. QED
    BY <1>1, Invariance, PTL

(* A step of one thread leaves the stacks of the others alone.             *)
LEMMA OtherStacks ==
  ASSUME IInv, NEW s \in Threads, Invoke(s) \/ Install(s) \/ Handle(s),
         NEW t \in Threads, t # s
  PROVE  frame'[t] = frame[t]
  <1>1. frame \in [Threads -> [Levels -> Frame]]
    BY DEF IInv, TypeOK
  <1>2. \/ UNCHANGED frame
        \/ \E f : frame' = [frame EXCEPT ![s] = f]
    BY DEF Invoke, Install, Handle, Call, PushFrame, TestNative, EnterCode,
       CallNativeFunc, CallBridge, Return, EpollWait, HookNotFound, HookFound,
       HookSaveSizes, HookSizes, HookArgInfo, HookSave, HookFlags, HookInsns, HookFunc, PatchDone,
       PrepareSizes, PrepareFlags, PrepareArgInfo, PrepareInsns, CallOriginal,
       PostSizes, PostArgInfo, PostSave, PostFlags, PostInsns, PostFunc,
       Write, Save, Dispatch, Goto
  <1>3. QED
    BY <1>1, <1>2

(* A thread about to test ACC_NATIVE does that and nothing else.           *)
LEMMA OnlyTest ==
  ASSUME NEW t \in Threads, At(t, "test"), Invoke(t) \/ Install(t) \/ Handle(t)
  PROVE  TestNative(t)
  BY DEF At, Invoke, Install, Handle, Call, PushFrame, TestNative, EnterCode,
       CallNativeFunc, CallBridge, Return, EpollWait, HookNotFound, HookFound,
       HookSaveSizes, HookSizes, HookArgInfo, HookSave, HookFlags, HookInsns, HookFunc, PatchDone,
       PrepareSizes, PrepareFlags, PrepareArgInfo, PrepareInsns, CallOriginal,
       PostSizes, PostArgInfo, PostSave, PostFlags, PostInsns, PostFunc,
       Write, Save, Dispatch

(* A call can only slip past an installed hook while a handler of the same *)
(* method has put ACC_NATIVE back to its saved value.                      *)
THEOREM Interception == Spec => CallsIntercepted
  <1>1. ASSUME IInv, Next, NEW t \in Threads, At(t, "test"),
               Installed(Top(t).m), ~SomeFrame(Top(t).m, FlagsWindow)
        PROVE  frame'[t][depth[t]].at # "code"
    <2>1. /\ TypeOK /\ depth[t] > 0 /\ depth[t] \in Levels
          /\ frame[t][depth[t]].at = "test" /\ Top(t).m \in Methods
      BY <1>1, TopFrame, TopMethod DEF IInv, At, Top, MovingSteps, DispatchSteps
    <2>2. PICK s \in Threads : Invoke(s) \/ Install(s) \/ Handle(s)
      BY <1>1 DEF Next
    <2>3. CASE s # t
      BY <1>1, <2>1, <2>2, <2>3, OtherStacks
    <2>4. CASE s = t
      <3>1. M(t).native
        BY <1>1, <2>1 DEF IInv, WindowsOK, M
      <3>2. TestNative(t)
        BY <1>1, <2>2, <2>4, OnlyTest
      <3>3. Goto(t, "native") /\ "native" \in Steps
        BY <3>1, <3>2 DEF TestNative, Dispatch, Steps, DispatchSteps
      <3>4. QED
        BY <2>1, <3>3, GotoStep
    <2>5. QED
      BY <2>3, <2>4
  <1>2. IInv /\ [Next]_vars =>
          [\A t \in Threads :
             At(t, "test") /\ Installed(Top(t).m) /\ ~SomeFrame(Top(t).m, FlagsWindow)
               => frame'[t][depth[t]].at # "code"]_vars
    BY <1>1
  <1>3. QED
    BY <1>2, Invariance, PTL DEF Spec, CallsIntercepted

-----------------------------------------------------------------------------
(***************************************************************************)
(* One thread alone.  AloneOK is inductive relative to IInv while the      *)
(* other threads' stacks are empty: only the top of Solo's stack moves,    *)
(* and a method has one handler on it.                                     *)
(***************************************************************************)

LEMMA SoloThread == Solo \in Threads
  BY SoloAssumption, InstallerAssumption

(* No other thread's do_patch() comes to a method.                         *)
LEMMA AloneOnce ==
  ASSUME IInv, AloneOK
  PROVE  /\ \A m \in Methods : Once(m, todo)
         /\ \A m \in todo[Solo] : m \in Methods /\ Fresh(m, todo)
  <1>1. todo[Solo] \subseteq Methods
    BY SoloThread DEF IInv, TypeOK
  <1>2. \A t \in Threads : t # Solo => todo[t] = Methods
    BY DEF AloneOK
  <1>3. \A m \in Methods : Once(m, todo)
    BY <1>2 DEF Once
  <1>4. \A m \in todo[Solo] : Fresh(m, todo)
    BY <1>1, <1>2 DEF Fresh
  <1> QED
    BY <1>1, <1>3, <1>4

(* Most steps ask nothing of the record of their method.                   *)
LEMMA FreeSteps ==
  ASSUME NEW s \in Steps \ {"wild"}, NEW m, NEW r,
         s \notin MovingSteps \cup {"body"} \/ s \in {"push", "test"}
  PROVE  StepOK(s, m, r)
  BY DEF StepOK, Steps, MovingSteps, StoreSteps, InstallSteps, DispatchSteps,
     HandlerSteps, PrepareSteps, PostSteps, SizesWindow, CallSteps

(* A frame that is neither waiting nor empty is the top of the stack.      *)
LEMMA AloneTop ==
  ASSUME IInv, AloneOK, NEW d \in Levels,
         Stack[d].at \notin {"none", "body", "calling"}
  PROVE  d = depth[Solo]
  BY SoloThread, DepthAssumption
     DEF IInv, TypeOK, StackOK, AloneOK, Nested, Stack, Levels

(* The other threads have no frames.                                       *)
LEMMA AloneFrames ==
  ASSUME IInv, AloneOK, NEW m, NEW S, "none" \notin S, SomeFrame(m, S)
  PROVE  \E d \in Levels : Stack[d].m = m /\ Stack[d].at \in S
  <1>1. PICK u \in Threads, d \in Levels : frame[u][d].m = m /\ frame[u][d].at \in S
    BY DEF SomeFrame
  <1>2. CASE u = Solo
    BY <1>1, <1>2 DEF Stack
  <1>3. CASE u # Solo
    <2>1. depth[u] = 0
      BY <1>3 DEF AloneOK
    <2>2. frame[u][d].at = "none"
      BY <2>1, DepthAssumption DEF IInv, StackOK, Levels
    <2> QED
      BY <1>1, <2>2
  <1> QED
    BY <1>2, <1>3

(* What a dispatch finds: a method flagged native is fully hooked and has  *)
(* no handler or bytecode on the stack, any other is as it was loaded.     *)
LEMMA AloneDispatch ==
  ASSUME IInv, AloneOK, NEW from \in DispatchSteps, At(Solo, from)
  PROVE  /\ Top(Solo).m \in Methods /\ M(Solo) \in MethodRecord
         /\ M(Solo).native =>
              /\ M(Solo).func = "bridge" /\ M(Solo).insns = "handler"
              /\ \A d \in Levels : Stack[d].m = Top(Solo).m =>
                   Stack[d].at \notin HandlerSteps \cup {"body"}
         /\ ~M(Solo).native =>
              M(Solo).insns = "code" /\ M(Solo).regs = Rss[Top(Solo).m]
  <1> DEFINE k == depth[Solo]
             m == Top(Solo).m
  <1>1. m \in Methods /\ M(Solo) \in MethodRecord /\ Top(Solo).at = from
    BY SoloThread, TopMethod DEF MovingSteps
  <1>2. TypeOK /\ k > 0 /\ k \in Levels
    BY SoloThread, TopFrame DEF IInv, At
  <1>3. Stack[k].at = from /\ from \notin StoreSteps \cup HandlerSteps \cup {"none", "body"}
    BY <1>1 DEF Stack, Top, StoreSteps, InstallSteps, DispatchSteps, HandlerSteps,
       PrepareSteps, PostSteps
  <1>4. M(Solo) = method[m]
    BY DEF M
  <1> HIDE DEF m, k
  <1>5. ~SomeFrame(m, StoreSteps)
    <2> SUFFICES ASSUME SomeFrame(m, StoreSteps) PROVE FALSE
      OBVIOUS
    <2>1. "none" \notin StoreSteps /\ "body" \notin StoreSteps /\ "calling" \notin StoreSteps
      BY DEF StoreSteps, InstallSteps
    <2>2. PICK d \in Levels : Stack[d].at \in StoreSteps
      BY <2>1, AloneFrames
    <2>3. d = k
      BY <2>1, <2>2, AloneTop DEF k
    <2> QED
      BY <1>3, <2>2, <2>3
  <1>6. ASSUME NEW d \in Levels, Stack[d].m = m, Stack[d].at \in HandlerSteps
        PROVE  /\ Stack[d].at = "calling"
               /\ ~method[m].native /\ method[m].insns = "code" /\ method[m].regs = Rss[m]
    <2>1. "none" \notin HandlerSteps /\ "body" \notin HandlerSteps
      BY DEF HandlerSteps, PrepareSteps, PostSteps
    <2>2. Stack[d].at # "calling" => d = k
      BY <1>6, <2>1, AloneTop DEF k
    <2>3. Stack[d].at = "calling"
      BY <1>3, <1>6, <2>2
    <2>4. StepOK("calling", m, method[m])
      BY <1>6, <2>3 DEF AloneOK, FramesOK
    <2> QED
      BY <2>3, <2>4 DEF StepOK, SizesWindow, CallSteps
  <1>7. ASSUME NEW S \in {FlagsWindow, InsnsWindow}, SomeFrame(m, S)
        PROVE  ~method[m].native /\ method[m].insns = "code" /\ method[m].regs = Rss[m]
    <2>1. S \subseteq HandlerSteps /\ "none" \notin S
      BY DEF FlagsWindow, InsnsWindow, CallSteps, HandlerSteps, PrepareSteps, PostSteps
    <2>2. PICK d \in Levels : Stack[d].m = m /\ Stack[d].at \in S
      BY <1>7, <2>1, AloneFrames
    <2> QED
      BY <1>6, <2>1, <2>2
  <1>8. CASE M(Solo).native
    <2>1. Installed(m)
      BY <1>1, <1>4, <1>5, <1>8 DEF AloneOK, Untouched, m
    <2>2. method[m].insns = "handler"
      BY <1>1, <1>4, <1>7, <1>8, <2>1 DEF IInv, WindowsOK, m
    <2>3. \A d \in Levels : Stack[d].m = m => Stack[d].at \notin HandlerSteps
      BY <1>4, <1>6, <1>8
    <2>4. ASSUME NEW d \in Levels, Stack[d].m = m, Stack[d].at = "body" PROVE FALSE
      <3>1. StepOK("body", m, method[m])
        BY <2>4 DEF AloneOK, FramesOK
      <3> QED
        BY <1>4, <1>8, <3>1 DEF StepOK
    <2> QED
      BY <1>1, <1>4, <1>8, <2>1, <2>2, <2>3, <2>4 DEF Installed, m
  <1>9. CASE ~M(Solo).native
    <2>1. CASE Installed(m)
      <3>1. SomeFrame(m, FlagsWindow)
        BY <1>1, <1>4, <1>9, <2>1 DEF IInv, WindowsOK, m
      <3> QED
        BY <1>1, <1>4, <1>7, <1>9, <3>1 DEF m
    <2>2. CASE ~Installed(m)
      BY <1>1, <1>4, <1>5, <1>9, <2>2 DEF AloneOK, Untouched, m
    <2> QED
      BY <2>1, <2>2
  <1> QED
    BY <1>8, <1>9

(* What AloneOK asks of a step that stores to the top frame's method or    *)
(* moves on.                                                               *)
AloneFits(from, to, r) ==
  /\ StepOK(to, Top(Solo).m, r)
  /\ r = M(Solo) \/ from \in StoreSteps \cup HandlerSteps
  /\ to \in HandlerSteps =>
       from \in HandlerSteps \/ (from = "bridge" /\ M(Solo).native)
  /\ \/ to \in StoreSteps
     \/ r.func = "bridge"
     \/ from \notin StoreSteps /\ r = M(Solo)

LEMMA AloneMove ==
  ASSUME IInv, AloneOK, NEW from \in MovingSteps, NEW to \in Steps \ {"none"},
         NEW r \in MethodRecord, Moves(Solo, from, to, r),
         \A n \in Methods : ~hook'[n].native, AloneFits(from, to, r)
  PROVE  AloneOK'
  <1> DEFINE d == depth[Solo]
             m == Top(Solo).m
  <1>1. /\ TypeOK /\ d > 0 /\ At(Solo, from) /\ Goto(Solo, to)
        /\ method' = [method EXCEPT ![m] = r] /\ UNCHANGED <<todo, depth>>
    BY DEF IInv, Moves, At
  <1>2. m \in Methods /\ M(Solo) = method[m] /\ Top(Solo).at = from
    BY <1>1, SoloThread, TopMethod DEF M
  <1>3. /\ d \in Levels /\ Stack[d].at = from /\ Stack[d].m = m
        /\ Stack'[d].at = to /\ Stack'[d].m = m
        /\ \A e \in Levels : e # d => Stack'[e] = Stack[e]
        /\ \A u \in Threads, e \in Levels :
             u # Solo \/ e # d => frame'[u][e] = frame[u][e]
    <2>1. d \in Levels /\ frame'[Solo][d].at = to /\ frame'[Solo][d].m = m
          /\ \A u \in Threads, e \in Levels :
               u # Solo \/ e # d => frame'[u][e] = frame[u][e]
      BY <1>1, SoloThread, GotoStep
    <2> QED
      BY <1>2, <2>1, SoloThread DEF Stack, Top
  <1>4. /\ method'[m] = r
        /\ \A n \in Methods : n # m => method'[n] = method[n]
    BY <1>1, <1>2 DEF TypeOK
  <1>5. \A e \in Levels : /\ e > d => Stack[e].at = "none"
                          /\ e < d => Stack[e].at \in {"body", "calling"}
    BY <1>1, SoloThread DEF IInv, StackOK, AloneOK, Nested, Stack
  <1>6. d \in Nat /\ \A e \in Levels : e \in Nat
    BY <1>3 DEF Levels
  <1>7. "calling" \in HandlerSteps /\ "body" \notin HandlerSteps
        /\ "none" \notin HandlerSteps /\ "none" \notin StoreSteps
        /\ StoreSteps \cap HandlerSteps = {} /\ "body" \notin MovingSteps
    BY DEF HandlerSteps, PrepareSteps, PostSteps, StoreSteps, InstallSteps,
       MovingSteps, DispatchSteps
  <1> HIDE DEF m, d
  <1>8. ASSUME NEW e \in Levels, e # d, Stack[e].m = m,
               from \in StoreSteps \cup HandlerSteps
        PROVE  Stack[e].at = "none"
    <2>1. CASE from \in HandlerSteps
      <3>1. Stack[e].at \notin HandlerSteps /\ (Stack[e].at = "body" => d < e)
        BY <1>3, <1>8, <2>1 DEF AloneOK, OneHandler
      <3> QED
        BY <1>5, <1>6, <1>7, <1>8, <3>1
    <2>2. CASE from \in StoreSteps
      <3>1. d = 1
        BY <1>3, <2>2, SoloThread DEF IInv, InstallOK, StoreSteps, Stack
      <3> QED
        BY <1>5, <1>8, <3>1 DEF Levels
    <2> QED
      BY <1>8, <2>1, <2>2
  <1>9. ASSUME NEW e \in Levels, e # d, Stack[e].m = m, to \in HandlerSteps
        PROVE  Stack[e].at = "none"
    <2>1. CASE from \in HandlerSteps
      BY <1>8, <1>9, <2>1
    <2>2. CASE from = "bridge" /\ M(Solo).native
      <3>1. Stack[e].at \notin HandlerSteps \cup {"body"}
        BY <1>1, <1>9, <2>2, AloneDispatch DEF DispatchSteps, m
      <3> QED
        BY <1>5, <1>6, <1>7, <1>9, <3>1
    <2> QED
      BY <1>9, <2>1, <2>2 DEF AloneFits
  <1>10. Nested'
    <2> SUFFICES ASSUME NEW e \in Levels, e < d
                 PROVE  /\ Stack'[e].at \in {"body", "calling"}
                        /\ Stack'[e].at = "calling" => Stack'[e + 1].m = Stack'[e].m
      BY <1>1 DEF Nested, d
    <2>1. e + 1 \in Levels /\ e # d
      BY <1>3, <1>6, DepthAssumption DEF Levels
    <2>2. Stack'[e] = Stack[e] /\ Stack'[e + 1].m = Stack[e + 1].m
      BY <1>3, <2>1
    <2> QED
      BY <1>5, <2>2 DEF AloneOK, Nested, d
  <1>11. OneHandler'
    <2> SUFFICES ASSUME NEW e \in Levels, NEW g \in Levels,
                        Stack'[e].m = Stack'[g].m, Stack'[g].at \in HandlerSteps
                 PROVE  /\ Stack'[e].at \in HandlerSteps => e = g
                        /\ Stack'[e].at = "body" => g < e
      BY DEF OneHandler
    <2>1. CASE e = d /\ g = d
      BY <1>7, <2>1
    <2>2. CASE e # d /\ g # d
      BY <1>3, <2>2 DEF AloneOK, OneHandler
    <2>3. CASE e # d /\ g = d
      <3>1. Stack'[e] = Stack[e] /\ Stack[e].m = m /\ to \in HandlerSteps
        BY <1>3, <2>3
      <3> QED
        BY <1>7, <1>9, <2>3, <3>1
    <2>4. CASE e = d /\ g # d
      <3>1. Stack[g].m = m /\ Stack[g].at \in HandlerSteps
        BY <1>3, <2>4
      <3>2. to \notin HandlerSteps
        BY <1>7, <1>9, <2>4, <3>1
      <3>3. g < d
        BY <1>5, <1>6, <1>7, <2>4, <3>1
      <3> QED
        BY <1>3, <2>4, <3>2, <3>3
    <2> QED
      BY <2>1, <2>2, <2>3, <2>4
  <1>12. FramesOK'
    <2> SUFFICES ASSUME NEW e \in Levels
                 PROVE  StepOK(Stack'[e].at, Stack'[e].m, method'[Stack'[e].m])
      BY DEF FramesOK, StepOK, SizesWindow, CallSteps
    <2>1. CASE e = d
      BY <1>3, <1>4, <2>1 DEF AloneFits, m
    <2>2. CASE e # d
      <3>1. Stack'[e] = Stack[e] /\ StepOK(Stack[e].at, Stack[e].m, method[Stack[e].m])
        BY <1>3, <2>2 DEF AloneOK, FramesOK
      <3>2. Stack[e].at \in Steps
        BY <1>1, SoloThread DEF TypeOK, Frame, Stack
      <3>3. CASE Stack[e].at \in {"body", "calling"}
        <4>1. Stack[e].m \in Methods
          BY <3>3, SoloThread DEF IInv, StackOK, HandlerSteps, Stack
        <4>2. Stack[e].m = m => r = M(Solo)
          BY <1>8, <2>2, <3>3 DEF AloneFits
        <4>3. method'[Stack[e].m] = method[Stack[e].m]
          BY <1>2, <1>4, <4>1, <4>2
        <4> QED
          BY <3>1, <4>3
      <3>4. CASE Stack[e].at = "none"
        BY <1>7, <3>1, <3>2, <3>4, FreeSteps DEF MovingSteps, DispatchSteps
      <3> QED
        BY <1>5, <1>6, <2>2, <3>3, <3>4
    <2> QED
      BY <2>1, <2>2
  <1>13. Untouched'
    <2> SUFFICES ASSUME NEW n \in Methods, ~Installed(n)', ~SomeFrame(n, StoreSteps)'
                 PROVE  /\ ~method'[n].native /\ method'[n].insns = "code"
                        /\ method'[n].regs = Rss[n]
      BY DEF Untouched, StoreSteps, InstallSteps, SomeFrame
    <2>1. ASSUME SomeFrame(n, StoreSteps), n # m \/ from \notin StoreSteps
          PROVE  FALSE
      <3>1. PICK u \in Threads, e \in Levels :
              frame[u][e].m = n /\ frame[u][e].at \in StoreSteps
        BY <2>1 DEF SomeFrame
      <3>2. u # Solo \/ e # d
        BY <1>3, <2>1, <3>1 DEF Stack
      <3>3. frame'[u][e] = frame[u][e]
        BY <1>3, <3>2
      <3> QED
        BY <3>1, <3>3 DEF SomeFrame
    <2>2. CASE n # m
      <3>1. method'[n] = method[n]
        BY <1>4, <2>2
      <3> QED
        BY <2>1, <2>2, <3>1 DEF AloneOK, Untouched, Installed
    <2>3. CASE n = m
      <3>1. to \notin StoreSteps
        BY <1>3, <2>3, SoloThread DEF SomeFrame, Stack
      <3>2. r.func # "bridge"
        BY <1>4, <2>3 DEF Installed
      <3>3. from \notin StoreSteps /\ r = method[m]
        BY <1>2, <3>1, <3>2 DEF AloneFits
      <3> QED
        BY <1>4, <2>1, <2>3, <3>2, <3>3 DEF AloneOK, Untouched, Installed
    <2> QED
      BY <2>2, <2>3
  <1> QED
    BY <1>1, <1>10, <1>11, <1>12, <1>13 DEF AloneOK

LEMMA AloneWrite ==
  ASSUME IInv, AloneOK, NEW from \in MovingSteps, NEW to \in Steps \ {"none"},
         NEW r \in MethodRecord, Write(Solo, from, to, r),
         from # "hookSaveSizes", AloneFits(from, to, r)
  PROVE  AloneOK'
  <1>1. Moves(Solo, from, to, r)
    BY DEF IInv, TypeOK, Write, Moves, HookKept
  <1>2. \A n \in Methods : ~hook'[n].native
    BY DEF AloneOK, Write
  <1> QED
    BY <1>1, <1>2, AloneMove

LEMMA AloneStill ==
  ASSUME IInv, AloneOK, NEW from \in MovingSteps, NEW to \in Steps \ {"none"},
         At(Solo, from), Goto(Solo, to), HookKept(Solo, from),
         UNCHANGED <<method, todo, depth>>,
         \A n \in Methods : ~hook'[n].native,
         AloneFits(from, to, M(Solo))
  PROVE  AloneOK'
  <1>1. method' = [method EXCEPT ![Top(Solo).m] = M(Solo)]
    BY DEF M, IInv, TypeOK
  <1>2. Moves(Solo, from, to, M(Solo))
    BY <1>1 DEF Moves
  <1>3. M(Solo) \in MethodRecord
    BY SoloThread, TopMethod
  <1> QED
    BY <1>2, <1>3, AloneMove

(* What AloneOK says of the top frame.                                     *)
LEMMA AloneState ==
  ASSUME IInv, AloneOK, NEW from \in MovingSteps, At(Solo, from)
  PROVE  /\ Top(Solo).m \in Methods /\ M(Solo) \in MethodRecord
         /\ StepOK(from, Top(Solo).m, M(Solo))
         /\ ~H(Solo).native
  <1>1. /\ Top(Solo).m \in Methods /\ M(Solo) \in MethodRecord
        /\ Top(Solo).at = from
    BY SoloThread, TopMethod
  <1>2. depth[Solo] \in Levels
    BY SoloThread, TopFrame DEF IInv, At
  <1>3. StepOK(from, Top(Solo).m, M(Solo))
    BY <1>1, <1>2 DEF AloneOK, FramesOK, M, Top, Stack
  <1> QED
    BY <1>1, <1>3 DEF AloneOK, H

(* dalvik_hook() stores to a method nothing else on the stack is of.       *)
LEMMA AloneHooks ==
  ASSUME IInv, AloneOK,
         \/ HookSaveSizes(Solo)
         \/ HookSizes(Solo) \/ HookArgInfo(Solo) \/ HookSave(Solo)
         \/ HookFlags(Solo) \/ HookInsns(Solo) \/ HookFunc(Solo)
  PROVE  AloneOK'
  <1> DEFINE m == Top(Solo).m
             k == M(Solo)
  <1>1. /\ {"hookSaveSizes", "hookSizes", "hookArgInfo", "hookSave", "hookFlags", "hookInsns",
           "hookFunc"} \subseteq StoreSteps
        /\ StoreSteps \subseteq MovingSteps /\ StoreSteps \subseteq Steps \ {"none"}
        /\ "find" \in Steps \ {"none"}
        /\ "find" \notin HandlerSteps /\ StoreSteps \cap HandlerSteps = {}
        /\ "find" \notin MovingSteps \cup {"body", "wild"}
    BY DEF Steps, MovingSteps, StoreSteps, InstallSteps, DispatchSteps, HandlerSteps,
       PrepareSteps, PostSteps
  <1>20. CASE HookSaveSizes(Solo)
    <2>1. /\ At(Solo, "hookSaveSizes") /\ Goto(Solo, "hookSizes")
          /\ hook' = [hook EXCEPT ![m] = [H(Solo) EXCEPT !.regs = k.regs]]
          /\ UNCHANGED <<method, todo, depth>>
      BY <1>20 DEF HookSaveSizes, Save
    <2>2. m \in Methods /\ k \in MethodRecord /\ StepOK("hookSaveSizes", m, k)
          /\ ~H(Solo).native
      BY <1>1, <2>1, AloneState
    <2>3. H(Solo) \in HookRecord
      BY <1>1, <2>1, SoloThread, TopMethod
    <2>4. ~k.native
      BY <2>2 DEF StepOK
    <2>5. HookKept(Solo, "hookSaveSizes") /\ \A n \in Methods : ~hook'[n].native
      BY <2>1, <2>2, <2>3
         DEF HookKept, HookRecord, MethodRecord, H, IInv, TypeOK, AloneOK
    <2> HIDE DEF k, m
    <2>6. AloneFits("hookSaveSizes", "hookSizes", M(Solo))
      BY <1>1, <2>4 DEF AloneFits, StepOK, SizesWindow, CallSteps, k
    <2> QED
      BY <1>1, <2>1, <2>5, <2>6, AloneStill
  <1>2. CASE HookSizes(Solo)
    <2> DEFINE r == [k EXCEPT !.regs = ArgSize[m]]
    <2>1. At(Solo, "hookSizes") /\ Write(Solo, "hookSizes", "hookArgInfo", r)
      BY <1>2 DEF HookSizes, Write
    <2>2. m \in Methods /\ k \in MethodRecord /\ StepOK("hookSizes", m, k)
      BY <1>1, <2>1, AloneState
    <2>3. r \in MethodRecord /\ r.native = k.native
      BY <2>2, SetRegs, SizeAssumption
    <2> HIDE DEF r, k, m
    <2>4. AloneFits("hookSizes", "hookArgInfo", r)
      BY <1>1, <2>2, <2>3 DEF AloneFits, StepOK, SizesWindow, CallSteps, m
    <2> QED
      BY <1>1, <2>1, <2>3, <2>4, AloneWrite
  <1>3. CASE HookArgInfo(Solo)
    <2> DEFINE r == [k EXCEPT !.compute = TRUE]
    <2>1. At(Solo, "hookArgInfo") /\ Write(Solo, "hookArgInfo", "hookSave", r)
      BY <1>3 DEF HookArgInfo, Write
    <2>2. m \in Methods /\ k \in MethodRecord /\ StepOK("hookArgInfo", m, k)
      BY <1>1, <2>1, AloneState
    <2>3. r \in MethodRecord /\ r.native = k.native
      BY <2>2, SetCompute
    <2> HIDE DEF r, k, m
    <2>4. AloneFits("hookArgInfo", "hookSave", r)
      BY <1>1, <2>2, <2>3 DEF AloneFits, StepOK, SizesWindow, CallSteps, m
    <2> QED
      BY <1>1, <2>1, <2>3, <2>4, AloneWrite
  <1>4. CASE HookSave(Solo)
    <2>1. /\ At(Solo, "hookSave") /\ Goto(Solo, "hookFlags")
          /\ hook' = [hook EXCEPT ![m] = [H(Solo) EXCEPT !.native = k.native]]
          /\ UNCHANGED <<method, todo, depth>>
      BY <1>4 DEF HookSave, Save
    <2>2. m \in Methods /\ k \in MethodRecord /\ StepOK("hookSave", m, k)
      BY <1>1, <2>1, AloneState
    <2>3. H(Solo) \in HookRecord
      BY <1>1, <2>1, SoloThread, TopMethod
    <2>4. ~k.native
      BY <2>2 DEF StepOK
    <2>5. HookKept(Solo, "hookSave") /\ \A n \in Methods : ~hook'[n].native
      BY <2>1, <2>2, <2>3, <2>4
         DEF HookKept, HookRecord, MethodRecord, H, IInv, TypeOK, AloneOK
    <2> HIDE DEF k, m
    <2>6. AloneFits("hookSave", "hookFlags", M(Solo))
      BY <1>1, <2>4 DEF AloneFits, StepOK, SizesWindow, CallSteps, k
    <2> QED
      BY <1>1, <2>1, <2>5, <2>6, AloneStill
  <1>5. CASE HookFlags(Solo)
    <2> DEFINE r == [k EXCEPT !.native = TRUE]
    <2>1. At(Solo, "hookFlags") /\ Write(Solo, "hookFlags", "hookInsns", r)
      BY <1>5 DEF HookFlags, Write
    <2>2. m \in Methods /\ k \in MethodRecord
      BY <1>1, <2>1, AloneState
    <2>3. r \in MethodRecord
      BY <2>2, SetNative
    <2> HIDE DEF r, k, m
    <2>4. AloneFits("hookFlags", "hookInsns", r)
      BY <1>1 DEF AloneFits, StepOK, SizesWindow, CallSteps
    <2> QED
      BY <1>1, <2>1, <2>3, <2>4, AloneWrite
  <1>6. CASE HookInsns(Solo)
    <2> DEFINE r == [k EXCEPT !.insns = "handler"]
    <2>1. At(Solo, "hookInsns") /\ Write(Solo, "hookInsns", "hookFunc", r)
      BY <1>6 DEF HookInsns, Write
    <2>2. m \in Methods /\ k \in MethodRecord
      BY <1>1, <2>1, AloneState
    <2>3. r \in MethodRecord
      BY <2>2, SetInsns
    <2> HIDE DEF r, k, m
    <2>4. AloneFits("hookInsns", "hookFunc", r)
      BY <1>1 DEF AloneFits, StepOK, SizesWindow, CallSteps
    <2> QED
      BY <1>1, <2>1, <2>3, <2>4, AloneWrite
  <1>7. CASE HookFunc(Solo)
    <2> DEFINE r == [k EXCEPT !.func = "bridge"]
    <2>1. At(Solo, "hookFunc") /\ Write(Solo, "hookFunc", "find", r)
      BY <1>7 DEF HookFunc, Write
    <2>2. m \in Methods /\ k \in MethodRecord
      BY <1>1, <2>1, AloneState
    <2>3. r \in MethodRecord /\ r.func = "bridge"
      BY <2>2, SetFunc
    <2> HIDE DEF r, k, m
    <2>4. StepOK("find", Top(Solo).m, r)
      BY <1>1, FreeSteps
    <2>5. AloneFits("hookFunc", "find", r)
      BY <1>1, <2>3, <2>4 DEF AloneFits
    <2> QED
      BY <1>1, <2>1, <2>3, <2>5, AloneWrite
  <1> QED
    BY <1>2, <1>3, <1>4, <1>5, <1>6, <1>7, <1>20

(* What dalvik_prepare() writes back is the method as it was loaded.       *)
LEMMA AloneHandler ==
  ASSUME IInv, AloneOK, NEW from \in HandlerSteps, At(Solo, from)
  PROVE  /\ Top(Solo).m \in Methods /\ M(Solo) \in MethodRecord
         /\ M(Solo).func = "bridge"
         /\ StepOK(from, Top(Solo).m, M(Solo))
         /\ H(Solo) \in HookRecord /\ ~H(Solo).native
         /\ H(Solo).insns = "code" /\ H(Solo).regs = Rss[Top(Solo).m]
  <1>1. /\ Top(Solo).m \in Methods /\ M(Solo) \in MethodRecord
        /\ H(Solo) \in HookRecord
        /\ M(Solo).func = "bridge"
    BY SoloThread, HandlerState
  <1>2. StepOK(from, Top(Solo).m, M(Solo)) /\ ~H(Solo).native
    BY AloneState DEF MovingSteps
  <1>3. H(Solo).insns = "code" /\ H(Solo).regs = Rss[Top(Solo).m]
    BY <1>1, AloneOnce DEF M, H, IInv, SavedOK, CodeSaved, Installed
  <1> QED
    BY <1>1, <1>2, <1>3

(* A store of a handler that leaves what the next step relies on.          *)
LEMMA AloneStores ==
  ASSUME IInv, AloneOK, NEW from \in HandlerSteps,
         NEW to \in HandlerSteps \cup {"return"}, NEW r \in MethodRecord,
         Write(Solo, from, to, r), r.func = M(Solo).func,
         StepOK(to, Top(Solo).m, r)
  PROVE  AloneOK'
  <1>1. At(Solo, from)
    BY DEF Write
  <1>2. r.func = "bridge"
    BY <1>1, AloneHandler
  <1>3. from \in MovingSteps /\ to \in Steps \ {"none"}
    BY DEF Steps, MovingSteps, HandlerSteps, PrepareSteps, PostSteps
  <1>5. from # "hookSaveSizes"
    BY DEF HandlerSteps, PrepareSteps, PostSteps
  <1>4. AloneFits(from, to, r)
    BY <1>2 DEF AloneFits
  <1> QED
    BY <1>1, <1>3, <1>4, <1>5, AloneWrite

(* Only one handler of a method is on the stack, and no bytecode of it is  *)
(* above a handler that stores.                                            *)
LEMMA AloneHandles ==
  ASSUME IInv, AloneOK,
         \/ PrepareSizes(Solo) \/ PrepareFlags(Solo)
         \/ PrepareArgInfo(Solo) \/ PrepareInsns(Solo)
         \/ PostSizes(Solo) \/ PostArgInfo(Solo) \/ PostSave(Solo)
         \/ PostFlags(Solo) \/ PostInsns(Solo) \/ PostFunc(Solo)
  PROVE  AloneOK'
  <1> DEFINE m == Top(Solo).m
             k == M(Solo)
             h == H(Solo)
  <1>1. {"prepareSizes", "prepareFlags", "prepareArgInfo", "prepareInsns", "original",
         "calling", "postArgInfo", "postSave", "postFlags", "postInsns", "postFunc"}
          \subseteq HandlerSteps
    BY DEF HandlerSteps, PrepareSteps, PostSteps
  <1>2. ASSUME NEW from \in HandlerSteps, At(Solo, from)
        PROVE  /\ m \in Methods /\ k \in MethodRecord /\ StepOK(from, m, k)
               /\ h \in HookRecord /\ ~h.native
               /\ h.insns = "code" /\ h.regs = Rss[m] /\ h.native \in BOOLEAN
               /\ k.func = "bridge"
    BY <1>2, AloneHandler DEF HookRecord
  <1>3. CASE PrepareSizes(Solo)
    <2> DEFINE r == [k EXCEPT !.regs = h.regs]
    <2>1. At(Solo, "prepareSizes") /\ Write(Solo, "prepareSizes", "prepareFlags", r)
      BY <1>3 DEF PrepareSizes, Write
    <2>2. /\ m \in Methods /\ k \in MethodRecord /\ StepOK("prepareSizes", m, k)
          /\ h \in HookRecord /\ ~h.native
          /\ h.insns = "code" /\ h.regs = Rss[m] /\ h.native \in BOOLEAN
      BY <1>1, <1>2, <2>1
    <2> HIDE DEF m, k, h
    <2>3. /\ r \in MethodRecord /\ r.func = k.func /\ r.regs = h.regs
          /\ r.native = k.native
          /\ r.insns = k.insns
      BY <2>2, SetRegs, SizeAssumption
    <2> HIDE DEF r
    <2>4. StepOK("prepareFlags", m, r)
      BY <2>2, <2>3 DEF StepOK, SizesWindow, CallSteps
    <2> QED
      BY <1>1, <2>1, <2>3, <2>4, AloneStores DEF m, k
  <1>4. CASE PrepareFlags(Solo)
    <2> DEFINE r == [k EXCEPT !.native = h.native]
    <2>1. At(Solo, "prepareFlags") /\ Write(Solo, "prepareFlags", "prepareArgInfo", r)
      BY <1>4 DEF PrepareFlags, Write
    <2>2. /\ m \in Methods /\ k \in MethodRecord /\ StepOK("prepareFlags", m, k)
          /\ h \in HookRecord /\ ~h.native
          /\ h.insns = "code" /\ h.regs = Rss[m] /\ h.native \in BOOLEAN
      BY <1>1, <1>2, <2>1
    <2> HIDE DEF m, k, h
    <2>3. /\ r \in MethodRecord /\ r.func = k.func /\ r.native = h.native
          /\ r.insns = k.insns
          /\ r.regs = k.regs
      BY <2>2, SetNative
    <2> HIDE DEF r
    <2>4. StepOK("prepareArgInfo", m, r)
      BY <2>2, <2>3 DEF StepOK, SizesWindow, CallSteps
    <2> QED
      BY <1>1, <2>1, <2>3, <2>4, AloneStores DEF m, k
  <1>5. CASE PrepareArgInfo(Solo)
    <2> DEFINE r == [k EXCEPT !.compute = FALSE]
    <2>1. At(Solo, "prepareArgInfo") /\ Write(Solo, "prepareArgInfo", "prepareInsns", r)
      BY <1>5 DEF PrepareArgInfo, Write
    <2>2. /\ m \in Methods /\ k \in MethodRecord /\ StepOK("prepareArgInfo", m, k)
          /\ h \in HookRecord /\ ~h.native
          /\ h.insns = "code" /\ h.regs = Rss[m] /\ h.native \in BOOLEAN
      BY <1>1, <1>2, <2>1
    <2> HIDE DEF m, k, h
    <2>3. /\ r \in MethodRecord /\ r.func = k.func /\ r.compute = FALSE
          /\ r.native = k.native
          /\ r.insns = k.insns
          /\ r.regs = k.regs
      BY <2>2, SetCompute
    <2> HIDE DEF r
    <2>4. StepOK("prepareInsns", m, r)
      BY <2>2, <2>3 DEF StepOK, SizesWindow, CallSteps
    <2> QED
      BY <1>1, <2>1, <2>3, <2>4, AloneStores DEF m, k
  <1>6. CASE PrepareInsns(Solo)
    <2> DEFINE r == [k EXCEPT !.insns = h.insns]
    <2>1. At(Solo, "prepareInsns") /\ Write(Solo, "prepareInsns", "original", r)
      BY <1>6 DEF PrepareInsns, Write
    <2>2. /\ m \in Methods /\ k \in MethodRecord /\ StepOK("prepareInsns", m, k)
          /\ h \in HookRecord /\ ~h.native
          /\ h.insns = "code" /\ h.regs = Rss[m] /\ h.native \in BOOLEAN
      BY <1>1, <1>2, <2>1
    <2> HIDE DEF m, k, h
    <2>3. /\ r \in MethodRecord /\ r.func = k.func /\ r.insns = h.insns
          /\ r.native = k.native
          /\ r.regs = k.regs
      BY <2>2, SetInsns
    <2> HIDE DEF r
    <2>4. StepOK("original", m, r)
      BY <2>2, <2>3 DEF StepOK, SizesWindow, CallSteps
    <2> QED
      BY <1>1, <2>1, <2>3, <2>4, AloneStores DEF m, k
  <1>7. CASE PostSizes(Solo)
    <2> DEFINE r == [k EXCEPT !.regs = Ns[m]]
    <2>1. At(Solo, "calling") /\ Write(Solo, "calling", "postArgInfo", r)
      BY <1>7 DEF PostSizes, Write
    <2>2. /\ m \in Methods /\ k \in MethodRecord /\ StepOK("calling", m, k)
          /\ h \in HookRecord /\ ~h.native
          /\ h.insns = "code" /\ h.regs = Rss[m] /\ h.native \in BOOLEAN
      BY <1>1, <1>2, <2>1
    <2> HIDE DEF m, k, h
    <2>3. /\ r \in MethodRecord /\ r.func = k.func /\ r.regs = Ns[m]
          /\ r.native = k.native
          /\ r.insns = k.insns
      BY <2>2, SetRegs, SizeAssumption
    <2> HIDE DEF r
    <2>4. StepOK("postArgInfo", m, r)
      BY <2>2, <2>3 DEF StepOK, SizesWindow, CallSteps
    <2> QED
      BY <1>1, <2>1, <2>3, <2>4, AloneStores DEF m, k
  <1>8. CASE PostArgInfo(Solo)
    <2> DEFINE r == [k EXCEPT !.compute = TRUE]
    <2>1. At(Solo, "postArgInfo") /\ Write(Solo, "postArgInfo", "postSave", r)
      BY <1>8 DEF PostArgInfo, Write
    <2>2. /\ m \in Methods /\ k \in MethodRecord /\ StepOK("postArgInfo", m, k)
          /\ h \in HookRecord /\ ~h.native
          /\ h.insns = "code" /\ h.regs = Rss[m] /\ h.native \in BOOLEAN
      BY <1>1, <1>2, <2>1
    <2> HIDE DEF m, k, h
    <2>3. /\ r \in MethodRecord /\ r.func = k.func /\ r.compute = TRUE
          /\ r.native = k.native
          /\ r.insns = k.insns
          /\ r.regs = k.regs
      BY <2>2, SetCompute
    <2> HIDE DEF r
    <2>4. StepOK("postSave", m, r)
      BY <2>2, <2>3 DEF StepOK, SizesWindow, CallSteps
    <2> QED
      BY <1>1, <2>1, <2>3, <2>4, AloneStores DEF m, k
  <1>9. CASE PostFlags(Solo)
    <2> DEFINE r == [k EXCEPT !.native = TRUE]
    <2>1. At(Solo, "postFlags") /\ Write(Solo, "postFlags", "postInsns", r)
      BY <1>9 DEF PostFlags, Write
    <2>2. /\ m \in Methods /\ k \in MethodRecord /\ StepOK("postFlags", m, k)
          /\ h \in HookRecord /\ ~h.native
          /\ h.insns = "code" /\ h.regs = Rss[m] /\ h.native \in BOOLEAN
      BY <1>1, <1>2, <2>1
    <2> HIDE DEF m, k, h
    <2>3. /\ r \in MethodRecord /\ r.func = k.func /\ r.native = TRUE
          /\ r.insns = k.insns
          /\ r.regs = k.regs
      BY <2>2, SetNative
    <2> HIDE DEF r
    <2>4. StepOK("postInsns", m, r)
      BY <2>2, <2>3 DEF StepOK, SizesWindow, CallSteps
    <2> QED
      BY <1>1, <2>1, <2>3, <2>4, AloneStores DEF m, k
  <1>10. CASE PostInsns(Solo)
    <2> DEFINE r == [k EXCEPT !.insns = "handler"]
    <2>1. At(Solo, "postInsns") /\ Write(Solo, "postInsns", "postFunc", r)
      BY <1>10 DEF PostInsns, Write
    <2>2. /\ m \in Methods /\ k \in MethodRecord /\ StepOK("postInsns", m, k)
          /\ h \in HookRecord /\ ~h.native
          /\ h.insns = "code" /\ h.regs = Rss[m] /\ h.native \in BOOLEAN
      BY <1>1, <1>2, <2>1
    <2> HIDE DEF m, k, h
    <2>3. /\ r \in MethodRecord /\ r.func = k.func /\ r.insns = "handler"
          /\ r.native = k.native
          /\ r.regs = k.regs
      BY <2>2, SetInsns
    <2> HIDE DEF r
    <2>4. StepOK("postFunc", m, r)
      BY <2>2, <2>3 DEF StepOK, SizesWindow, CallSteps
    <2> QED
      BY <1>1, <2>1, <2>3, <2>4, AloneStores DEF m, k
  <1>11. CASE PostFunc(Solo)
    <2> DEFINE r == [k EXCEPT !.func = "bridge"]
    <2>1. At(Solo, "postFunc") /\ Write(Solo, "postFunc", "return", r)
      BY <1>11 DEF PostFunc, Write
    <2>2. /\ m \in Methods /\ k \in MethodRecord /\ StepOK("postFunc", m, k)
          /\ h \in HookRecord /\ ~h.native
          /\ h.insns = "code" /\ h.regs = Rss[m] /\ h.native \in BOOLEAN
          /\ k.func = "bridge"
      BY <1>1, <1>2, <2>1
    <2> HIDE DEF m, k, h
    <2>3. /\ r \in MethodRecord /\ r.func = k.func /\ r.func = "bridge"
          /\ r.native = k.native
          /\ r.insns = k.insns
          /\ r.regs = k.regs
      BY <2>2, SetFunc
    <2> HIDE DEF r
    <2>4. StepOK("return", m, r)
      BY <2>2, <2>3 DEF StepOK, SizesWindow, CallSteps
    <2> QED
      BY <1>1, <2>1, <2>3, <2>4, AloneStores DEF m, k
  <1>12. CASE PostSave(Solo)
    <2>1. /\ At(Solo, "postSave") /\ Goto(Solo, "postFlags")
          /\ hook' = [hook EXCEPT ![m] = [h EXCEPT !.native = k.native]]
          /\ UNCHANGED <<method, todo, depth>>
      BY <1>12 DEF PostSave, Save
    <2>2. /\ m \in Methods /\ k \in MethodRecord /\ h \in HookRecord
          /\ StepOK("postSave", m, k)
      BY <1>1, <1>2, <2>1
    <2>3. ~k.native
      BY <2>2 DEF StepOK
    <2>4. HookKept(Solo, "postSave") /\ \A x \in Methods : ~hook'[x].native
      BY <2>1, <2>2, <2>3
         DEF HookKept, HookRecord, MethodRecord, H, IInv, TypeOK, AloneOK
    <2>5. "postSave" \in MovingSteps /\ "postFlags" \in Steps \ {"none"}
      BY DEF Steps, MovingSteps, HandlerSteps, PrepareSteps, PostSteps
    <2>6. k.func = "bridge"
      BY <1>1, <2>1, AloneHandler
    <2> HIDE DEF m, k, h
    <2>7. AloneFits("postSave", "postFlags", M(Solo))
      BY <1>1, <2>3, <2>6 DEF AloneFits, StepOK, SizesWindow, CallSteps, k
    <2> QED
      BY <2>1, <2>4, <2>5, <2>7, AloneStill
  <1> QED
    BY <1>3, <1>4, <1>5, <1>6, <1>7, <1>8, <1>9, <1>10, <1>11, <1>12

(* The dispatch of a call never goes wild, and reaches the handler only if *)
(* no handler of the method is on the stack.                               *)
LEMMA AloneDispatches ==
  ASSUME IInv, AloneOK,
         \/ TestNative(Solo) \/ EnterCode(Solo)
         \/ CallNativeFunc(Solo) \/ CallBridge(Solo)
  PROVE  AloneOK'
  <1> DEFINE m == Top(Solo).m
             k == M(Solo)
  <1>1. ASSUME NEW from \in DispatchSteps, At(Solo, from)
        PROVE  /\ StepOK(from, m, k)
               /\ k.native => k.func = "bridge" /\ k.insns = "handler"
               /\ ~k.native => k.insns = "code" /\ k.regs = Rss[m]
    BY <1>1, AloneDispatch, AloneState DEF MovingSteps
  <1>2. ASSUME NEW from \in DispatchSteps,
               NEW to \in {"native", "code", "body", "bridge", "prepareSizes"},
               Dispatch(Solo, from, to), StepOK(to, m, k),
               to = "prepareSizes" => from = "bridge" /\ k.native
        PROVE  AloneOK'
    <2>1. /\ At(Solo, from) /\ Goto(Solo, to)
          /\ UNCHANGED <<method, hook, todo, depth>>
      BY <1>2 DEF Dispatch
    <2>2. from \in MovingSteps /\ to \in Steps \ {"none"} /\ from \notin StoreSteps
          /\ (to \in HandlerSteps => to = "prepareSizes")
      BY DEF MovingSteps, Steps, StoreSteps, InstallSteps, DispatchSteps,
         HandlerSteps, PrepareSteps, PostSteps
    <2>3. HookKept(Solo, from) /\ \A n \in Methods : ~hook'[n].native
      BY <1>2, <2>1 DEF HookKept, IInv, TypeOK, AloneOK, DispatchSteps
    <2>4. AloneFits(from, to, M(Solo))
      BY <1>2, <2>2 DEF AloneFits
    <2> QED
      BY <2>1, <2>2, <2>3, <2>4, AloneStill
  <1> HIDE DEF m, k
  <1>3. CASE TestNative(Solo)
    <2>1. At(Solo, "test") /\ "test" \in DispatchSteps
      BY <1>3 DEF TestNative, Dispatch, DispatchSteps
    <2>2. CASE k.native
      <3>1. Dispatch(Solo, "test", "native")
        BY <1>3, <2>2 DEF TestNative, k
      <3> QED
        BY <1>2, <2>1, <2>2, <3>1 DEF StepOK, SizesWindow, CallSteps
    <2>3. CASE ~k.native
      <3>1. Dispatch(Solo, "test", "code")
        BY <1>3, <2>3 DEF TestNative, k
      <3> QED
        BY <1>2, <2>1, <2>3, <3>1 DEF StepOK, SizesWindow, CallSteps
    <2> QED
      BY <2>2, <2>3
  <1>4. CASE EnterCode(Solo)
    <2>1. At(Solo, "code") /\ "code" \in DispatchSteps
      BY <1>4 DEF EnterCode, Dispatch, DispatchSteps
    <2>2. ~k.native /\ k.insns = "code" /\ k.regs = Rss[m]
      BY <1>1, <2>1 DEF StepOK
    <2>3. Dispatch(Solo, "code", "body")
      BY <1>4, <2>2 DEF EnterCode, k
    <2> QED
      BY <1>2, <2>1, <2>2, <2>3 DEF StepOK, SizesWindow, CallSteps
  <1>5. CASE CallNativeFunc(Solo)
    <2>1. At(Solo, "native") /\ "native" \in DispatchSteps
      BY <1>5 DEF CallNativeFunc, Dispatch, DispatchSteps
    <2>2. k.native /\ k.func = "bridge"
      BY <1>1, <2>1 DEF StepOK
    <2>3. Dispatch(Solo, "native", "bridge")
      BY <1>5, <2>2 DEF CallNativeFunc, k
    <2> QED
      BY <1>2, <2>1, <2>2, <2>3 DEF StepOK, SizesWindow, CallSteps
  <1>6. CASE CallBridge(Solo)
    <2>1. At(Solo, "bridge") /\ "bridge" \in DispatchSteps
      BY <1>6 DEF CallBridge, Dispatch, DispatchSteps
    <2>2. k.native /\ k.insns = "handler"
      BY <1>1, <2>1 DEF StepOK
    <2>3. Dispatch(Solo, "bridge", "prepareSizes")
      BY <1>6, <2>2 DEF CallBridge, k
    <2> QED
      BY <1>2, <2>1, <2>2, <2>3 DEF StepOK, SizesWindow, CallSteps
  <1> QED
    BY <1>3, <1>4, <1>5, <1>6

(* Pushing, popping or laying out a frame disturbs nothing below it.       *)
LEMMA AloneReframe ==
  ASSUME IInv, AloneOK, Reframing, Nested',
         \A u \in Threads \ {Solo} : depth'[u] = 0
  PROVE  AloneOK'
  <1>1. ASSUME NEW d \in Levels
        PROVE  \/ Stack'[d].at = Stack[d].at /\ Stack'[d].m = Stack[d].m
               \/ /\ Stack[d].at = "original" /\ Stack'[d].at = "calling"
                  /\ Stack'[d].m = Stack[d].m
               \/ Stack'[d].at \in {"push", "test", "none", "return", "find"}
    BY SoloThread DEF Reframing, Reframed, Stack
  <1>2. "original" \in HandlerSteps
        /\ {"push", "test", "none", "return", "find", "body"} \cap HandlerSteps = {}
    BY DEF HandlerSteps, PrepareSteps, PostSteps
  <1>3. OneHandler'
    <2> SUFFICES ASSUME NEW e \in Levels, NEW g \in Levels,
                        Stack'[e].m = Stack'[g].m, Stack'[g].at \in HandlerSteps
                 PROVE  /\ Stack'[e].at \in HandlerSteps => e = g
                        /\ Stack'[e].at = "body" => g < e
      BY DEF OneHandler
    <2>1. Stack[g].at \in HandlerSteps /\ Stack[g].m = Stack'[g].m
      BY <1>1, <1>2
    <2>2. Stack'[e].at \in HandlerSteps \cup {"body"} =>
            /\ Stack[e].m = Stack'[e].m
            /\ Stack[e].at \in HandlerSteps \/ Stack[e].at = Stack'[e].at
      BY <1>1, <1>2
    <2> QED
      BY <1>2, <2>1, <2>2 DEF AloneOK, OneHandler
  <1>4. FramesOK'
    <2> SUFFICES ASSUME NEW d \in Levels
                 PROVE  StepOK(Stack'[d].at, Stack'[d].m, method'[Stack'[d].m])
      BY DEF FramesOK, StepOK, SizesWindow, CallSteps
    <2>1. StepOK(Stack[d].at, Stack[d].m, method[Stack[d].m]) /\ method' = method
      BY DEF AloneOK, FramesOK, Reframing
    <2>2. CASE Stack'[d].at = Stack[d].at /\ Stack'[d].m = Stack[d].m
      BY <2>1, <2>2
    <2>3. CASE /\ Stack[d].at = "original" /\ Stack'[d].at = "calling"
               /\ Stack'[d].m = Stack[d].m
      BY <2>1, <2>3 DEF StepOK, SizesWindow, CallSteps
    <2>4. CASE Stack'[d].at \in {"push", "test", "none", "return", "find"}
      BY <2>4 DEF StepOK, SizesWindow, CallSteps
    <2> QED
      BY <1>1, <2>2, <2>3, <2>4
  <1>5. Untouched'
    <2> SUFFICES ASSUME NEW n \in Methods, ~Installed(n)', ~SomeFrame(n, StoreSteps)'
                 PROVE  /\ ~method'[n].native /\ method'[n].insns = "code"
                        /\ method'[n].regs = Rss[n]
      BY DEF Untouched, StoreSteps, InstallSteps, SomeFrame
    <2>1. ASSUME SomeFrame(n, StoreSteps) PROVE FALSE
      <3>1. PICK u \in Threads, d \in Levels :
              frame[u][d].m = n /\ frame[u][d].at \in StoreSteps
        BY <2>1 DEF SomeFrame
      <3>2. frame[u][d].at \notin {"original", "none", "push", "body", "return", "find"}
        BY <3>1 DEF StoreSteps, InstallSteps
      <3>3. frame'[u][d].at = frame[u][d].at /\ frame'[u][d].m = n
        BY <3>1, <3>2 DEF Reframing, Reframed
      <3> QED
        BY <3>1, <3>3 DEF SomeFrame
    <2> QED
      BY <2>1 DEF AloneOK, Untouched, Installed, Reframing
  <1>6. /\ \A m \in Methods : ~hook'[m].native
        /\ \A u \in Threads \ {Solo} : todo'[u] = Methods
    BY DEF AloneOK, Reframing
  <1> QED
    BY <1>3, <1>4, <1>5, <1>6 DEF AloneOK

LEMMA AloneCall ==
  ASSUME IInv, AloneOK, NEW m \in Methods, Call(Solo, m)
  PROVE  AloneOK'
  <1> DEFINE k == depth[Solo]
  <1>1. /\ k = 0 \/ At(Solo, "body")
        /\ k < MaxDepth
        /\ depth' = [depth EXCEPT ![Solo] = k + 1]
        /\ frame' = [frame EXCEPT ![Solo] =
                        [frame[Solo] EXCEPT ![k + 1] = Invocation(m)]]
    BY DEF Call
  <1>2. /\ frame[Solo] \in [Levels -> Frame] /\ k \in 0..MaxDepth
        /\ frame \in [Threads -> [Levels -> Frame]]
        /\ depth \in [Threads -> 0..MaxDepth]
    BY SoloThread DEF IInv, TypeOK
  <1>3. /\ depth'[Solo] = k + 1
        /\ \A u \in Threads \ {Solo} : depth'[u] = 0
        /\ \A d \in Levels : d # k + 1 => Stack'[d] = Stack[d]
    BY <1>1, <1>2, SoloThread DEF AloneOK, Stack
  <1>4. k \in Levels => Stack[k].at = "body"
    BY <1>1, <1>2, DepthAssumption DEF At, Top, Stack, Levels
  <1> HIDE DEF k
  <1>5. Nested'
    <2> SUFFICES ASSUME NEW d \in Levels, d < k + 1
                 PROVE  /\ Stack'[d].at \in {"body", "calling"}
                        /\ Stack'[d].at = "calling" => Stack'[d + 1].m = Stack'[d].m
      BY <1>3 DEF Nested
    <2>1. Stack'[d] = Stack[d] /\ (d = k \/ d < k)
      BY <1>2, <1>3, DepthAssumption DEF Levels
    <2>2. CASE d = k
      BY <1>4, <2>1, <2>2
    <2>3. CASE d < k
      <3>1. Stack'[d + 1] = Stack[d + 1]
        BY <1>2, <1>3, <2>3, DepthAssumption DEF Levels
      <3> QED
        BY <2>1, <2>3, <3>1 DEF AloneOK, Nested, k
    <2> QED
      BY <2>1, <2>2, <2>3
  <1> QED
    BY <1>3, <1>5, SoloThread, CallReframes, AloneReframe

LEMMA AloneReturn ==
  ASSUME IInv, AloneOK, Return(Solo)
  PROVE  AloneOK'
  <1> DEFINE k == depth[Solo]
  <1>1. /\ k > 0
        /\ depth' = [depth EXCEPT ![Solo] = k - 1]
        /\ frame' = [frame EXCEPT ![Solo] =
                        [frame[Solo] EXCEPT ![k] = NoFrame]]
    BY DEF Return, At
  <1>2. /\ frame[Solo] \in [Levels -> Frame] /\ k \in 0..MaxDepth
        /\ frame \in [Threads -> [Levels -> Frame]]
        /\ depth \in [Threads -> 0..MaxDepth]
    BY SoloThread DEF IInv, TypeOK
  <1>3. /\ depth'[Solo] = k - 1
        /\ \A u \in Threads \ {Solo} : depth'[u] = 0
        /\ \A d \in Levels : d # k => Stack'[d] = Stack[d]
    BY <1>1, <1>2, SoloThread DEF AloneOK, Stack
  <1> HIDE DEF k
  <1>4. Nested'
    <2> SUFFICES ASSUME NEW d \in Levels, d < k - 1
                 PROVE  /\ Stack'[d].at \in {"body", "calling"}
                        /\ Stack'[d].at = "calling" => Stack'[d + 1].m = Stack'[d].m
      BY <1>3 DEF Nested
    <2>1. d # k /\ d < k /\ d + 1 # k /\ d + 1 \in Levels
      BY <1>2, DepthAssumption DEF Levels
    <2>2. Stack'[d] = Stack[d] /\ Stack'[d + 1] = Stack[d + 1]
      BY <1>3, <2>1
    <2> QED
      BY <2>1, <2>2 DEF AloneOK, Nested, k
  <1> QED
    BY <1>3, <1>4, SoloThread, ReturnReframes, AloneReframe

LEMMA AloneCallOriginal ==
  ASSUME IInv, AloneOK, CallOriginal(Solo)
  PROVE  AloneOK'
  <1> DEFINE k == depth[Solo]
             m == Top(Solo).m
  <1>1. At(Solo, "original") /\ k > 0 /\ TypeOK
    BY DEF CallOriginal, At, IInv
  <1>2. /\ frame[Solo] \in [Levels -> Frame] /\ k \in 0..MaxDepth /\ k \in Levels
        /\ frame \in [Threads -> [Levels -> Frame]]
        /\ depth \in [Threads -> 0..MaxDepth]
        /\ frame[Solo][k] \in Frame
    BY <1>1, SoloThread, TopFrame DEF TypeOK
  <1>3. CASE k < MaxDepth
    <2>1. /\ depth' = [depth EXCEPT ![Solo] = k + 1]
          /\ frame' = [frame EXCEPT ![Solo][k].at = "calling",
                                    ![Solo][k + 1] = Invocation(m)]
      BY <1>3 DEF CallOriginal
    <2>2. k + 1 \in Levels /\ k + 1 # k
      BY <1>2, <1>3, DepthAssumption DEF Levels
    <2> DEFINE f == [frame[Solo][k] EXCEPT !.at = "calling"]
    <2>3. f \in Frame /\ f.at = "calling" /\ f.m = m
      BY <1>2 DEF Frame, Top, Steps, HandlerSteps
    <2>4. frame' = [frame EXCEPT ![Solo] = [[frame[Solo] EXCEPT ![k] = f]
                                                  EXCEPT ![k + 1] = Invocation(m)]]
      BY <1>2, <2>1, <2>2, SoloThread
    <2> HIDE DEF f, m
    <2>5. /\ Stack'[k] = f /\ Stack'[k + 1] = Invocation(m)
          /\ \A d \in Levels : d # k /\ d # k + 1 => Stack'[d] = Stack[d]
      BY <1>2, <2>2, <2>4, SoloThread DEF Stack
    <2>6. /\ depth'[Solo] = k + 1
          /\ \A u \in Threads \ {Solo} : depth'[u] = 0
      BY <1>2, <2>1, SoloThread DEF AloneOK
    <2>7. Stack[k].m = m
      BY DEF Stack, m, Top
    <2> HIDE DEF k
    <2>8. Nested'
      <3> SUFFICES ASSUME NEW d \in Levels, d < k + 1
                   PROVE  /\ Stack'[d].at \in {"body", "calling"}
                          /\ Stack'[d].at = "calling" => Stack'[d + 1].m = Stack'[d].m
        BY <2>6 DEF Nested
      <3>1. d = k \/ (d < k /\ d + 1 \in Levels /\ d # k /\ d # k + 1 /\ d + 1 # k + 1)
        BY <1>2, DepthAssumption DEF Levels
      <3>2. CASE d = k
        BY <2>3, <2>5, <3>2 DEF Invocation
      <3>3. CASE d < k /\ d + 1 \in Levels /\ d # k /\ d # k + 1 /\ d + 1 # k + 1
        <4>1. Stack'[d] = Stack[d] /\ Stack'[d + 1].m = Stack[d + 1].m
          BY <2>3, <2>5, <2>7, <3>3
        <4> QED
          BY <3>3, <4>1 DEF AloneOK, Nested, k
      <3> QED
        BY <3>1, <3>2, <3>3
    <2> QED
      BY <2>6, <2>8, SoloThread, CallOriginalReframes, AloneReframe
  <1>4. CASE ~(k < MaxDepth)
    <2>1. depth' = depth /\ Goto(Solo, "calling") /\ "calling" \in Steps
      BY <1>4 DEF CallOriginal, Steps, HandlerSteps
    <2>2. /\ Stack'[k].m = Stack[k].m
          /\ \A d \in Levels : d # k => Stack'[d] = Stack[d]
      BY <1>1, <2>1, SoloThread, GotoStep DEF Stack, Top
    <2>3. Nested'
      <3> SUFFICES ASSUME NEW d \in Levels, d < k
                   PROVE  /\ Stack'[d].at \in {"body", "calling"}
                          /\ Stack'[d].at = "calling" => Stack'[d + 1].m = Stack'[d].m
        BY <2>1 DEF Nested
      <3>1. d # k /\ d + 1 \in Levels
        BY <1>2, DepthAssumption DEF Levels
      <3>2. Stack'[d] = Stack[d] /\ Stack'[d + 1].m = Stack[d + 1].m
        BY <2>2, <3>1
      <3> QED
        BY <3>2 DEF AloneOK, Nested
    <2>4. \A u \in Threads \ {Solo} : depth'[u] = 0
      BY <2>1 DEF AloneOK
    <2> QED
      BY <2>3, <2>4, SoloThread, CallOriginalReframes, AloneReframe
  <1> QED
    BY <1>3, <1>4

(* The remaining steps change the top frame, or start with an empty stack. *)
LEMMA AloneOther ==
  ASSUME IInv, AloneOK,
         PushFrame(Solo) \/ EpollWait(Solo) \/ PatchDone(Solo)
  PROVE  AloneOK'
  <1>1. Reframing
    BY SoloThread, PushFrameReframes, EpollWaitReframes, PatchDoneReframes
  <1>2. TypeOK /\ frame[Solo] \in [Levels -> Frame]
        /\ depth[Solo] \in 0..MaxDepth
    BY SoloThread DEF IInv, TypeOK
  <1>3. CASE EpollWait(Solo)
    <2>1. /\ depth'[Solo] = 1
          /\ \A u \in Threads \ {Solo} : depth'[u] = 0
      BY <1>2, <1>3, SoloThread DEF EpollWait, AloneOK, TypeOK
    <2>2. Nested'
      BY <2>1 DEF Nested, Levels
    <2> QED
      BY <1>1, <2>1, <2>2, AloneReframe
  <1>4. CASE PushFrame(Solo) \/ PatchDone(Solo)
    <2> DEFINE k == depth[Solo]
    <2>1. k \in Levels /\ depth' = depth
      BY <1>2, <1>4, SoloThread, TopFrame
         DEF PushFrame, PatchDone, Dispatch, At
    <2>2. /\ \A d \in Levels : d # k => Stack'[d] = Stack[d]
          /\ Stack'[k].m = Stack[k].m
      <3>1. CASE PatchDone(Solo)
        <4>1. Goto(Solo, "return") /\ "return" \in Steps /\ k > 0
          BY <3>1 DEF PatchDone, Dispatch, At, Steps
        <4> QED
          BY <1>2, <4>1, SoloThread, GotoStep DEF Stack, Top
      <3>2. CASE PushFrame(Solo)
        <4>1. frame' = [frame EXCEPT ![Solo][k].regs = M(Solo).regs,
                                     ![Solo][k].at = "test"]
          BY <3>2 DEF PushFrame
        <4>2. frame \in [Threads -> [Levels -> Frame]] /\ frame[Solo][k] \in Frame
          BY <1>2, <2>1 DEF TypeOK
        <4> DEFINE f == [frame[Solo][k] EXCEPT !.regs = M(Solo).regs,
                                                    !.at = "test"]
        <4>3. f.m = frame[Solo][k].m
          BY <4>2 DEF Frame
        <4>4. frame' = [frame EXCEPT ![Solo] =
                          [frame[Solo] EXCEPT ![k] = f]]
          BY <1>2, <2>1, <4>1, <4>2, SoloThread
        <4> HIDE DEF f
        <4> QED
          BY <1>2, <2>1, <4>2, <4>3, <4>4, SoloThread DEF Stack
      <3> QED
        BY <1>4, <3>1, <3>2
    <2>3. Nested'
      <3> SUFFICES ASSUME NEW d \in Levels, d < k
                   PROVE  /\ Stack'[d].at \in {"body", "calling"}
                          /\ Stack'[d].at = "calling" => Stack'[d + 1].m = Stack'[d].m
        BY <2>1 DEF Nested
      <3>1. d # k /\ d + 1 \in Levels
        BY <2>1, DepthAssumption DEF Levels
      <3>2. Stack'[d] = Stack[d] /\ Stack'[d + 1].m = Stack[d + 1].m
        BY <2>2, <3>1
      <3> QED
        BY <3>2 DEF AloneOK, Nested
    <2>4. \A u \in Threads \ {Solo} : depth'[u] = 0
      BY <2>1 DEF AloneOK
    <2> QED
      BY <1>1, <2>3, <2>4, AloneReframe
  <1> QED
    BY <1>3, <1>4

LEMMA AloneFound ==
  ASSUME IInv, AloneOK, NEW m \in Methods, HookFound(Solo, m)
  PROVE  AloneOK'
  <1> DEFINE k == depth[Solo]
             f == [frame[Solo][k] EXCEPT !.at = "hookSaveSizes", !.m = m]
             h == [hook[m] EXCEPT !.insns = method[m].insns]
  <1>1. /\ At(Solo, "find") /\ m \in todo[Solo] /\ UNCHANGED <<method, depth>>
        /\ k > 0 /\ TypeOK
    BY DEF HookFound, At, IInv
  <1>2. k \in Levels /\ frame[Solo][k] \in Frame /\ frame[Solo][k].at = "find"
    BY <1>1, SoloThread, TopFrame DEF At, Top
  <1>3. k = 1
    BY <1>2, SoloThread DEF IInv, InstallOK, InstallSteps
  <1>4. /\ frame[Solo] \in [Levels -> Frame]
        /\ frame \in [Threads -> [Levels -> Frame]]
        /\ hook \in [Methods -> HookRecord]
    BY <1>1, SoloThread DEF TypeOK
  <1>5. frame' = [frame EXCEPT ![Solo] = [frame[Solo] EXCEPT ![k] = f]]
    <2>1. frame' = [frame EXCEPT ![Solo][k].at = "hookSaveSizes",
                                 ![Solo][k].m = m]
      BY DEF HookFound
    <2> QED
      BY <1>2, <1>4, <2>1, SoloThread
  <1>6. f.at = "hookSaveSizes" /\ f.m = m
    BY <1>2 DEF Frame
  <1>7. hook' = [hook EXCEPT ![m] = h]
    <2>1. hook' = [hook EXCEPT ![m].insns = method[m].insns]
      BY DEF HookFound
    <2> QED
      BY <1>4, <2>1
  <1>8. h.native = hook[m].native
    BY <1>4 DEF HookRecord
  <1> HIDE DEF f, h
  <1>9. \A n \in Methods : ~hook'[n].native
    BY <1>4, <1>7, <1>8 DEF AloneOK
  <1>10. /\ Stack'[1].at = "hookSaveSizes" /\ Stack'[1].m = m
         /\ \A d \in Levels : d # 1 => Stack'[d].at = "none"
    <2>1. \A d \in Levels : d # 1 => Stack'[d] = Stack[d]
      BY <1>3, <1>4, <1>5, SoloThread DEF Stack
    <2>2. \A d \in Levels : d # 1 => d > k
      BY <1>3 DEF Levels
    <2>3. \A d \in Levels : d # 1 => Stack[d].at = "none"
      BY <2>2, SoloThread DEF IInv, StackOK, Stack
    <2>4. Stack'[1] = f
      BY <1>2, <1>3, <1>4, <1>5, SoloThread DEF Stack
    <2> QED
      BY <1>6, <2>1, <2>3, <2>4
  <1>11. ASSUME NEW u \in Threads, NEW d \in Levels PROVE frame[u][d].at \notin StoreSteps
    <2> SUFFICES ASSUME frame[u][d].at \in StoreSteps PROVE FALSE
      OBVIOUS
    <2>1. u = Solo /\ d = 1
      <3>1. d = 1
        BY DEF IInv, InstallOK, StoreSteps
      <3>2. CASE u # Solo
        <4>1. d > depth[u]
          BY <3>2 DEF AloneOK, Levels
        <4> QED
          BY <4>1 DEF IInv, StackOK, StoreSteps, InstallSteps
      <3> QED
        BY <3>1, <3>2
    <2> QED
      BY <1>2, <1>3, <2>1 DEF StoreSteps
  <1>12. ~Installed(m) /\ ~SomeFrame(m, StoreSteps)
    BY <1>1, <1>11, AloneOnce DEF IInv, InstallOK, SomeFrame
  <1>13. ~method[m].native
    BY <1>12 DEF AloneOK, Untouched
  <1>14. Nested'
    BY <1>1, <1>3 DEF Nested, Levels
  <1>15. OneHandler'
    BY <1>10 DEF OneHandler, HandlerSteps, PrepareSteps, PostSteps
  <1>16. FramesOK'
    <2> SUFFICES ASSUME NEW d \in Levels
                 PROVE  StepOK(Stack'[d].at, Stack'[d].m, method'[Stack'[d].m])
      BY DEF FramesOK, StepOK, SizesWindow, CallSteps
    <2>1. CASE d = 1
      BY <1>1, <1>10, <1>13, <2>1 DEF StepOK, SizesWindow, CallSteps
    <2>2. CASE d # 1
      BY <1>10, <2>2 DEF StepOK, SizesWindow, CallSteps
    <2> QED
      BY <2>1, <2>2
  <1>17. Untouched'
    <2> SUFFICES ASSUME NEW n \in Methods, ~Installed(n)'
                 PROVE  /\ ~method'[n].native /\ method'[n].insns = "code"
                        /\ method'[n].regs = Rss[n]
      BY DEF Untouched
    <2>1. ~SomeFrame(n, StoreSteps)
      BY <1>11 DEF SomeFrame
    <2> QED
      BY <1>1, <2>1 DEF AloneOK, Untouched, Installed
  <1>18. \A t \in Threads \ {Solo} : todo'[t] = Methods
    BY DEF HookFound, IInv, TypeOK, AloneOK
  <1> QED
    BY <1>1, <1>9, <1>14, <1>15, <1>16, <1>17, <1>18 DEF AloneOK

LEMMA AloneInit == Init => AloneOK
  <1> SUFFICES ASSUME Init PROVE AloneOK
    OBVIOUS
  <1>1. \A d \in Levels : Stack[d].at = "none"
    BY SoloThread DEF Init, Stack, NoFrame
  <1>2. depth[Solo] = 0 /\ \A t \in Threads : depth[t] = 0
    BY SoloThread DEF Init
  <1>3. Nested
    BY <1>2, DepthAssumption DEF Nested, Levels
  <1>4. OneHandler
    BY <1>1 DEF OneHandler, HandlerSteps, PrepareSteps, PostSteps
  <1>5. FramesOK
    BY <1>1 DEF FramesOK, StepOK, SizesWindow, CallSteps
  <1>6. Untouched
    BY DEF Init, Untouched, LoadedMethod
  <1>7. /\ \A m \in Methods : ~hook[m].native
        /\ \A t \in Threads : todo[t] = Methods
    BY DEF Init
  <1> QED
    BY <1>2, <1>3, <1>4, <1>5, <1>6, <1>7 DEF AloneOK

(* While the other stacks stay empty, Solo takes every step.      *)
LEMMA AloneNext ==
  ASSUME IInv, AloneOK, [Next]_vars,
         \A t \in Threads \ {Solo} : depth'[t] = 0
  PROVE  AloneOK'
  <1>1. CASE UNCHANGED vars
    BY <1>1 DEF vars, AloneOK, Nested, OneHandler, FramesOK, StepOK, Untouched,
       Installed, SomeFrame, Stack, StoreSteps, InstallSteps, SizesWindow, CallSteps
  <1>2. CASE Next
    <2>1. PICK t \in Threads : Invoke(t) \/ Install(t) \/ Handle(t)
      BY <1>2 DEF Next
    <2>2. t = Solo
      <3> SUFFICES ASSUME t # Solo PROVE FALSE
        OBVIOUS
      <3>1. depth[t] = 0 /\ depth'[t] = 0 /\ depth \in [Threads -> 0..MaxDepth]
        BY DEF AloneOK, IInv, TypeOK
      <3>2. \A s : ~At(t, s)
        BY <3>1 DEF At
      <3>3. ~Handle(t)
        BY <3>2 DEF Handle, PrepareSizes, PrepareFlags, PrepareArgInfo, PrepareInsns,
           CallOriginal, PostSizes, PostArgInfo, PostSave, PostFlags, PostInsns,
           PostFunc, Write, Save
      <3>4. ~Install(t)
        <4>1. ~EpollWait(t)
          <5> SUFFICES ASSUME EpollWait(t) PROVE FALSE
            OBVIOUS
          <5>1. depth'[t] = 1
            BY <3>1 DEF EpollWait
          <5> QED
            BY <3>1, <5>1
        <4>2. \A m \in Methods : ~HookNotFound(t, m) /\ ~HookFound(t, m)
          BY <3>2 DEF HookNotFound, HookFound
        <4>3. ~HookSaveSizes(t) /\ ~HookSave(t)
          BY <3>2 DEF HookSaveSizes, HookSave, Save
        <4>4. ~HookSizes(t) /\ ~HookArgInfo(t) /\ ~HookFlags(t)
          BY <3>2 DEF HookSizes, HookArgInfo, HookFlags, Write
        <4>5. ~HookInsns(t) /\ ~HookFunc(t) /\ ~PatchDone(t)
          BY <3>2 DEF HookInsns, HookFunc, PatchDone, Write, Dispatch
        <4> QED
          BY <4>1, <4>2, <4>3, <4>4, <4>5 DEF Install
      <3>5. \E m \in Methods : Call(t, m)
        BY <2>1, <3>2, <3>3, <3>4 DEF Invoke, PushFrame, TestNative, EnterCode,
           CallNativeFunc, CallBridge, Return, Dispatch
      <3>6. depth'[t] = 1
        BY <3>1, <3>5 DEF Call
      <3> QED
        BY <3>1, <3>6
    <2>3. CASE Invoke(t)
      BY <2>2, <2>3, AloneCall, AloneReturn, AloneOther, AloneDispatches DEF Invoke
    <2>4. CASE Install(t)
      <3>1. ASSUME NEW m \in Methods, HookNotFound(Solo, m) PROVE AloneOK'
        <4>1. UNCHANGED <<method, hook, frame, depth>>
          BY <3>1 DEF HookNotFound
        <4>2. \A u \in Threads \ {Solo} : todo'[u] = Methods
          BY <3>1 DEF HookNotFound, IInv, TypeOK, AloneOK
        <4> QED
          BY <4>1, <4>2 DEF AloneOK, Nested, OneHandler, FramesOK, StepOK, Untouched,
             Installed, SomeFrame, Stack, StoreSteps, InstallSteps, SizesWindow,
             CallSteps
      <3> QED
        BY <2>2, <2>4, <3>1, AloneFound, AloneOther, AloneHooks DEF Install
    <2>5. CASE Handle(t)
      BY <2>2, <2>5, AloneCallOriginal, AloneHandles DEF Handle
    <2> QED
      BY <2>1, <2>3, <2>4, <2>5
  <1> QED
    BY <1>1, <1>2

(* The invariant of one thread alone, for any number of methods that call  *)
(* each other to any depth.                                                *)
THEOREM AloneInvariance == MCSpec => [](IInv /\ AloneInv)
  <1>1. MCInit => IInv /\ AloneInv
    BY InitIInv, AloneInit DEF MCInit, AloneInv
  <1>2. IInv /\ AloneInv /\ [MCNext]_<<vars, alone, crossed>> => (IInv /\ AloneInv)'
    <2> SUFFICES ASSUME IInv, AloneInv, [MCNext]_<<vars, alone, crossed>>
                 PROVE  (IInv /\ AloneInv)'
      OBVIOUS
    <2>1. [Next]_vars /\ alone' = alone
      BY DEF MCNext
    <2>2. IInv'
      BY <2>1, NextIInv
    <2>3. ASSUME alone PROVE AloneOK'
      <3>1. AloneOK
        BY <2>3 DEF AloneInv
      <3>2. \A t \in Threads \ {Solo} : depth'[t] = 0
        BY <2>3, <3>1 DEF MCNext, AloneOK, vars
      <3> QED
        BY <2>1, <3>1, <3>2, AloneNext
    <2> QED
      BY <2>1, <2>2, <2>3 DEF AloneInv
  <1> QED
    BY <1>1, <1>2, PTL DEF MCSpec

(* With one thread alone, the call a handler makes between dalvik_prepare()*)
(* and dalvik_postcall() runs the original, however hooked methods nest.   *)
THEOREM AloneReachesOriginal == MCSpec => []OriginalReachedAlone
  <1>1. IInv /\ AloneInv => OriginalReachedAlone
    <2> SUFFICES ASSUME IInv, AloneOK, NEW t \in Threads, NEW d \in Levels,
                        d < depth[t], frame[t][d].at = "calling"
                 PROVE  frame[t][d + 1].at \notin HandlerSteps
      BY DEF AloneInv, OriginalReachedAlone, OriginalReached
    <2>1. t = Solo
      BY DEF AloneOK, Levels
    <2>2. d + 1 \in Levels /\ d + 1 # d
      BY <2>1, SoloThread, DepthAssumption DEF IInv, TypeOK, Levels
    <2>3. Stack[d + 1].m = Stack[d].m /\ Stack[d].at \in HandlerSteps
      BY <2>1 DEF AloneOK, Nested, Stack, HandlerSteps
    <2> QED
      BY <2>1, <2>2, <2>3 DEF AloneOK, OneHandler, Stack
  <1> QED
    BY <1>1, AloneInvariance, PTL

(* With one thread alone, no call jumps through a null nativeFunc, into    *)
(* bytecode or, interpreted, into machine code.                            *)
THEOREM AloneNeverWild == MCSpec => []NeverWildAlone
  <1>1. IInv /\ AloneInv => NeverWildAlone
    <2> SUFFICES ASSUME IInv, AloneOK, NEW t \in Threads, NEW d \in Levels,
                        frame[t][d].at = "wild"
                 PROVE  FALSE
      BY DEF AloneInv, NeverWildAlone, NeverWild, Wild
    <2>1. CASE t = Solo
      BY <2>1 DEF AloneOK, FramesOK, StepOK, Stack
    <2>2. CASE t # Solo
      <3>1. d > depth[t]
        BY <2>2 DEF AloneOK, Levels
      <3> QED
        BY <3>1 DEF IInv, StackOK
    <2> QED
      BY <2>1, <2>2
  <1> QED
    BY <1>1, AloneInvariance, PTL

(* With one thread alone, the collector scans bytecode frames whole; it    *)
(* skips the frame of a handler, as it must, in no step of the handler     *)
(* that has the original's flags put back, and in every other.             *)
THEOREM AloneFramesScanned == MCSpec => []FramesScannedAlone
  <1>1. IInv /\ AloneInv => FramesScannedAlone
    <2> SUFFICES ASSUME IInv, AloneOK, NEW t \in Threads, NEW d \in Levels
                 PROVE  /\ frame[t][d].at = "body" =>
                             /\ ~method[frame[t][d].m].native
                             /\ method[frame[t][d].m].regs = Rss[frame[t][d].m]
                        /\ frame[t][d].at \in HandlerSteps =>
                             (method[frame[t][d].m].native
                                <=> frame[t][d].at \notin FlagsWindow)
      BY DEF AloneInv, FramesScannedAlone, FramesScanned
    <2>1. CASE t = Solo
      <3>1. StepOK(frame[t][d].at, frame[t][d].m, method[frame[t][d].m])
        BY <2>1 DEF AloneOK, FramesOK, Stack
      <3>2. \A s \in HandlerSteps :
              /\ s \in FlagsWindow =>
                   s \in {"prepareArgInfo", "prepareInsns", "postArgInfo",
                          "postSave", "postFlags"} \cup CallSteps
              /\ s \notin FlagsWindow =>
                   s \in {"prepareSizes", "prepareFlags", "postInsns", "postFunc"}
        BY DEF HandlerSteps, PrepareSteps, PostSteps, FlagsWindow, CallSteps
      <3> QED
        BY <3>1, <3>2 DEF StepOK
    <2>2. CASE t # Solo
      <3>1. d > depth[t]
        BY <2>2 DEF AloneOK, Levels
      <3> QED
        BY <3>1 DEF IInv, StackOK, HandlerSteps, PrepareSteps, PostSteps
    <2> QED
      BY <2>1, <2>2
  <1> QED
    BY <1>1, AloneInvariance, PTL
-----------------------------------------------------------------------------
(***************************************************************************)
(* Any number of threads again: what was saved of the original method.     *)
(* FlagsOK is inductive relative to IInv, one method at a time.            *)
(***************************************************************************)

(* What FlagsOK says of m while no two handlers of it have overlapped.     *)
FlagsOf(m) == /\ ~hook[m].native
              /\ SomeFrame(m, SavingSteps) => ~method[m].native

(* A step to a saving one comes from a saving one, dalvik_hook()'s first   *)
(* and dalvik_prepare()'s store of the flags apart.                        *)
LEMMA SavingKept ==
  ASSUME IInv, NEW t \in Threads, depth[t] > 0, NEW to \in Steps, Goto(t, to),
         to \in SavingSteps => Top(t).at \in SavingSteps,
         NEW m, SomeFrame(m, SavingSteps)'
  PROVE  SomeFrame(m, SavingSteps)
  <1>1. PICK u \in Threads, d \in Levels :
          frame'[u][d].m = m /\ frame'[u][d].at \in SavingSteps
    BY DEF SomeFrame, SavingSteps, FlagsWindow, CallSteps
  <1>2. TypeOK
    BY DEF IInv
  <1>3. frame[u][d].m = m /\ frame[u][d].at \in SavingSteps
    <2>1. CASE u = t /\ d = depth[t]
      BY <1>1, <1>2, <2>1, GotoStep DEF Top
    <2>2. CASE u # t \/ d # depth[t]
      BY <1>1, <1>2, <2>2, GotoStep
    <2> QED
      BY <2>1, <2>2
  <1> QED
    BY <1>3 DEF SomeFrame

(* A store to another field than the flags.                                *)
LEMMA FlagsWrite ==
  ASSUME IInv, NEW t \in Threads, NEW from \in MovingSteps, NEW to \in Steps,
         NEW r, Write(t, from, to, r), r.native = M(t).native,
         to \in SavingSteps => from \in SavingSteps,
         NEW m \in Methods, FlagsOf(m)
  PROVE  FlagsOf(m)'
  <1>1. /\ At(t, from) /\ Goto(t, to) /\ hook' = hook
        /\ method' = [method EXCEPT ![Top(t).m] = r]
    BY DEF Write
  <1>2. Top(t).at = from /\ depth[t] > 0 /\ Top(t).m \in Methods
    BY <1>1, TopMethod DEF At
  <1>3. method'[m].native = method[m].native
    BY <1>1, <1>2 DEF M, IInv, TypeOK
  <1>4. SomeFrame(m, SavingSteps)' => SomeFrame(m, SavingSteps)
    BY <1>1, <1>2, SavingKept
  <1> QED
    BY <1>1, <1>3, <1>4 DEF FlagsOf

LEMMA FlagsWrites ==
  ASSUME IInv, NEW t \in Threads,
         \/ HookSizes(t) \/ HookArgInfo(t) \/ HookInsns(t) \/ HookFunc(t)
         \/ PrepareSizes(t) \/ PrepareArgInfo(t) \/ PrepareInsns(t)
         \/ PostSizes(t) \/ PostArgInfo(t) \/ PostInsns(t) \/ PostFunc(t),
         NEW m \in Methods, FlagsOf(m)
  PROVE  FlagsOf(m)'
  <1>0. \A from \in StoreSteps \cup HandlerSteps :
          from \in MovingSteps /\ from \in Steps \ {"none"}
    BY DEF MovingSteps, Steps, StoreSteps, InstallSteps, HandlerSteps,
       PrepareSteps, PostSteps
  <1>9. ASSUME NEW from \in StoreSteps \cup HandlerSteps, At(t, from)
        PROVE  /\ Top(t).m \in Methods /\ M(t) \in MethodRecord
               /\ H(t) \in HookRecord
               /\ from \in HandlerSteps => H(t).insns \in {"code", "handler"}
    BY <1>0, <1>9, TopMethod, HandlerState
  <1> USE SizeAssumption DEF FlagsWindow, CallSteps, SavingSteps
  <1>a. /\ {"hookSizes", "hookArgInfo", "hookSave", "hookInsns", "hookFunc"}
             \subseteq StoreSteps \cup HandlerSteps
        /\ {"prepareSizes", "prepareFlags", "prepareArgInfo", "prepareInsns",
            "original", "calling", "postArgInfo", "postSave", "postInsns",
            "postFunc"} \subseteq HandlerSteps
        /\ {"find", "return"} \subseteq Steps
    BY DEF StoreSteps, InstallSteps, HandlerSteps, PrepareSteps, PostSteps, Steps
  <1>1. CASE HookSizes(t)
    <2>1. PICK r : Write(t, "hookSizes", "hookArgInfo", r)
                   /\ r = [M(t) EXCEPT !.regs = ArgSize[Top(t).m]]
      BY <1>1 DEF HookSizes
    <2>2. r.native = M(t).native
      BY <1>9, <1>a, <2>1, SetRegs DEF Write
    <2> QED
      BY <1>0, <1>a, <2>1, <2>2, FlagsWrite
  <1>2. CASE HookArgInfo(t)
    <2>1. PICK r : Write(t, "hookArgInfo", "hookSave", r)
                   /\ r = [M(t) EXCEPT !.compute = TRUE]
      BY <1>2 DEF HookArgInfo
    <2>2. r.native = M(t).native
      BY <1>9, <1>a, <2>1, SetCompute DEF Write
    <2> QED
      BY <1>0, <1>a, <2>1, <2>2, FlagsWrite
  <1>3. CASE HookInsns(t)
    <2>1. PICK r : Write(t, "hookInsns", "hookFunc", r)
                   /\ r = [M(t) EXCEPT !.insns = "handler"]
      BY <1>3 DEF HookInsns
    <2>2. r.native = M(t).native
      BY <1>9, <1>a, <2>1, SetInsns DEF Write
    <2> QED
      BY <1>0, <1>a, <2>1, <2>2, FlagsWrite
  <1>4. CASE HookFunc(t)
    <2>1. PICK r : Write(t, "hookFunc", "find", r)
                   /\ r = [M(t) EXCEPT !.func = "bridge"]
      BY <1>4 DEF HookFunc
    <2>2. r.native = M(t).native
      BY <1>9, <1>a, <2>1, SetFunc DEF Write
    <2> QED
      BY <1>0, <1>a, <2>1, <2>2, FlagsWrite
  <1>5. CASE PrepareSizes(t)
    <2>1. PICK r : Write(t, "prepareSizes", "prepareFlags", r)
                   /\ r = [M(t) EXCEPT !.regs = H(t).regs]
      BY <1>5 DEF PrepareSizes
    <2>3. At(t, "prepareSizes") /\ H(t).regs \in Nat
      BY <1>9, <1>a, <2>1 DEF Write, HookRecord
    <2>2. r.native = M(t).native
      BY <1>9, <1>a, <2>1, <2>3, SetRegs
    <2> QED
      BY <1>0, <1>a, <2>1, <2>2, FlagsWrite
  <1>6. CASE PrepareArgInfo(t)
    <2>1. PICK r : Write(t, "prepareArgInfo", "prepareInsns", r)
                   /\ r = [M(t) EXCEPT !.compute = FALSE]
      BY <1>6 DEF PrepareArgInfo
    <2>2. r.native = M(t).native
      BY <1>9, <1>a, <2>1, SetCompute DEF Write
    <2> QED
      BY <1>0, <1>a, <2>1, <2>2, FlagsWrite
  <1>7. CASE PrepareInsns(t)
    <2>1. PICK r : Write(t, "prepareInsns", "original", r)
                   /\ r = [M(t) EXCEPT !.insns = H(t).insns]
      BY <1>7 DEF PrepareInsns
    <2>2. r.native = M(t).native
      BY <1>9, <1>a, <2>1, SetInsns DEF Write
    <2> QED
      BY <1>0, <1>a, <2>1, <2>2, FlagsWrite
  <1>8. CASE PostSizes(t)
    <2>1. PICK r : Write(t, "calling", "postArgInfo", r)
                   /\ r = [M(t) EXCEPT !.regs = Ns[Top(t).m]]
      BY <1>8 DEF PostSizes
    <2>2. r.native = M(t).native
      BY <1>9, <1>a, <2>1, SetRegs DEF Write
    <2> QED
      BY <1>0, <1>a, <2>1, <2>2, FlagsWrite
  <1>10. CASE PostArgInfo(t)
    <2>1. PICK r : Write(t, "postArgInfo", "postSave", r)
                   /\ r = [M(t) EXCEPT !.compute = TRUE]
      BY <1>10 DEF PostArgInfo
    <2>2. r.native = M(t).native
      BY <1>9, <1>a, <2>1, SetCompute DEF Write
    <2> QED
      BY <1>0, <1>a, <2>1, <2>2, FlagsWrite
  <1>11. CASE PostInsns(t)
    <2>1. PICK r : Write(t, "postInsns", "postFunc", r)
                   /\ r = [M(t) EXCEPT !.insns = "handler"]
      BY <1>11 DEF PostInsns
    <2>2. r.native = M(t).native
      BY <1>9, <1>a, <2>1, SetInsns DEF Write
    <2> QED
      BY <1>0, <1>a, <2>1, <2>2, FlagsWrite
  <1>12. CASE PostFunc(t)
    <2>1. PICK r : Write(t, "postFunc", "return", r)
                   /\ r = [M(t) EXCEPT !.func = "bridge"]
      BY <1>12 DEF PostFunc
    <2>2. r.native = M(t).native
      BY <1>9, <1>a, <2>1, SetFunc DEF Write
    <2> QED
      BY <1>0, <1>a, <2>1, <2>2, FlagsWrite
  <1> QED
    BY <1>1, <1>2, <1>3, <1>4, <1>5, <1>6, <1>7, <1>8, <1>10, <1>11, <1>12

(* A store to the hook saves flags that are not the hooked ones.           *)
LEMMA FlagsSave ==
  ASSUME IInv, NEW t \in Threads, HookSaveSizes(t) \/ HookSave(t) \/ PostSave(t),
         NEW m \in Methods, FlagsOf(m)
  PROVE  FlagsOf(m)'
  <1>1. PICK from \in {"hookSaveSizes", "hookSave", "postSave"},
             to \in {"hookSizes", "hookFlags", "postFlags"} :
          /\ Save(t, from, to, IF from = "hookSaveSizes"
                               THEN [H(t) EXCEPT !.regs = M(t).regs]
                               ELSE [H(t) EXCEPT !.native = M(t).native])
    BY DEF HookSaveSizes, HookSave, PostSave
  <1>2. PICK r : /\ Save(t, from, to, r)
                 /\ r = IF from = "hookSaveSizes"
                        THEN [H(t) EXCEPT !.regs = M(t).regs]
                        ELSE [H(t) EXCEPT !.native = M(t).native]
    BY <1>1
  <1>3. /\ from \in MovingSteps /\ from \in SavingSteps /\ to \in Steps
    BY DEF MovingSteps, StoreSteps, InstallSteps, HandlerSteps, PrepareSteps,
       PostSteps, SavingSteps, FlagsWindow, Steps
  <1>4. /\ At(t, from) /\ Goto(t, to) /\ method' = method /\ depth[t] > 0
        /\ hook' = [hook EXCEPT ![Top(t).m] = r]
    BY <1>2 DEF Save, At
  <1>5. /\ Top(t).m \in Methods /\ Top(t).at = from
        /\ M(t) \in MethodRecord /\ H(t) \in HookRecord
    BY <1>3, <1>4, TopMethod
  <1>6. r.native \in {H(t).native, M(t).native}
    BY <1>2, <1>5 DEF HookRecord, MethodRecord
  <1>7. SomeFrame(m, SavingSteps)' => SomeFrame(m, SavingSteps)
    BY <1>3, <1>4, <1>5, SavingKept
  <1>8. CASE Top(t).m = m
    <2>1. TypeOK
      BY DEF IInv
    <2>2. frame[t][depth[t]].m = m /\ frame[t][depth[t]].at \in SavingSteps
      BY <1>3, <1>5, <1>8 DEF Top
    <2>3. SomeFrame(m, SavingSteps)
      BY <1>4, <2>1, <2>2, TopFrame DEF SomeFrame
    <2>4. ~r.native
      BY <1>6, <1>8, <2>3 DEF FlagsOf, H, M
    <2>5. hook'[m] = r
      BY <1>4, <1>8, <2>1 DEF TypeOK
    <2> QED
      BY <1>4, <1>7, <2>4, <2>5 DEF FlagsOf
  <1>9. CASE Top(t).m # m
    <2>1. hook'[m] = hook[m]
      BY <1>4, <1>9 DEF IInv, TypeOK
    <2> QED
      BY <1>4, <1>7, <2>1 DEF FlagsOf
  <1> QED
    BY <1>8, <1>9

(* dalvik_prepare() puts back the flags that were saved.                   *)
LEMMA FlagsPutBack ==
  ASSUME IInv, NEW t \in Threads, PrepareFlags(t), NEW m \in Methods, FlagsOf(m)
  PROVE  FlagsOf(m)'
  <1>1. PICK r : /\ Write(t, "prepareFlags", "prepareArgInfo", r)
                 /\ r = [M(t) EXCEPT !.native = H(t).native]
    BY DEF PrepareFlags
  <1>2. /\ At(t, "prepareFlags") /\ Goto(t, "prepareArgInfo") /\ hook' = hook
        /\ method' = [method EXCEPT ![Top(t).m] = r] /\ depth[t] > 0
    BY <1>1 DEF Write, At
  <1>3. "prepareFlags" \in MovingSteps /\ "prepareArgInfo" \in Steps
    BY DEF MovingSteps, HandlerSteps, PrepareSteps, Steps
  <1>4. /\ Top(t).m \in Methods /\ M(t) \in MethodRecord /\ H(t) \in HookRecord
    BY <1>2, <1>3, TopMethod
  <1>5. r.native = H(t).native
    BY <1>1, <1>4, SetNative DEF HookRecord
  <1>6. CASE Top(t).m = m
    <2>1. method'[m] = r
      BY <1>2, <1>6 DEF IInv, TypeOK
    <2> QED
      BY <1>2, <1>5, <1>6, <2>1 DEF FlagsOf, H
  <1>7. CASE Top(t).m # m
    <2>1. method'[m] = method[m]
      BY <1>2, <1>7 DEF IInv, TypeOK
    <2>2. ASSUME SomeFrame(m, SavingSteps)' PROVE SomeFrame(m, SavingSteps)
      <3>1. PICK u \in Threads, d \in Levels :
              frame'[u][d].m = m /\ frame'[u][d].at \in SavingSteps
        BY <2>2 DEF SomeFrame, SavingSteps, FlagsWindow, CallSteps
      <3>2. TypeOK
        BY DEF IInv
      <3>3. u # t \/ d # depth[t]
        BY <1>2, <1>3, <1>7, <3>1, <3>2, GotoStep
      <3>4. frame'[u][d] = frame[u][d]
        BY <1>2, <1>3, <3>2, <3>3, GotoStep
      <3> QED
        BY <3>1, <3>4 DEF SomeFrame
    <2> QED
      BY <1>2, <2>1, <2>2 DEF FlagsOf
  <1> QED
    BY <1>6, <1>7

(* ACC_NATIVE is set while nobody else is about to save the flags, unless  *)
(* another do_patch() came to the method or two handlers overlap.          *)
LEMMA FlagsSet ==
  ASSUME IInv, NEW t \in Threads, HookFlags(t) \/ PostFlags(t),
         NEW m \in Methods, FlagsOf(m), Once(m, todo), ~Crossing(m)
  PROVE  FlagsOf(m)'
  <1>1. PICK from \in {"hookFlags", "postFlags"}, to \in {"hookInsns", "postInsns"} :
          /\ Write(t, from, to, [M(t) EXCEPT !.native = TRUE])
    BY DEF HookFlags, PostFlags
  <1>2. PICK r : Write(t, from, to, r)
    BY <1>1
  <1>3. /\ At(t, from) /\ Goto(t, to) /\ hook' = hook
        /\ method' = [method EXCEPT ![Top(t).m] = r] /\ depth[t] > 0
    BY <1>2 DEF Write, At
  <1>4. /\ from \in MovingSteps /\ to \in Steps /\ to \notin SavingSteps
        /\ from = "hookFlags" => from \in StoreSteps
        /\ from = "postFlags" => from \in HandlerSteps
    BY DEF MovingSteps, StoreSteps, InstallSteps, HandlerSteps, PrepareSteps,
       PostSteps, SavingSteps, FlagsWindow, CallSteps, Steps
  <1>5. /\ Top(t).m \in Methods /\ Top(t).at = from
    BY <1>3, <1>4, TopMethod
  <1>6. CASE Top(t).m # m
    <2>1. method'[m] = method[m]
      BY <1>3, <1>6 DEF IInv, TypeOK
    <2>2. SomeFrame(m, SavingSteps)' => SomeFrame(m, SavingSteps)
      BY <1>3, <1>4, <1>5, SavingKept
    <2> QED
      BY <1>3, <2>1, <2>2 DEF FlagsOf
  <1>7. CASE Top(t).m = m
    <2> SUFFICES ASSUME SomeFrame(m, SavingSteps)' PROVE FALSE
      BY <1>3 DEF FlagsOf
    <2>1. PICK u \in Threads, d \in Levels :
            frame'[u][d].m = m /\ frame'[u][d].at \in SavingSteps
      BY DEF SomeFrame, SavingSteps, FlagsWindow, CallSteps
    <2>2. TypeOK /\ depth[t] \in Levels
      BY <1>3, TopFrame DEF IInv
    <2>3. u # t \/ d # depth[t]
      BY <1>3, <1>4, <2>1, <2>2, GotoStep
    <2>4. frame[u][d].m = m /\ frame[u][d].at \in SavingSteps
      BY <1>3, <1>4, <2>1, <2>2, <2>3, GotoStep
    <2>5. frame[t][depth[t]].m = m /\ frame[t][depth[t]].at = from
      BY <1>5, <1>7 DEF Top
    <2>6. frame[u][d].at \in StoreSteps \cup HandlerSteps
      BY <2>4 DEF SavingSteps, FlagsWindow, CallSteps, StoreSteps, InstallSteps,
         HandlerSteps, PrepareSteps, PostSteps
    <2>7. \A v \in Threads, e \in Levels : frame[v][e].m = m =>
            /\ frame[v][e].at \in StoreSteps =>
                 m \notin todo[v] /\ ~Installed(m) /\ e = 1
            /\ frame[v][e].at \in HandlerSteps => Installed(m)
      BY DEF IInv, InstallOK, HandlersInstalled, StoreSteps
    <2>8. CASE from = "hookFlags"
      <3>1. m \notin todo[t] /\ ~Installed(m) /\ depth[t] = 1
        BY <1>4, <2>2, <2>5, <2>7, <2>8
      <3>2. m \notin todo[u] /\ d = 1
        BY <2>4, <2>6, <2>7, <3>1
      <3> QED
        BY <2>3, <3>1, <3>2 DEF Once
    <2>9. CASE from = "postFlags"
      <3>1. Installed(m) /\ frame[t][depth[t]].at \in HandlerSteps
        BY <1>4, <2>2, <2>5, <2>7, <2>9
      <3>2. frame[u][d].at \in HandlerSteps
        BY <2>4, <2>6, <2>7, <3>1
      <3>3. <<t, depth[t]>> # <<u, d>>
        BY <2>3
      <3> QED
        BY <2>2, <2>4, <2>5, <3>1, <3>2, <3>3 DEF Crossing
    <2> QED
      BY <2>8, <2>9
  <1> QED
    BY <1>6, <1>7

(* dalvik_hook() finds the flags of a method that nobody has touched.      *)
LEMMA FlagsFound ==
  ASSUME IInv, NEW t \in Threads, NEW n \in Methods, HookFound(t, n),
         NEW m \in Methods, FlagsOf(m), Once(m, todo')
  PROVE  FlagsOf(m)'
  <1>1. /\ At(t, "find") /\ n \in todo[t] /\ todo' = [todo EXCEPT ![t] = @ \ {n}]
        /\ method' = method /\ depth[t] \in Levels
        /\ hook' = [hook EXCEPT ![n] = [hook[n] EXCEPT !.insns = method[n].insns]]
    BY TopFrame DEF HookFound, At, IInv
  <1>2. hook'[m].native = hook[m].native
    BY <1>1 DEF IInv, TypeOK, HookRecord
  <1>3. CASE m = n
    <2>1. Fresh(m, todo)
      BY <1>1, <1>3, TodoTaken
    <2> QED
      BY <1>1, <1>2, <2>1 DEF FlagsOf, IInv, SavedOK
  <1>4. CASE m # n
    <2>1. ASSUME SomeFrame(m, SavingSteps)' PROVE SomeFrame(m, SavingSteps)
      <3>1. PICK u \in Threads, d \in Levels :
              frame'[u][d].m = m /\ frame'[u][d].at \in SavingSteps
        BY <2>1 DEF SomeFrame, SavingSteps, FlagsWindow, CallSteps
      <3>2. frame' = [frame EXCEPT ![t][depth[t]].at = "hookSaveSizes",
                                   ![t][depth[t]].m = n]
        BY DEF HookFound
      <3>3. frame[t] \in [Levels -> Frame] /\ frame \in [Threads -> [Levels -> Frame]]
        BY DEF IInv, TypeOK
      <3>4. frame'[u][d] = frame[u][d]
        <4>1. u # t \/ d # depth[t]
          <5> SUFFICES ASSUME u = t, d = depth[t] PROVE FALSE
            OBVIOUS
          <5>1. frame'[t][depth[t]].m = n
            BY <1>1, <3>2, <3>3 DEF Frame
          <5> QED
            BY <1>4, <3>1, <5>1
        <4> QED
          BY <1>1, <3>2, <3>3, <4>1
      <3> QED
        BY <3>1, <3>4 DEF SomeFrame
    <2> QED
      BY <1>1, <1>2, <2>1 DEF FlagsOf
  <1> QED
    BY <1>3, <1>4

LEMMA FlagsReframed ==
  ASSUME IInv, Reframing, NEW m \in Methods, FlagsOf(m)
  PROVE  FlagsOf(m)'
  <1>1. ASSUME SomeFrame(m, SavingSteps)' PROVE SomeFrame(m, SavingSteps)
    <2>1. PICK u \in Threads, d \in Levels :
            frame'[u][d].m = m /\ frame'[u][d].at \in SavingSteps
      BY <1>1 DEF SomeFrame, SavingSteps, FlagsWindow, CallSteps
    <2>2. Reframed(u, d)
      BY DEF Reframing
    <2>3. frame[u][d].m = m /\ frame[u][d].at \in SavingSteps
      BY <2>1, <2>2 DEF Reframed, SavingSteps, FlagsWindow, CallSteps
    <2> QED
      BY <2>3 DEF SomeFrame
  <1> QED
    BY <1>1 DEF FlagsOf, Reframing

(* The loads of a dispatch store nothing.                                  *)
LEMMA FlagsDispatch ==
  ASSUME IInv, NEW t \in Threads, NEW from, NEW to \in Steps \ SavingSteps,
         Dispatch(t, from, to), NEW m \in Methods, FlagsOf(m)
  PROVE  FlagsOf(m)'
  <1>1. /\ depth[t] > 0 /\ Goto(t, to) /\ method' = method /\ hook' = hook
    BY DEF Dispatch, At
  <1>2. SomeFrame(m, SavingSteps)' => SomeFrame(m, SavingSteps)
    BY <1>1, SavingKept
  <1> QED
    BY <1>1, <1>2 DEF FlagsOf

LEMMA NextFlags ==
  ASSUME IInv, Next, NEW m \in Methods, FlagsOf(m), Once(m, todo'), ~Crossing(m)
  PROVE  FlagsOf(m)'
  <1>1. PICK t \in Threads : Invoke(t) \/ Install(t) \/ Handle(t)
    BY DEF Next
  <1>2. CASE Invoke(t)
    <2>1. CASE TestNative(t) \/ EnterCode(t) \/ CallNativeFunc(t) \/ CallBridge(t)
      <3>1. PICK from \in {"test", "code", "native", "bridge"},
                 to \in {"native", "code", "body", "wild", "bridge", "prepareSizes"} :
              Dispatch(t, from, to)
        BY <2>1 DEF TestNative, EnterCode, CallNativeFunc, CallBridge
      <3>2. to \in Steps \ SavingSteps
        BY DEF Steps, DispatchSteps, HandlerSteps, PrepareSteps, SavingSteps,
           FlagsWindow, CallSteps
      <3> QED
        BY <3>1, <3>2, FlagsDispatch
    <2>2. CASE (\E n \in Methods : Call(t, n)) \/ PushFrame(t) \/ Return(t)
      BY <2>2, CallReframes, PushFrameReframes, ReturnReframes, FlagsReframed
    <2> QED
      BY <1>2, <2>1, <2>2 DEF Invoke
  <1>3. CASE Install(t)
    <2>1. CASE EpollWait(t) \/ PatchDone(t)
      BY <2>1, EpollWaitReframes, PatchDoneReframes, FlagsReframed
    <2>2. ASSUME NEW n \in Methods, HookNotFound(t, n) PROVE FlagsOf(m)'
      BY <2>2 DEF HookNotFound, FlagsOf, SomeFrame, SavingSteps, FlagsWindow,
         CallSteps
    <2>3. ASSUME NEW n \in Methods, HookFound(t, n) PROVE FlagsOf(m)'
      BY <2>3, FlagsFound
    <2>4. CASE HookSaveSizes(t) \/ HookSave(t)
      BY <2>4, FlagsSave
    <2>5. CASE HookSizes(t) \/ HookArgInfo(t) \/ HookInsns(t) \/ HookFunc(t)
      BY <2>5, FlagsWrites
    <2>6. CASE HookFlags(t)
      <3>1. todo' = todo
        BY <2>6 DEF HookFlags, Write
      <3> QED
        BY <2>6, <3>1, FlagsSet
    <2> QED
      BY <1>3, <2>1, <2>2, <2>3, <2>4, <2>5, <2>6 DEF Install
  <1>4. CASE Handle(t)
    <2>1. CASE \/ PrepareSizes(t) \/ PrepareArgInfo(t) \/ PrepareInsns(t)
               \/ PostSizes(t) \/ PostArgInfo(t) \/ PostInsns(t) \/ PostFunc(t)
      BY <2>1, FlagsWrites
    <2>2. CASE PrepareFlags(t)
      BY <2>2, FlagsPutBack
    <2>3. CASE CallOriginal(t)
      BY <2>3, CallOriginalReframes, FlagsReframed
    <2>4. CASE PostSave(t)
      BY <2>4, FlagsSave
    <2>5. CASE PostFlags(t)
      <3>1. todo' = todo
        BY <2>5 DEF PostFlags, Write
      <3> QED
        BY <2>5, <3>1, FlagsSet
    <2> QED
      BY <1>4, <2>1, <2>2, <2>3, <2>4, <2>5 DEF Handle
  <1> QED
    BY <1>1, <1>2, <1>3, <1>4

(* No step adds to the threads whose do_patch() has yet to come to m.      *)
LEMMA OnceBefore ==
  ASSUME IInv, Next, NEW m, Once(m, todo')
  PROVE  Once(m, todo)
  <1>1. PICK t \in Threads : Invoke(t) \/ Install(t) \/ Handle(t)
    BY DEF Next
  <1>2. \/ todo' = todo
        \/ \E n \in todo[t] : todo' = [todo EXCEPT ![t] = @ \ {n}]
    BY <1>1 DEF Invoke, Install, Handle, Call, PushFrame, TestNative, EnterCode,
       CallNativeFunc, CallBridge, Return, EpollWait, HookNotFound, HookFound,
       HookSaveSizes, HookSizes, HookArgInfo, HookSave, HookFlags, HookInsns,
       HookFunc, PatchDone, PrepareSizes, PrepareFlags, PrepareArgInfo,
       PrepareInsns, CallOriginal, PostSizes, PostArgInfo, PostSave, PostFlags,
       PostInsns, PostFunc, Write, Save, Dispatch
  <1> QED
    BY <1>2, TodoTaken

(* Whatever any number of threads do, the code pointer and the sizes that  *)
(* a hook saved are the original's unless a second do_patch() came to the  *)
(* method, and its flags are unless one did or two handlers overlapped.    *)
THEOREM CodeNeverLost == MCSpec => []CodeKept
  <1>1. MCInit => IInv /\ FlagsOK
    <2> SUFFICES ASSUME MCInit PROVE IInv /\ FlagsOK
      OBVIOUS
    <2>1. Init
      BY DEF MCInit
    <2>2. \A u \in Threads, d \in Levels : frame[u][d].at = "none"
      BY <2>1 DEF Init, NoFrame
    <2>3. \A m : ~Crossing(m) /\ ~SomeFrame(m, SavingSteps)
      BY <2>2 DEF Crossing, SomeFrame, SavingSteps, FlagsWindow, CallSteps,
         HandlerSteps, PrepareSteps, PostSteps
    <2>4. \A m \in Methods : ~hook[m].native
      BY <2>1 DEF Init
    <2> QED
      BY <2>1, <2>3, <2>4, InitIInv DEF FlagsOK
  <1>2. IInv /\ FlagsOK /\ [MCNext]_<<vars, alone, crossed>> => (IInv /\ FlagsOK)'
    <2> SUFFICES ASSUME IInv, FlagsOK, [MCNext]_<<vars, alone, crossed>>
                 PROVE  (IInv /\ FlagsOK)'
      OBVIOUS
    <2>1. IInv'
      BY NextIInv DEF MCNext
    <2>2. CASE MCNext
      <3> SUFFICES ASSUME NEW m \in Methods, Once(m, todo'), m \notin crossed'
                   PROVE  FlagsOf(m)' /\ ~Crossing(m)'
        BY <2>1 DEF FlagsOK, FlagsOf
      <3>1. Next /\ crossed' = crossed \cup {n \in Methods : Crossing(n)'}
        BY <2>2 DEF MCNext
      <3>2. m \notin crossed /\ ~Crossing(m)' /\ Once(m, todo)
        BY <3>1, OnceBefore
      <3>3. FlagsOf(m) /\ ~Crossing(m)
        BY <3>2 DEF FlagsOK, FlagsOf
      <3> QED
        BY <3>1, <3>2, <3>3, NextFlags
    <2>3. CASE UNCHANGED <<vars, alone, crossed>>
      BY <2>1, <2>3 DEF vars, FlagsOK, Once, Crossing, SomeFrame, SavingSteps,
         FlagsWindow, CallSteps, HandlerSteps, PrepareSteps, PostSteps
    <2> QED
      BY <2>1, <2>2, <2>3
  <1>3. IInv /\ FlagsOK => CodeKept
    BY DEF IInv, SavedOK, FlagsOK, CodeKept
  <1> QED
    BY <1>1, <1>2, <1>3, PTL DEF MCSpec
=============================================================================
