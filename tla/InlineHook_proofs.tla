-------------------------- MODULE InlineHook_proofs --------------------------
(***************************************************************************)
(* Proofs about InlineHook.                                                *)
(*                                                                         *)
(* Flushed is inductive for any number of overlapping threads; SerialInv   *)
(* is inductive relative to it when calls of epoll_wait() do not overlap.  *)
(* An action moves the activity on top of one thread's stack (Become), or  *)
(* pushes or pops one; the first lemmas say what the stacks are then, and  *)
(* later steps use the lemmas instead of the nested EXCEPTs.               *)
(***************************************************************************)
EXTENDS MCInlineHook, TLAPS

USE DEF Words, Levels

LEMMA FrameFacts ==
  /\ NoFrame \in Frame /\ NoFrame.at = "none"
  /\ Entry \in Frame /\ Entry.at = "fetch" /\ Entry.i = 1
  BY LenAssumption DEF Frame, NoFrame, Entry, Steps, InstallSteps, FetchSteps,
     HandlerSteps

LEMMA FrameFields ==
  /\ \A f \in Frame : f.at \in Steps /\ f.i \in Words /\ f.n \in Int
  /\ \A s \in Steps, i \in Words, n \in Int :
       /\ [at |-> s, i |-> i, n |-> n] \in Frame
       /\ [at |-> s, i |-> i, n |-> n].at = s
       /\ [at |-> s, i |-> i, n |-> n].i = i
       /\ [at |-> s, i |-> i, n |-> n].n = n
  BY DEF Frame

LEMMA FrameMoved ==
  ASSUME NEW f \in Frame, NEW s \in Steps
  PROVE  /\ [f EXCEPT !.at = s] \in Frame
         /\ [f EXCEPT !.at = s].at = s
         /\ [f EXCEPT !.at = s].i = f.i
  BY DEF Frame

LEMMA StackTyped ==
  ASSUME TypeOK, NEW t \in Threads
  PROVE  /\ frame[t] \in [Levels -> Frame]
         /\ \A d \in Levels : frame[t][d] \in Frame
         /\ depth[t] \in 0..MaxDepth
  BY DEF TypeOK

LEMMA PatchIsNotOriginal == Patch # Original
  BY LenAssumption, 1 \in Words, Patch[1] = "jump", Original[1] = "orig"
     DEF Patch, Original

(* What the activity f on top of t's stack leaves on the stacks.           *)
LEMMA BecomeShape ==
  ASSUME TypeOK, NEW t \in Threads, NEW f \in Frame, depth[t] > 0, Become(t, f)
  PROVE  /\ depth' = depth
         /\ depth[t] \in Levels
         /\ frame' \in [Threads -> [Levels -> Frame]]
         /\ frame'[t][depth[t]] = f
         /\ \A u \in Threads, e \in Levels :
              ~(u = t /\ e = depth[t]) => frame'[u][e] = frame[u][e]
  <1>1. depth[t] \in Levels
    BY DepthAssumption DEF TypeOK
  <1> DEFINE g == [frame[t] EXCEPT ![depth[t]] = f]
  <1>2. g \in [Levels -> Frame] /\ g[depth[t]] = f
        /\ \A e \in Levels : e # depth[t] => g[e] = frame[t][e]
    BY <1>1 DEF TypeOK
  <1>3. frame' = [frame EXCEPT ![t] = g]
    BY DEF Become
  <1>4. depth' = depth
    BY DEF Become
  <1> HIDE DEF g
  <1> QED
    BY <1>1, <1>2, <1>3, <1>4 DEF TypeOK

(* A call made from the event loop.                                        *)
LEMMA CallShape ==
  ASSUME TypeOK, NEW t \in Threads, Call(t)
  PROVE  /\ depth[t] = 0
         /\ depth' \in [Threads -> 0..MaxDepth]
         /\ depth'[t] = 1
         /\ \A u \in Threads : u # t => depth'[u] = depth[u]
         /\ frame' \in [Threads -> [Levels -> Frame]]
         /\ frame'[t][1] = Entry
         /\ \A u \in Threads, e \in Levels :
              ~(u = t /\ e = 1) => frame'[u][e] = frame[u][e]
  <1>1. 1 \in Levels /\ 1 \in 0..MaxDepth
    BY DepthAssumption
  <1> DEFINE g == [frame[t] EXCEPT ![1] = Entry]
  <1>2. g \in [Levels -> Frame] /\ g[1] = Entry
        /\ \A e \in Levels : e # 1 => g[e] = frame[t][e]
    BY <1>1, FrameFacts, StackTyped
  <1>3. frame' = [frame EXCEPT ![t] = g] /\ depth' = [depth EXCEPT ![t] = 1]
        /\ depth[t] = 0
    BY DEF Call, Push
  <1> HIDE DEF g
  <1> QED
    BY <1>1, <1>2, <1>3 DEF TypeOK

(* The handler's call of the original.                                     *)
LEMMA CallOriginalShape ==
  ASSUME TypeOK, NEW t \in Threads, CallOriginal(t)
  PROVE  /\ depth[t] \in Levels /\ depth[t] + 1 \in Levels
         /\ depth' \in [Threads -> 0..MaxDepth]
         /\ depth'[t] = depth[t] + 1
         /\ \A u \in Threads : u # t => depth'[u] = depth[u]
         /\ frame' \in [Threads -> [Levels -> Frame]]
         /\ frame'[t][depth[t]].at = "calling"
         /\ frame'[t][depth[t]].i = frame[t][depth[t]].i
         /\ frame'[t][depth[t] + 1] = Entry
         /\ \A u \in Threads, e \in Levels :
              ~(u = t /\ e \in {depth[t], depth[t] + 1}) =>
                frame'[u][e] = frame[u][e]
  <1>1. depth[t] \in Levels /\ depth[t] + 1 \in Levels
        /\ depth[t] + 1 \in 0..MaxDepth
    BY DepthAssumption DEF TypeOK, CallOriginal, Push, At
  <1> DEFINE c == [Top(t) EXCEPT !.at = "calling"]
  <1>2. c \in Frame /\ c.at = "calling" /\ c.i = frame[t][depth[t]].i
    <2>1. Top(t) \in Frame /\ Top(t) = frame[t][depth[t]]
      BY <1>1, StackTyped DEF Top
    <2>2. "calling" \in Steps
      BY DEF Steps, HandlerSteps
    <2> QED
      BY <2>1, <2>2, FrameMoved
  <1> DEFINE g == [frame[t] EXCEPT ![depth[t]] = c, ![depth[t] + 1] = Entry]
  <1>3. frame' = [frame EXCEPT ![t] = g]
        /\ depth' = [depth EXCEPT ![t] = depth[t] + 1]
    BY DEF CallOriginal, Push
  <1> HIDE DEF c
  <1>4. /\ g \in [Levels -> Frame]
        /\ g[depth[t]] = c /\ g[depth[t] + 1] = Entry
        /\ \A e \in Levels : e \notin {depth[t], depth[t] + 1} =>
             g[e] = frame[t][e]
    <2>1. PICK k \in Levels : k = depth[t]
      BY <1>1
    <2>2. k + 1 \in Levels /\ k + 1 # k
      BY <1>1, <2>1, DepthAssumption
    <2>3. frame[t] \in [Levels -> Frame]
      BY StackTyped
    <2>4. g = [frame[t] EXCEPT ![k] = c, ![k + 1] = Entry]
      BY <2>1
    <2> HIDE DEF g, Levels
    <2>5. \A h \in [Levels -> Frame], l \in Levels : l # k =>
            LET r == [h EXCEPT ![k] = c, ![l] = Entry]
            IN  /\ r \in [Levels -> Frame]
                /\ r[k] = c /\ r[l] = Entry
                /\ \A e \in Levels : e \notin {k, l} => r[e] = h[e]
      BY <1>2, FrameFacts
    <2> QED
      BY SMTT(30), <2>1, <2>2, <2>3, <2>4, <2>5
  <1> HIDE DEF g
  <1> QED
    BY <1>1, <1>2, <1>3, <1>4 DEF TypeOK

LEMMA ReturnShape ==
  ASSUME TypeOK, NEW t \in Threads, Return(t)
  PROVE  /\ depth[t] \in Levels
         /\ frame[t][depth[t]].at = "return"
         /\ depth' \in [Threads -> 0..MaxDepth]
         /\ depth'[t] = depth[t] - 1
         /\ \A u \in Threads : u # t => depth'[u] = depth[u]
         /\ frame' \in [Threads -> [Levels -> Frame]]
         /\ frame'[t][depth[t]] = NoFrame
         /\ \A u \in Threads, e \in Levels :
              ~(u = t /\ e \in {depth[t], depth[t] - 1}) =>
                frame'[u][e] = frame[u][e]
         /\ depth[t] > 1 =>
              frame'[t][depth[t] - 1].at = IF Counted THEN "test" ELSE "return"
         /\ UNCHANGED <<mem, icache, store, counter, lines, removing, patches>>
  <1>1. depth[t] \in Levels /\ depth[t] - 1 \in 0..MaxDepth
        /\ frame[t][depth[t]].at = "return"
    BY DepthAssumption DEF TypeOK, Return, At, Top
  <1> DEFINE s == IF Counted THEN "test" ELSE "return"
             c(d) == [frame[t][d] EXCEPT !.at = s]
             g == [d \in Levels |-> CASE d = depth[t] -> NoFrame
                                      [] d = depth[t] - 1 -> c(d)
                                      [] OTHER -> frame[t][d]]
  <1>2. s \in Steps
    BY DEF Steps, HandlerSteps
  <1>3. \A d \in Levels : c(d) \in Frame /\ c(d).at = s
    BY <1>2, StackTyped, FrameMoved
  <1>4. frame' = [frame EXCEPT ![t] = g]
        /\ depth' = [depth EXCEPT ![t] = depth[t] - 1]
        /\ UNCHANGED <<mem, icache, store, counter, lines, removing, patches>>
    BY DEF Return, CodeUnchanged, EpollUnchanged
  <1> HIDE DEF s, c
  <1>5. g \in [Levels -> Frame] /\ g[depth[t]] = NoFrame
        /\ (depth[t] > 1 => g[depth[t] - 1] = c(depth[t] - 1))
        /\ \A e \in Levels : e \notin {depth[t], depth[t] - 1} =>
             g[e] = frame[t][e]
    BY <1>1, <1>3, FrameFacts, StackTyped
  <1> HIDE DEF g
  <1>6. depth[t] > 1 => depth[t] - 1 \in Levels
    BY <1>1
  <1> QED
    BY <1>1, <1>3, <1>4, <1>5, <1>6 DEF TypeOK, s

-----------------------------------------------------------------------------
(* Flushed: any number of overlapping threads.                             *)

(* A move of the activity on top of one stack preserves Flushed when it    *)
(* keeps the words it does not know to be saved, and either leaves its     *)
(* stores pending, or leaves memory and instruction cache equal, or does   *)
(* not touch them.                                                         *)
LEMMA MoveFlushed ==
  ASSUME Flushed, NEW t \in Threads, NEW f \in Frame, depth[t] > 0,
         Become(t, f),
         f.at \notin {"none", "calling", "save"},
         Top(t).at # "save",
         store' = store,
         mem' \in [Words -> {"orig", "jump"}],
         icache' \in [Words -> {"orig", "jump"}],
         counter' \in Int, lines' \in Nat, removing' \in BOOLEAN,
         patches' \in Nat,
         Saving => /\ mem' = mem /\ icache' = icache
                   /\ f.at \in {"fetch", "plain", "body", "return"},
         \/ Dirty(f)
         \/ icache' = mem'
         \/ ~Dirty(Top(t)) /\ mem' = mem /\ icache' = icache
  PROVE  Flushed'
  <1>0. TypeOK /\ StackOK /\ SavedOK /\ Coherent
    BY DEF Flushed
  <1>1. /\ depth' = depth
        /\ depth[t] \in Levels
        /\ frame' \in [Threads -> [Levels -> Frame]]
        /\ frame'[t][depth[t]] = f
        /\ \A u \in Threads, e \in Levels :
             ~(u = t /\ e = depth[t]) => frame'[u][e] = frame[u][e]
    BY <1>0, BecomeShape
  <1>2. Top(t) = frame[t][depth[t]]
    BY DEF Top
  <1>3. TypeOK'
    BY <1>0, <1>1 DEF TypeOK
  <1>4. StackOK'
    BY <1>0, <1>1 DEF StackOK
  <1>5. 1 \in Levels
    BY DepthAssumption
  <1>6. Saving' = Saving /\ (Saving => frame'[Installer][1] = frame[Installer][1])
    BY <1>1, <1>2, <1>5, InstallerAssumption DEF Saving
  <1>7. SavedOK'
    <2>1. ASSUME NEW u \in Threads, NEW d \in Levels
          PROVE  /\ frame'[u][d].at = "save" => u = Installer /\ d = 1
                 /\ Saving => frame'[u][d].at \in
                               {"none", "save", "fetch", "plain", "body", "return"}
      BY <1>0, <1>1 DEF SavedOK
    <2>2. CASE Saving
      BY <1>0, <1>6, <2>1, <2>2 DEF SavedOK
    <2>3. CASE ~Saving
      BY <1>0, <1>6, <2>1, <2>3 DEF SavedOK
    <2> QED
      BY <2>2, <2>3
  <1>8. Coherent'
    <2>1. CASE Dirty(f)
      <3>1. (\E u \in Threads, d \in Levels : Dirty(frame[u][d]))'
        BY <1>1, <2>1 DEF Dirty
      <3> QED
        BY <3>1 DEF Coherent
    <2>2. CASE icache' = mem'
      BY <2>2 DEF Coherent
    <2>3. CASE ~Dirty(Top(t)) /\ mem' = mem /\ icache' = icache
      <3>1. SUFFICES ASSUME \A u \in Threads, d \in Levels : ~Dirty(frame'[u][d])
                     PROVE  icache' = mem'
        BY DEF Coherent, Dirty
      <3>2. \A u \in Threads, d \in Levels : ~Dirty(frame[u][d])
        <4> TAKE u \in Threads, d \in Levels
        <4>1. CASE u = t /\ d = depth[t]
          BY <1>2, <2>3, <4>1
        <4>2. CASE ~(u = t /\ d = depth[t])
          BY <1>1, <3>1, <4>2
        <4> QED
          BY <4>1, <4>2
      <3> QED
        BY <1>0, <2>3, <3>2 DEF Coherent
    <2> QED
      BY <2>1, <2>2, <2>3
  <1> QED
    BY <1>3, <1>4, <1>7, <1>8 DEF Flushed

(* What the activity on top of a stack may be while nothing is saved yet.  *)
LEMMA TopFacts ==
  ASSUME Flushed, NEW t \in Threads, depth[t] > 0
  PROVE  /\ depth[t] \in Levels
         /\ Top(t) = frame[t][depth[t]]
         /\ Top(t) \in Frame
         /\ Top(t).at \in Steps /\ Top(t).i \in Words /\ Top(t).n \in Int
         /\ Saving => /\ mem = Original /\ icache = Original
                      /\ Top(t).at \in {"none", "save", "fetch", "plain", "body",
                                        "return"}
         /\ ~Saving => store = Original
  <1>1. depth[t] \in Levels /\ Top(t) \in Frame
    BY DepthAssumption, StackTyped DEF Flushed, TypeOK, Top
  <1> QED
    BY <1>1, FrameFields DEF Flushed, SavedOK, Top

LEMMA SaveWordFlushed ==
  ASSUME Flushed, NEW t \in Threads, SaveWord(t)
  PROVE  Flushed'
  <1>0. TypeOK /\ StackOK /\ SavedOK /\ Coherent
    BY DEF Flushed
  <1> DEFINE i == Top(t).i
             f == IF i < Len THEN [at |-> "save", i |-> i + 1, n |-> Top(t).n]
                             ELSE [at |-> "install", i |-> 1, n |-> Top(t).n]
  <1>1. /\ depth[t] > 0 /\ Top(t).at = "save"
        /\ store' = [store EXCEPT ![i] = mem[i]]
        /\ Become(t, f)
        /\ UNCHANGED <<mem, icache, counter, lines, removing, patches>>
    BY DEF SaveWord, At, NextWord, Step, EpollUnchanged
  <1>2. /\ depth[t] \in Levels /\ Top(t) = frame[t][depth[t]]
        /\ i \in Words /\ Top(t).n \in Int
    BY <1>1, TopFacts
  <1>3. t = Installer /\ depth[t] = 1 /\ Saving /\ frame[Installer][1] = Top(t)
    BY <1>0, <1>1, <1>2 DEF SavedOK, Saving
  <1>4. /\ f \in Frame
        /\ f.at = IF i < Len THEN "save" ELSE "install"
        /\ f.i = IF i < Len THEN i + 1 ELSE 1
    <2>1. "save" \in Steps /\ "install" \in Steps
      BY DEF Steps, InstallSteps
    <2>2. 1 \in Words /\ (i < Len => i + 1 \in Words)
      BY <1>2, LenAssumption
    <2> QED
      BY <1>2, <2>1, <2>2, FrameFields
  <1> HIDE DEF f
  <1>5. /\ depth' = depth
        /\ frame' \in [Threads -> [Levels -> Frame]]
        /\ frame'[t][1] = f
        /\ \A u \in Threads, e \in Levels :
             ~(u = t /\ e = 1) => frame'[u][e] = frame[u][e]
    BY <1>0, <1>1, <1>3, <1>4, BecomeShape
  <1>6. mem = Original /\ icache = Original
        /\ \A j \in Words : j < i => store[j] = "orig"
    BY <1>0, <1>3 DEF SavedOK
  <1> HIDE DEF i
  <1>7. mem[i] = "orig"
    BY <1>2, <1>6 DEF Original, i
  <1>8. store' \in [Words -> {"none", "orig", "jump"}]
        /\ \A j \in Words : j =< i => store'[j] = "orig"
    BY <1>0, <1>1, <1>2, <1>6, <1>7 DEF TypeOK, i
  <1>9. TypeOK'
    BY <1>0, <1>1, <1>5, <1>8 DEF TypeOK
  <1>10. StackOK'
    BY <1>0, <1>3, <1>4, <1>5 DEF StackOK
  <1>11. 1 \in Levels /\ Installer \in Threads
    BY DepthAssumption, InstallerAssumption
  <1>12. SavedOK'
    <2>1. \A u \in Threads, d \in Levels :
            frame'[u][d].at = "save" => u = Installer /\ d = 1
      BY <1>0, <1>3, <1>4, <1>5 DEF SavedOK
    <2>2. CASE i < Len
      <3>1. Saving' /\ frame'[Installer][1].i = i + 1
        BY <1>3, <1>4, <1>5, <2>2 DEF Saving
      <3>2. \A u \in Threads, d \in Levels : frame'[u][d].at \in
               {"none", "save", "fetch", "plain", "body", "return"}
        BY <1>0, <1>3, <1>4, <1>5, <2>2 DEF SavedOK
      <3>3. \A j \in Words : j < i + 1 => store'[j] = "orig"
        BY <1>2, <1>8 DEF i
      <3> QED
        BY <1>1, <1>6, <2>1, <3>1, <3>2, <3>3 DEF SavedOK
    <2>3. CASE ~(i < Len)
      <3>1. ~Saving'
        BY <1>3, <1>4, <1>5, <2>3 DEF Saving
      <3>2. \A j \in Words : j =< i
        BY <1>2, <2>3, LenAssumption DEF i
      <3>3. store' = Original
        BY <1>8, <3>2 DEF Original
      <3> QED
        BY <2>1, <3>1, <3>3 DEF SavedOK
    <2> QED
      BY <2>2, <2>3
  <1>13. Coherent'
    BY <1>1, <1>6 DEF Coherent
  <1> QED
    BY <1>9, <1>10, <1>12, <1>13 DEF Flushed

(* The steps that fetch, test or count: memory and caches stay as they are. *)
LEMMA QuietFlushed ==
  ASSUME Flushed, NEW t \in Threads, depth[t] > 0,
         NEW s \in Steps, NEW i \in Words, NEW n \in Int,
         Become(t, [at |-> s, i |-> i, n |-> n]),
         s \notin {"none", "calling", "save"},
         Top(t).at # "save", ~Dirty(Top(t)),
         CodeUnchanged,
         counter' \in Int, lines' \in Nat, removing' \in BOOLEAN,
         patches' \in Nat,
         Saving => s \in {"fetch", "plain", "body", "return"}
  PROVE  Flushed'
  <1> DEFINE f == [at |-> s, i |-> i, n |-> n]
  <1>1. f \in Frame /\ f.at = s
    BY FrameFields
  <1>2. UNCHANGED <<mem, icache, store>>
    BY DEF CodeUnchanged
  <1> HIDE DEF f
  <1>3. Become(t, f)
    BY DEF f
  <1> QED
    BY <1>1, <1>2, <1>3, MoveFlushed DEF Flushed, TypeOK

LEMMA EpollTyped ==
  ASSUME Flushed, EpollUnchanged
  PROVE  counter' \in Int /\ lines' \in Nat /\ removing' \in BOOLEAN
         /\ patches' \in Nat
  BY DEF Flushed, TypeOK, EpollUnchanged

LEMMA StepsFacts ==
  /\ InstallSteps \subseteq Steps /\ FetchSteps \subseteq Steps
  /\ HandlerSteps \subseteq Steps
  /\ {"none", "return", "wild"} \subseteq Steps
  /\ 1 \in Words /\ Len \in Words
  /\ \A i \in Words : i < Len => i + 1 \in Words
  BY LenAssumption DEF Steps

LEMMA WriteJumpFlushed ==
  ASSUME Flushed, NEW t \in Threads,
         InstallWord(t) \/ ReinstallWord(t)
  PROVE  Flushed'
  <1>1. PICK s \in {"install", "postcall"},
             after \in {"flushInstalled", "flushPatched"} :
          WriteJump(t, s, after)
    BY DEF InstallWord, ReinstallWord
  <1> DEFINE i == Top(t).i
             f == IF i < Len THEN [at |-> s, i |-> i + 1, n |-> Top(t).n]
                             ELSE [at |-> after, i |-> 1, n |-> Top(t).n]
  <1>2. /\ depth[t] > 0 /\ Top(t).at = s
        /\ mem' = [mem EXCEPT ![i] = "jump"]
        /\ Become(t, f)
        /\ UNCHANGED <<icache, store>> /\ EpollUnchanged
    BY <1>1 DEF WriteJump, At, NextWord, Step
  <1>3. i \in Words /\ Top(t).n \in Int /\ ~Saving
    BY <1>2, TopFacts
  <1>4. f \in Frame /\ f.at \in {s, after}
        /\ (f.at = s => f.i = i + 1)
    <2>1. s \in Steps /\ after \in Steps
      BY DEF Steps, InstallSteps, HandlerSteps
    <2> QED
      BY <1>3, <2>1, StepsFacts, FrameFields
  <1> HIDE DEF f
  <1>5. Dirty(f)
    BY <1>3, <1>4 DEF Dirty
  <1>6. mem' \in [Words -> {"orig", "jump"}]
    BY <1>2 DEF Flushed, TypeOK
  <1>7. icache' \in [Words -> {"orig", "jump"}]
    BY <1>2 DEF Flushed, TypeOK
  <1> QED
    BY <1>2, <1>3, <1>4, <1>5, <1>6, <1>7, EpollTyped, MoveFlushed

LEMMA RestoreWordFlushed ==
  ASSUME Flushed, NEW t \in Threads, RestoreWord(t)
  PROVE  Flushed'
  <1> DEFINE i == Top(t).i
             f == IF i < Len THEN [at |-> "precall", i |-> i + 1, n |-> Top(t).n]
                             ELSE [at |-> "flushRestored", i |-> 1, n |-> Top(t).n]
  <1>2. /\ depth[t] > 0 /\ Top(t).at = "precall"
        /\ mem' = [mem EXCEPT ![i] = store[i]]
        /\ Become(t, f)
        /\ UNCHANGED <<icache, store>> /\ EpollUnchanged
    BY DEF RestoreWord, At, NextWord, Step
  <1>3. i \in Words /\ Top(t).n \in Int /\ ~Saving /\ store = Original
    BY <1>2, TopFacts
  <1>4. f \in Frame /\ f.at \in {"precall", "flushRestored"}
        /\ (f.at = "precall" => f.i = i + 1)
    <2>1. "precall" \in Steps /\ "flushRestored" \in Steps
      BY DEF Steps, HandlerSteps
    <2> QED
      BY <1>3, <2>1, StepsFacts, FrameFields
  <1> HIDE DEF f
  <1>5. Dirty(f)
    BY <1>3, <1>4 DEF Dirty
  <1>6. store[i] = "orig"
    BY <1>3 DEF Original
  <1>7. mem' \in [Words -> {"orig", "jump"}]
    BY <1>2, <1>6 DEF Flushed, TypeOK
  <1>8. icache' \in [Words -> {"orig", "jump"}]
    BY <1>2 DEF Flushed, TypeOK
  <1> QED
    BY <1>2, <1>3, <1>4, <1>5, <1>7, <1>8, EpollTyped, MoveFlushed

LEMMA FlushFlushed ==
  ASSUME Flushed, NEW t \in Threads,
         FlushInstalled(t) \/ FlushRestored(t) \/ FlushReinstalled(t)
  PROVE  Flushed'
  <1>1. PICK from \in {"flushInstalled", "flushRestored", "flushPatched"},
             to \in {"return", "original", "doPatch", "load"} :
          Flush(t, from, to)
    BY DEF FlushInstalled, FlushRestored, FlushReinstalled
  <1> DEFINE f == [at |-> to, i |-> 1, n |-> Top(t).n]
  <1>2. /\ depth[t] > 0 /\ Top(t).at = from
        /\ icache' = mem
        /\ Become(t, f)
        /\ UNCHANGED <<mem, store>> /\ EpollUnchanged
    BY <1>1 DEF Flush, At, Step
  <1>3. Top(t).n \in Int /\ ~Saving
    BY <1>2, TopFacts
  <1>4. f \in Frame /\ f.at = to
    <2>1. to \in Steps
      BY DEF Steps, HandlerSteps
    <2> QED
      BY <1>3, <2>1, StepsFacts, FrameFields
  <1> HIDE DEF f
  <1>5. mem' \in [Words -> {"orig", "jump"}] /\ icache' \in [Words -> {"orig", "jump"}]
    BY <1>2 DEF Flushed, TypeOK
  <1> QED
    BY <1>2, <1>3, <1>4, <1>5, EpollTyped, MoveFlushed

(* The actions of a thread that only fetches, or only touches epoll.c's    *)
(* own variables.                                                          *)
LEMMA QuietActionFlushed ==
  ASSUME Flushed, NEW t \in Threads,
         \/ FetchOriginal(t) \/ FetchJump(t) \/ FetchMixed(t)
         \/ LoadTarget(t) \/ Body(t) \/ DoPatch(t) \/ TestCounter(t)
         \/ LoadCounter(t) \/ StoreCounter(t)
  PROVE  Flushed'
  <1>0. \A s \in {"plain", "body", "jump", "target", "wild", "precall", "return",
                 "original", "postcall", "decrement"} : s \in Steps
    BY DEF Steps, FetchSteps, HandlerSteps
  <1>1. CASE FetchOriginal(t)
    <2>1. /\ depth[t] > 0 /\ Top(t).at \in {"fetch", "plain"}
          /\ CodeUnchanged /\ EpollUnchanged
          /\ NextWord(t, "plain", "body")
      BY <1>1 DEF FetchOriginal, At
    <2>2. PICK s \in {"plain", "body"}, i \in Words :
            Become(t, [at |-> s, i |-> i, n |-> Top(t).n])
      BY <2>1, TopFacts, StepsFacts DEF NextWord, Step
    <2> QED
      BY <1>0, <2>1, <2>2, TopFacts, EpollTyped, QuietFlushed DEF Dirty
  <1>2. CASE FetchJump(t)
    <2>1. /\ depth[t] > 0 /\ Top(t).at \in {"fetch", "jump"}
          /\ icache[Top(t).i] = "jump"
          /\ CodeUnchanged /\ EpollUnchanged
          /\ \/ Top(t).i < Jumps /\ Step(t, "jump", Top(t).i + 1)
             \/ Step(t, "target", 1)
      BY <1>2 DEF FetchJump, At
    <2>2. PICK s \in {"jump", "target"}, i \in Words :
            Become(t, [at |-> s, i |-> i, n |-> Top(t).n])
      BY <2>1, TopFacts, StepsFacts, LenAssumption DEF Step
    <2>3. ~Saving
      BY <2>1, TopFacts DEF Original
    <2> QED
      BY <1>0, <2>1, <2>2, <2>3, TopFacts, EpollTyped, QuietFlushed DEF Dirty
  <1>3. CASE FetchMixed(t)
    <2>1. /\ depth[t] > 0 /\ Top(t).at \in {"plain", "jump"}
          /\ Top(t).at = "plain" => icache[Top(t).i] = "jump"
          /\ CodeUnchanged /\ EpollUnchanged
          /\ Become(t, [at |-> "wild", i |-> 1, n |-> Top(t).n])
      BY <1>3 DEF FetchMixed, At, Step
    <2>2. ~Saving
      BY <2>1, TopFacts DEF Original
    <2> QED
      BY <1>0, <2>1, <2>2, TopFacts, StepsFacts, EpollTyped, QuietFlushed DEF Dirty
  <1>4. CASE LoadTarget(t)
    <2>1. /\ depth[t] > 0 /\ Top(t).at = "target"
          /\ CodeUnchanged /\ EpollUnchanged
      BY <1>4 DEF LoadTarget, At
    <2>2. PICK s \in {"precall", "wild"} :
            Become(t, [at |-> s, i |-> 1, n |-> Top(t).n])
      BY <1>4 DEF LoadTarget, Step
    <2> QED
      BY <1>0, <2>1, <2>2, TopFacts, StepsFacts, EpollTyped, QuietFlushed DEF Dirty
  <1>5. CASE Body(t)
    <2>1. /\ depth[t] > 0 /\ Top(t).at = "body"
          /\ CodeUnchanged /\ EpollUnchanged
          /\ Become(t, [at |-> "return", i |-> 1, n |-> Top(t).n])
      BY <1>5 DEF Body, At, Step
    <2> QED
      BY <1>0, <2>1, TopFacts, StepsFacts, EpollTyped, QuietFlushed DEF Dirty
  <1>6. CASE DoPatch(t)
    <2>1. /\ depth[t] > 0 /\ Top(t).at = "doPatch"
          /\ CodeUnchanged /\ UNCHANGED <<counter, lines, removing>>
          /\ patches' = patches + 1
          /\ Become(t, [at |-> "original", i |-> 1, n |-> Top(t).n])
      BY <1>6 DEF DoPatch, At, Step
    <2>2. counter' \in Int /\ lines' \in Nat /\ removing' \in BOOLEAN
          /\ patches' \in Nat
      BY <2>1 DEF Flushed, TypeOK
    <2> QED
      BY <1>0, <2>1, <2>2, TopFacts, StepsFacts, QuietFlushed DEF Dirty
  <1>7. CASE TestCounter(t)
    <2>1. /\ depth[t] > 0 /\ Top(t).at = "test"
          /\ CodeUnchanged /\ EpollUnchanged
      BY <1>7 DEF TestCounter, At
    <2>2. PICK s \in {"postcall", "return"} :
            Become(t, [at |-> s, i |-> 1, n |-> Top(t).n])
      BY <1>7 DEF TestCounter, Step
    <2> QED
      BY <1>0, <2>1, <2>2, TopFacts, StepsFacts, EpollTyped, QuietFlushed DEF Dirty
  <1>8. CASE LoadCounter(t)
    <2>1. /\ depth[t] > 0 /\ Top(t).at = "load"
          /\ CodeUnchanged /\ UNCHANGED <<counter, removing, patches>>
          /\ lines' = lines + 1
          /\ Become(t, [at |-> "decrement", i |-> 1, n |-> counter])
      BY <1>8 DEF LoadCounter, At
    <2>2. counter' \in Int /\ lines' \in Nat /\ removing' \in BOOLEAN
          /\ patches' \in Nat /\ counter \in Int
      BY <2>1 DEF Flushed, TypeOK
    <2> QED
      BY <1>0, <2>1, <2>2, TopFacts, StepsFacts, QuietFlushed DEF Dirty
  <1>9. CASE StoreCounter(t)
    <2>1. /\ depth[t] > 0 /\ Top(t).at = "decrement"
          /\ CodeUnchanged /\ UNCHANGED <<lines, patches>>
          /\ counter' = Top(t).n - 1
          /\ removing' = (removing \/ Top(t).n = 1)
          /\ Become(t, [at |-> "return", i |-> 1, n |-> Top(t).n])
      BY <1>9 DEF StoreCounter, At, Step
    <2>2. counter' \in Int
      BY <2>1, TopFacts
    <2>3. removing' \in BOOLEAN
      BY <2>1 DEF Flushed, TypeOK
    <2>4. lines' \in Nat /\ patches' \in Nat
      BY <2>1 DEF Flushed, TypeOK
    <2> QED
      BY <1>0, <2>1, <2>2, <2>3, <2>4, TopFacts, StepsFacts, QuietFlushed DEF Dirty
  <1> QED
    BY <1>1, <1>2, <1>3, <1>4, <1>5, <1>6, <1>7, <1>8, <1>9

LEMMA CallFlushed ==
  ASSUME Flushed, NEW t \in Threads, Call(t)
  PROVE  Flushed'
  <1>0. TypeOK /\ StackOK /\ SavedOK /\ Coherent
    BY DEF Flushed
  <1>1. /\ depth[t] = 0
        /\ depth' \in [Threads -> 0..MaxDepth]
        /\ depth'[t] = 1
        /\ \A u \in Threads : u # t => depth'[u] = depth[u]
        /\ frame' \in [Threads -> [Levels -> Frame]]
        /\ frame'[t][1] = Entry
        /\ \A u \in Threads, e \in Levels :
             ~(u = t /\ e = 1) => frame'[u][e] = frame[u][e]
    BY <1>0, CallShape
  <1>2. UNCHANGED <<mem, icache, store, counter, lines, removing, patches>>
    BY DEF Call, CodeUnchanged, EpollUnchanged
  <1>3. 1 \in Levels /\ frame[t][1] = NoFrame
    BY <1>0, <1>1, DepthAssumption DEF StackOK
  <1>4. TypeOK'
    BY <1>0, <1>1, <1>2 DEF TypeOK
  <1>5. StackOK'
    BY <1>0, <1>1, FrameFacts DEF StackOK
  <1>6. Saving' = Saving /\ (Saving => frame'[Installer][1] = frame[Installer][1])
    BY <1>1, <1>3, InstallerAssumption, FrameFacts DEF Saving
  <1>7. \A u \in Threads, d \in Levels :
          /\ frame'[u][d].at = "save" => u = Installer /\ d = 1
          /\ Saving => frame'[u][d].at \in
                        {"none", "save", "fetch", "plain", "body", "return"}
    BY <1>0, <1>1, FrameFacts DEF SavedOK
  <1>8. SavedOK'
    <2>1. CASE Saving
      BY <1>0, <1>2, <1>6, <1>7, <2>1 DEF SavedOK
    <2>2. CASE ~Saving
      BY <1>0, <1>2, <1>6, <1>7, <2>2 DEF SavedOK
    <2> QED
      BY <2>1, <2>2
  <1>9. Coherent'
    BY <1>0, <1>1, <1>2, <1>3, FrameFacts DEF Coherent, Dirty
  <1> QED
    BY <1>4, <1>5, <1>8, <1>9 DEF Flushed

LEMMA CallOriginalFlushed ==
  ASSUME Flushed, NEW t \in Threads, CallOriginal(t)
  PROVE  Flushed'
  <1>0. TypeOK /\ StackOK /\ SavedOK /\ Coherent
    BY DEF Flushed
  <1>1. /\ depth[t] \in Levels /\ depth[t] + 1 \in Levels
        /\ depth' \in [Threads -> 0..MaxDepth]
        /\ depth'[t] = depth[t] + 1
        /\ \A u \in Threads : u # t => depth'[u] = depth[u]
        /\ frame' \in [Threads -> [Levels -> Frame]]
        /\ frame'[t][depth[t]].at = "calling"
        /\ frame'[t][depth[t] + 1] = Entry
        /\ \A u \in Threads, e \in Levels :
             ~(u = t /\ e \in {depth[t], depth[t] + 1}) =>
               frame'[u][e] = frame[u][e]
    BY <1>0, CallOriginalShape
  <1>2. UNCHANGED <<mem, icache, store, counter, lines, removing, patches>>
        /\ depth[t] > 0 /\ Top(t).at = "original"
    BY DEF CallOriginal, CodeUnchanged, EpollUnchanged, At
  <1>3. ~Saving /\ frame[t][depth[t]].at = "original"
    BY <1>2, TopFacts
  <1>4. frame[t][depth[t] + 1] = NoFrame
    BY <1>0, <1>1 DEF StackOK
  <1>5. TypeOK'
    BY <1>0, <1>1, <1>2 DEF TypeOK
  <1>6. StackOK'
    BY <1>0, <1>1, FrameFacts DEF StackOK
  <1>7. 1 \in Levels /\ Installer \in Threads
    BY DepthAssumption, InstallerAssumption
  <1>8. ~Saving'
    BY <1>1, <1>3, <1>7, FrameFacts DEF Saving
  <1>9. SavedOK'
    BY <1>0, <1>1, <1>2, <1>3, <1>8, FrameFacts DEF SavedOK
  <1>10. Coherent'
    BY <1>0, <1>1, <1>2, <1>3, <1>4, FrameFacts DEF Coherent, Dirty
  <1> QED
    BY <1>5, <1>6, <1>9, <1>10 DEF Flushed

LEMMA ReturnFlushed ==
  ASSUME Flushed, NEW t \in Threads, Return(t)
  PROVE  Flushed'
  <1>0. TypeOK /\ StackOK /\ SavedOK /\ Coherent
    BY DEF Flushed
  <1>1. /\ depth[t] \in Levels
        /\ frame[t][depth[t]].at = "return"
        /\ depth' \in [Threads -> 0..MaxDepth]
        /\ depth'[t] = depth[t] - 1
        /\ \A u \in Threads : u # t => depth'[u] = depth[u]
        /\ frame' \in [Threads -> [Levels -> Frame]]
        /\ frame'[t][depth[t]] = NoFrame
        /\ \A u \in Threads, e \in Levels :
             ~(u = t /\ e \in {depth[t], depth[t] - 1}) =>
               frame'[u][e] = frame[u][e]
        /\ depth[t] > 1 =>
             frame'[t][depth[t] - 1].at = IF Counted THEN "test" ELSE "return"
        /\ UNCHANGED <<mem, icache, store, counter, lines, removing, patches>>
    BY <1>0, ReturnShape
  <1>2. depth[t] > 1 => /\ depth[t] - 1 \in Levels
                        /\ frame[t][depth[t] - 1].at = "calling"
                        /\ ~Saving
    <2> SUFFICES ASSUME depth[t] > 1
                 PROVE  /\ depth[t] - 1 \in Levels
                        /\ frame[t][depth[t] - 1].at = "calling"
                        /\ ~Saving
      OBVIOUS
    <2>1. depth[t] - 1 \in Levels /\ depth[t] - 1 < depth[t]
      BY <1>1, DepthAssumption
    <2>2. frame[t][depth[t] - 1].at = "calling"
      BY <1>0, <2>1 DEF StackOK
    <2> QED
      BY <1>0, <2>1, <2>2 DEF SavedOK
  <1>3. TypeOK'
    BY <1>0, <1>1 DEF TypeOK
  <1>4. StackOK'
    <2> SUFFICES ASSUME NEW u \in Threads, NEW d \in Levels
                 PROVE  /\ d < depth'[u] => frame'[u][d].at = "calling"
                        /\ d > depth'[u] => frame'[u][d] = NoFrame
                        /\ d = depth'[u] => frame'[u][d].at \notin {"none", "calling"}
      BY DEF StackOK
    <2>1. CASE u # t
      BY <1>0, <1>1, <2>1 DEF StackOK
    <2>2. CASE u = t /\ d = depth[t]
      BY <1>1, <2>2
    <2>3. CASE u = t /\ d = depth[t] - 1
      BY <1>1, <2>3
    <2>4. CASE u = t /\ d \notin {depth[t], depth[t] - 1}
      BY <1>0, <1>1, <2>4 DEF StackOK
    <2> QED
      BY <2>1, <2>2, <2>3, <2>4
  <1>5. 1 \in Levels /\ Installer \in Threads
    BY DepthAssumption, InstallerAssumption
  <1>6. Saving' = Saving /\ (Saving => frame'[Installer][1] = frame[Installer][1])
    <2>1. CASE t = Installer /\ depth[t] = 1
      BY <1>1, <1>5, <2>1, FrameFacts DEF Saving
    <2>2. CASE t = Installer /\ depth[t] = 2
      BY <1>1, <1>2, <1>5, <2>2 DEF Saving
    <2>3. CASE t # Installer \/ depth[t] > 2
      BY <1>1, <1>5, <2>3 DEF Saving
    <2> QED
      BY <1>1, <2>1, <2>2, <2>3
  <1>7. \A u \in Threads, d \in Levels :
          /\ frame'[u][d].at = "save" => u = Installer /\ d = 1
          /\ Saving => frame'[u][d].at \in
                        {"none", "save", "fetch", "plain", "body", "return"}
    <2> TAKE u \in Threads, d \in Levels
    <2>1. CASE u = t /\ d = depth[t]
      BY <1>1, <2>1, FrameFacts
    <2>2. CASE u = t /\ d = depth[t] - 1
      BY <1>1, <1>2, <2>2
    <2>3. CASE ~(u = t /\ d \in {depth[t], depth[t] - 1})
      BY <1>0, <1>1, <2>3 DEF SavedOK
    <2> QED
      BY <2>1, <2>2, <2>3
  <1>8. SavedOK'
    <2>1. CASE Saving
      BY <1>0, <1>1, <1>6, <1>7, <2>1 DEF SavedOK
    <2>2. CASE ~Saving
      BY <1>0, <1>1, <1>6, <1>7, <2>2 DEF SavedOK
    <2> QED
      BY <2>1, <2>2
  <1>9. Coherent'
    <2>1. SUFFICES ASSUME \A u \in Threads, d \in Levels : ~Dirty(frame'[u][d])
                   PROVE  icache' = mem'
      BY DEF Coherent, Dirty
    <2>2. \A u \in Threads, d \in Levels : ~Dirty(frame[u][d])
      <3> TAKE u \in Threads, d \in Levels
      <3>1. CASE u = t /\ d = depth[t]
        BY <1>1, <3>1 DEF Dirty
      <3>2. CASE u = t /\ d = depth[t] - 1
        BY <1>1, <1>2, <3>2 DEF Dirty
      <3>3. CASE ~(u = t /\ d \in {depth[t], depth[t] - 1})
        BY <1>1, <2>1, <3>3
      <3> QED
        BY <3>1, <3>2, <3>3
    <2> QED
      BY <1>0, <1>1, <2>2 DEF Coherent
  <1> QED
    BY <1>3, <1>4, <1>8, <1>9 DEF Flushed

LEMMA RefillFlushed ==
  ASSUME Flushed, NEW i \in Words, Refill(i)
  PROVE  Flushed'
  <1>1. /\ icache[i] # mem[i] /\ icache' = [icache EXCEPT ![i] = mem[i]]
        /\ UNCHANGED <<mem, store, frame, depth, counter, lines, removing, patches>>
    BY DEF Refill, EpollUnchanged
  <1>2. TypeOK'
    BY <1>1 DEF Flushed, TypeOK
  <1>3. StackOK'
    BY <1>1 DEF Flushed, StackOK
  <1>4. SavedOK'
    BY <1>1 DEF Flushed, SavedOK, Saving
  <1>5. Coherent'
    BY <1>1 DEF Flushed, Coherent, Dirty
  <1> QED
    BY <1>2, <1>3, <1>4, <1>5 DEF Flushed

LEMMA InitFlushed == Init => Flushed
  <1> SUFFICES ASSUME Init PROVE Flushed
    OBVIOUS
  <1> DEFINE f == [NoFrame EXCEPT !.at = "save"]
  <1>1. f \in Frame /\ f.at = "save" /\ f.i = 1
    <2>1. "save" \in Steps
      BY DEF Steps, InstallSteps
    <2>2. NoFrame.i = 1
      BY DEF NoFrame
    <2> QED
      BY <2>1, <2>2, FrameFacts, FrameMoved
  <1>2. \A t \in Threads, d \in Levels :
          frame[t][d] = IF t = Installer /\ d = 1 THEN f ELSE NoFrame
    BY DEF Init
  <1>3. frame \in [Threads -> [Levels -> Frame]]
    BY <1>1, FrameFacts DEF Init
  <1> HIDE DEF f
  <1>4. \A t \in Threads : depth[t] = IF t = Installer THEN 1 ELSE 0
    BY DEF Init
  <1>5. 1 \in Levels /\ Installer \in Threads
    BY DepthAssumption, InstallerAssumption
  <1>6. TypeOK
    <2>1. mem \in [Words -> {"orig", "jump"}] /\ icache \in [Words -> {"orig", "jump"}]
          /\ store \in [Words -> {"none", "orig", "jump"}]
      BY DEF Init, Original
    <2>2. counter \in Int /\ lines \in Nat /\ removing \in BOOLEAN /\ patches \in Nat
      <3>1. Count \in Int /\ 0 \in Nat /\ FALSE \in BOOLEAN
        BY CountAssumption
      <3> QED
        BY <3>1 DEF Init
    <2>3. depth \in [Threads -> 0..MaxDepth]
      <3>1. 0 \in 0..MaxDepth /\ 1 \in 0..MaxDepth
        BY DepthAssumption
      <3> QED
        BY <3>1 DEF Init
    <2> QED
      BY <1>3, <2>1, <2>2, <2>3 DEF TypeOK
  <1>7. StackOK
    BY <1>1, <1>2, <1>4, FrameFacts DEF StackOK
  <1>8. SavedOK
    <2>1. Saving /\ frame[Installer][1].i = 1
      BY <1>1, <1>2, <1>5 DEF Saving
    <2>2. \A t \in Threads, d \in Levels :
            /\ frame[t][d].at = "save" => t = Installer /\ d = 1
            /\ frame[t][d].at \in {"none", "save"}
      BY <1>1, <1>2, FrameFacts
    <2>3. mem = Original /\ icache = Original
      BY DEF Init
    <2>4. \A j \in Words : ~(j < 1)
      OBVIOUS
    <2> QED
      BY <2>1, <2>2, <2>3, <2>4 DEF SavedOK
  <1>9. Coherent
    BY DEF Init, Coherent
  <1> QED
    BY <1>6, <1>7, <1>8, <1>9 DEF Flushed

LEMMA NextFlushed == Flushed /\ [Next]_vars => Flushed'
  <1> SUFFICES ASSUME Flushed, [Next]_vars PROVE Flushed'
    OBVIOUS
  <1>1. CASE UNCHANGED vars
    BY <1>1 DEF vars, Flushed, TypeOK, StackOK, SavedOK, Saving, Coherent, Dirty
  <1>2. CASE \E t \in Threads : Call(t)
    BY <1>2, CallFlushed
  <1>3. CASE \E t \in Threads : ThreadStep(t)
    BY <1>3, SaveWordFlushed, WriteJumpFlushed, RestoreWordFlushed, FlushFlushed,
       QuietActionFlushed, CallOriginalFlushed, ReturnFlushed DEF ThreadStep
  <1>4. CASE \E i \in Words : Refill(i)
    BY <1>4, RefillFlushed
  <1> QED
    BY <1>1, <1>2, <1>3, <1>4 DEF Next

(***************************************************************************)
(* Type correctness: the saved words written back by hook_precall() are    *)
(* instructions of the function, whatever the interleaving.                *)
(***************************************************************************)
THEOREM TypeCorrect == Spec => []TypeOK
  <1>1. Init => Flushed
    BY InitFlushed
  <1>2. Flushed /\ [Next]_vars => Flushed'
    BY NextFlushed
  <1>3. Flushed => TypeOK
    BY DEF Flushed
  <1> QED
    BY <1>1, <1>2, <1>3, PTL DEF Spec

(***************************************************************************)
(* Whatever the number of threads, once none is between its stores and its *)
(* hook_cacheflush(), instruction fetches return what memory holds.        *)
(***************************************************************************)
THEOREM FlushesSuffice == Spec => []Coherent
  <1>1. Init => Flushed
    BY InitFlushed
  <1>2. Flushed /\ [Next]_vars => Flushed'
    BY NextFlushed
  <1>3. Flushed => Coherent
    BY DEF Flushed
  <1> QED
    BY <1>1, <1>2, <1>3, PTL DEF Spec

-----------------------------------------------------------------------------
(* SerialInv: calls of epoll_wait() do not overlap.                        *)

LEMMA WritingFirst ==
  Writing(1, "jump", "orig") = Original /\ Writing(1, "orig", "jump") = Patch
  BY LenAssumption DEF Writing, Original, Patch

Filled(v) == [j \in Words |-> v]

LEMMA WritingNext ==
  ASSUME NEW i \in Words, NEW new, NEW old
  PROVE  /\ i < Len => [Writing(i, new, old) EXCEPT ![i] = new]
                         = Writing(i + 1, new, old)
         /\ ~(i < Len) => [Writing(i, new, old) EXCEPT ![i] = new]
                            = Filled(new)
  <1>1. Len \in Int /\ \A j \in Words : j \in Int /\ j =< Len
    BY LenAssumption
  <1> DEFINE w == Writing(i, new, old)
             v == [w EXCEPT ![i] = new]
  <1>2. v = [j \in Words |-> IF j = i THEN new ELSE w[j]]
    BY DEF Writing
  <1>3. \A j \in Words : w[j] = IF j < i THEN new ELSE old
    BY DEF Writing
  <1>4. ASSUME i < Len PROVE v = Writing(i + 1, new, old)
    <2>1. \A j \in Words : (IF j = i THEN new ELSE w[j])
                           = (IF j < i + 1 THEN new ELSE old)
      BY <1>1, <1>3
    <2> HIDE DEF w, v
    <2> QED
      BY <1>2, <2>1 DEF Writing
  <1>5. ASSUME ~(i < Len) PROVE v = Filled(new)
    <2>1. \A j \in Words : (IF j = i THEN new ELSE w[j]) = new
      BY <1>1, <1>3, <1>5
    <2> HIDE DEF w, v
    <2> QED
      BY <1>2, <2>1 DEF Filled
  <1> QED
    BY <1>4, <1>5

LEMMA MemForIs ==
  ASSUME NEW f \in Frame
  PROVE  /\ f.at \in {"jump", "target", "flushInstalled", "flushPatched", "load",
                      "decrement"} => MemFor(f) = Patch
         /\ f.at \in {"install", "postcall"} =>
              MemFor(f) = Writing(f.i, "jump", "orig")
         /\ f.at = "precall" => MemFor(f) = Writing(f.i, "orig", "jump")
         /\ f.at \in {"save", "plain", "body", "flushRestored", "doPatch",
                      "original", "calling", "test"} => MemFor(f) = Original
  BY DEF MemFor

(* The busy thread's stack, by its height.                                 *)
LEMMA SerialTop ==
  ASSUME Flushed, SerialInv, NEW t \in Threads, depth[t] > 0
  PROVE  /\ depth[t] \in {1, 2}
         /\ \A u \in Threads : u # t => depth[u] = 0
         /\ depth[t] = 1 => Top(t) = frame[t][1] /\ BusyOK(t, Top(t))
         /\ depth[t] = 2 =>
              /\ Top(t) = frame[t][2]
              /\ frame[t][1].at = "calling" /\ BusyOK(t, frame[t][1])
              /\ mem = Original
              /\ Top(t).at \in {"fetch", "plain", "body", "return"}
              /\ Top(t).at = "fetch" => Top(t).i = 1
         /\ ~Dirty(Top(t)) => icache = mem
  <1>0. TypeOK /\ StackOK /\ SavedOK /\ Coherent
    BY DEF Flushed
  <1>1. BusyOK(t, frame[t][1]) /\ 1 \in Levels /\ 2 \in Levels
        /\ \A u \in Threads : depth[u] \in 0..MaxDepth
    BY <1>0, DepthAssumption, StackTyped DEF SerialInv
  <1>2. depth[t] \in {1, 2}
    BY <1>1 DEF BusyOK
  <1>3. \A u \in Threads : u # t => depth[u] = 0
    BY <1>1 DEF SerialInv
  <1>4. depth[t] = 2 => /\ frame[t][1].at = "calling"
                        /\ frame[t][2].at \in {"fetch", "plain", "body", "return"}
                        /\ frame[t][2].at = "fetch" => frame[t][2].i = 1
    BY <1>0, <1>1 DEF StackOK, BusyOK
  <1>5. frame[t][1] \in Frame
    BY <1>0, <1>1, StackTyped
  <1>6. depth[t] = 2 => mem = Original
    BY <1>1, <1>4, <1>5, MemForIs DEF BusyOK
  <1>7. ASSUME ~Dirty(Top(t)) PROVE icache = mem
    <2>1. \A u \in Threads, d \in Levels : ~Dirty(frame[u][d])
      <3> TAKE u \in Threads, d \in Levels
      <3>1. CASE u = t /\ d = depth[t]
        BY <1>7, <3>1 DEF Top
      <3>2. CASE u = t /\ d < depth[t]
        BY <1>0, <3>2 DEF StackOK, Dirty
      <3>3. CASE d > depth[u]
        BY <1>0, <3>3, FrameFacts DEF StackOK, Dirty
      <3> QED
        BY <1>1, <1>3, <3>1, <3>2, <3>3
    <2> QED
      BY <1>0, <2>1 DEF Coherent
  <1> QED
    BY <1>1, <1>2, <1>3, <1>4, <1>6, <1>7 DEF Top

(* The first activity of the busy thread moves on.                         *)
LEMMA FirstMoves ==
  ASSUME Flushed, SerialInv, NEW t \in Threads, NEW f \in Frame, depth[t] = 1,
         Become(t, f),
         counter' \in 0..Count,
         f.at # "wild",
         f.at \in {"fetch", "return"} => Settled',
         f.at \notin {"fetch", "return"} => mem' = MemFor(f),
         f.at = "fetch" => f.i = 1,
         f.at \in {"plain", "body"} => ~Armed',
         f.at \notin {"fetch", "return"} /\ ~Counted =>
           patches' = IF f.at \in {"plain", "body", "original", "calling"}
                      THEN 1 ELSE 0,
         f.at = "doPatch" => ~Counted,
         f.at \in {"test", "postcall", "flushPatched", "load", "decrement"} => Counted,
         f.at \in {"postcall", "flushPatched", "load", "decrement"} => counter' > 0,
         lines' = Count - counter' + (IF f.at = "decrement" THEN 1 ELSE 0),
         f.at = "decrement" => f.n = counter'
  PROVE  SerialInv'
  <1>1. depth' = depth /\ frame'[t][1] = f
    BY BecomeShape DEF Flushed
  <1>2. BusyOK(t, f)'
    BY <1>1 DEF BusyOK
  <1>3. BusyOK(t, frame[t][1])'
    BY <1>1, <1>2 DEF BusyOK, MemFor
  <1>4. \A u \in Threads : u # t => depth[u] = 0
    BY SerialTop
  <1> QED
    BY <1>1, <1>3, <1>4 DEF SerialInv, AtRest

(* The call of the original moves on above the handler's activity.         *)
LEMMA SecondMoves ==
  ASSUME Flushed, SerialInv, NEW t \in Threads, NEW f \in Frame, depth[t] = 2,
         Become(t, f),
         mem' = mem, EpollUnchanged,
         f.at \in {"fetch", "plain", "body", "return"},
         f.at = "fetch" => f.i = 1
  PROVE  SerialInv'
  <1>1. /\ depth' = depth /\ frame'[t][2] = f
        /\ frame'[t][1] = frame[t][1]
    BY BecomeShape, InstallerAssumption, DepthAssumption DEF Flushed
  <1>2. BusyOK(t, frame[t][1]) /\ frame[t][1].at = "calling"
    BY SerialTop
  <1>3. BusyOK(t, frame[t][1])'
    BY <1>1, <1>2 DEF BusyOK, MemFor, Armed, EpollUnchanged
  <1>4. \A u \in Threads : u # t => depth[u] = 0
    BY SerialTop
  <1> QED
    BY <1>1, <1>3, <1>4 DEF SerialInv, AtRest, EpollUnchanged

LEMMA SaveWordSerial ==
  ASSUME Flushed, SerialInv, NEW t \in Threads, SaveWord(t)
  PROVE  SerialInv'
  <1>1. /\ depth[t] > 0 /\ Top(t).at = "save"
        /\ NextWord(t, "save", "install")
        /\ mem' = mem /\ EpollUnchanged
    BY DEF SaveWord, At
  <1>2. depth[t] = 1 /\ BusyOK(t, Top(t))
    BY <1>1, SerialTop
  <1>3. PICK f \in Frame : /\ Become(t, f)
                           /\ \/ f.at = "save"
                              \/ f.at = "install" /\ f.i = 1
    <2>1. "save" \in Steps /\ "install" \in Steps
      BY DEF Steps, InstallSteps
    <2> QED
      BY <1>1, <2>1, TopFacts, StepsFacts, FrameFields DEF NextWord, Step
  <1>4. mem = Original
    BY <1>1, <1>2, TopFacts, MemForIs DEF BusyOK
  <1>5. mem' = MemFor(f)
    BY <1>1, <1>3, <1>4, MemForIs, WritingFirst
  <1> QED
    BY <1>1, <1>2, <1>3, <1>5, FirstMoves DEF BusyOK, EpollUnchanged, SerialInv

LEMMA WriteJumpSerial ==
  ASSUME Flushed, SerialInv, NEW t \in Threads, InstallWord(t) \/ ReinstallWord(t)
  PROVE  SerialInv'
  <1>1. PICK s \in {"install", "postcall"},
             after \in {"flushInstalled", "flushPatched"} :
          /\ WriteJump(t, s, after)
          /\ s = "install" <=> after = "flushInstalled"
    BY DEF InstallWord, ReinstallWord
  <1>2. /\ depth[t] > 0 /\ Top(t).at = s
        /\ NextWord(t, s, after)
        /\ mem' = [mem EXCEPT ![Top(t).i] = "jump"] /\ EpollUnchanged
    BY <1>1 DEF WriteJump, At
  <1>3. depth[t] = 1 /\ BusyOK(t, Top(t)) /\ Top(t) \in Frame
        /\ Top(t).i \in Words /\ Top(t).n \in Int
    BY <1>2, SerialTop, TopFacts
  <1>4. PICK f \in Frame :
          /\ Become(t, f)
          /\ IF Top(t).i < Len THEN f.at = s /\ f.i = Top(t).i + 1
                              ELSE f.at = after
    <2>1. s \in Steps /\ after \in Steps
      BY DEF Steps, InstallSteps, HandlerSteps
    <2> QED
      BY <1>2, <1>3, <2>1, StepsFacts, FrameFields DEF NextWord, Step
  <1>5. mem = Writing(Top(t).i, "jump", "orig")
    BY <1>2, <1>3, MemForIs DEF BusyOK
  <1>6. mem' = MemFor(f)
    <2> DEFINE k == Top(t).i
    <2>1. mem' = [Writing(k, "jump", "orig") EXCEPT ![k] = "jump"]
      BY <1>2, <1>5
    <2>2. k \in Words
      BY <1>3
    <2>3. f.at = s => f.i = k + 1 /\ k < Len
      BY <1>1, <1>4
    <2>4. f.at # s => f.at \in {"flushInstalled", "flushPatched"} /\ ~(k < Len)
      BY <1>1, <1>4
    <2> HIDE DEF k
    <2>5. k < Len => mem' = Writing(k + 1, "jump", "orig")
      BY <2>1, <2>2, WritingNext
    <2>6. ~(k < Len) => mem' = Patch
      <3>1. ~(k < Len) => [Writing(k, "jump", "orig") EXCEPT ![k] = "jump"]
                            = Filled("jump")
        BY <2>2, WritingNext
      <3>2. Patch = Filled("jump")
        BY DEF Patch, Filled
      <3> QED
        BY <2>1, <3>1, <3>2
    <2>7. CASE f.at = s
      BY <2>3, <2>5, <2>7, MemForIs
    <2>8. CASE f.at # s
      BY <2>4, <2>6, <2>8, MemForIs
    <2> QED
      BY <2>7, <2>8
  <1> QED
    BY <1>1, <1>2, <1>3, <1>4, <1>6, FirstMoves DEF BusyOK, EpollUnchanged, SerialInv

LEMMA RestoreWordSerial ==
  ASSUME Flushed, SerialInv, NEW t \in Threads, RestoreWord(t)
  PROVE  SerialInv'
  <1>2. /\ depth[t] > 0 /\ Top(t).at = "precall"
        /\ NextWord(t, "precall", "flushRestored")
        /\ mem' = [mem EXCEPT ![Top(t).i] = store[Top(t).i]] /\ EpollUnchanged
    BY DEF RestoreWord, At
  <1>3. depth[t] = 1 /\ BusyOK(t, Top(t)) /\ Top(t) \in Frame
        /\ Top(t).i \in Words /\ Top(t).n \in Int /\ store = Original
    BY <1>2, SerialTop, TopFacts
  <1>4. PICK f \in Frame :
          /\ Become(t, f)
          /\ IF Top(t).i < Len THEN f.at = "precall" /\ f.i = Top(t).i + 1
                              ELSE f.at = "flushRestored"
    <2>1. "precall" \in Steps /\ "flushRestored" \in Steps
      BY DEF Steps, HandlerSteps
    <2> QED
      BY <1>2, <1>3, <2>1, StepsFacts, FrameFields DEF NextWord, Step
  <1>5. mem = Writing(Top(t).i, "orig", "jump")
    BY <1>2, <1>3, MemForIs DEF BusyOK
  <1>6. mem' = [mem EXCEPT ![Top(t).i] = "orig"]
    BY <1>2, <1>3 DEF Original
  <1>7. mem' = MemFor(f)
    <2> DEFINE k == Top(t).i
    <2>1. mem' = [Writing(k, "orig", "jump") EXCEPT ![k] = "orig"]
      BY <1>5, <1>6
    <2>2. k \in Words
      BY <1>3
    <2>3. f.at = "precall" => f.i = k + 1 /\ k < Len
      BY <1>4
    <2>4. f.at # "precall" => f.at = "flushRestored" /\ ~(k < Len)
      BY <1>4
    <2> HIDE DEF k
    <2>5. k < Len => mem' = Writing(k + 1, "orig", "jump")
      BY <2>1, <2>2, WritingNext
    <2>6. ~(k < Len) => mem' = Original
      <3>1. ~(k < Len) => [Writing(k, "orig", "jump") EXCEPT ![k] = "orig"]
                            = Filled("orig")
        BY <2>2, WritingNext
      <3>2. Original = Filled("orig")
        BY DEF Original, Filled
      <3> QED
        BY <2>1, <3>1, <3>2
    <2>7. CASE f.at = "precall"
      BY <2>3, <2>5, <2>7, MemForIs
    <2>8. CASE f.at # "precall"
      BY <2>4, <2>6, <2>8, MemForIs
    <2> QED
      BY <2>7, <2>8
  <1> QED
    BY <1>2, <1>3, <1>4, <1>7, FirstMoves DEF BusyOK, EpollUnchanged, SerialInv

LEMMA FlushSerial ==
  ASSUME Flushed, SerialInv, NEW t \in Threads,
         FlushInstalled(t) \/ FlushRestored(t) \/ FlushReinstalled(t)
  PROVE  SerialInv'
  <1>1. PICK from \in {"flushInstalled", "flushRestored", "flushPatched"},
             to \in {"return", "original", "doPatch", "load"} :
          /\ Flush(t, from, to)
          /\ from = "flushInstalled" => to = "return"
          /\ from = "flushRestored" => to = IF Counted THEN "original" ELSE "doPatch"
          /\ from = "flushPatched" => to = "load"
    BY DEF FlushInstalled, FlushRestored, FlushReinstalled
  <1>2. /\ depth[t] > 0 /\ Top(t).at = from
        /\ Step(t, to, 1) /\ mem' = mem /\ EpollUnchanged
    BY <1>1 DEF Flush, At
  <1>3. depth[t] = 1 /\ BusyOK(t, Top(t)) /\ Top(t) \in Frame /\ Top(t).n \in Int
    BY <1>2, SerialTop, TopFacts
  <1>4. PICK f \in Frame : Become(t, f) /\ f.at = to
    <2>1. to \in Steps
      BY DEF Steps, HandlerSteps
    <2> QED
      BY <1>2, <1>3, <2>1, StepsFacts, FrameFields DEF Step
  <1>5. mem = IF from = "flushRestored" THEN Original ELSE Patch
    BY <1>2, <1>3, MemForIs DEF BusyOK
  <1>6. to # "return" => mem' = MemFor(f)
    BY <1>1, <1>2, <1>4, <1>5, MemForIs
  <1>7. to = "return" => Settled'
    BY <1>1, <1>2, <1>3, <1>5 DEF Settled, Armed, BusyOK, EpollUnchanged
  <1> QED
    BY <1>1, <1>2, <1>3, <1>4, <1>6, <1>7, FirstMoves
       DEF BusyOK, EpollUnchanged, SerialInv

LEMMA FetchOriginalSerial ==
  ASSUME Flushed, SerialInv, NEW t \in Threads, FetchOriginal(t)
  PROVE  SerialInv'
  <1>1. /\ depth[t] > 0 /\ Top(t).at \in {"fetch", "plain"}
        /\ icache[Top(t).i] = "orig"
        /\ NextWord(t, "plain", "body") /\ CodeUnchanged /\ EpollUnchanged
    BY DEF FetchOriginal, At
  <1>2. depth[t] \in {1, 2} /\ Top(t) \in Frame /\ Top(t).i \in Words
        /\ Top(t).n \in Int /\ icache = mem
    BY <1>1, SerialTop, TopFacts DEF Dirty
  <1>3. PICK f \in Frame : Become(t, f) /\ f.at \in {"plain", "body"}
    <2>1. "plain" \in Steps /\ "body" \in Steps
      BY DEF Steps, FetchSteps
    <2> QED
      BY <1>1, <1>2, <2>1, StepsFacts, FrameFields DEF NextWord, Step
  <1>4. CASE depth[t] = 2
    BY <1>1, <1>3, <1>4, SecondMoves DEF CodeUnchanged
  <1>5. CASE depth[t] = 1
    <2>1. BusyOK(t, Top(t))
      BY <1>5, SerialTop
    <2>2. mem = Original /\ ~Armed /\ (~Counted => patches = 1)
      <3>1. CASE Top(t).at = "plain"
        BY <1>2, <2>1, <3>1, MemForIs DEF BusyOK
      <3>2. CASE Top(t).at = "fetch"
        <4>1. Settled /\ mem[Top(t).i] = "orig"
          BY <1>1, <1>2, <2>1, <3>2 DEF BusyOK
        <4>2. mem = Original
          BY <1>2, <4>1 DEF Settled, Patch
        <4> QED
          BY <4>1, <4>2, PatchIsNotOriginal DEF Settled
      <3> QED
        BY <1>1, <3>1, <3>2
    <2>3. mem' = MemFor(f)
      BY <1>1, <1>3, <2>2, MemForIs DEF CodeUnchanged
    <2>4. ~Armed' /\ (~Counted => patches' = 1)
      BY <1>1, <2>2 DEF Armed, EpollUnchanged
    <2>5. counter' = counter /\ lines' = lines
      BY <1>1 DEF EpollUnchanged
    <2> QED
      BY <1>1, <1>3, <1>5, <2>1, <2>3, <2>4, <2>5, FirstMoves DEF BusyOK, SerialInv
  <1> QED
    BY <1>2, <1>4, <1>5

LEMMA FetchJumpSerial ==
  ASSUME Flushed, SerialInv, NEW t \in Threads, FetchJump(t)
  PROVE  SerialInv'
  <1>1. /\ depth[t] > 0 /\ Top(t).at \in {"fetch", "jump"}
        /\ icache[Top(t).i] = "jump"
        /\ \/ Top(t).i < Jumps /\ Step(t, "jump", Top(t).i + 1)
           \/ Step(t, "target", 1)
        /\ CodeUnchanged /\ EpollUnchanged
    BY DEF FetchJump, At
  <1>2. depth[t] \in {1, 2} /\ Top(t) \in Frame /\ Top(t).i \in Words
        /\ Top(t).n \in Int /\ icache = mem
    BY <1>1, SerialTop, TopFacts DEF Dirty
  <1>3. PICK f \in Frame : Become(t, f) /\ f.at \in {"jump", "target"}
    <2>1. "jump" \in Steps /\ "target" \in Steps
      BY DEF Steps, FetchSteps
    <2>2. Top(t).i < Jumps => Top(t).i + 1 \in Words
      BY <1>2, LenAssumption
    <2> QED
      BY <1>1, <1>2, <2>1, <2>2, StepsFacts, FrameFields DEF Step
  <1>4. mem # Original
    BY <1>1, <1>2 DEF Original
  <1>5. depth[t] = 1 /\ BusyOK(t, Top(t))
    BY <1>1, <1>2, <1>4, SerialTop
  <1>6. mem = Patch /\ (~Counted => patches = 0)
    <2>1. CASE Top(t).at = "jump"
      BY <1>2, <1>5, <2>1, MemForIs DEF BusyOK
    <2>2. CASE Top(t).at = "fetch"
      BY <1>4, <1>5, <2>2 DEF BusyOK, Settled
    <2> QED
      BY <1>1, <2>1, <2>2
  <1>7. mem' = MemFor(f)
    BY <1>1, <1>3, <1>6, MemForIs DEF CodeUnchanged
  <1> QED
    BY <1>1, <1>3, <1>5, <1>6, <1>7, FirstMoves DEF BusyOK, SerialInv, EpollUnchanged

(* The words a serial call fetches are all of one kind.                    *)
LEMMA NeverMixed ==
  ASSUME Flushed, SerialInv, NEW t \in Threads
  PROVE  ~FetchMixed(t)
  <1> SUFFICES ASSUME FetchMixed(t) PROVE FALSE
    OBVIOUS
  <1>1. /\ depth[t] > 0
        /\ \/ Top(t).at = "plain" /\ icache[Top(t).i] = "jump"
           \/ Top(t).at = "jump" /\ icache[Top(t).i] = "orig"
    BY DEF FetchMixed, At
  <1>2. depth[t] \in {1, 2} /\ Top(t) \in Frame /\ Top(t).i \in Words
        /\ icache = mem
    BY <1>1, SerialTop, TopFacts DEF Dirty
  <1>3. CASE depth[t] = 2
    BY <1>1, <1>2, <1>3, SerialTop DEF Original
  <1>4. CASE depth[t] = 1
    BY <1>1, <1>2, <1>4, SerialTop, MemForIs DEF BusyOK, Original, Patch
  <1> QED
    BY <1>2, <1>3, <1>4

LEMMA LoadTargetSerial ==
  ASSUME Flushed, SerialInv, NEW t \in Threads, LoadTarget(t)
  PROVE  SerialInv'
  <1>1. /\ depth[t] > 0 /\ Top(t).at = "target"
        /\ Step(t, IF mem[Len] = "jump" THEN "precall" ELSE "wild", 1)
        /\ CodeUnchanged /\ EpollUnchanged
    BY DEF LoadTarget, At
  <1>2. depth[t] = 1 /\ BusyOK(t, Top(t)) /\ Top(t) \in Frame /\ Top(t).n \in Int
    BY <1>1, SerialTop, TopFacts
  <1>3. mem = Patch
    BY <1>1, <1>2, MemForIs DEF BusyOK
  <1>4. mem[Len] = "jump"
    BY <1>3, StepsFacts DEF Patch
  <1>5. PICK f \in Frame : Become(t, f) /\ f.at = "precall" /\ f.i = 1
    <2>1. "precall" \in Steps
      BY DEF Steps, HandlerSteps
    <2> QED
      BY <1>1, <1>2, <1>4, <2>1, StepsFacts, FrameFields DEF Step
  <1>6. mem' = MemFor(f)
    BY <1>1, <1>3, <1>5, MemForIs, WritingFirst DEF CodeUnchanged
  <1> QED
    BY <1>1, <1>2, <1>5, <1>6, FirstMoves DEF BusyOK, SerialInv, EpollUnchanged

LEMMA BodySerial ==
  ASSUME Flushed, SerialInv, NEW t \in Threads, Body(t)
  PROVE  SerialInv'
  <1>1. /\ depth[t] > 0 /\ Top(t).at = "body"
        /\ Step(t, "return", 1) /\ CodeUnchanged /\ EpollUnchanged
    BY DEF Body, At
  <1>2. depth[t] \in {1, 2} /\ Top(t) \in Frame /\ Top(t).n \in Int
    BY <1>1, SerialTop, TopFacts
  <1>3. PICK f \in Frame : Become(t, f) /\ f.at = "return"
    BY <1>1, <1>2, StepsFacts, FrameFields DEF Step
  <1>4. CASE depth[t] = 2
    BY <1>1, <1>3, <1>4, SecondMoves DEF CodeUnchanged
  <1>5. CASE depth[t] = 1
    <2>1. BusyOK(t, Top(t))
      BY <1>5, SerialTop
    <2>2. mem = Original /\ ~Armed /\ (~Counted => patches = 1)
      BY <1>1, <1>2, <2>1, MemForIs DEF BusyOK
    <2>3. Settled'
      BY <1>1, <2>2, PatchIsNotOriginal
         DEF Settled, Armed, CodeUnchanged, EpollUnchanged
    <2> QED
      BY <1>1, <1>3, <1>5, <2>1, <2>3, FirstMoves DEF BusyOK, SerialInv, EpollUnchanged
  <1> QED
    BY <1>2, <1>4, <1>5

LEMMA DoPatchSerial ==
  ASSUME Flushed, SerialInv, NEW t \in Threads, DoPatch(t)
  PROVE  SerialInv'
  <1>1. /\ depth[t] > 0 /\ Top(t).at = "doPatch" /\ patches' = patches + 1
        /\ Step(t, "original", 1) /\ CodeUnchanged
        /\ UNCHANGED <<counter, lines, removing>>
    BY DEF DoPatch, At
  <1>2. depth[t] = 1 /\ BusyOK(t, Top(t)) /\ Top(t) \in Frame /\ Top(t).n \in Int
    BY <1>1, SerialTop, TopFacts
  <1>3. PICK f \in Frame : Become(t, f) /\ f.at = "original"
    <2>1. "original" \in Steps
      BY DEF Steps, HandlerSteps
    <2> QED
      BY <1>1, <1>2, <2>1, StepsFacts, FrameFields DEF Step
  <1>4. mem' = MemFor(f)
    BY <1>1, <1>2, <1>3, MemForIs DEF CodeUnchanged, BusyOK
  <1> QED
    BY <1>1, <1>2, <1>3, <1>4, FirstMoves DEF BusyOK, SerialInv

LEMMA TestCounterSerial ==
  ASSUME Flushed, SerialInv, NEW t \in Threads, TestCounter(t)
  PROVE  SerialInv'
  <1>1. /\ depth[t] > 0 /\ Top(t).at = "test"
        /\ Step(t, IF counter # 0 THEN "postcall" ELSE "return", 1)
        /\ CodeUnchanged /\ EpollUnchanged
    BY DEF TestCounter, At
  <1>2. depth[t] = 1 /\ BusyOK(t, Top(t)) /\ Top(t) \in Frame /\ Top(t).n \in Int
    BY <1>1, SerialTop, TopFacts
  <1>3. mem = Original /\ Counted /\ counter \in 0..Count
    BY <1>1, <1>2, MemForIs DEF BusyOK, SerialInv
  <1>4. PICK f \in Frame :
          /\ Become(t, f) /\ f.i = 1
          /\ f.at = IF counter # 0 THEN "postcall" ELSE "return"
    <2>1. "postcall" \in Steps
      BY DEF Steps, HandlerSteps
    <2> QED
      BY <1>1, <1>2, <2>1, StepsFacts, FrameFields DEF Step
  <1>5. counter # 0 => mem' = MemFor(f)
    BY <1>1, <1>3, <1>4, MemForIs, WritingFirst DEF CodeUnchanged
  <1>6. counter = 0 => Settled'
    BY <1>1, <1>3 DEF Settled, Armed, CodeUnchanged, EpollUnchanged
  <1>7. counter # 0 => counter > 0
    BY <1>3, CountAssumption
  <1> QED
    BY <1>1, <1>2, <1>3, <1>4, <1>5, <1>6, <1>7, FirstMoves
       DEF BusyOK, SerialInv, EpollUnchanged

LEMMA LoadCounterSerial ==
  ASSUME Flushed, SerialInv, NEW t \in Threads, LoadCounter(t)
  PROVE  SerialInv'
  <1>1. /\ depth[t] > 0 /\ Top(t).at = "load" /\ lines' = lines + 1
        /\ Become(t, [at |-> "decrement", i |-> 1, n |-> counter])
        /\ CodeUnchanged /\ UNCHANGED <<counter, removing, patches>>
    BY DEF LoadCounter, At
  <1>2. depth[t] = 1 /\ BusyOK(t, Top(t)) /\ Top(t) \in Frame
        /\ counter \in 0..Count /\ counter \in Int
    BY <1>1, CountAssumption, SerialTop, TopFacts DEF SerialInv
  <1>3. PICK f \in Frame : Become(t, f) /\ f.at = "decrement" /\ f.n = counter
    <2>1. "decrement" \in Steps
      BY DEF Steps, HandlerSteps
    <2> QED
      BY <1>1, <1>2, <2>1, StepsFacts, FrameFields
  <1>4. mem' = MemFor(f)
    BY <1>1, <1>2, <1>3, MemForIs DEF CodeUnchanged, BusyOK
  <1>5. lines' = Count - counter' + 1
    BY <1>1, <1>2, CountAssumption DEF BusyOK
  <1> QED
    BY <1>1, <1>2, <1>3, <1>4, <1>5, FirstMoves DEF BusyOK

LEMMA StoreCounterSerial ==
  ASSUME Flushed, SerialInv, NEW t \in Threads, StoreCounter(t)
  PROVE  SerialInv'
  <1>1. /\ depth[t] > 0 /\ Top(t).at = "decrement"
        /\ counter' = Top(t).n - 1
        /\ Step(t, "return", 1)
        /\ CodeUnchanged /\ UNCHANGED <<lines, patches>>
    BY DEF StoreCounter, At
  <1>2. depth[t] = 1 /\ BusyOK(t, Top(t)) /\ Top(t) \in Frame
        /\ Top(t).n \in Int /\ counter \in 0..Count
    BY <1>1, SerialTop, TopFacts DEF SerialInv
  <1>3. PICK f \in Frame : Become(t, f) /\ f.at = "return"
    BY <1>1, <1>2, StepsFacts, FrameFields DEF Step
  <1>4. mem = Patch /\ Counted /\ counter > 0 /\ Top(t).n = counter
        /\ lines = Count - counter + 1
    BY <1>1, <1>2, MemForIs DEF BusyOK
  <1>5. counter' = counter - 1 /\ counter' \in 0..Count /\ lines' = Count - counter'
    BY <1>1, <1>2, <1>4, CountAssumption
  <1>6. Settled'
    BY <1>1, <1>4 DEF Settled, CodeUnchanged
  <1> QED
    BY <1>2, <1>3, <1>5, <1>6, FirstMoves

LEMMA CallSerial ==
  ASSUME Flushed, SerialInv, ~Overlap, NEW t \in Threads, Call(t)
  PROVE  SerialInv'
  <1>1. \A u \in Threads : depth[u] = 0
    BY DEF Call
  <1>2. Settled /\ lines = Count - counter
    BY <1>1 DEF SerialInv, AtRest
  <1>3. /\ depth'[t] = 1 /\ \A u \in Threads : u # t => depth'[u] = depth[u]
        /\ frame'[t][1] = Entry
    BY CallShape DEF Flushed
  <1>4. UNCHANGED <<mem, icache, store, counter, lines, removing, patches>>
    BY DEF Call, CodeUnchanged, EpollUnchanged
  <1>5. Settled'
    BY <1>2, <1>4 DEF Settled, Armed
  <1>6. BusyOK(t, frame[t][1])'
    BY <1>2, <1>3, <1>4, <1>5, FrameFacts DEF BusyOK
  <1> QED
    BY <1>1, <1>3, <1>4, <1>6 DEF SerialInv, AtRest

LEMMA CallOriginalSerial ==
  ASSUME Flushed, SerialInv, NEW t \in Threads, CallOriginal(t)
  PROVE  SerialInv'
  <1>1. /\ depth[t] > 0 /\ Top(t).at = "original"
        /\ UNCHANGED <<mem, icache, store, counter, lines, removing, patches>>
    BY DEF CallOriginal, At, CodeUnchanged, EpollUnchanged
  <1>2. depth[t] = 1 /\ BusyOK(t, Top(t)) /\ Top(t) \in Frame
        /\ \A u \in Threads : u # t => depth[u] = 0
    BY <1>1, SerialTop, TopFacts
  <1>3. /\ depth'[t] = 2 /\ \A u \in Threads : u # t => depth'[u] = depth[u]
        /\ frame'[t][1].at = "calling" /\ frame'[t][2] = Entry
        /\ frame'[t][1] \in Frame
    <2>1. /\ depth[t] \in Levels
          /\ depth'[t] = depth[t] + 1
          /\ \A u \in Threads : u # t => depth'[u] = depth[u]
          /\ frame' \in [Threads -> [Levels -> Frame]]
          /\ frame'[t][depth[t]].at = "calling"
          /\ frame'[t][depth[t] + 1] = Entry
      BY CallOriginalShape DEF Flushed
    <2>2. depth[t] + 1 = 2 /\ depth[t] = 1
      BY <1>2
    <2>3. frame'[t][2] = Entry /\ frame'[t][1].at = "calling"
      BY <2>1, <2>2
    <2> QED
      BY <2>1, <2>2, <2>3
  <1>4. mem = Original
    BY <1>1, <1>2, MemForIs DEF BusyOK
  <1>5. mem' = MemFor(frame'[t][1])
    BY <1>1, <1>3, <1>4, MemForIs
  <1>6. BusyOK(t, frame[t][1])'
    BY <1>1, <1>2, <1>3, <1>5, FrameFacts DEF BusyOK, MemFor
  <1> QED
    BY <1>1, <1>2, <1>3, <1>6 DEF SerialInv, AtRest

LEMMA ReturnSerial ==
  ASSUME Flushed, SerialInv, NEW t \in Threads, Return(t)
  PROVE  SerialInv'
  <1>1. /\ depth[t] \in Levels
        /\ frame[t][depth[t]].at = "return"
        /\ depth'[t] = depth[t] - 1
        /\ \A u \in Threads : u # t => depth'[u] = depth[u]
        /\ frame' \in [Threads -> [Levels -> Frame]]
        /\ depth[t] > 1 =>
             frame'[t][depth[t] - 1].at = IF Counted THEN "test" ELSE "return"
        /\ UNCHANGED <<mem, icache, store, counter, lines, removing, patches>>
    BY ReturnShape DEF Flushed
  <1>2. depth[t] \in {1, 2} /\ depth[t] > 0 /\ Top(t) \in Frame
        /\ Top(t).at = "return"
        /\ \A u \in Threads : u # t => depth[u] = 0
    BY <1>1, DepthAssumption, SerialTop, TopFacts DEF Top
  <1>3. CASE depth[t] = 1
    <2>1. Settled /\ lines = Count - counter + 0 /\ counter \in 0..Count
      BY <1>2, <1>3, SerialTop DEF BusyOK, SerialInv
    <2>2. Settled'
      BY <1>1, <2>1 DEF Settled, Armed
    <2>3. \A u \in Threads : depth'[u] = 0
      BY <1>1, <1>2, <1>3
    <2>4. lines' = Count - counter' /\ counter' \in 0..Count
      BY <1>1, <2>1, CountAssumption
    <2> QED
      BY <2>2, <2>3, <2>4 DEF SerialInv, AtRest
  <1>4. CASE depth[t] = 2
    <2>1. /\ frame[t][1].at = "calling" /\ BusyOK(t, frame[t][1])
          /\ mem = Original
      BY <1>2, <1>4, SerialTop
    <2>2. /\ depth'[t] = 1
          /\ frame'[t][1].at = IF Counted THEN "test" ELSE "return"
          /\ frame'[t][1] \in Frame
      <3>1. depth[t] - 1 = 1 /\ depth[t] > 1
        BY <1>4
      <3>2. frame'[t][1].at = IF Counted THEN "test" ELSE "return"
        BY <1>1, <3>1
      <3>3. 1 \in Levels
        BY DepthAssumption
      <3> QED
        BY <1>1, <3>1, <3>2, <3>3
    <2>3. ~Counted => patches = 1 /\ ~Armed
      BY <2>1 DEF BusyOK, Armed
    <2>4. ~Counted => Settled'
      BY <1>1, <2>1, <2>3, PatchIsNotOriginal DEF Settled, Armed
    <2>5. Counted => mem' = MemFor(frame'[t][1])
      BY <1>1, <2>1, <2>2, MemForIs
    <2>6. BusyOK(t, frame[t][1])'
      BY <1>1, <2>1, <2>2, <2>4, <2>5 DEF BusyOK, MemFor
    <2> QED
      BY <1>1, <1>2, <2>2, <2>6 DEF SerialInv, AtRest
  <1> QED
    BY <1>2, <1>3, <1>4

LEMMA InitSerial == Init => SerialInv
  <1> SUFFICES ASSUME Init PROVE SerialInv
    OBVIOUS
  <1>1. 1 \in Levels /\ Installer \in Threads /\ "save" \in Steps
    BY DepthAssumption, InstallerAssumption DEF Steps, InstallSteps
  <1> DEFINE f == [NoFrame EXCEPT !.at = "save"]
  <1>2. frame[Installer][1] = f /\ f.at = "save" /\ f \in Frame
    BY <1>1, FrameFacts, FrameMoved DEF Init
  <1>3. \A t \in Threads : depth[t] = IF t = Installer THEN 1 ELSE 0
    BY DEF Init
  <1>4. mem = Original /\ counter = Count /\ lines = 0 /\ patches = 0
    BY DEF Init
  <1> HIDE DEF f
  <1>5. mem = MemFor(f)
    BY <1>2, <1>4, MemForIs
  <1>6. lines = Count - counter + 0 /\ counter \in 0..Count
    BY <1>4, CountAssumption
  <1>7. BusyOK(Installer, frame[Installer][1])
    BY <1>1, <1>2, <1>3, <1>4, <1>5, <1>6 DEF BusyOK
  <1>8. ~AtRest
    BY <1>1, <1>3 DEF AtRest
  <1> QED
    BY <1>3, <1>6, <1>7, <1>8 DEF SerialInv

LEMMA NextSerial == Flushed /\ SerialInv /\ ~Overlap /\ [Next]_vars => SerialInv'
  <1> SUFFICES ASSUME Flushed, SerialInv, ~Overlap, [Next]_vars PROVE SerialInv'
    OBVIOUS
  <1>1. CASE UNCHANGED vars
    BY <1>1 DEF vars, SerialInv, AtRest, Settled, Armed, BusyOK, MemFor
  <1>2. CASE \E t \in Threads : Call(t)
    BY <1>2, CallSerial
  <1>3. CASE \E t \in Threads : ThreadStep(t)
    BY <1>3, SaveWordSerial, WriteJumpSerial, RestoreWordSerial, FlushSerial,
       FetchOriginalSerial, FetchJumpSerial, NeverMixed, LoadTargetSerial,
       BodySerial, DoPatchSerial, CallOriginalSerial, ReturnSerial,
       TestCounterSerial, LoadCounterSerial, StoreCounterSerial DEF ThreadStep
  <1>4. CASE \E i \in Words : Refill(i)
    <2>1. UNCHANGED <<mem, counter, lines, patches, frame, depth>>
      BY <1>4 DEF Refill, EpollUnchanged
    <2> QED
      BY <2>1 DEF SerialInv, AtRest, Settled, Armed, BusyOK, MemFor
  <1> QED
    BY <1>1, <1>2, <1>3, <1>4 DEF Next

(***************************************************************************)
(* The inductive invariant holds of every behaviour: the flush bookkeeping *)
(* for overlapping threads, the exact words of the patch for serial calls. *)
(***************************************************************************)
THEOREM Invariance == Spec => []IInv
  <1>1. Init => IInv
    BY InitFlushed, InitSerial DEF IInv
  <1>2. IInv /\ [Next]_vars => IInv'
    BY NextFlushed, NextSerial DEF IInv
  <1> QED
    BY <1>1, <1>2, PTL DEF Spec

LEMMA SerialNeverWild == IInv /\ ~Overlap => NeverWild
  <1> SUFFICES ASSUME IInv, ~Overlap, NEW t \in Threads, NEW d \in Levels,
                      frame[t][d].at = "wild"
               PROVE  FALSE
    BY DEF NeverWild, Wild
  <1>1. Flushed /\ SerialInv /\ StackOK /\ depth[t] \in 0..MaxDepth
    BY StackTyped DEF IInv, Flushed
  <1>2. d = depth[t]
    BY <1>1, DepthAssumption, FrameFacts DEF StackOK
  <1>3. depth[t] > 0 /\ Top(t).at = "wild"
    BY <1>1, <1>2 DEF Top
  <1> QED
    BY <1>1, <1>3, SerialTop DEF BusyOK

(***************************************************************************)
(* As long as calls of epoll_wait() do not overlap, none of them executes  *)
(* a mixture of patch and original or jumps astray, for any number of      *)
(* threads and any length of the patch.                                    *)
(***************************************************************************)
THEOREM NeverWildWhenSerial == ASSUME ~Overlap PROVE Spec => []NeverWild
  BY SerialNeverWild, Invariance, PTL

(***************************************************************************)
(* The same of the two programs together: the event loop of epoll.c never  *)
(* executes a mixture or jumps astray, whichever of the two is running.    *)
(***************************************************************************)
THEOREM NeverWildUnlessShared ==
  ASSUME ~Overlap
  PROVE  MCSpec => []NeverWildSerial
  <1> DEFINE SInv == shared \in BOOLEAN /\ (shared \/ IInv)
  <1>1. MCInit => SInv
    BY InitFlushed, InitSerial DEF MCInit, IInv
  <1>2. SInv /\ [MCNext]_<<vars, shared>> => SInv'
    <2> SUFFICES ASSUME SInv, [MCNext]_<<vars, shared>>, ~shared PROVE SInv'
      BY DEF MCNext
    <2>1. [Next]_vars /\ shared' = shared
      BY DEF MCNext
    <2>2. IInv'
      BY <2>1, NextFlushed, NextSerial DEF IInv
    <2> QED
      BY <2>1, <2>2
  <1>3. SInv => NeverWildSerial
    BY SerialNeverWild DEF NeverWildSerial
  <1> QED
    BY <1>1, <1>2, <1>3, PTL DEF MCSpec

(***************************************************************************)
(* As long as calls do not overlap, the function is whole between calls    *)
(* and the hook in place while my_epoll_wait() wants it.                   *)
(***************************************************************************)
THEOREM ArmedWhenSerial == ASSUME ~Overlap PROVE Spec => []HookArmed
  <1>1. IInv => HookArmed
    <2> SUFFICES ASSUME IInv, AtRest
                 PROVE  /\ icache = mem
                        /\ mem \in {Patch, Original}
                        /\ (IF Counted THEN counter > 0 ELSE patches = 0) =>
                             mem = Patch
      BY DEF HookArmed
    <2>1. Settled
      BY DEF IInv, SerialInv
    <2>2. \A t \in Threads, d \in Levels : ~Dirty(frame[t][d])
      BY DepthAssumption, FrameFacts DEF IInv, Flushed, StackOK, AtRest, Dirty
    <2>3. icache = mem
      BY <2>2 DEF IInv, Flushed, Coherent
    <2> QED
      BY <2>1, <2>3 DEF Settled, Armed
  <1> QED
    BY <1>1, Invariance, PTL

(***************************************************************************)
(* As long as calls do not overlap, the handler's call runs the original.  *)
(***************************************************************************)
THEOREM OriginalWhenSerial == ASSUME ~Overlap PROVE Spec => []OriginalReached
  <1>1. IInv => OriginalReached
    <2> SUFFICES ASSUME IInv, NEW t \in Threads, NEW d \in Levels, d < depth[t]
                 PROVE  frame[t][d + 1].at \in {"fetch", "plain", "body", "return"}
      BY DEF OriginalReached
    <2>1. Flushed /\ SerialInv /\ depth[t] \in 0..MaxDepth
      BY StackTyped DEF IInv, Flushed
    <2>2. depth[t] = 2 /\ d = 1
      BY <2>1, DepthAssumption, SerialTop
    <2>3. Top(t) = frame[t][2] /\ Top(t).at \in {"fetch", "plain", "body", "return"}
      BY <2>1, <2>2, SerialTop
    <2> QED
      BY <2>2, <2>3
  <1> QED
    BY <1>1, Invariance, PTL

(***************************************************************************)
(* As long as calls do not overlap, epoll.c logs at most Count calls.      *)
(***************************************************************************)
THEOREM CountedWhenSerial == ASSUME ~Overlap PROVE Spec => []LoggedAtMostCount
  <1>1. IInv => LoggedAtMostCount
    <2> SUFFICES ASSUME IInv PROVE lines =< Count
      BY DEF LoggedAtMostCount
    <2>1. Flushed /\ SerialInv /\ counter \in 0..Count
      BY DEF IInv, SerialInv
    <2>2. CASE AtRest
      BY <2>1, <2>2, CountAssumption DEF SerialInv
    <2>3. CASE ~AtRest
      <3>1. PICK t \in Threads : depth[t] > 0
        BY <2>1, <2>3, StackTyped, DepthAssumption DEF AtRest, Flushed
      <3>2. BusyOK(t, frame[t][1])
        BY <2>1, <3>1 DEF SerialInv
      <3>3. frame[t][1].at = "decrement" => counter > 0
        BY <3>2 DEF BusyOK
      <3> QED
        BY <2>1, <3>2, <3>3, CountAssumption DEF BusyOK
    <2> QED
      BY <2>2, <2>3
  <1> QED
    BY <1>1, Invariance, PTL

=============================================================================
