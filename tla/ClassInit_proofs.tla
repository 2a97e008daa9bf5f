--------------------------- MODULE ClassInit_proofs ---------------------------
(***************************************************************************)
(* Class initialization and library loading are safe for any number of     *)
(* threads, classes, libraries and loaders, any superclass relation and    *)
(* any code of <clinit> and JNI_OnLoad().  The invariant says how frames   *)
(* lie on a stack (StackOK), what the place of a frame says of its class   *)
(* (ClassFrameOK) and of its SharedLib (LoadFrameOK), that one frame does  *)
(* the work on each (WorkPairOK, OwnPairOK), and of each class and         *)
(* SharedLib that the frame that works on it exists (ClassOK, EntryOK).    *)
(***************************************************************************)
EXTENDS ClassInit, TLAPS

Active   == {"super", "superwait", "superfailed", "clinit", "thrown", "done"}
MonSteps == {"loop", "begin", "unlock", "woken", "notify"}
\* the SharedLib is the thread's own, or not yet in the table, or about to be loaded
Private  == {"probe", "store"}
Pending  == Private \cup {"onload", "okay", "bad"}
Own      == Private \cup OnLoadSteps

Ready(t, c) ==
  \/ status[c] = "initialized"
  \/ status[c] = "initializing" /\ initThread[c] = t
SuperOK(c) ==
  Super[c] # NoClass => \/ status[Super[c]] = "initialized"
                        \/ initThread[Super[c]] = initThread[c]

StackOK(t, d) ==
  /\ d > depth[t] => frame[t][d] = NoFrame
  /\ d <= depth[t] => frame[t][d].at # "none"
  /\ d < depth[t] => frame[t][d].at \in {"clinit", "onload", "superwait"}
  /\ frame[t][d].at = "superwait" =>
       d < depth[t] /\ frame[t][d + 1].sub /\ frame[t][d + 1].x = Super[frame[t][d].x]
  /\ frame[t][d].sub => /\ frame[t][d].at \in InitSteps \cup WorkSteps
                        /\ d > 1 /\ frame[t][d - 1].at = "superwait"
  /\ frame[t][d].at \in UseSteps \cup InitSteps \cup WorkSteps => frame[t][d].x \in Classes
  /\ frame[t][d].at \in LoadSteps \cup OnLoadSteps => frame[t][d].x \in Libs

ClassFrameOK(t, d) ==
  /\ frame[t][d].at \in MonSteps => owner[frame[t][d].x] = t
  /\ frame[t][d].at \in Active =>
       status[frame[t][d].x] = "initializing" /\ initThread[frame[t][d].x] = t
  /\ frame[t][d].at \in {"marked", "notify"} => status[frame[t][d].x] \in Final
  /\ frame[t][d].at = "begin" => status[frame[t][d].x] \in {"verified", "error"}
  /\ frame[t][d].at \in {"waiting", "woken"} =>
       status[frame[t][d].x] \in {"initializing", "initialized", "error"}
  /\ frame[t][d].at \in {"unlock", "return"} =>
       status[frame[t][d].x] = "error" \/ Ready(t, frame[t][d].x)
  /\ frame[t][d].at \in {"cache", "used"} => Ready(t, frame[t][d].x)
  /\ frame[t][d].at \in {"clinit", "thrown", "done"} => SuperOK(frame[t][d].x)

LoadFrameOK(t, d) ==
  /\ frame[t][d].e # NoEntry => entry[frame[t][d].e].result # "unused"
  /\ frame[t][d].at \in Own \cup {"check", "test", "asleep", "loaded"} =>
       frame[t][d].e # NoEntry
  /\ frame[t][d].at \in Pending => entry[frame[t][d].e].result = "pending"
  /\ frame[t][d].at \in Pending \cup {"clear"} => entry[frame[t][d].e].thread = t
  /\ frame[t][d].at \in {"clear", "broadcast"} =>
       entry[frame[t][d].e].result \in {"okay", "failed"}
  /\ frame[t][d].at \in {"test", "asleep"} => entry[frame[t][d].e].thread # t
  /\ frame[t][d].at = "loaded" =>
       entry[frame[t][d].e].result = "okay" \/ entry[frame[t][d].e].thread = t
  /\ frame[t][d].at \in Private => \A l \in Libs : slot[l] # frame[t][d].e

\* one frame does the work on a class, and on a SharedLib, which is its own at first
WorkPairOK(t, d, u, k) ==
  /\ t # u \/ d # k
  /\ frame[t][d].at \in Active /\ frame[u][k].at \in Active
  => frame[t][d].x # frame[u][k].x
OwnPairOK(t, d, u, k) ==
  t # u \/ d # k =>
    /\ frame[t][d].at \in Own /\ frame[u][k].at \in Own => frame[t][d].e # frame[u][k].e
    /\ frame[t][d].at \in Private => frame[u][k].e # frame[t][d].e

ClassOK(c) ==
  /\ status[c] \in {"initializing", "initialized"} => initThread[c] \in Threads
  /\ initThread[c] # Nobody => status[c] \in {"initializing", "initialized", "error"}
  /\ status[c] = "initialized" => SuperOK(c)
  /\ c \in resolved => status[c] = "initialized"
  /\ status[c] = "initializing" =>
       \E d \in Levels : frame[initThread[c]][d].x = c /\ frame[initThread[c]][d].at \in Active
  /\ \A t \in waitSet[c] : \E u \in Threads \ {t}, d \in Levels :
       frame[u][d].x = c /\ frame[u][d].at \in WorkSteps

EntryOK(e) ==
  /\ entry[e].result = "pending" =>
       /\ entry[e].thread \in Threads
       /\ \E d \in Levels : /\ frame[entry[e].thread][d].e = e
                            /\ frame[entry[e].thread][d].at \in Pending
  /\ \A t \in condWait[e] : \E u \in Threads \ {t}, d \in Levels :
       frame[u][d].e = e /\ frame[u][d].at \in OnLoadSteps
SlotOK(l) == slot[l] # NoEntry => entry[slot[l]].result # "unused"

Stacks == \A t \in Threads, d \in Levels : StackOK(t, d)
ClassInv ==
  /\ \A t \in Threads, d \in Levels : ClassFrameOK(t, d)
  /\ \A t, u \in Threads, d, k \in Levels : WorkPairOK(t, d, u, k)
  /\ \A c \in Classes : ClassOK(c)
LoadInv ==
  /\ \A t \in Threads, d \in Levels : LoadFrameOK(t, d)
  /\ \A t, u \in Threads, d, k \in Levels : OwnPairOK(t, d, u, k)
  /\ \A e \in Entries : EntryOK(e)
  /\ \A l \in Libs : SlotOK(l)

IInv == TypeOK /\ Stacks /\ ClassInv /\ LoadInv

(***************************************************************************)
(* What a step does to the stacks.                                         *)
(***************************************************************************)
\* all frames but the one at depth d of t's stack are as they were
Same(t, d) ==
  \A u \in Threads, k \in Levels : u # t \/ k # d => frame'[u][k] = frame[u][k]
\* the top of t's stack goes on at s
Moved(t, s) ==
  /\ depth' = depth /\ Same(t, depth[t])
  /\ frame'[t][depth[t]].at = s /\ frame'[t][depth[t]].x = frame[t][depth[t]].x
  /\ frame'[t][depth[t]].sub = frame[t][depth[t]].sub
  /\ frame'[t][depth[t]].e = frame[t][depth[t]].e
\* and has to do with the SharedLib e
MovedTo(t, s, e) ==
  /\ depth' = depth /\ Same(t, depth[t])
  /\ frame'[t][depth[t]].at = s /\ frame'[t][depth[t]].x = frame[t][depth[t]].x
  /\ frame'[t][depth[t]].sub = frame[t][depth[t]].sub
  /\ frame'[t][depth[t]].e = e
\* a frame for x that starts at s is pushed
Pushed(t, s, x) ==
  /\ depth[t] + 1 \in Levels
  /\ depth'[t] = depth[t] + 1 /\ \A u \in Threads \ {t} : depth'[u] = depth[u]
  /\ Same(t, depth[t] + 1)
  /\ frame'[t][depth[t] + 1].at = s /\ frame'[t][depth[t] + 1].x = x
  /\ frame'[t][depth[t] + 1].sub = FALSE /\ frame'[t][depth[t] + 1].e = NoEntry
Popped(t) ==
  /\ depth'[t] = depth[t] - 1 /\ \A u \in Threads \ {t} : depth'[u] = depth[u]
  /\ Same(t, depth[t]) /\ frame'[t][depth[t]] = NoFrame

StackType == frame \in [Threads -> [Levels -> Frame]] /\ depth \in [Threads -> 0..MaxDepth]

\* Goto() moves the top frame.
LEMMA MovedTop ==
  ASSUME StackType, NEW t \in Threads, depth[t] > 0, NEW s \in Steps, Goto(t, s)
  PROVE  depth[t] \in Levels /\ Moved(t, s) /\ StackType'
<1> USE DepthAssumption
<1>1. depth[t] \in Levels /\ frame[t][depth[t]] \in Frame
  BY DEF StackType, Levels
<1>2. [frame[t][depth[t]] EXCEPT !.at = s] \in Frame
  BY <1>1 DEF Frame
<1>3. depth' = depth /\ frame' = [frame EXCEPT ![t] = [frame[t] EXCEPT ![depth[t]] =
                                    [frame[t][depth[t]] EXCEPT !.at = s]]]
  BY DEF Goto, Become, Top
<1>4. StackType'
  BY <1>1, <1>2, <1>3 DEF StackType
<1>5. frame'[t][depth[t]] = [frame[t][depth[t]] EXCEPT !.at = s] /\ Same(t, depth[t])
  BY <1>1, <1>3 DEF StackType, Same
<1> QED
  BY <1>1, <1>3, <1>4, <1>5 DEF Moved, Frame

\* So does finding the SharedLib e.
LEMMA MovedToEntry ==
  ASSUME StackType, NEW t \in Threads, depth[t] > 0, NEW s \in Steps, NEW e \in Entries,
         Become(t, [Top(t) EXCEPT !.at = s, !.e = e])
  PROVE  depth[t] \in Levels /\ MovedTo(t, s, e) /\ StackType'
<1> USE DepthAssumption
<1>1. depth[t] \in Levels /\ frame[t][depth[t]] \in Frame
  BY DEF StackType, Levels
<1>2. [frame[t][depth[t]] EXCEPT !.at = s, !.e = e] \in Frame
  BY <1>1 DEF Frame
<1>3. depth' = depth /\ frame' = [frame EXCEPT ![t] = [frame[t] EXCEPT ![depth[t]] =
                                    [frame[t][depth[t]] EXCEPT !.at = s, !.e = e]]]
  BY DEF Become, Top
<1>4. StackType'
  BY <1>1, <1>2, <1>3 DEF StackType
<1>5. /\ frame'[t][depth[t]] = [frame[t][depth[t]] EXCEPT !.at = s, !.e = e]
      /\ Same(t, depth[t])
  BY <1>1, <1>3 DEF StackType, Same
<1> QED
  BY ZenonT(60), <1>1, <1>3, <1>4, <1>5 DEF MovedTo, Frame

\* Push() pushes a frame.
LEMMA PushedTop ==
  ASSUME StackType, NEW t \in Threads, NEW f \in Frame, Push(t, f),
         ~f.sub, f.e = NoEntry
  PROVE  Pushed(t, f.at, f.x) /\ StackType'
<1> USE DepthAssumption
<1>1. depth[t] + 1 \in Levels
  BY DEF Push, StackType, Levels
<1>2. /\ depth' = [depth EXCEPT ![t] = depth[t] + 1]
      /\ frame' = [frame EXCEPT ![t] = [frame[t] EXCEPT ![depth[t] + 1] = f]]
  BY DEF Push
<1>3. StackType'
  <2>1. frame' \in [Threads -> [Levels -> Frame]]
    BY <1>1, <1>2 DEF StackType
  <2>2. depth' \in [Threads -> 0..MaxDepth]
    BY <1>1, <1>2 DEF StackType, Levels
  <2> QED BY <2>1, <2>2 DEF StackType
<1>4. frame'[t][depth[t] + 1] = f /\ Same(t, depth[t] + 1)
  BY <1>1, <1>2 DEF StackType, Same
<1>5. depth'[t] = depth[t] + 1 /\ \A u \in Threads \ {t} : depth'[u] = depth[u]
  BY <1>2 DEF StackType
<1>6. f.sub = FALSE
  BY DEF Frame
<1> QED
  BY <1>1, <1>3, <1>4, <1>5, <1>6 DEF Pushed

\* Pop() pops one.
LEMMA PoppedTop ==
  ASSUME StackType, NEW t \in Threads, depth[t] > 0, Pop(t)
  PROVE  depth[t] \in Levels /\ Popped(t) /\ StackType'
<1> USE DepthAssumption
<1>1. depth[t] \in Levels /\ NoFrame \in Frame
  BY DEF StackType, Levels, NoFrame, Frame, Steps
<1>2. /\ depth' = [depth EXCEPT ![t] = depth[t] - 1]
      /\ frame' = [frame EXCEPT ![t] = [frame[t] EXCEPT ![depth[t]] = NoFrame]]
  BY DEF Pop
<1>3. StackType'
  <2>1. frame' \in [Threads -> [Levels -> Frame]]
    BY <1>1, <1>2 DEF StackType
  <2>2. depth' \in [Threads -> 0..MaxDepth]
    BY <1>1, <1>2 DEF StackType, Levels
  <2> QED BY <2>1, <2>2 DEF StackType
<1>4. frame'[t][depth[t]] = NoFrame /\ Same(t, depth[t])
  BY <1>1, <1>2 DEF StackType, Same
<1>5. depth'[t] = depth[t] - 1 /\ \A u \in Threads \ {t} : depth'[u] = depth[u]
  BY <1>2 DEF StackType
<1> QED
  BY <1>1, <1>3, <1>4, <1>5 DEF Popped

\* The stack stays well-formed when its top frame goes on.
LEMMA StackMovedTo ==
  ASSUME StackType, StackType', Stacks,
         NEW t \in Threads, NEW s, NEW e, MovedTo(t, s, e), depth[t] \in Levels,
         frame[t][depth[t]].at # "superwait", s \notin {"superwait", "none"},
         frame[t][depth[t]].sub => s \in InitSteps \cup WorkSteps,
         s \in UseSteps \cup InitSteps \cup WorkSteps => frame[t][depth[t]].x \in Classes,
         s \in LoadSteps \cup OnLoadSteps => frame[t][depth[t]].x \in Libs
  PROVE  Stacks'
<1> USE DepthAssumption
<1> SUFFICES ASSUME NEW u \in Threads, NEW d \in Levels PROVE StackOK(u, d)'
  BY DEF Stacks
<1>1. d \in Nat /\ depth[u] \in Nat /\ depth[u] <= MaxDepth /\ depth'[u] = depth[u]
  BY DEF StackType, Levels, MovedTo
<1>2. d < depth[u] => d + 1 \in Levels
  BY <1>1 DEF Levels
<1>3. d > 1 => d - 1 \in Levels
  BY <1>1 DEF Levels
<1>4. ASSUME NEW k \in Levels, u # t \/ k # depth[t] PROVE frame'[u][k] = frame[u][k]
  BY <1>4 DEF MovedTo, Same
<1>5. StackOK(u, d)
  BY DEF Stacks
<1>6. CASE u # t
  BY <1>1, <1>2, <1>3, <1>4, <1>5, <1>6 DEF StackOK
<1>7. CASE u = t /\ d = depth[t]
  BY <1>1, <1>2, <1>3, <1>4, <1>5, <1>7 DEF StackOK, MovedTo
<1>8. CASE u = t /\ d # depth[t]
  <2>1. frame'[t][d] = frame[t][d]
    BY <1>4, <1>8
  <2>2. ASSUME NEW k \in Levels
        PROVE  frame'[t][k].x = frame[t][k].x /\ frame'[t][k].sub = frame[t][k].sub
    BY <1>4, <1>8 DEF MovedTo
  <2>3. d > 1 /\ frame[t][d - 1].at = "superwait" => frame'[t][d - 1] = frame[t][d - 1]
    BY <1>3, <1>4, <1>8
  <2> QED BY <1>1, <1>2, <1>5, <1>8, <2>1, <2>2, <2>3 DEF StackOK
<1> QED BY <1>6, <1>7, <1>8
\* The same for a frame that keeps its SharedLib.
LEMMA StackMoved ==
  ASSUME StackType, StackType', Stacks,
         NEW t \in Threads, NEW s, Moved(t, s), depth[t] \in Levels,
         frame[t][depth[t]].at # "superwait", s \notin {"superwait", "none"},
         frame[t][depth[t]].sub => s \in InitSteps \cup WorkSteps,
         s \in UseSteps \cup InitSteps \cup WorkSteps => frame[t][depth[t]].x \in Classes,
         s \in LoadSteps \cup OnLoadSteps => frame[t][depth[t]].x \in Libs
  PROVE  Stacks'
<1>1. MovedTo(t, s, frame[t][depth[t]].e)
  BY DEF Moved, MovedTo
<1> QED BY <1>1, StackMovedTo

\* The stack stays well-formed when a frame is pushed on code that runs.
LEMMA StackPushed ==
  ASSUME StackType, StackType', Stacks, NEW t \in Threads, NEW s, NEW x, Pushed(t, s, x),
         (s = "use" /\ x \in Classes) \/ (s = "find" /\ x \in Libs),
         depth[t] = 0 \/ frame[t][depth[t]].at \in {"clinit", "onload"}
  PROVE  Stacks'
<1> USE DepthAssumption
<1> SUFFICES ASSUME NEW u \in Threads, NEW d \in Levels PROVE StackOK(u, d)'
  BY DEF Stacks
<1>1. d \in Nat /\ depth[u] \in Nat /\ depth[u] <= MaxDepth
  BY DEF StackType, Levels
<1>2. d < depth[u] => d + 1 \in Levels
  BY <1>1 DEF Levels
<1>3. d > 1 => d - 1 \in Levels
  BY <1>1 DEF Levels
<1>4. ASSUME NEW k \in Levels, u # t \/ k # depth[t] + 1 PROVE frame'[u][k] = frame[u][k]
  BY <1>4 DEF Pushed, Same
<1>5. StackOK(u, d)
  BY DEF Stacks
<1>6. CASE u # t
  <2>1. depth'[u] = depth[u]
    BY <1>6 DEF Pushed
  <2> QED BY <1>1, <1>2, <1>3, <1>4, <1>5, <1>6, <2>1 DEF StackOK
<1>7. CASE u = t /\ d = depth[t] + 1
  BY <1>1, <1>7 DEF StackOK, Pushed, UseSteps, InitSteps, WorkSteps, LoadSteps, OnLoadSteps
<1>8. CASE u = t /\ d = depth[t]
  <2>1. frame'[t][d] = frame[t][d] /\ depth'[t] = depth[t] + 1
    BY <1>1, <1>4, <1>8 DEF Pushed
  <2>2. frame[t][d].at \in {"clinit", "onload"}
    BY <1>1, <1>8 DEF Levels
  <2>3. d > 1 => frame'[t][d - 1] = frame[t][d - 1]
    BY <1>1, <1>3, <1>4, <1>8
  <2> QED BY <1>1, <1>5, <1>8, <2>1, <2>2, <2>3 DEF StackOK
<1>9. CASE u = t /\ d < depth[t]
  BY <1>1, <1>2, <1>3, <1>4, <1>5, <1>9 DEF StackOK, Pushed
<1>10. CASE u = t /\ d > depth[t] + 1
  <2>1. frame'[t][d] = NoFrame /\ depth'[t] = depth[t] + 1
    BY <1>1, <1>4, <1>5, <1>10 DEF StackOK, Pushed
  <2> QED BY <1>1, <1>10, <2>1 DEF StackOK, NoFrame, UseSteps, InitSteps, WorkSteps,
             LoadSteps, OnLoadSteps
<1> QED BY <1>1, <1>6, <1>7, <1>8, <1>9, <1>10

\* The stack stays well-formed when a frame is popped.
LEMMA StackPopped ==
  ASSUME StackType, StackType', Stacks, NEW t \in Threads, depth[t] \in Levels, Popped(t),
         ~frame[t][depth[t]].sub
  PROVE  Stacks'
<1> USE DepthAssumption
<1> SUFFICES ASSUME NEW u \in Threads, NEW d \in Levels PROVE StackOK(u, d)'
  BY DEF Stacks
<1>1. d \in Nat /\ depth[u] \in Nat /\ depth[u] <= MaxDepth
  BY DEF StackType, Levels
<1>2. d < depth[u] => d + 1 \in Levels
  BY <1>1 DEF Levels
<1>3. d > 1 => d - 1 \in Levels
  BY <1>1 DEF Levels
<1>4. ASSUME NEW k \in Levels, u # t \/ k # depth[t] PROVE frame'[u][k] = frame[u][k]
  BY <1>4 DEF Popped, Same
<1>5. StackOK(u, d)
  BY DEF Stacks
<1>6. CASE u # t
  <2>1. depth'[u] = depth[u]
    BY <1>6 DEF Popped
  <2> QED BY <1>1, <1>2, <1>3, <1>4, <1>5, <1>6, <2>1 DEF StackOK
<1>7. CASE u = t /\ d >= depth[t]
  <2>1. frame'[t][d] = NoFrame /\ depth'[t] = depth[t] - 1
    BY <1>1, <1>4, <1>5, <1>7 DEF StackOK, Popped
  <2> QED BY <1>1, <1>7, <2>1 DEF StackOK, NoFrame, UseSteps, InitSteps, WorkSteps,
             LoadSteps, OnLoadSteps
<1>8. CASE u = t /\ d < depth[t]
  <2>1. frame'[t][d] = frame[t][d] /\ depth'[t] = depth[t] - 1
    BY <1>1, <1>4, <1>8 DEF Popped
  <2>2. d + 1 = depth[t] => frame[t][d].at # "superwait"
    BY <1>1, <1>5, <1>8 DEF StackOK
  <2>3. d > 1 => frame'[t][d - 1] = frame[t][d - 1]
    BY <1>1, <1>3, <1>4, <1>8
  <2>4. d + 1 < depth[t] => frame'[t][d + 1] = frame[t][d + 1]
    BY <1>1, <1>2, <1>4, <1>8
  <2> QED BY <1>1, <1>5, <1>8, <2>1, <2>2, <2>3, <2>4 DEF StackOK
<1> QED BY <1>1, <1>6, <1>7, <1>8

(***************************************************************************)
(* Steps that have nothing to do with classes, or with libraries.          *)
(***************************************************************************)
ClassSteps == (InitSteps \ {"lock"}) \cup WorkSteps \cup {"cache", "used"}
\* no frame becomes one that the invariant says something of, or leaves the work
ClassKept ==
  \A t \in Threads, d \in Levels :
    \/ frame'[t][d].at = frame[t][d].at /\ frame'[t][d].x = frame[t][d].x
    \/ frame'[t][d].at \notin ClassSteps /\ frame[t][d].at \notin WorkSteps
TableSteps == Own \cup {"check", "test", "asleep", "loaded"}
LoadKept ==
  \A t \in Threads, d \in Levels :
    \/ frame'[t][d].at = frame[t][d].at /\ frame'[t][d].e = frame[t][d].e
    \/ /\ frame'[t][d].at \notin TableSteps /\ frame[t][d].at \notin Own
       /\ frame'[t][d].e \in {NoEntry, frame[t][d].e}

\* A step that changes no class, and no work on one, keeps what is said of classes.
LEMMA ClassesKept ==
  ASSUME ClassInv, ClassKept, class' = class, TypeOK
  PROVE  ClassInv'
<1>1. /\ status' = status /\ initThread' = initThread /\ owner' = owner
      /\ waitSet' = waitSet /\ resolved' = resolved
  BY DEF class
<1>2. ASSUME NEW t \in Threads, NEW d \in Levels PROVE ClassFrameOK(t, d)'
  <2>1. ClassFrameOK(t, d)
    BY DEF ClassInv
  <2>2. CASE frame'[t][d].at = frame[t][d].at /\ frame'[t][d].x = frame[t][d].x
    BY <1>1, <2>1, <2>2 DEF ClassFrameOK, Ready, SuperOK
  <2>3. CASE frame'[t][d].at \notin ClassSteps
    BY <2>3 DEF ClassFrameOK, ClassSteps, MonSteps, Active, InitSteps, WorkSteps
  <2> QED BY <2>2, <2>3 DEF ClassKept
<1>3. ASSUME NEW t \in Threads, NEW d \in Levels, frame'[t][d].at \in Active
      PROVE  frame[t][d].at \in Active /\ frame'[t][d].x = frame[t][d].x
  BY <1>3 DEF ClassKept, ClassSteps, WorkSteps, Active
<1>4. ASSUME NEW t \in Threads, NEW u \in Threads, NEW d \in Levels, NEW k \in Levels
      PROVE  WorkPairOK(t, d, u, k)'
  BY <1>3 DEF ClassInv, WorkPairOK
<1>5. ASSUME NEW c \in Classes PROVE ClassOK(c)'
  <2>1. ASSUME NEW t \in Threads, NEW d \in Levels, frame[t][d].at \in WorkSteps
        PROVE  frame'[t][d].at = frame[t][d].at /\ frame'[t][d].x = frame[t][d].x
    BY <2>1 DEF ClassKept
  <2>2. Active \subseteq WorkSteps
    BY DEF Active, WorkSteps
  <2>3. ClassOK(c)
    BY DEF ClassInv
  <2>4. ASSUME status[c] = "initializing"
        PROVE  \E d \in Levels : /\ frame'[initThread[c]][d].x = c
                                 /\ frame'[initThread[c]][d].at \in Active
    <3>1. PICK d \in Levels : /\ frame[initThread[c]][d].x = c
                              /\ frame[initThread[c]][d].at \in Active
      BY <2>3, <2>4 DEF ClassOK
    <3> QED BY <2>1, <2>2, <2>3, <2>4, <3>1 DEF ClassOK
  <2>5. ASSUME NEW t \in waitSet[c]
        PROVE  \E u \in Threads \ {t}, d \in Levels :
                 frame'[u][d].x = c /\ frame'[u][d].at \in WorkSteps
    <3>1. PICK u \in Threads \ {t}, d \in Levels :
                 frame[u][d].x = c /\ frame[u][d].at \in WorkSteps
      BY <2>3 DEF ClassOK
    <3> QED BY <2>1, <3>1
  <2> QED BY <1>1, <2>3, <2>4, <2>5 DEF ClassOK, SuperOK
<1> QED BY <1>2, <1>4, <1>5 DEF ClassInv

\* The same of SharedLibs.
LEMMA LoadsKept ==
  ASSUME LoadInv, LoadKept, lib' = lib, TypeOK
  PROVE  LoadInv'
<1>1. slot' = slot /\ entry' = entry /\ condWait' = condWait
  BY DEF lib
<1>2. ASSUME NEW t \in Threads, NEW d \in Levels PROVE LoadFrameOK(t, d)'
  <2>1. LoadFrameOK(t, d)
    BY DEF LoadInv
  <2>2. CASE frame'[t][d].at = frame[t][d].at /\ frame'[t][d].e = frame[t][d].e
    BY <1>1, <2>1, <2>2 DEF LoadFrameOK
  <2>3. CASE frame'[t][d].at \notin TableSteps /\ frame'[t][d].e \in {NoEntry, frame[t][d].e}
    BY <1>1, <2>1, <2>3 DEF LoadFrameOK, TableSteps, Own, OnLoadSteps, Private, Pending
  <2> QED BY <2>2, <2>3 DEF LoadKept
<1>3. ASSUME NEW t \in Threads, NEW d \in Levels, frame'[t][d].at \in Own
      PROVE  frame'[t][d].at = frame[t][d].at /\ frame'[t][d].e = frame[t][d].e
  BY <1>3 DEF LoadKept, TableSteps
<1>4. ASSUME NEW t \in Threads, NEW u \in Threads, NEW d \in Levels, NEW k \in Levels
      PROVE  OwnPairOK(t, d, u, k)'
  <2>1. Private \subseteq Own
    BY DEF Own
  <2>2. frame'[u][k].e \in {NoEntry, frame[u][k].e}
    BY DEF LoadKept
  <2>3. frame[t][d].at \in Private => frame[t][d].e # NoEntry
    BY <2>1 DEF LoadInv, LoadFrameOK, Own
  <2> QED BY <1>3, <2>1, <2>2, <2>3 DEF LoadInv, OwnPairOK
<1>5. ASSUME NEW e \in Entries PROVE EntryOK(e)'
  <2>1. ASSUME NEW t \in Threads, NEW d \in Levels, frame[t][d].at \in Own
        PROVE  frame'[t][d].at = frame[t][d].at /\ frame'[t][d].e = frame[t][d].e
    BY <2>1 DEF LoadKept
  <2>2. Pending \subseteq Own /\ OnLoadSteps \subseteq Own
    BY DEF Own, Pending, OnLoadSteps
  <2>3. EntryOK(e)
    BY DEF LoadInv
  <2>4. ASSUME entry[e].result = "pending"
        PROVE  \E d \in Levels : /\ frame'[entry[e].thread][d].e = e
                                 /\ frame'[entry[e].thread][d].at \in Pending
    <3>1. PICK d \in Levels : /\ frame[entry[e].thread][d].e = e
                              /\ frame[entry[e].thread][d].at \in Pending
      BY <2>3, <2>4 DEF EntryOK
    <3> QED BY <2>1, <2>2, <2>3, <2>4, <3>1 DEF EntryOK
  <2>5. ASSUME NEW t \in condWait[e]
        PROVE  \E u \in Threads \ {t}, d \in Levels :
                 frame'[u][d].e = e /\ frame'[u][d].at \in OnLoadSteps
    <3>1. PICK u \in Threads \ {t}, d \in Levels :
                 frame[u][d].e = e /\ frame[u][d].at \in OnLoadSteps
      BY <2>3 DEF EntryOK
    <3> QED BY <2>1, <2>2, <3>1
  <2> QED BY <1>1, <2>3, <2>4, <2>5 DEF EntryOK
<1>6. ASSUME NEW l \in Libs PROVE SlotOK(l)'
  BY <1>1 DEF LoadInv, SlotOK
<1> QED BY <1>2, <1>4, <1>5, <1>6 DEF LoadInv

\* When the top frame moves between steps that concern no library, or no class.
LEMMA MovedLoads ==
  ASSUME LoadInv, TypeOK, lib' = lib, NEW t \in Threads, NEW s, Moved(t, s),
         depth[t] \in Levels, s \notin TableSteps, frame[t][depth[t]].at \notin Own
  PROVE  LoadInv'
<1>1. LoadKept
  BY DEF LoadKept, Moved, Same
<1> QED BY <1>1, LoadsKept
\* The same of classes.
LEMMA MovedClasses ==
  ASSUME ClassInv, TypeOK, class' = class, NEW t \in Threads, NEW s, Moved(t, s),
         depth[t] \in Levels, s \notin ClassSteps, frame[t][depth[t]].at \notin WorkSteps
  PROVE  ClassInv'
<1>1. ClassKept
  BY DEF ClassKept, Moved, Same
<1> QED BY <1>1, ClassesKept
\* The same when the frame gets another SharedLib.
LEMMA MovedToClasses ==
  ASSUME ClassInv, TypeOK, class' = class, NEW t \in Threads, NEW s, NEW e, MovedTo(t, s, e),
         depth[t] \in Levels, s \notin ClassSteps, frame[t][depth[t]].at \notin WorkSteps
  PROVE  ClassInv'
<1>1. ClassKept
  BY DEF ClassKept, MovedTo, Same
<1> QED BY <1>1, ClassesKept

\* When a frame is pushed or popped that works on nothing.
LEMMA PushedKept ==
  ASSUME ClassInv, LoadInv, Stacks, StackType, TypeOK, class' = class, lib' = lib,
         NEW t \in Threads, NEW s \in {"use", "find"}, NEW x, Pushed(t, s, x)
  PROVE  ClassInv' /\ LoadInv'
<1>1. frame[t][depth[t] + 1] = NoFrame
  <2>1. StackOK(t, depth[t] + 1) /\ depth[t] \in Nat
    BY DepthAssumption DEF Stacks, Pushed, StackType
  <2> QED BY <2>1 DEF StackOK
<1>2. ClassKept
  BY <1>1 DEF ClassKept, Pushed, Same, NoFrame, ClassSteps, WorkSteps, InitSteps
<1>3. LoadKept
  BY <1>1 DEF LoadKept, Pushed, Same, NoFrame, TableSteps, Own, Private, OnLoadSteps
<1> QED BY <1>2, <1>3, ClassesKept, LoadsKept
\* The same of a frame that is popped.
LEMMA PoppedKept ==
  ASSUME ClassInv, LoadInv, TypeOK, class' = class, lib' = lib,
         NEW t \in Threads, depth[t] \in Levels, Popped(t),
         frame[t][depth[t]].at \notin WorkSteps \cup Own
  PROVE  ClassInv' /\ LoadInv'
<1>2. ClassKept
  BY DEF ClassKept, Popped, Same, NoFrame, ClassSteps, WorkSteps, InitSteps
<1>3. LoadKept
  BY DEF LoadKept, Popped, Same, NoFrame, TableSteps, Own, Private, OnLoadSteps
<1> QED BY <1>2, <1>3, ClassesKept, LoadsKept

\* Below the top of a stack there is code that runs, or a wait for a superclass.
LEMMA BelowTop ==
  ASSUME Stacks, StackType, NEW t \in Threads, depth[t] \in Levels,
         NEW d \in Levels, d # depth[t]
  PROVE  frame[t][d].at \in {"none", "clinit", "onload", "superwait"}
<1>1. StackOK(t, d) /\ d \in Nat /\ depth[t] \in Nat
  BY DEF Stacks, Levels
<1> QED BY <1>1 DEF StackOK, NoFrame

\* The work on a class stays where it is, or the class is done and nobody waits for it.
LEMMA WorkMoved ==
  ASSUME ClassInv, NEW t \in Threads, NEW s, Moved(t, s), depth[t] \in Levels,
         NEW c \in Classes,
         status'[c] = "initializing" =>
           /\ status[c] = "initializing" /\ initThread'[c] = initThread[c]
           /\ frame[t][depth[t]].x = c /\ frame[t][depth[t]].at \in Active => s \in Active,
         /\ waitSet'[c] \subseteq waitSet[c]
         /\ frame[t][depth[t]].x = c /\ frame[t][depth[t]].at \in WorkSteps =>
              s \in WorkSteps \/ waitSet'[c] = {}
  PROVE  /\ status'[c] = "initializing" =>
              \E d \in Levels : /\ frame'[initThread'[c]][d].x = c
                                /\ frame'[initThread'[c]][d].at \in Active
         /\ \A w \in waitSet'[c] : \E u \in Threads \ {w}, d \in Levels :
              frame'[u][d].x = c /\ frame'[u][d].at \in WorkSteps
<1>1. ClassOK(c)
  BY DEF ClassInv
<1>2. ASSUME NEW u \in Threads, NEW d \in Levels
      PROVE  /\ frame'[u][d].x = frame[u][d].x
             /\ u # t \/ d # depth[t] => frame'[u][d].at = frame[u][d].at
  BY DEF Moved, Same
<1>3. frame'[t][depth[t]].at = s
  BY DEF Moved
<1>4. ASSUME status'[c] = "initializing"
      PROVE  \E d \in Levels : /\ frame'[initThread'[c]][d].x = c
                               /\ frame'[initThread'[c]][d].at \in Active
  <2>1. PICK d \in Levels : /\ frame[initThread[c]][d].x = c
                            /\ frame[initThread[c]][d].at \in Active
    BY <1>1, <1>4 DEF ClassOK
  <2>2. initThread[c] \in Threads
    BY <1>1, <1>4 DEF ClassOK
  <2> QED BY <1>2, <1>3, <1>4, <2>1, <2>2
<1>5. ASSUME NEW w \in waitSet'[c]
      PROVE  \E u \in Threads \ {w}, d \in Levels :
               frame'[u][d].x = c /\ frame'[u][d].at \in WorkSteps
  <2>1. PICK u \in Threads \ {w}, d \in Levels :
               frame[u][d].x = c /\ frame[u][d].at \in WorkSteps
    BY <1>1, <1>5 DEF ClassOK
  <2> QED BY <1>2, <1>3, <1>5, <2>1
<1> QED BY <1>4, <1>5
\* No two frames come to work on one class.
LEMMA WorkPairMoved ==
  ASSUME ClassInv, NEW t \in Threads, NEW s, Moved(t, s), depth[t] \in Levels,
         s \in Active => frame[t][depth[t]].at \in Active
  PROVE  \A u, v \in Threads, d, k \in Levels : WorkPairOK(u, d, v, k)'
<1>1. ASSUME NEW u \in Threads, NEW d \in Levels
      PROVE  /\ frame'[u][d].x = frame[u][d].x
             /\ frame'[u][d].at \in Active => frame[u][d].at \in Active
  BY DEF Moved, Same
<1> QED BY <1>1 DEF ClassInv, WorkPairOK


\* Steps at which the status of the class is known.
KnownSteps == Active \cup {"marked", "notify", "begin", "waiting", "woken", "unlock",
                           "return", "cache", "used"}
\* A frame that does not move keeps what is known of its class, unless the status
\* changes under it; only a class that is being initialized may be known by others then.
LEMMA FrameStays ==
  ASSUME NEW u \in Threads, NEW d \in Levels, ClassFrameOK(u, d), StackOK(u, d),
         frame'[u][d].at = frame[u][d].at, frame'[u][d].x = frame[u][d].x,
         NEW x, x = frame[u][d].x,
         x \in Classes =>
           /\ frame[u][d].at \in MonSteps => owner'[x] = owner[x]
           /\ \/ frame[u][d].at \notin KnownSteps
              \/ status'[x] = status[x] /\ initThread'[x] = initThread[x]
              \/ /\ status'[x] \in Final /\ frame[u][d].at \notin Active \cup {"begin"}
                 /\ frame[u][d].at \in {"cache", "used"} => status'[x] = "initialized"
           /\ frame[u][d].at \in {"clinit", "thrown", "done"} => SuperOK(x)'
  PROVE  ClassFrameOK(u, d)'
<1> DEFINE a == frame[u][d].at
<1>1. CASE x \in Classes
  <2>1. a \in MonSteps => owner'[x] = u
    BY <1>1 DEF ClassFrameOK
  <2>2. CASE a \notin KnownSteps
    BY <1>1, <2>1, <2>2 DEF ClassFrameOK, KnownSteps, Active, MonSteps
  <2>3. CASE status'[x] = status[x] /\ initThread'[x] = initThread[x]
    BY <1>1, <2>1, <2>3 DEF ClassFrameOK, Ready
  <2>4. CASE /\ status'[x] \in Final /\ a \notin Active \cup {"begin"}
             /\ a \in {"cache", "used"} => status'[x] = "initialized"
    BY <1>1, <2>1, <2>4 DEF ClassFrameOK, Ready, Final, Active
  <2> QED BY <1>1, <2>2, <2>3, <2>4
<1>2. CASE x \notin Classes
  <2>1. a \notin UseSteps \cup InitSteps \cup WorkSteps
    BY <1>2 DEF StackOK
  <2> QED BY <2>1 DEF ClassFrameOK, MonSteps, Active, UseSteps, InitSteps, WorkSteps
<1> QED BY <1>1, <1>2

\* Frames that have not changed and work go on working.
LEMMA WorkKept ==
  ASSUME ClassInv, NEW c \in Classes,
         \A u \in Threads, d \in Levels :
           /\ frame[u][d].x = c /\ frame[u][d].at \in WorkSteps =>
                frame'[u][d].x = c /\ frame'[u][d].at \in WorkSteps
           /\ frame[u][d].x = c /\ frame[u][d].at \in Active =>
                frame'[u][d].x = c /\ frame'[u][d].at \in Active
  PROVE  /\ status[c] = "initializing" =>
              \E d \in Levels : /\ frame'[initThread[c]][d].x = c
                                /\ frame'[initThread[c]][d].at \in Active
         /\ \A w \in waitSet[c] : \E u \in Threads \ {w}, d \in Levels :
              frame'[u][d].x = c /\ frame'[u][d].at \in WorkSteps
<1>1. ClassOK(c)
  BY DEF ClassInv
<1>2. ASSUME status[c] = "initializing"
      PROVE  \E d \in Levels : /\ frame'[initThread[c]][d].x = c
                               /\ frame'[initThread[c]][d].at \in Active
  <2>1. PICK d \in Levels : /\ frame[initThread[c]][d].x = c
                            /\ frame[initThread[c]][d].at \in Active
    BY <1>1, <1>2 DEF ClassOK
  <2>2. initThread[c] \in Threads
    BY <1>1, <1>2 DEF ClassOK
  <2> QED BY <2>1, <2>2
<1>3. ASSUME NEW w \in waitSet[c]
      PROVE  \E u \in Threads \ {w}, d \in Levels :
               frame'[u][d].x = c /\ frame'[u][d].at \in WorkSteps
  <2>1. PICK u \in Threads \ {w}, d \in Levels :
               frame[u][d].x = c /\ frame[u][d].at \in WorkSteps
    BY <1>1 DEF ClassOK
  <2> QED BY <2>1
<1> QED BY <1>2, <1>3

\* A stack that does not change stays well-formed.
LEMMA StackStays ==
  ASSUME NEW u \in Threads, NEW d \in Levels, StackOK(u, d), depth'[u] = depth[u],
         frame'[u][d] = frame[u][d], d < depth[u] => frame'[u][d + 1] = frame[u][d + 1],
         d > 1 => frame'[u][d - 1] = frame[u][d - 1]
  PROVE  StackOK(u, d)'
<1>1. frame[u][d].at = "superwait" => d < depth[u]
  BY DEF StackOK
<1> QED BY <1>1 DEF StackOK

\* Frames that have not changed and work on a SharedLib go on working.
LEMMA OwnKept ==
  ASSUME LoadInv, NEW e \in Entries,
         \A u \in Threads, d \in Levels : frame[u][d].e = e =>
           /\ frame[u][d].at \in Pending => frame'[u][d].e = e /\ frame'[u][d].at \in Pending
           /\ frame[u][d].at \in OnLoadSteps =>
                frame'[u][d].e = e /\ frame'[u][d].at \in OnLoadSteps
  PROVE  /\ entry[e].result = "pending" =>
              \E d \in Levels : /\ frame'[entry[e].thread][d].e = e
                                /\ frame'[entry[e].thread][d].at \in Pending
         /\ \A w \in condWait[e] : \E u \in Threads \ {w}, d \in Levels :
              frame'[u][d].e = e /\ frame'[u][d].at \in OnLoadSteps
<1>1. EntryOK(e)
  BY DEF LoadInv
<1>2. ASSUME entry[e].result = "pending"
      PROVE  \E d \in Levels : /\ frame'[entry[e].thread][d].e = e
                               /\ frame'[entry[e].thread][d].at \in Pending
  <2>1. PICK d \in Levels : /\ frame[entry[e].thread][d].e = e
                            /\ frame[entry[e].thread][d].at \in Pending
    BY <1>1, <1>2 DEF EntryOK
  <2>2. entry[e].thread \in Threads
    BY <1>1, <1>2 DEF EntryOK
  <2> QED BY <2>1, <2>2
<1>3. ASSUME NEW w \in condWait[e]
      PROVE  \E u \in Threads \ {w}, d \in Levels :
               frame'[u][d].e = e /\ frame'[u][d].at \in OnLoadSteps
  <2>1. PICK u \in Threads \ {w}, d \in Levels :
               frame[u][d].e = e /\ frame[u][d].at \in OnLoadSteps
    BY <1>1 DEF EntryOK
  <2> QED BY <2>1
<1> QED BY <1>2, <1>3

\* Frames that do not move keep what is known of their classes when only the
\* monitor of the class that t works on changes hands.
LEMMA OtherFrames ==
  ASSUME ClassInv, Stacks, StackType, TypeOK,
         NEW t \in Threads, NEW s, Moved(t, s), depth[t] \in Levels,
         status' = status, initThread' = initThread,
         \/ owner' = owner
         \/ /\ owner[frame[t][depth[t]].x] \in {Nobody, t}
            /\ \E o : owner' = [owner EXCEPT ![frame[t][depth[t]].x] = o],
         NEW u \in Threads, NEW d \in Levels, u # t \/ d # depth[t]
  PROVE  ClassFrameOK(u, d)'
<1> USE NobodyAssumption
<1>1. ClassFrameOK(u, d) /\ StackOK(u, d)
  BY DEF ClassInv, Stacks
<1>2. frame'[u][d] = frame[u][d]
  BY DEF Moved, Same
<1>3. u = t => frame[u][d].at \notin MonSteps
  BY BelowTop DEF MonSteps
<1>4. frame[u][d].at \in MonSteps => owner'[frame[u][d].x] = u
  <2>1. ASSUME frame[u][d].at \in MonSteps PROVE owner'[frame[u][d].x] = u
    <3>1. owner[frame[u][d].x] = u /\ u # t /\ frame[u][d].x \in Classes
      BY <1>1, <1>3, <2>1 DEF ClassFrameOK, StackOK, MonSteps, InitSteps, WorkSteps
    <3> QED BY <3>1 DEF TypeOK
  <2> QED BY <2>1
<1> QED BY <1>1, <1>2, <1>4 DEF ClassFrameOK, Ready, SuperOK

\* A frame that stays keeps what is known of its SharedLib as long as this does not
\* change, and the table does not.
LEMMA LoadFrameStays ==
  ASSUME NEW u \in Threads, NEW d \in Levels, LoadFrameOK(u, d),
         frame'[u][d] = frame[u][d], slot' = slot,
         frame[u][d].e # NoEntry => entry'[frame[u][d].e] = entry[frame[u][d].e]
  PROVE  LoadFrameOK(u, d)'
BY DEF LoadFrameOK, Own, Private, Pending, OnLoadSteps

\* No two frames come to own one SharedLib when a frame goes on with its own.
LEMMA OwnPairsKept ==
  ASSUME LoadInv, NEW t \in Threads, NEW s, MovedTo(t, s, frame[t][depth[t]].e),
         depth[t] \in Levels,
         s \in Own => frame[t][depth[t]].at \in Own,
         s \in Private => frame[t][depth[t]].at \in Private
  PROVE  \A u, v \in Threads, d, j \in Levels : OwnPairOK(u, d, v, j)'
<1>1. ASSUME NEW u \in Threads, NEW d \in Levels
      PROVE  /\ frame'[u][d].e = frame[u][d].e
             /\ frame'[u][d].at \in Own => frame[u][d].at \in Own
             /\ frame'[u][d].at \in Private => frame[u][d].at \in Private
  BY DEF MovedTo, Same
<1> QED BY <1>1 DEF LoadInv, OwnPairOK

(***************************************************************************)
(* The steps of dvmResolveStaticField() and dvmInitClass().                *)
(***************************************************************************)
\* The invariant is kept when a <clinit> ends.
LEMMA ClinitEndsInv ==
  ASSUME IInv, NEW t \in Threads, ClinitEnds(t)
  PROVE  IInv'
<1> USE NobodyAssumption, NameAssumption
<1> DEFINE k == depth[t]
<1> DEFINE c == frame[t][k].x
<1>1. TypeOK /\ Stacks /\ ClassInv /\ LoadInv /\ StackType
  BY DEF IInv, TypeOK, StackType
<1>2. PICK s \in {"done", "thrown"} :
               /\ k \in Levels /\ frame[t][k].at = "clinit" /\ c \in Classes
               /\ StackType' /\ Moved(t, s)
               /\ UNCHANGED <<class, lib>>
  <2>1. k \in Levels /\ frame[t][k].at = "clinit"
    BY <1>1 DEF ClinitEnds, At, Top, StackType, Levels
  <2>2. c \in Classes
    BY <1>1, <2>1 DEF Stacks, StackOK, UseSteps, InitSteps, WorkSteps
  <2> QED
    BY <1>1, <2>1, <2>2, MovedTop
    DEF ClinitEnds, At, Top, Levels, Steps, InitSteps, LoadSteps, OnLoadSteps,
        UseSteps, WorkSteps
<1>3. ClassFrameOK(t, k) /\ StackOK(t, k)
  BY <1>1, <1>2 DEF Stacks, ClassInv
<1>4. TypeOK'
  BY <1>1, <1>2 DEF TypeOK, StackType, Statuses, class, lib
<1>5. Stacks'
  BY <1>1, <1>2, <1>3, StackMoved
  DEF StackOK, InitSteps, LoadSteps, OnLoadSteps, UseSteps, WorkSteps
<1>6. LoadInv'
  BY <1>1, <1>2, MovedLoads DEF TableSteps, Own, Private, OnLoadSteps, class, lib
<1>7. ASSUME NEW u \in Threads, NEW v \in Threads, NEW d \in Levels, NEW j \in Levels
      PROVE  WorkPairOK(u, d, v, j)'
  BY <1>1, <1>2, WorkPairMoved DEF Active
<1>8. ASSUME NEW b \in Classes PROVE ClassOK(b)'
  <2>1. /\ status'[b] = "initializing" =>
             \E d \in Levels : /\ frame'[initThread'[b]][d].x = b
                               /\ frame'[initThread'[b]][d].at \in Active
        /\ \A w \in waitSet'[b] : \E u \in Threads \ {w}, d \in Levels :
             frame'[u][d].x = b /\ frame'[u][d].at \in WorkSteps
    BY <1>1, <1>2, <1>3, WorkMoved
    DEF ClassFrameOK, Active, WorkSteps, Final, TypeOK, class
  <2>2. \A a \in Classes : ClassOK(a)
    BY <1>1 DEF ClassInv
  <2>3. Super[b] \in Classes \cup {NoClass}
    BY SuperAssumption
  <2> QED
    BY <1>1, <1>2, <1>3, <1>4, <2>1, <2>2, <2>3
    DEF ClassOK, ClassFrameOK, SuperOK, TypeOK, Active, class
<1>9. ASSUME NEW u \in Threads, NEW d \in Levels PROVE ClassFrameOK(u, d)'
  <2>1. ClassFrameOK(u, d) /\ StackOK(u, d)
    BY <1>1 DEF ClassInv, Stacks
  <2>2. CASE u # t \/ d # k
    BY <1>1, <1>2, <1>3, <2>2, OtherFrames DEF class
  <2>3. CASE u = t /\ d = k
    <3>1. frame'[t][k].at = s /\ frame'[t][k].x = c
      BY <1>2 DEF Moved
    <3>2. status' = status /\ initThread' = initThread /\ owner' = owner
      BY <1>2 DEF class
    <3> QED
      BY <1>2, <1>3, <2>3, <3>1, <3>2
      DEF ClassFrameOK, Ready, SuperOK, MonSteps, Active, Final
  <2> QED BY <2>2, <2>3
<1> QED BY <1>4, <1>5, <1>6, <1>7, <1>8, <1>9 DEF IInv, ClassInv

\* The invariant is kept when a field is looked up.
LEMMA ResolveInv ==
  ASSUME IInv, NEW t \in Threads, Resolve(t)
  PROVE  IInv'
<1> USE NobodyAssumption, NameAssumption
<1> DEFINE k == depth[t]
<1> DEFINE c == frame[t][k].x
<1>1. TypeOK /\ Stacks /\ ClassInv /\ LoadInv /\ StackType
  BY DEF IInv, TypeOK, StackType
<1>2. PICK s \in {"used", "cache", "lock"} :
               /\ k \in Levels /\ frame[t][k].at = "use" /\ c \in Classes
               /\ StackType' /\ Moved(t, s)
               /\ s = "used" => c \in resolved
               /\ s = "cache" => status[c] = "initialized"
               /\ UNCHANGED <<class, lib>>
  <2>1. k \in Levels /\ frame[t][k].at = "use"
    BY <1>1 DEF Resolve, At, Top, StackType, Levels
  <2>2. c \in Classes
    BY <1>1, <2>1 DEF Stacks, StackOK, UseSteps, InitSteps, WorkSteps
  <2> QED
    BY <1>1, <2>1, <2>2, MovedTop
    DEF Resolve, At, Top, Levels, Steps, InitSteps, LoadSteps, OnLoadSteps, UseSteps,
        WorkSteps
<1>3. ClassFrameOK(t, k) /\ StackOK(t, k)
  BY <1>1, <1>2 DEF Stacks, ClassInv
<1>4. TypeOK'
  BY <1>1, <1>2 DEF TypeOK, StackType, Statuses, class, lib
<1>5. Stacks'
  BY <1>1, <1>2, <1>3, StackMoved
  DEF StackOK, InitSteps, LoadSteps, OnLoadSteps, UseSteps, WorkSteps
<1>6. LoadInv'
  BY <1>1, <1>2, MovedLoads DEF TableSteps, Own, Private, OnLoadSteps, class, lib
<1>7. ASSUME NEW u \in Threads, NEW v \in Threads, NEW d \in Levels, NEW j \in Levels
      PROVE  WorkPairOK(u, d, v, j)'
  BY <1>1, <1>2, WorkPairMoved DEF Active
<1>8. ASSUME NEW b \in Classes PROVE ClassOK(b)'
  <2>1. /\ status'[b] = "initializing" =>
             \E d \in Levels : /\ frame'[initThread'[b]][d].x = b
                               /\ frame'[initThread'[b]][d].at \in Active
        /\ \A w \in waitSet'[b] : \E u \in Threads \ {w}, d \in Levels :
             frame'[u][d].x = b /\ frame'[u][d].at \in WorkSteps
    BY <1>1, <1>2, <1>3, WorkMoved
    DEF ClassFrameOK, Active, WorkSteps, Final, TypeOK, class
  <2>2. \A a \in Classes : ClassOK(a)
    BY <1>1 DEF ClassInv
  <2>3. Super[b] \in Classes \cup {NoClass}
    BY SuperAssumption
  <2> QED
    BY <1>1, <1>2, <1>3, <1>4, <2>1, <2>2, <2>3
    DEF ClassOK, ClassFrameOK, SuperOK, TypeOK, Active, class
<1>9. ASSUME NEW u \in Threads, NEW d \in Levels PROVE ClassFrameOK(u, d)'
  <2>1. ClassFrameOK(u, d) /\ StackOK(u, d)
    BY <1>1 DEF ClassInv, Stacks
  <2>2. CASE u # t \/ d # k
    BY <1>1, <1>2, <1>3, <2>2, OtherFrames DEF class
  <2>3. CASE u = t /\ d = k
    <3>1. frame'[t][k].at = s /\ frame'[t][k].x = c
      BY <1>2 DEF Moved
    <3>2. status' = status /\ initThread' = initThread /\ owner' = owner
      BY <1>2 DEF class
    <3>3. s \in {"used", "cache"} => Ready(t, c)
      BY <1>1, <1>2 DEF Ready, ClassInv, ClassOK
    <3> QED
      BY <1>2, <1>3, <2>3, <3>1, <3>2, <3>3
      DEF ClassFrameOK, Ready, SuperOK, MonSteps, Active, Final
  <2> QED BY <2>2, <2>3
<1> QED BY <1>4, <1>5, <1>6, <1>7, <1>8, <1>9 DEF IInv, ClassInv

\* The invariant is kept when a field is cached.
LEMMA CacheInv ==
  ASSUME IInv, NEW t \in Threads, Cache(t)
  PROVE  IInv'
<1> USE NobodyAssumption, NameAssumption
<1> DEFINE k == depth[t]
<1> DEFINE c == frame[t][k].x
<1>1. TypeOK /\ Stacks /\ ClassInv /\ LoadInv /\ StackType
  BY DEF IInv, TypeOK, StackType
<1>2. /\ k \in Levels /\ frame[t][k].at = "cache" /\ c \in Classes
      /\ StackType' /\ Moved(t, "used")
      /\ resolved' = resolved \cup {b \in {c} : status[b] = "initialized"}
      /\ UNCHANGED <<status, initThread, owner, waitSet, lib>>
  <2>1. k \in Levels /\ frame[t][k].at = "cache"
    BY <1>1 DEF Cache, At, Top, StackType, Levels
  <2>2. c \in Classes
    BY <1>1, <2>1 DEF Stacks, StackOK, UseSteps, InitSteps, WorkSteps
  <2> QED
    BY <1>1, <2>1, <2>2, MovedTop
    DEF Cache, At, Top, Levels, Steps, InitSteps, LoadSteps, OnLoadSteps, UseSteps,
        WorkSteps
<1>3. ClassFrameOK(t, k) /\ StackOK(t, k)
  BY <1>1, <1>2 DEF Stacks, ClassInv
<1>4. TypeOK'
  BY <1>1, <1>2 DEF TypeOK, StackType, Statuses, class, lib
<1>5. Stacks'
  BY <1>1, <1>2, <1>3, StackMoved
  DEF StackOK, InitSteps, LoadSteps, OnLoadSteps, UseSteps, WorkSteps
<1>6. LoadInv'
  BY <1>1, <1>2, MovedLoads DEF TableSteps, Own, Private, OnLoadSteps, class, lib
<1>7. ASSUME NEW u \in Threads, NEW v \in Threads, NEW d \in Levels, NEW j \in Levels
      PROVE  WorkPairOK(u, d, v, j)'
  BY <1>1, <1>2, WorkPairMoved DEF Active
<1>8. ASSUME NEW b \in Classes PROVE ClassOK(b)'
  <2>1. /\ status'[b] = "initializing" =>
             \E d \in Levels : /\ frame'[initThread'[b]][d].x = b
                               /\ frame'[initThread'[b]][d].at \in Active
        /\ \A w \in waitSet'[b] : \E u \in Threads \ {w}, d \in Levels :
             frame'[u][d].x = b /\ frame'[u][d].at \in WorkSteps
    BY <1>1, <1>2, <1>3, WorkMoved
    DEF ClassFrameOK, Active, WorkSteps, Final, TypeOK, class
  <2>2. \A a \in Classes : ClassOK(a)
    BY <1>1 DEF ClassInv
  <2>3. Super[b] \in Classes \cup {NoClass}
    BY SuperAssumption
  <2> QED
    BY <1>1, <1>2, <1>3, <1>4, <2>1, <2>2, <2>3
    DEF ClassOK, ClassFrameOK, SuperOK, TypeOK, Active, class
<1>9. ASSUME NEW u \in Threads, NEW d \in Levels PROVE ClassFrameOK(u, d)'
  <2>1. ClassFrameOK(u, d) /\ StackOK(u, d)
    BY <1>1 DEF ClassInv, Stacks
  <2>2. CASE u # t \/ d # k
    BY <1>1, <1>2, <1>3, <2>2, OtherFrames
  <2>3. CASE u = t /\ d = k
    <3>1. frame'[t][k].at = "used" /\ frame'[t][k].x = c
      BY <1>2 DEF Moved
    <3>2. status' = status /\ initThread' = initThread /\ owner' = owner
      BY <1>2 DEF class
    <3> QED
      BY <1>2, <1>3, <2>3, <3>1, <3>2
      DEF ClassFrameOK, Ready, SuperOK, MonSteps, Active, Final
  <2> QED BY <2>2, <2>3
<1> QED BY <1>4, <1>5, <1>6, <1>7, <1>8, <1>9 DEF IInv, ClassInv

\* The invariant is kept when the monitor is entered.
LEMMA VerifyInv ==
  ASSUME IInv, NEW t \in Threads, Verify(t)
  PROVE  IInv'
<1> USE NobodyAssumption, NameAssumption
<1> DEFINE k == depth[t]
<1> DEFINE c == frame[t][k].x
<1>1. TypeOK /\ Stacks /\ ClassInv /\ LoadInv /\ StackType
  BY DEF IInv, TypeOK, StackType
<1>2. PICK s \in {"unlock", "loop"} :
               /\ k \in Levels /\ frame[t][k].at = "lock" /\ c \in Classes
               /\ StackType' /\ Moved(t, s)
               /\ owner[c] = Nobody /\ owner' = [owner EXCEPT ![c] = t]
               /\ \/ s = "unlock" /\ status[c] = "error" /\ status' = status
                  \/ s = "loop" /\ status[c] \notin {"error", "resolved"} /\ status' = status
                  \/ /\ status[c] = "resolved"
                     /\ \/ s = "loop" /\ status' = [status EXCEPT ![c] = "verified"]
                        \/ s = "unlock" /\ status' = [status EXCEPT ![c] = "error"]
               /\ UNCHANGED <<initThread, waitSet, resolved, lib>>
  <2>1. k \in Levels /\ frame[t][k].at = "lock"
    BY <1>1 DEF Verify, At, Top, StackType, Levels
  <2>2. c \in Classes
    BY <1>1, <2>1 DEF Stacks, StackOK, UseSteps, InitSteps, WorkSteps
  <2> QED
    BY <1>1, <2>1, <2>2, MovedTop
    DEF Verify, At, Top, Levels, Steps, InitSteps, LoadSteps, OnLoadSteps, UseSteps,
        WorkSteps, Enter
<1>3. ClassFrameOK(t, k) /\ StackOK(t, k)
  BY <1>1, <1>2 DEF Stacks, ClassInv
<1>4. TypeOK'
  BY <1>1, <1>2 DEF TypeOK, StackType, Statuses, class, lib
<1>5. Stacks'
  BY <1>1, <1>2, <1>3, StackMoved
  DEF StackOK, InitSteps, LoadSteps, OnLoadSteps, UseSteps, WorkSteps
<1>6. LoadInv'
  BY <1>1, <1>2, MovedLoads DEF TableSteps, Own, Private, OnLoadSteps, class, lib
<1>7. ASSUME NEW u \in Threads, NEW v \in Threads, NEW d \in Levels, NEW j \in Levels
      PROVE  WorkPairOK(u, d, v, j)'
  BY <1>1, <1>2, WorkPairMoved DEF Active
<1>8. ASSUME NEW b \in Classes PROVE ClassOK(b)'
  <2>1. /\ status'[b] = "initializing" =>
             \E d \in Levels : /\ frame'[initThread'[b]][d].x = b
                               /\ frame'[initThread'[b]][d].at \in Active
        /\ \A w \in waitSet'[b] : \E u \in Threads \ {w}, d \in Levels :
             frame'[u][d].x = b /\ frame'[u][d].at \in WorkSteps
    <3>1. status'[b] = "initializing" => status[b] = "initializing"
      BY <1>1, <1>2 DEF TypeOK
    <3>2. /\ waitSet' = waitSet /\ initThread' = initThread
          /\ frame[t][k].at \notin Active \cup WorkSteps
      BY <1>2 DEF Active, WorkSteps
    <3>3. k \in Levels /\ Moved(t, s)
      BY <1>2
    <3>4. status'[b] = "initializing" =>
            /\ status[b] = "initializing" /\ initThread'[b] = initThread[b]
            /\ frame[t][depth[t]].x = b /\ frame[t][depth[t]].at \in Active => s \in Active
      BY <3>1, <3>2
    <3>5. /\ waitSet'[b] \subseteq waitSet[b]
          /\ frame[t][depth[t]].x = b /\ frame[t][depth[t]].at \in WorkSteps =>
               s \in WorkSteps \/ waitSet'[b] = {}
      BY <3>2
    <3> QED BY <1>1, <3>3, <3>4, <3>5, WorkMoved
  <2>2. \A a \in Classes : ClassOK(a)
    BY <1>1 DEF ClassInv
  <2>3. Super[b] \in Classes \cup {NoClass}
    BY SuperAssumption
  <2>4. /\ initThread' = initThread /\ resolved' = resolved
        /\ \/ status' = status
           \/ status[c] = "resolved" /\ \E r \in {"verified", "error"} :
                                          status' = [status EXCEPT ![c] = r]
    BY <1>2
  <2>5. ASSUME NEW a \in Classes
        PROVE  \/ status'[a] = status[a]
               \/ status[a] = "resolved" /\ status'[a] \in {"verified", "error"}
    BY <1>1, <2>4 DEF TypeOK
  <2>6. SuperOK(b) => SuperOK(b)'
    BY <2>3, <2>4, <2>5 DEF SuperOK
  <2> QED BY <2>1, <2>2, <2>4, <2>5, <2>6 DEF ClassOK
<1>9. ASSUME NEW u \in Threads, NEW d \in Levels PROVE ClassFrameOK(u, d)'
  <2>1. ClassFrameOK(u, d) /\ StackOK(u, d)
    BY <1>1 DEF ClassInv, Stacks
  <2>2. PICK r \in {"verified", "error", status[c]} :
          /\ status' = [status EXCEPT ![c] = r] /\ r # status[c] => status[c] = "resolved"
          /\ s = "unlock" => r = "error"
    BY <1>1, <1>2 DEF TypeOK
  <2>3. CASE u # t \/ d # k
    <3>0. PICK x : x = frame[u][d].x
      OBVIOUS
    <3>1. frame'[u][d] = frame[u][d]
      BY <1>2, <2>3 DEF Moved, Same
    <3>2. x \in Classes /\ frame[u][d].at \in MonSteps => x # c
      BY <1>2, <2>1, <3>0 DEF ClassFrameOK
    <3>3. x \in Classes /\ frame[u][d].at \in KnownSteps => status[x] # "resolved"
      BY <2>1, <3>0 DEF ClassFrameOK, KnownSteps, Ready, Final
    <3>4. x \in Classes /\ frame[u][d].at \in {"clinit", "thrown", "done"} => SuperOK(x)'
      BY <1>1, <1>2, <2>1, <2>2, <3>0, SuperAssumption DEF ClassFrameOK, SuperOK, TypeOK
    <3>5. x \in Classes =>
           /\ frame[u][d].at \in MonSteps => owner'[x] = owner[x]
           /\ \/ frame[u][d].at \notin KnownSteps
              \/ status'[x] = status[x] /\ initThread'[x] = initThread[x]
      BY <1>1, <1>2, <2>2, <3>2, <3>3 DEF TypeOK
    <3> QED BY <2>1, <3>1, <3>4, <3>5, FrameStays, <3>0
  <2>4. CASE u = t /\ d = k
    BY <1>1, <1>2, <2>2, <2>4 DEF ClassFrameOK, Moved, MonSteps, Active, TypeOK
  <2> QED BY <2>3, <2>4
<1> QED BY <1>4, <1>5, <1>6, <1>7, <1>8, <1>9 DEF IInv, ClassInv

\* The invariant is kept when a waiter gets the monitor back.
LEMMA WakesInv ==
  ASSUME IInv, NEW t \in Threads, Wakes(t)
  PROVE  IInv'
<1> USE NobodyAssumption, NameAssumption
<1> DEFINE k == depth[t]
<1> DEFINE c == frame[t][k].x
<1>1. TypeOK /\ Stacks /\ ClassInv /\ LoadInv /\ StackType
  BY DEF IInv, TypeOK, StackType
<1>2. /\ k \in Levels /\ frame[t][k].at = "waiting" /\ c \in Classes
      /\ StackType' /\ Moved(t, "woken")
      /\ owner[c] = Nobody /\ owner' = [owner EXCEPT ![c] = t]
      /\ UNCHANGED <<status, initThread, waitSet, resolved, lib>>
  <2>1. k \in Levels /\ frame[t][k].at = "waiting"
    BY <1>1 DEF Wakes, At, Top, StackType, Levels
  <2>2. c \in Classes
    BY <1>1, <2>1 DEF Stacks, StackOK, UseSteps, InitSteps, WorkSteps
  <2> QED
    BY <1>1, <2>1, <2>2, MovedTop
    DEF Wakes, At, Top, Levels, Steps, InitSteps, LoadSteps, OnLoadSteps, UseSteps,
        WorkSteps, Enter
<1>3. ClassFrameOK(t, k) /\ StackOK(t, k)
  BY <1>1, <1>2 DEF Stacks, ClassInv
<1>4. TypeOK'
  BY <1>1, <1>2 DEF TypeOK, StackType, Statuses, class, lib
<1>5. Stacks'
  BY <1>1, <1>2, <1>3, StackMoved
  DEF StackOK, InitSteps, LoadSteps, OnLoadSteps, UseSteps, WorkSteps
<1>6. LoadInv'
  BY <1>1, <1>2, MovedLoads DEF TableSteps, Own, Private, OnLoadSteps, class, lib
<1>7. ASSUME NEW u \in Threads, NEW v \in Threads, NEW d \in Levels, NEW j \in Levels
      PROVE  WorkPairOK(u, d, v, j)'
  BY <1>1, <1>2, WorkPairMoved DEF Active
<1>8. ASSUME NEW b \in Classes PROVE ClassOK(b)'
  <2>1. /\ status'[b] = "initializing" =>
             \E d \in Levels : /\ frame'[initThread'[b]][d].x = b
                               /\ frame'[initThread'[b]][d].at \in Active
        /\ \A w \in waitSet'[b] : \E u \in Threads \ {w}, d \in Levels :
             frame'[u][d].x = b /\ frame'[u][d].at \in WorkSteps
    BY <1>1, <1>2, <1>3, WorkMoved
    DEF ClassFrameOK, Active, WorkSteps, Final, TypeOK, class
  <2>2. \A a \in Classes : ClassOK(a)
    BY <1>1 DEF ClassInv
  <2>3. Super[b] \in Classes \cup {NoClass}
    BY SuperAssumption
  <2> QED
    BY <1>1, <1>2, <1>3, <1>4, <2>1, <2>2, <2>3
    DEF ClassOK, ClassFrameOK, SuperOK, TypeOK, Active, class
<1>9. ASSUME NEW u \in Threads, NEW d \in Levels PROVE ClassFrameOK(u, d)'
  <2>1. ClassFrameOK(u, d) /\ StackOK(u, d)
    BY <1>1 DEF ClassInv, Stacks
  <2>2. CASE u # t \/ d # k
    BY <1>1, <1>2, <1>3, <2>2, OtherFrames
  <2>3. CASE u = t /\ d = k
    <3>1. frame'[t][k].at = "woken" /\ frame'[t][k].x = c
      BY <1>2 DEF Moved
    <3>2. owner'[c] = t /\ status' = status /\ initThread' = initThread
      BY <1>1, <1>2 DEF TypeOK
    <3> QED
      BY <1>2, <1>3, <2>3, <3>1, <3>2
      DEF ClassFrameOK, Ready, SuperOK, MonSteps, Active, Final
  <2> QED BY <2>2, <2>3
<1> QED BY <1>4, <1>5, <1>6, <1>7, <1>8, <1>9 DEF IInv, ClassInv

\* The invariant is kept when a waiter looks at the status again.
LEMMA WokenInv ==
  ASSUME IInv, NEW t \in Threads, Woken(t)
  PROVE  IInv'
<1> USE NobodyAssumption, NameAssumption
<1> DEFINE k == depth[t]
<1> DEFINE c == frame[t][k].x
<1>1. TypeOK /\ Stacks /\ ClassInv /\ LoadInv /\ StackType
  BY DEF IInv, TypeOK, StackType
<1>2. PICK s \in {"loop", "unlock"} :
               /\ k \in Levels /\ frame[t][k].at = "woken" /\ c \in Classes
               /\ StackType' /\ Moved(t, s)
               /\ s = "unlock" => status[c] # "initializing"
               /\ UNCHANGED <<class, lib>>
  <2>1. k \in Levels /\ frame[t][k].at = "woken"
    BY <1>1 DEF Woken, At, Top, StackType, Levels
  <2>2. c \in Classes
    BY <1>1, <2>1 DEF Stacks, StackOK, UseSteps, InitSteps, WorkSteps
  <2> QED
    BY <1>1, <2>1, <2>2, MovedTop
    DEF Woken, At, Top, Levels, Steps, InitSteps, LoadSteps, OnLoadSteps, UseSteps,
        WorkSteps
<1>3. ClassFrameOK(t, k) /\ StackOK(t, k)
  BY <1>1, <1>2 DEF Stacks, ClassInv
<1>4. TypeOK'
  BY <1>1, <1>2 DEF TypeOK, StackType, Statuses, class, lib
<1>5. Stacks'
  BY <1>1, <1>2, <1>3, StackMoved
  DEF StackOK, InitSteps, LoadSteps, OnLoadSteps, UseSteps, WorkSteps
<1>6. LoadInv'
  BY <1>1, <1>2, MovedLoads DEF TableSteps, Own, Private, OnLoadSteps, class, lib
<1>7. ASSUME NEW u \in Threads, NEW v \in Threads, NEW d \in Levels, NEW j \in Levels
      PROVE  WorkPairOK(u, d, v, j)'
  BY <1>1, <1>2, WorkPairMoved DEF Active
<1>8. ASSUME NEW b \in Classes PROVE ClassOK(b)'
  <2>1. /\ status'[b] = "initializing" =>
             \E d \in Levels : /\ frame'[initThread'[b]][d].x = b
                               /\ frame'[initThread'[b]][d].at \in Active
        /\ \A w \in waitSet'[b] : \E u \in Threads \ {w}, d \in Levels :
             frame'[u][d].x = b /\ frame'[u][d].at \in WorkSteps
    BY <1>1, <1>2, <1>3, WorkMoved
    DEF ClassFrameOK, Active, WorkSteps, Final, TypeOK, class
  <2>2. \A a \in Classes : ClassOK(a)
    BY <1>1 DEF ClassInv
  <2>3. Super[b] \in Classes \cup {NoClass}
    BY SuperAssumption
  <2> QED
    BY <1>1, <1>2, <1>3, <1>4, <2>1, <2>2, <2>3
    DEF ClassOK, ClassFrameOK, SuperOK, TypeOK, Active, class
<1>9. ASSUME NEW u \in Threads, NEW d \in Levels PROVE ClassFrameOK(u, d)'
  <2>1. ClassFrameOK(u, d) /\ StackOK(u, d)
    BY <1>1 DEF ClassInv, Stacks
  <2>2. CASE u # t \/ d # k
    BY <1>1, <1>2, <1>3, <2>2, OtherFrames DEF class
  <2>3. CASE u = t /\ d = k
    <3>1. frame'[t][k].at = s /\ frame'[t][k].x = c
      BY <1>2 DEF Moved
    <3>2. status' = status /\ initThread' = initThread /\ owner' = owner
      BY <1>2 DEF class
    <3> QED
      BY <1>2, <1>3, <2>3, <3>1, <3>2
      DEF ClassFrameOK, Ready, SuperOK, MonSteps, Active, Final
  <2> QED BY <2>2, <2>3
<1> QED BY <1>4, <1>5, <1>6, <1>7, <1>8, <1>9 DEF IInv, ClassInv

\* The invariant is kept when the superclass is found ready.
LEMMA SuperReadyInv ==
  ASSUME IInv, NEW t \in Threads, SuperReady(t)
  PROVE  IInv'
<1> USE NobodyAssumption, NameAssumption
<1> DEFINE k == depth[t]
<1> DEFINE c == frame[t][k].x
<1>1. TypeOK /\ Stacks /\ ClassInv /\ LoadInv /\ StackType
  BY DEF IInv, TypeOK, StackType
<1>2. /\ k \in Levels /\ frame[t][k].at = "super" /\ c \in Classes
      /\ StackType' /\ Moved(t, "clinit")
      /\ Super[c] = NoClass \/ status[Super[c]] = "initialized"
      /\ UNCHANGED <<class, lib>>
  <2>1. k \in Levels /\ frame[t][k].at = "super"
    BY <1>1 DEF SuperReady, At, Top, StackType, Levels
  <2>2. c \in Classes
    BY <1>1, <2>1 DEF Stacks, StackOK, UseSteps, InitSteps, WorkSteps
  <2> QED
    BY <1>1, <2>1, <2>2, MovedTop
    DEF SuperReady, At, Top, Levels, Steps, InitSteps, LoadSteps, OnLoadSteps,
        UseSteps, WorkSteps
<1>3. ClassFrameOK(t, k) /\ StackOK(t, k)
  BY <1>1, <1>2 DEF Stacks, ClassInv
<1>4. TypeOK'
  BY <1>1, <1>2 DEF TypeOK, StackType, Statuses, class, lib
<1>5. Stacks'
  BY <1>1, <1>2, <1>3, StackMoved
  DEF StackOK, InitSteps, LoadSteps, OnLoadSteps, UseSteps, WorkSteps
<1>6. LoadInv'
  BY <1>1, <1>2, MovedLoads DEF TableSteps, Own, Private, OnLoadSteps, class, lib
<1>7. ASSUME NEW u \in Threads, NEW v \in Threads, NEW d \in Levels, NEW j \in Levels
      PROVE  WorkPairOK(u, d, v, j)'
  BY <1>1, <1>2, WorkPairMoved DEF Active
<1>8. ASSUME NEW b \in Classes PROVE ClassOK(b)'
  <2>1. /\ status'[b] = "initializing" =>
             \E d \in Levels : /\ frame'[initThread'[b]][d].x = b
                               /\ frame'[initThread'[b]][d].at \in Active
        /\ \A w \in waitSet'[b] : \E u \in Threads \ {w}, d \in Levels :
             frame'[u][d].x = b /\ frame'[u][d].at \in WorkSteps
    BY SMTT(30), <1>1, <1>2, <1>3, WorkMoved
    DEF ClassFrameOK, Active, WorkSteps, Final, TypeOK, class
  <2>2. \A a \in Classes : ClassOK(a)
    BY <1>1 DEF ClassInv
  <2>3. Super[b] \in Classes \cup {NoClass}
    BY SuperAssumption
  <2> QED
    BY <1>1, <1>2, <1>3, <1>4, <2>1, <2>2, <2>3
    DEF ClassOK, ClassFrameOK, SuperOK, TypeOK, Active, class
<1>9. ASSUME NEW u \in Threads, NEW d \in Levels PROVE ClassFrameOK(u, d)'
  <2>1. ClassFrameOK(u, d) /\ StackOK(u, d)
    BY <1>1 DEF ClassInv, Stacks
  <2>2. CASE u # t \/ d # k
    BY <1>1, <1>2, <1>3, <2>2, OtherFrames DEF class
  <2>3. CASE u = t /\ d = k
    <3>1. frame'[t][k].at = "clinit" /\ frame'[t][k].x = c
      BY <1>2 DEF Moved
    <3>2. status' = status /\ initThread' = initThread /\ owner' = owner
      BY <1>2 DEF class
    <3>3. Super[c] = NoClass \/ status'[Super[c]] = "initialized"
      BY <1>2, <3>2
    <3> QED
      BY <1>2, <1>3, <2>3, <3>1, <3>2, <3>3
      DEF ClassFrameOK, Ready, SuperOK, MonSteps, Active, Final
  <2> QED BY <2>2, <2>3
<1> QED BY <1>4, <1>5, <1>6, <1>7, <1>8, <1>9 DEF IInv, ClassInv

\* The invariant is kept when the superclass has failed.
LEMMA SuperFailedInv ==
  ASSUME IInv, NEW t \in Threads, SuperFailed(t)
  PROVE  IInv'
<1> USE NobodyAssumption, NameAssumption
<1> DEFINE k == depth[t]
<1> DEFINE c == frame[t][k].x
<1>1. TypeOK /\ Stacks /\ ClassInv /\ LoadInv /\ StackType
  BY DEF IInv, TypeOK, StackType
<1>2. /\ k \in Levels /\ frame[t][k].at = "superfailed" /\ c \in Classes
      /\ StackType' /\ Moved(t, "marked")
      /\ status' = [status EXCEPT ![c] = "error"]
      /\ UNCHANGED <<initThread, owner, waitSet, resolved, lib>>
  <2>1. k \in Levels /\ frame[t][k].at = "superfailed"
    BY <1>1 DEF SuperFailed, At, Top, StackType, Levels
  <2>2. c \in Classes
    BY <1>1, <2>1 DEF Stacks, StackOK, UseSteps, InitSteps, WorkSteps
  <2> QED
    BY <1>1, <2>1, <2>2, MovedTop
    DEF SuperFailed, At, Top, Levels, Steps, InitSteps, LoadSteps, OnLoadSteps,
        UseSteps, WorkSteps
<1>3. ClassFrameOK(t, k) /\ StackOK(t, k)
  BY <1>1, <1>2 DEF Stacks, ClassInv
<1>4. TypeOK'
  BY <1>1, <1>2 DEF TypeOK, StackType, Statuses, class, lib
<1>5. Stacks'
  BY <1>1, <1>2, <1>3, StackMoved
  DEF StackOK, InitSteps, LoadSteps, OnLoadSteps, UseSteps, WorkSteps
<1>6. LoadInv'
  BY <1>1, <1>2, MovedLoads DEF TableSteps, Own, Private, OnLoadSteps, class, lib
<1>7. ASSUME NEW u \in Threads, NEW v \in Threads, NEW d \in Levels, NEW j \in Levels
      PROVE  WorkPairOK(u, d, v, j)'
  BY <1>1, <1>2, WorkPairMoved DEF Active
<1>8. ASSUME NEW b \in Classes PROVE ClassOK(b)'
  <2>1. /\ status'[b] = "initializing" =>
             \E d \in Levels : /\ frame'[initThread'[b]][d].x = b
                               /\ frame'[initThread'[b]][d].at \in Active
        /\ \A w \in waitSet'[b] : \E u \in Threads \ {w}, d \in Levels :
             frame'[u][d].x = b /\ frame'[u][d].at \in WorkSteps
    BY <1>1, <1>2, <1>3, WorkMoved
    DEF ClassFrameOK, Active, WorkSteps, Final, TypeOK, class
  <2>2. \A a \in Classes : ClassOK(a)
    BY <1>1 DEF ClassInv
  <2>3. Super[b] \in Classes \cup {NoClass}
    BY SuperAssumption
  <2> QED
    BY <1>1, <1>2, <1>3, <1>4, <2>1, <2>2, <2>3
    DEF ClassOK, ClassFrameOK, SuperOK, TypeOK, Active, class
<1>9. ASSUME NEW u \in Threads, NEW d \in Levels PROVE ClassFrameOK(u, d)'
  <2>1. ClassFrameOK(u, d) /\ StackOK(u, d)
    BY <1>1 DEF ClassInv, Stacks
  <2>2. status[c] = "initializing" /\ initThread[c] = t
    BY <1>2, <1>3 DEF ClassFrameOK, Active
  <2>3. CASE u # t \/ d # k
    <3>0. PICK x : x = frame[u][d].x
      OBVIOUS
    <3>1. frame'[u][d] = frame[u][d]
      BY <1>2, <2>3 DEF Moved, Same
    <3>2. frame[u][d].at \in Active => x # c
      BY <1>1, <1>2, <2>3, <3>0 DEF ClassInv, WorkPairOK, Active
    <3>3. frame[u][d].at \in {"cache", "used"} => x # c
      <4>1. u = t => frame[u][d].at \notin {"cache", "used"}
        BY <1>1, <1>2, <2>3, BelowTop
      <4> QED BY <2>1, <2>2, <3>0, <4>1 DEF ClassFrameOK, Ready
    <3>4. frame[u][d].at = "begin" => x # c
      BY <2>1, <2>2, <3>0 DEF ClassFrameOK
    <3>5. x \in Classes /\ frame[u][d].at \in {"clinit", "thrown", "done"} => SuperOK(x)'
      <4>1. ASSUME x \in Classes, frame[u][d].at \in {"clinit", "thrown", "done"}
            PROVE  SuperOK(x)'
        <5>1. SuperOK(x) /\ Super[x] \in Classes \cup {NoClass} /\ initThread[x] = u
          BY <2>1, <3>0, <4>1, SuperAssumption DEF ClassFrameOK, Active
        <5>2. initThread' = initThread /\ \A b \in Classes \ {c} : status'[b] = status[b]
          BY <1>1, <1>2 DEF TypeOK
        <5>3. CASE Super[x] = c
          BY <2>2, <5>1, <5>2, <5>3 DEF SuperOK
        <5>4. CASE Super[x] # c
          BY <5>1, <5>2, <5>4 DEF SuperOK
        <5> QED BY <5>3, <5>4
      <4> QED BY <4>1
    <3>6. x \in Classes =>
           /\ frame[u][d].at \in MonSteps => owner'[x] = owner[x]
           /\ \/ status'[x] = status[x] /\ initThread'[x] = initThread[x]
              \/ /\ status'[x] \in Final /\ frame[u][d].at \notin Active \cup {"begin"}
                 /\ frame[u][d].at \notin {"cache", "used"}
      BY <1>1, <1>2, <3>2, <3>3, <3>4 DEF TypeOK, Final
    <3> QED BY <2>1, <3>1, <3>5, <3>6, FrameStays, <3>0
  <2>4. CASE u = t /\ d = k
    <3>1. frame'[t][k].at = "marked" /\ frame'[t][k].x = c
      BY <1>2 DEF Moved
    <3>2. status'[c] \in Final
      BY <1>1, <1>2 DEF TypeOK, Final
    <3> QED BY <2>4, <3>1, <3>2 DEF ClassFrameOK, MonSteps, Active
  <2> QED BY <2>3, <2>4
<1> QED BY <1>4, <1>5, <1>6, <1>7, <1>8, <1>9 DEF IInv, ClassInv

\* The invariant is kept when the monitor is entered to notify.
LEMMA LockToNotifyInv ==
  ASSUME IInv, NEW t \in Threads, LockToNotify(t)
  PROVE  IInv'
<1> USE NobodyAssumption, NameAssumption
<1> DEFINE k == depth[t]
<1> DEFINE c == frame[t][k].x
<1>1. TypeOK /\ Stacks /\ ClassInv /\ LoadInv /\ StackType
  BY DEF IInv, TypeOK, StackType
<1>2. /\ k \in Levels /\ frame[t][k].at = "marked" /\ c \in Classes
      /\ StackType' /\ Moved(t, "notify")
      /\ owner[c] = Nobody /\ owner' = [owner EXCEPT ![c] = t]
      /\ UNCHANGED <<status, initThread, waitSet, resolved, lib>>
  <2>1. k \in Levels /\ frame[t][k].at = "marked"
    BY <1>1 DEF LockToNotify, At, Top, StackType, Levels
  <2>2. c \in Classes
    BY <1>1, <2>1 DEF Stacks, StackOK, UseSteps, InitSteps, WorkSteps
  <2> QED
    BY <1>1, <2>1, <2>2, MovedTop
    DEF LockToNotify, At, Top, Levels, Steps, InitSteps, LoadSteps, OnLoadSteps,
        UseSteps, WorkSteps, Enter
<1>3. ClassFrameOK(t, k) /\ StackOK(t, k)
  BY <1>1, <1>2 DEF Stacks, ClassInv
<1>4. TypeOK'
  BY <1>1, <1>2 DEF TypeOK, StackType, Statuses, class, lib
<1>5. Stacks'
  BY <1>1, <1>2, <1>3, StackMoved
  DEF StackOK, InitSteps, LoadSteps, OnLoadSteps, UseSteps, WorkSteps
<1>6. LoadInv'
  BY <1>1, <1>2, MovedLoads DEF TableSteps, Own, Private, OnLoadSteps, class, lib
<1>7. ASSUME NEW u \in Threads, NEW v \in Threads, NEW d \in Levels, NEW j \in Levels
      PROVE  WorkPairOK(u, d, v, j)'
  BY <1>1, <1>2, WorkPairMoved DEF Active
<1>8. ASSUME NEW b \in Classes PROVE ClassOK(b)'
  <2>1. /\ status'[b] = "initializing" =>
             \E d \in Levels : /\ frame'[initThread'[b]][d].x = b
                               /\ frame'[initThread'[b]][d].at \in Active
        /\ \A w \in waitSet'[b] : \E u \in Threads \ {w}, d \in Levels :
             frame'[u][d].x = b /\ frame'[u][d].at \in WorkSteps
    BY <1>1, <1>2, <1>3, WorkMoved
    DEF ClassFrameOK, Active, WorkSteps, Final, TypeOK, class
  <2>2. \A a \in Classes : ClassOK(a)
    BY <1>1 DEF ClassInv
  <2>3. Super[b] \in Classes \cup {NoClass}
    BY SuperAssumption
  <2> QED
    BY <1>1, <1>2, <1>3, <1>4, <2>1, <2>2, <2>3
    DEF ClassOK, ClassFrameOK, SuperOK, TypeOK, Active, class
<1>9. ASSUME NEW u \in Threads, NEW d \in Levels PROVE ClassFrameOK(u, d)'
  <2>1. ClassFrameOK(u, d) /\ StackOK(u, d)
    BY <1>1 DEF ClassInv, Stacks
  <2>2. CASE u # t \/ d # k
    BY <1>1, <1>2, <1>3, <2>2, OtherFrames
  <2>3. CASE u = t /\ d = k
    <3>1. frame'[t][k].at = "notify" /\ frame'[t][k].x = c
      BY <1>2 DEF Moved
    <3>2. owner'[c] = t /\ status' = status /\ initThread' = initThread
      BY <1>1, <1>2 DEF TypeOK
    <3> QED
      BY <1>2, <1>3, <2>3, <3>1, <3>2
      DEF ClassFrameOK, Ready, SuperOK, MonSteps, Active, Final
  <2> QED BY <2>2, <2>3
<1> QED BY <1>4, <1>5, <1>6, <1>7, <1>8, <1>9 DEF IInv, ClassInv

\* The invariant is kept when the outcome of a <clinit> is stored.
LEMMA FinishInv ==
  ASSUME IInv, NEW t \in Threads, Finish(t)
  PROVE  IInv'
<1> USE NobodyAssumption, NameAssumption
<1> DEFINE k == depth[t]
<1> DEFINE c == frame[t][k].x
<1>1. TypeOK /\ Stacks /\ ClassInv /\ LoadInv /\ StackType
  BY DEF IInv, TypeOK, StackType
<1>2. /\ k \in Levels /\ frame[t][k].at \in {"done", "thrown"} /\ c \in Classes
      /\ StackType' /\ Moved(t, "notify")
      /\ owner[c] = Nobody /\ owner' = [owner EXCEPT ![c] = t]
      /\ \/ /\ frame[t][k].at = "done"
            /\ status' = [status EXCEPT ![c] = "initialized"]
         \/ frame[t][k].at = "thrown" /\ status' = [status EXCEPT ![c] = "error"]
      /\ UNCHANGED <<initThread, waitSet, resolved, lib>>
  <2>1. k \in Levels /\ frame[t][k].at \in {"done", "thrown"}
    BY <1>1 DEF Finish, At, Top, StackType, Levels
  <2>2. c \in Classes
    BY <1>1, <2>1 DEF Stacks, StackOK, UseSteps, InitSteps, WorkSteps
  <2> QED
    BY <1>1, <2>1, <2>2, MovedTop
    DEF Finish, At, Top, Levels, Steps, InitSteps, LoadSteps, OnLoadSteps, UseSteps,
        WorkSteps, Enter
<1>3. ClassFrameOK(t, k) /\ StackOK(t, k)
  BY <1>1, <1>2 DEF Stacks, ClassInv
<1>4. TypeOK'
  BY <1>1, <1>2 DEF TypeOK, StackType, Statuses, class, lib
<1>5. Stacks'
  BY <1>1, <1>2, <1>3, StackMoved
  DEF StackOK, InitSteps, LoadSteps, OnLoadSteps, UseSteps, WorkSteps
<1>6. LoadInv'
  BY <1>1, <1>2, MovedLoads DEF TableSteps, Own, Private, OnLoadSteps, class, lib
<1>7. ASSUME NEW u \in Threads, NEW v \in Threads, NEW d \in Levels, NEW j \in Levels
      PROVE  WorkPairOK(u, d, v, j)'
  BY <1>1, <1>2, WorkPairMoved DEF Active
<1>8. ASSUME NEW b \in Classes PROVE ClassOK(b)'
  <2>1. /\ status'[b] = "initializing" =>
             \E d \in Levels : /\ frame'[initThread'[b]][d].x = b
                               /\ frame'[initThread'[b]][d].at \in Active
        /\ \A w \in waitSet'[b] : \E u \in Threads \ {w}, d \in Levels :
             frame'[u][d].x = b /\ frame'[u][d].at \in WorkSteps
    <3>1. status'[b] = "initializing" => status[b] = "initializing" /\ b # c
      BY <1>1, <1>2 DEF TypeOK
    <3>2. waitSet' = waitSet /\ initThread' = initThread /\ "notify" \in WorkSteps
      BY <1>2 DEF WorkSteps
    <3> QED BY <1>1, <1>2, <3>1, <3>2, WorkMoved
  <2>2. \A a \in Classes : ClassOK(a)
    BY <1>1 DEF ClassInv
  <2>3. Super[b] \in Classes \cup {NoClass}
    BY SuperAssumption
  <2>4. /\ initThread' = initThread /\ resolved' = resolved
        /\ \E r \in {"initialized", "error"} :
             /\ status' = [status EXCEPT ![c] = r]
             /\ r = "initialized" => frame[t][k].at = "done"
    BY <1>2
  <2>5. /\ status[c] = "initializing" /\ initThread[c] = t
        /\ frame[t][k].at = "done" => SuperOK(c)
    BY <1>2, <1>3 DEF ClassFrameOK, Active
  <2>6. ASSUME NEW a \in Classes
        PROVE  \/ status'[a] = status[a]
               \/ /\ a = c /\ status'[a] \in {"initialized", "error"}
                  /\ status'[a] = "initialized" => SuperOK(c)
    BY <1>1, <2>4, <2>5 DEF TypeOK
  <2>7. SuperOK(b) => SuperOK(b)'
    BY <2>2, <2>3, <2>4, <2>5, <2>6 DEF SuperOK
  <2>8. ClassOK(b) /\ initThread[c] \in Threads
    BY <1>2, <2>2, <2>5
  <2> HIDE DEF c
  <2> QED BY <2>1, <2>4, <2>5, <2>6, <2>7, <2>8 DEF ClassOK
<1>9. ASSUME NEW u \in Threads, NEW d \in Levels PROVE ClassFrameOK(u, d)'
  <2>1. ClassFrameOK(u, d) /\ StackOK(u, d)
    BY <1>1 DEF ClassInv, Stacks
  <2>2. status[c] = "initializing" /\ initThread[c] = t /\ SuperOK(c)
    BY <1>2, <1>3 DEF ClassFrameOK, Active
  <2>3. PICK r \in Final : status' = [status EXCEPT ![c] = r]
    BY <1>2 DEF Final
  <2>4. CASE u # t \/ d # k
    <3>0. PICK x : x = frame[u][d].x
      OBVIOUS
    <3>1. frame'[u][d] = frame[u][d]
      BY <1>2, <2>4 DEF Moved, Same
    <3>2. x \in Classes /\ frame[u][d].at \in MonSteps => x # c
      BY <1>2, <2>1, <3>0 DEF ClassFrameOK
    <3>3. frame[u][d].at \in Active => x # c
      BY <1>1, <1>2, <2>4, <3>0 DEF ClassInv, WorkPairOK, Active
    <3>4. frame[u][d].at \in {"cache", "used"} => x # c
      <4>1. u = t => frame[u][d].at \notin {"cache", "used"}
        BY <1>1, <1>2, <2>4, BelowTop
      <4> QED BY <2>1, <2>2, <3>0, <4>1 DEF ClassFrameOK, Ready
    <3>5. frame[u][d].at = "begin" => x # c
      BY <2>1, <2>2, <3>0 DEF ClassFrameOK
    <3>6. x \in Classes /\ frame[u][d].at \in {"clinit", "thrown", "done"} => SuperOK(x)'
      <4>1. ASSUME x \in Classes, frame[u][d].at \in {"clinit", "thrown", "done"}
            PROVE  SuperOK(x)'
        <5>1. SuperOK(x) /\ Super[x] \in Classes \cup {NoClass}
          BY <2>1, <3>0, <4>1, SuperAssumption DEF ClassFrameOK
        <5> QED BY <1>1, <1>2, <2>2, <2>3, <5>1 DEF SuperOK, TypeOK
      <4> QED BY <4>1
    <3>7. x \in Classes =>
           /\ frame[u][d].at \in MonSteps => owner'[x] = owner[x]
           /\ \/ status'[x] = status[x] /\ initThread'[x] = initThread[x]
              \/ /\ status'[x] \in Final /\ frame[u][d].at \notin Active \cup {"begin"}
                 /\ frame[u][d].at \notin {"cache", "used"}
      BY <1>1, <1>2, <2>3, <3>2, <3>3, <3>4, <3>5 DEF TypeOK
    <3> QED BY <2>1, <3>1, <3>6, <3>7, FrameStays, <3>0
  <2>5. CASE u = t /\ d = k
    <3>1. frame'[t][k].at = "notify" /\ frame'[t][k].x = c
      BY <1>2 DEF Moved
    <3>2. owner'[c] = t /\ status'[c] \in Final
      BY <1>1, <1>2, <2>3 DEF TypeOK
    <3> QED BY <2>5, <3>1, <3>2 DEF ClassFrameOK, MonSteps, Active
  <2> QED BY <2>4, <2>5
<1> QED BY <1>4, <1>5, <1>6, <1>7, <1>8, <1>9 DEF IInv, ClassInv

\* The invariant is kept when those who wait are told.
LEMMA NotifyAllInv ==
  ASSUME IInv, NEW t \in Threads, NotifyAll(t)
  PROVE  IInv'
<1> USE NobodyAssumption, NameAssumption
<1> DEFINE k == depth[t]
<1> DEFINE c == frame[t][k].x
<1>1. TypeOK /\ Stacks /\ ClassInv /\ LoadInv /\ StackType
  BY DEF IInv, TypeOK, StackType
<1>2. /\ k \in Levels /\ frame[t][k].at = "notify" /\ c \in Classes
      /\ StackType' /\ Moved(t, "unlock")
      /\ waitSet' = [waitSet EXCEPT ![c] = {}]
      /\ UNCHANGED <<status, initThread, owner, resolved, lib>>
  <2>1. k \in Levels /\ frame[t][k].at = "notify"
    BY <1>1 DEF NotifyAll, At, Top, StackType, Levels
  <2>2. c \in Classes
    BY <1>1, <2>1 DEF Stacks, StackOK, UseSteps, InitSteps, WorkSteps
  <2> QED
    BY <1>1, <2>1, <2>2, MovedTop
    DEF NotifyAll, At, Top, Levels, Steps, InitSteps, LoadSteps, OnLoadSteps,
        UseSteps, WorkSteps
<1>3. ClassFrameOK(t, k) /\ StackOK(t, k)
  BY <1>1, <1>2 DEF Stacks, ClassInv
<1>4. TypeOK'
  BY <1>1, <1>2 DEF TypeOK, StackType, Statuses, class, lib
<1>5. Stacks'
  BY <1>1, <1>2, <1>3, StackMoved
  DEF StackOK, InitSteps, LoadSteps, OnLoadSteps, UseSteps, WorkSteps
<1>6. LoadInv'
  BY <1>1, <1>2, MovedLoads DEF TableSteps, Own, Private, OnLoadSteps, class, lib
<1>7. ASSUME NEW u \in Threads, NEW v \in Threads, NEW d \in Levels, NEW j \in Levels
      PROVE  WorkPairOK(u, d, v, j)'
  BY <1>1, <1>2, WorkPairMoved DEF Active
<1>8. ASSUME NEW b \in Classes PROVE ClassOK(b)'
  <2>1. /\ status'[b] = "initializing" =>
             \E d \in Levels : /\ frame'[initThread'[b]][d].x = b
                               /\ frame'[initThread'[b]][d].at \in Active
        /\ \A w \in waitSet'[b] : \E u \in Threads \ {w}, d \in Levels :
             frame'[u][d].x = b /\ frame'[u][d].at \in WorkSteps
    BY <1>1, <1>2, <1>3, WorkMoved
    DEF ClassFrameOK, Active, WorkSteps, Final, TypeOK, class
  <2>2. \A a \in Classes : ClassOK(a)
    BY <1>1 DEF ClassInv
  <2>3. Super[b] \in Classes \cup {NoClass}
    BY SuperAssumption
  <2> QED
    BY <1>1, <1>2, <1>3, <1>4, <2>1, <2>2, <2>3
    DEF ClassOK, ClassFrameOK, SuperOK, TypeOK, Active, class
<1>9. ASSUME NEW u \in Threads, NEW d \in Levels PROVE ClassFrameOK(u, d)'
  <2>1. ClassFrameOK(u, d) /\ StackOK(u, d)
    BY <1>1 DEF ClassInv, Stacks
  <2>2. CASE u # t \/ d # k
    BY <1>1, <1>2, <1>3, <2>2, OtherFrames
  <2>3. CASE u = t /\ d = k
    <3>1. frame'[t][k].at = "unlock" /\ frame'[t][k].x = c
      BY <1>2 DEF Moved
    <3>2. status' = status /\ initThread' = initThread /\ owner' = owner
      BY <1>2 DEF class
    <3> QED
      BY <1>2, <1>3, <2>3, <3>1, <3>2
      DEF ClassFrameOK, Ready, SuperOK, MonSteps, Active, Final
  <2> QED BY <2>2, <2>3
<1> QED BY <1>4, <1>5, <1>6, <1>7, <1>8, <1>9 DEF IInv, ClassInv

\* The invariant is kept when the monitor is left.
LEMMA UnlockInv ==
  ASSUME IInv, NEW t \in Threads, Unlock(t)
  PROVE  IInv'
<1> USE NobodyAssumption, NameAssumption
<1> DEFINE k == depth[t]
<1> DEFINE c == frame[t][k].x
<1>1. TypeOK /\ Stacks /\ ClassInv /\ LoadInv /\ StackType
  BY DEF IInv, TypeOK, StackType
<1>2. /\ k \in Levels /\ frame[t][k].at = "unlock" /\ c \in Classes
      /\ StackType' /\ Moved(t, "return")
      /\ owner' = [owner EXCEPT ![c] = Nobody]
      /\ UNCHANGED <<status, initThread, waitSet, resolved, lib>>
  <2>1. k \in Levels /\ frame[t][k].at = "unlock"
    BY <1>1 DEF Unlock, At, Top, StackType, Levels
  <2>2. c \in Classes
    BY <1>1, <2>1 DEF Stacks, StackOK, UseSteps, InitSteps, WorkSteps
  <2> QED
    BY <1>1, <2>1, <2>2, MovedTop
    DEF Unlock, At, Top, Levels, Steps, InitSteps, LoadSteps, OnLoadSteps, UseSteps,
        WorkSteps, Leave
<1>3. ClassFrameOK(t, k) /\ StackOK(t, k)
  BY <1>1, <1>2 DEF Stacks, ClassInv
<1>4. TypeOK'
  BY <1>1, <1>2 DEF TypeOK, StackType, Statuses, class, lib
<1>5. Stacks'
  BY <1>1, <1>2, <1>3, StackMoved
  DEF StackOK, InitSteps, LoadSteps, OnLoadSteps, UseSteps, WorkSteps
<1>6. LoadInv'
  BY <1>1, <1>2, MovedLoads DEF TableSteps, Own, Private, OnLoadSteps, class, lib
<1>7. ASSUME NEW u \in Threads, NEW v \in Threads, NEW d \in Levels, NEW j \in Levels
      PROVE  WorkPairOK(u, d, v, j)'
  BY <1>1, <1>2, WorkPairMoved DEF Active
<1>8. ASSUME NEW b \in Classes PROVE ClassOK(b)'
  <2>1. /\ status'[b] = "initializing" =>
             \E d \in Levels : /\ frame'[initThread'[b]][d].x = b
                               /\ frame'[initThread'[b]][d].at \in Active
        /\ \A w \in waitSet'[b] : \E u \in Threads \ {w}, d \in Levels :
             frame'[u][d].x = b /\ frame'[u][d].at \in WorkSteps
    BY <1>1, <1>2, <1>3, WorkMoved
    DEF ClassFrameOK, Active, WorkSteps, Final, TypeOK, class
  <2>2. \A a \in Classes : ClassOK(a)
    BY <1>1 DEF ClassInv
  <2>3. Super[b] \in Classes \cup {NoClass}
    BY SuperAssumption
  <2> QED
    BY <1>1, <1>2, <1>3, <1>4, <2>1, <2>2, <2>3
    DEF ClassOK, ClassFrameOK, SuperOK, TypeOK, Active, class
<1>9. ASSUME NEW u \in Threads, NEW d \in Levels PROVE ClassFrameOK(u, d)'
  <2>1. ClassFrameOK(u, d) /\ StackOK(u, d)
    BY <1>1 DEF ClassInv, Stacks
  <2>2. CASE u # t \/ d # k
    <3>1. owner[c] = t
      BY <1>2, <1>3 DEF ClassFrameOK, MonSteps
    <3>2. /\ owner[c] \in {Nobody, t}
          /\ \E o : owner' = [owner EXCEPT ![c] = o]
      BY <1>2, <3>1
    <3>3. status' = status /\ initThread' = initThread
      BY <1>2
    <3> QED BY <1>1, <1>2, <2>2, <3>2, <3>3, OtherFrames
  <2>3. CASE u = t /\ d = k
    <3>1. frame'[t][k].at = "return" /\ frame'[t][k].x = c
      BY <1>2 DEF Moved
    <3>2. status' = status /\ initThread' = initThread
      BY <1>2 DEF class
    <3> QED
      BY <1>2, <1>3, <2>3, <3>1, <3>2
      DEF ClassFrameOK, Ready, SuperOK, MonSteps, Active, Final
  <2> QED BY <2>2, <2>3
<1> QED BY <1>4, <1>5, <1>6, <1>7, <1>8, <1>9 DEF IInv, ClassInv

\* The invariant is kept when the status is looked at.
LEMMA LoopInv ==
  ASSUME IInv, NEW t \in Threads, Loop(t)
  PROVE  IInv'
<1> USE NobodyAssumption, NameAssumption
<1> DEFINE k == depth[t]
<1> DEFINE c == frame[t][k].x
<1>1. TypeOK /\ Stacks /\ ClassInv /\ LoadInv /\ StackType
  BY DEF IInv, TypeOK, StackType
<1>2. PICK s \in {"unlock", "begin", "waiting"} :
               /\ k \in Levels /\ frame[t][k].at = "loop" /\ c \in Classes
               /\ StackType' /\ Moved(t, s)
               /\ s = "unlock" => status[c] = "initialized" \/ (status[c] = "initializing" /\ initThread[c] = t)
               /\ s = "begin" => status[c] \in {"verified", "error"}
               /\ s = "waiting" => status[c] = "initializing" /\ initThread[c] # t
               /\ owner' = IF s = "waiting" THEN [owner EXCEPT ![c] = Nobody] ELSE owner
               /\ waitSet' = IF s = "waiting" THEN [waitSet EXCEPT ![c] = waitSet[c] \cup {t}] ELSE waitSet
               /\ UNCHANGED <<status, initThread, resolved, lib>>
  <2>1. k \in Levels /\ frame[t][k].at = "loop" /\ k > 0
    BY <1>1 DEF Loop, At, Top, StackType, Levels
  <2>2. c \in Classes
    BY <1>1, <2>1 DEF Stacks, StackOK, UseSteps, InitSteps, WorkSteps
  <2>3. PICK s \in {"unlock", "begin", "waiting"} :
          /\ Goto(t, s)
          /\ s = "unlock" => \/ status[c] = "initialized"
                             \/ status[c] = "initializing" /\ initThread[c] = t
          /\ s = "begin" => status[c] \in {"verified", "error"}
          /\ s = "waiting" => status[c] = "initializing" /\ initThread[c] # t
          /\ owner' = IF s = "waiting" THEN [owner EXCEPT ![c] = Nobody] ELSE owner
          /\ waitSet' = IF s = "waiting" THEN [waitSet EXCEPT ![c] = waitSet[c] \cup {t}]
                                         ELSE waitSet
    <3>1. CASE Goto(t, "unlock") /\ Loop(t)
      BY <3>1 DEF Loop, Top, Leave
    <3>2. CASE Goto(t, "waiting") /\ Loop(t)
      BY <3>2 DEF Loop, Top, Leave
    <3>3. CASE Goto(t, "begin") /\ Loop(t)
      BY <3>3 DEF Loop, Top, Leave
    <3> QED BY <3>1, <3>2, <3>3 DEF Loop
  <2>4. s \in Steps
    BY DEF Steps, InitSteps
  <2>5. StackType' /\ Moved(t, s)
    BY <1>1, <2>1, <2>3, <2>4, MovedTop
  <2>6. UNCHANGED <<status, initThread, resolved, lib>>
    BY DEF Loop
  <2> QED BY <2>1, <2>2, <2>3, <2>5, <2>6
<1>3. ClassFrameOK(t, k) /\ StackOK(t, k)
  BY <1>1, <1>2 DEF Stacks, ClassInv
<1>4. TypeOK'
  BY <1>1, <1>2 DEF TypeOK, StackType, Statuses, class, lib
<1>5. Stacks'
  BY <1>1, <1>2, <1>3, StackMoved
  DEF StackOK, InitSteps, LoadSteps, OnLoadSteps, UseSteps, WorkSteps
<1>6. LoadInv'
  BY <1>1, <1>2, MovedLoads DEF TableSteps, Own, Private, OnLoadSteps, class, lib
<1>7. ASSUME NEW u \in Threads, NEW v \in Threads, NEW d \in Levels, NEW j \in Levels
      PROVE  WorkPairOK(u, d, v, j)'
  BY <1>1, <1>2, WorkPairMoved DEF Active
<1>8. ASSUME NEW b \in Classes PROVE ClassOK(b)'
  <2>1. ASSUME NEW u \in Threads, NEW d \in Levels
        PROVE  /\ frame'[u][d].x = frame[u][d].x
               /\ frame[u][d].at \in WorkSteps => frame'[u][d].at = frame[u][d].at
    BY <1>2 DEF Moved, Same, WorkSteps
  <2>2. Active \subseteq WorkSteps
    BY DEF Active, WorkSteps
  <2>3. /\ status[b] = "initializing" =>
             \E d \in Levels : /\ frame'[initThread[b]][d].x = b
                               /\ frame'[initThread[b]][d].at \in Active
        /\ \A w \in waitSet[b] : \E u \in Threads \ {w}, d \in Levels :
             frame'[u][d].x = b /\ frame'[u][d].at \in WorkSteps
    BY <1>1, <2>1, <2>2, WorkKept
  <2>4. ClassOK(b)
    BY <1>1 DEF ClassInv
  <2>5. ASSUME NEW w \in waitSet'[b]
        PROVE  \E u \in Threads \ {w}, d \in Levels :
                 frame'[u][d].x = b /\ frame'[u][d].at \in WorkSteps
    <3>1. CASE w \in waitSet[b]
      BY <2>3, <3>1
    <3>2. CASE w \notin waitSet[b]
      <4>1. w = t /\ status[b] = "initializing" /\ initThread[b] # t
        BY <1>1, <1>2, <2>5, <3>2 DEF TypeOK
      <4>2. initThread[b] \in Threads
        BY <2>4, <4>1 DEF ClassOK
      <4>3. PICK d \in Levels : /\ frame'[initThread[b]][d].x = b
                                /\ frame'[initThread[b]][d].at \in Active
        BY <2>3, <4>1
      <4> QED BY <2>2, <4>1, <4>2, <4>3
    <3> QED BY <3>1, <3>2
  <2> QED BY <1>2, <2>3, <2>4, <2>5 DEF ClassOK, SuperOK
<1>9. ASSUME NEW u \in Threads, NEW d \in Levels PROVE ClassFrameOK(u, d)'
  <2>1. ClassFrameOK(u, d) /\ StackOK(u, d)
    BY <1>1 DEF ClassInv, Stacks
  <2>2. owner[c] = t
    BY <1>2, <1>3 DEF ClassFrameOK, MonSteps
  <2>3. CASE u # t \/ d # k
    <3>0. PICK x : x = frame[u][d].x
      OBVIOUS
    <3>1. frame'[u][d] = frame[u][d]
      BY <1>2, <2>3 DEF Moved, Same
    <3>2. x \in Classes /\ frame[u][d].at \in MonSteps => x # c
      <4>1. u = t => frame[u][d].at \notin MonSteps
        BY <1>1, <1>2, <2>3, BelowTop DEF MonSteps
      <4> QED BY <2>1, <2>2, <3>0, <4>1 DEF ClassFrameOK
    <3>3. x \in Classes =>
           /\ frame[u][d].at \in MonSteps => owner'[x] = owner[x]
           /\ status'[x] = status[x] /\ initThread'[x] = initThread[x]
           /\ frame[u][d].at \in {"clinit", "thrown", "done"} => SuperOK(x)'
      BY <1>1, <1>2, <2>1, <3>0, <3>2 DEF TypeOK, ClassFrameOK, SuperOK
    <3> QED BY <2>1, <3>0, <3>1, <3>3, FrameStays
  <2>4. CASE u = t /\ d = k
    <3>1. frame'[t][k].at = s /\ frame'[t][k].x = c
      BY <1>2 DEF Moved
    <3>2. s # "waiting" => owner'[c] = t
      BY <1>2, <2>2
    <3> QED BY <1>2, <2>4, <3>1, <3>2 DEF ClassFrameOK, MonSteps, Active, Ready
  <2> QED BY <2>3, <2>4
<1> QED BY <1>4, <1>5, <1>6, <1>7, <1>8, <1>9 DEF IInv, ClassInv

\* The invariant is kept when the work on a class begins, or is found to have failed.
LEMMA BeginInv ==
  ASSUME IInv, NEW t \in Threads, Begin(t)
  PROVE  IInv'
<1> USE NobodyAssumption, NameAssumption
<1> DEFINE k == depth[t]
<1> DEFINE c == frame[t][k].x
<1>1. TypeOK /\ Stacks /\ ClassInv /\ LoadInv /\ StackType
  BY DEF IInv, TypeOK, StackType
<1>2. PICK s \in {"unlock", "super"} :
               /\ k \in Levels /\ frame[t][k].at = "begin" /\ c \in Classes
               /\ StackType' /\ Moved(t, s)
               /\ s = "super" => status[c] # "error"
               /\ status' = [status EXCEPT ![c] = IF s = "super" THEN "initializing" ELSE "error"]
               /\ initThread' = IF s = "super" THEN [initThread EXCEPT ![c] = t] ELSE initThread
               /\ owner' = IF s = "super" THEN [owner EXCEPT ![c] = Nobody] ELSE owner
               /\ UNCHANGED <<waitSet, resolved, lib>>
  <2>1. k \in Levels /\ frame[t][k].at = "begin" /\ k > 0
    BY <1>1 DEF Begin, At, Top, StackType, Levels
  <2>2. c \in Classes
    BY <1>1, <2>1 DEF Stacks, StackOK, UseSteps, InitSteps, WorkSteps
  <2>3. PICK s \in {"unlock", "super"} :
          /\ Goto(t, s)
          /\ s = "super" => status[c] # "error"
          /\ status' = [status EXCEPT ![c] = IF s = "super" THEN "initializing" ELSE "error"]
          /\ initThread' = IF s = "super" THEN [initThread EXCEPT ![c] = t] ELSE initThread
          /\ owner' = IF s = "super" THEN [owner EXCEPT ![c] = Nobody] ELSE owner
    <3>1. CASE /\ status[c] = "error" /\ Goto(t, "unlock")
               /\ UNCHANGED <<status, initThread, owner>>
      BY <1>1, <2>2, <3>1 DEF TypeOK
    <3>2. CASE /\ status[c] # "error" /\ Goto(t, "unlock")
               /\ status' = [status EXCEPT ![c] = "error"]
               /\ UNCHANGED <<initThread, owner>>
      BY <3>2
    <3>3. CASE /\ status[c] # "error" /\ Goto(t, "super")
               /\ initThread' = [initThread EXCEPT ![c] = t]
               /\ status' = [status EXCEPT ![c] = "initializing"]
               /\ Leave(c)
      BY <3>3 DEF Leave
    <3> QED BY <3>1, <3>2, <3>3 DEF Begin, Top
  <2>4. s \in Steps
    BY DEF Steps, InitSteps, WorkSteps
  <2>5. StackType' /\ Moved(t, s)
    BY <1>1, <2>1, <2>3, <2>4, MovedTop
  <2>6. UNCHANGED <<waitSet, resolved, lib>>
    BY DEF Begin
  <2> QED BY <2>1, <2>2, <2>3, <2>5, <2>6
<1>3. ClassFrameOK(t, k) /\ StackOK(t, k)
  BY <1>1, <1>2 DEF Stacks, ClassInv
<1>4. TypeOK'
  BY <1>1, <1>2 DEF TypeOK, StackType, Statuses, class, lib
<1>5. Stacks'
  BY <1>1, <1>2, <1>3, StackMoved
  DEF StackOK, InitSteps, LoadSteps, OnLoadSteps, UseSteps, WorkSteps
<1>6. LoadInv'
  BY <1>1, <1>2, MovedLoads DEF TableSteps, Own, Private, OnLoadSteps, class, lib
<1>7. ASSUME NEW u \in Threads, NEW v \in Threads, NEW d \in Levels, NEW j \in Levels
      PROVE  WorkPairOK(u, d, v, j)'
  <2>1. ASSUME NEW w \in Threads, NEW i \in Levels
        PROVE  /\ frame'[w][i].x = frame[w][i].x
               /\ w # t \/ i # k => frame'[w][i].at = frame[w][i].at
               /\ frame[w][i].at \in Active => frame[w][i].x # c
               /\ frame[t][k].at \notin Active
    <3>1. ClassFrameOK(w, i)
      BY <1>1 DEF ClassInv
    <3>2. status[c] # "initializing"
      BY <1>2, <1>3 DEF ClassFrameOK
    <3> QED BY <1>2, <3>1, <3>2 DEF Moved, Same, ClassFrameOK, Active
  <2>2. WorkPairOK(u, d, v, j)
    BY <1>1 DEF ClassInv
  <2> QED BY <2>1, <2>2 DEF WorkPairOK
<1>8. ASSUME NEW b \in Classes PROVE ClassOK(b)'
  <2>1. ASSUME NEW u \in Threads, NEW d \in Levels
        PROVE  /\ frame'[u][d].x = frame[u][d].x
               /\ frame[u][d].at \in WorkSteps => frame'[u][d].at = frame[u][d].at
    BY <1>2 DEF Moved, Same, WorkSteps
  <2>2. Active \subseteq WorkSteps
    BY DEF Active, WorkSteps
  <2>3. /\ status[b] = "initializing" =>
             \E d \in Levels : /\ frame'[initThread[b]][d].x = b
                               /\ frame'[initThread[b]][d].at \in Active
        /\ \A w \in waitSet[b] : \E u \in Threads \ {w}, d \in Levels :
             frame'[u][d].x = b /\ frame'[u][d].at \in WorkSteps
    BY <1>1, <2>1, <2>2, WorkKept
  <2>4. ClassOK(b) /\ ClassOK(c) /\ Super[b] \in Classes \cup {NoClass}
    BY <1>1, <1>2, SuperAssumption DEF ClassInv
  <2>5. status[c] \in {"verified", "error"} /\ (s = "super" => status[c] = "verified")
    BY <1>2, <1>3 DEF ClassFrameOK
  <2>6. s = "super" => initThread[c] = Nobody
    BY <2>4, <2>5 DEF ClassOK
  <2>7. status'[b] = "initialized" => status[b] = "initialized" /\ b # c
    BY <1>1, <1>2, <2>5 DEF TypeOK
  <2>8. status'[b] = "initialized" => SuperOK(b)'
    <3>1. ASSUME status'[b] = "initialized" PROVE SuperOK(b)'
      <4>1. SuperOK(b) /\ initThread[b] \in Threads /\ initThread'[b] = initThread[b]
        BY <1>1, <1>2, <2>4, <2>7, <3>1 DEF ClassOK, TypeOK
      <4> QED BY <1>1, <1>2, <2>4, <2>5, <2>6, <4>1 DEF SuperOK, TypeOK
    <3> QED BY <3>1
  <2>9. status'[b] = "initializing" =>
             \E d \in Levels : /\ frame'[initThread'[b]][d].x = b
                               /\ frame'[initThread'[b]][d].at \in Active
    <3>1. CASE b = c
      <4>1. status'[b] = "initializing" => s = "super" /\ initThread'[b] = t
        BY <1>1, <1>2, <3>1 DEF TypeOK
      <4>2. s = "super" => frame'[t][k].x = b /\ frame'[t][k].at \in Active
        BY <1>2, <3>1 DEF Moved, Active
      <4> QED BY <1>2, <4>1, <4>2
    <3>2. CASE b # c
      <4>1. status'[b] = status[b] /\ initThread'[b] = initThread[b]
        BY <1>1, <1>2, <3>2 DEF TypeOK
      <4> QED BY <2>3, <4>1
    <3> QED BY <3>1, <3>2
  <2>10. /\ status'[b] \in {"initializing", "initialized"} => initThread'[b] \in Threads
         /\ initThread'[b] # Nobody => status'[b] \in {"initializing", "initialized", "error"}
         /\ b \in resolved' => status'[b] = "initialized"
    BY <1>1, <1>2, <2>4, <2>5 DEF TypeOK, ClassOK
  <2>11. waitSet'[b] = waitSet[b]
    BY <1>2
  <2> QED BY <2>3, <2>8, <2>9, <2>10, <2>11 DEF ClassOK
<1>9. ASSUME NEW u \in Threads, NEW d \in Levels PROVE ClassFrameOK(u, d)'
  <2>1. ClassFrameOK(u, d) /\ StackOK(u, d)
    BY <1>1 DEF ClassInv, Stacks
  <2>2. /\ owner[c] = t /\ status[c] \in {"verified", "error"}
        /\ s = "super" => status[c] = "verified"
    BY <1>2, <1>3 DEF ClassFrameOK, MonSteps
  <2>3. \A b \in Classes : ClassOK(b)
    BY <1>1 DEF ClassInv
  <2>4. s = "super" => initThread[c] = Nobody
    BY <1>2, <2>2, <2>3 DEF ClassOK
  <2>5. CASE u # t \/ d # k
    <3>0. PICK x : x = frame[u][d].x
      OBVIOUS
    <3>1. frame'[u][d] = frame[u][d]
      BY <1>2, <2>5 DEF Moved, Same
    <3>2. x \in Classes /\ frame[u][d].at \in MonSteps => x # c
      <4>1. u = t => frame[u][d].at \notin MonSteps
        BY <1>1, <1>2, <2>5, BelowTop DEF MonSteps
      <4> QED BY <2>1, <2>2, <3>0, <4>1 DEF ClassFrameOK
    <3>3. status[c] = "verified" /\ x = c => frame[u][d].at \notin KnownSteps
      BY <1>2, <2>1, <3>0, <3>2 DEF ClassFrameOK, KnownSteps, Ready, Final, MonSteps
    <3>4. status[c] = "error" => status' = status /\ initThread' = initThread
      BY <1>1, <1>2, <2>2 DEF TypeOK
    <3>5. x \in Classes /\ frame[u][d].at \in {"clinit", "thrown", "done"} => SuperOK(x)'
      <4>1. ASSUME x \in Classes, frame[u][d].at \in {"clinit", "thrown", "done"}
            PROVE  SuperOK(x)'
        <5>1. SuperOK(x) /\ Super[x] \in Classes \cup {NoClass}
          BY <2>1, <3>0, <4>1, SuperAssumption DEF ClassFrameOK
        <5>2. x # c /\ initThread[x] \in Threads
          BY <2>1, <2>2, <3>0, <4>1 DEF ClassFrameOK, Active
        <5> QED BY <1>1, <1>2, <2>2, <2>4, <5>1, <5>2 DEF SuperOK, TypeOK
      <4> QED BY <4>1
    <3>6. x \in Classes =>
           /\ frame[u][d].at \in MonSteps => owner'[x] = owner[x]
           /\ \/ frame[u][d].at \notin KnownSteps
              \/ status'[x] = status[x] /\ initThread'[x] = initThread[x]
      BY <1>1, <1>2, <2>2, <3>2, <3>3, <3>4 DEF TypeOK
    <3> QED BY <2>1, <3>0, <3>1, <3>5, <3>6, FrameStays
  <2>6. CASE u = t /\ d = k
    <3>1. frame'[t][k].at = s /\ frame'[t][k].x = c
      BY <1>2 DEF Moved
    <3>2. /\ s = "unlock" => owner'[c] = t /\ status'[c] = "error"
          /\ s = "super" => status'[c] = "initializing" /\ initThread'[c] = t
      BY <1>1, <1>2, <2>2 DEF TypeOK
    <3> QED BY <1>2, <2>6, <3>1, <3>2 DEF ClassFrameOK, MonSteps, Active, Ready
  <2> QED BY <2>5, <2>6
<1> QED BY <1>4, <1>5, <1>6, <1>7, <1>8, <1>9 DEF IInv, ClassInv

\* The invariant is kept when a wait is interrupted.
LEMMA WaitEndsInv ==
  ASSUME IInv, NEW t \in Threads, WaitEnds(t)
  PROVE  IInv'
<1> DEFINE c == frame[t][depth[t]].x
<1>1. TypeOK /\ Stacks /\ ClassInv /\ LoadInv
  BY DEF IInv
<1>2. /\ waitSet' = [waitSet EXCEPT ![c] = waitSet[c] \ {t}]
      /\ status' = status /\ initThread' = initThread /\ owner' = owner
      /\ resolved' = resolved /\ frame' = frame /\ depth' = depth
      /\ slot' = slot /\ entry' = entry /\ condWait' = condWait
  BY DEF WaitEnds, Top, lib, stack
<1>3. TypeOK'
  BY <1>1, <1>2 DEF TypeOK
<1>4. Stacks'
  BY <1>1, <1>2 DEF Stacks, StackOK
<1>5. LoadInv'
  BY <1>1, <1>2 DEF LoadInv, LoadFrameOK, OwnPairOK, EntryOK, SlotOK
<1>6. ASSUME NEW u \in Threads, NEW d \in Levels PROVE ClassFrameOK(u, d)'
  BY <1>1, <1>2 DEF ClassInv, ClassFrameOK, Ready, SuperOK
<1>7. ASSUME NEW u \in Threads, NEW v \in Threads, NEW d \in Levels, NEW j \in Levels
      PROVE  WorkPairOK(u, d, v, j)'
  BY <1>1, <1>2 DEF ClassInv, WorkPairOK
<1>8. ASSUME NEW b \in Classes PROVE ClassOK(b)'
  <2>1. ClassOK(b) /\ waitSet'[b] \subseteq waitSet[b]
    BY <1>1, <1>2 DEF ClassInv, TypeOK
  <2> QED BY <1>2, <2>1 DEF ClassOK, SuperOK
<1> QED BY <1>3, <1>4, <1>5, <1>6, <1>7, <1>8 DEF IInv, ClassInv

\* The invariant is kept when code uses a static field or loads a library.
LEMMA PushInv ==
  ASSUME IInv, NEW t \in Threads, Running(t), class' = class, lib' = lib, StackType',
         NEW s \in {"use", "find"}, NEW x, Pushed(t, s, x),
         (s = "use" /\ x \in Classes) \/ (s = "find" /\ x \in Libs)
  PROVE  IInv'
<1>1. TypeOK /\ Stacks /\ ClassInv /\ LoadInv /\ StackType
  BY DEF IInv, TypeOK, StackType
<1>2. TypeOK'
  BY <1>1 DEF TypeOK, StackType, class, lib
<1>3. depth[t] = 0 \/ frame[t][depth[t]].at \in {"clinit", "onload"}
  BY DEF Running, At, Top
<1>4. Stacks'
  BY <1>1, <1>3, StackPushed
<1>5. ClassInv' /\ LoadInv'
  BY <1>1, PushedKept
<1> QED BY <1>2, <1>4, <1>5 DEF IInv
\* The invariant is kept when code uses a static field.
LEMMA UseFieldInv ==
  ASSUME IInv, NEW t \in Threads, NEW c \in Classes, UseField(t, c)
  PROVE  IInv'
<1>1. StackType /\ class' = class /\ lib' = lib /\ Running(t)
  BY DEF IInv, TypeOK, StackType, UseField
<1>2. PICK f : f = [NoFrame EXCEPT !.at = "use", !.x = c]
  OBVIOUS
<1>3. f \in Frame /\ f.at = "use" /\ f.x = c /\ ~f.sub /\ f.e = NoEntry
  BY <1>2 DEF NoFrame, Frame, Steps, UseSteps
<1>4. Push(t, f)
  BY <1>2 DEF UseField
<1>5. Pushed(t, "use", c) /\ StackType'
  BY <1>1, <1>3, <1>4, PushedTop
<1> QED BY <1>1, <1>5, PushInv
\* The invariant is kept when code loads a library.
LEMMA LoadLibraryInv ==
  ASSUME IInv, NEW t \in Threads, NEW l \in Libs, NEW ld \in Loaders, LoadLibrary(t, l, ld)
  PROVE  IInv'
<1>1. StackType /\ class' = class /\ lib' = lib /\ Running(t)
  BY DEF IInv, TypeOK, StackType, LoadLibrary
<1>2. PICK f : f = [NoFrame EXCEPT !.at = "find", !.x = l, !.ld = ld]
  OBVIOUS
<1>3. f \in Frame /\ f.at = "find" /\ f.x = l /\ ~f.sub /\ f.e = NoEntry
  BY <1>2 DEF NoFrame, Frame, Steps, LoadSteps
<1>4. Push(t, f)
  BY <1>2 DEF LoadLibrary
<1>5. Pushed(t, "find", l) /\ StackType'
  BY <1>1, <1>3, <1>4, PushedTop
<1> QED BY <1>1, <1>5, PushInv

\* The invariant is kept when a frame is popped that works on nothing.
LEMMA PopInv ==
  ASSUME IInv, NEW t \in Threads, Pop(t), class' = class, lib' = lib, depth[t] > 0,
         ~frame[t][depth[t]].sub, frame[t][depth[t]].at \notin WorkSteps \cup Own
  PROVE  IInv'
<1>1. TypeOK /\ Stacks /\ ClassInv /\ LoadInv /\ StackType
  BY DEF IInv, TypeOK, StackType
<1>2. depth[t] \in Levels /\ Popped(t) /\ StackType'
  BY <1>1, PoppedTop
<1>3. TypeOK'
  BY <1>1, <1>2 DEF TypeOK, StackType, class, lib
<1>4. Stacks'
  BY <1>1, <1>2, StackPopped
<1>5. ClassInv' /\ LoadInv'
  BY <1>1, <1>2, PoppedKept
<1> QED BY <1>3, <1>4, <1>5 DEF IInv
\* The invariant is kept when a field has been used, and when a load returns.
LEMMA LeaveInv ==
  ASSUME IInv, NEW t \in Threads, Used(t) \/ LoadReturns(t)
  PROVE  IInv'
<1>1. depth[t] > 0 /\ Pop(t) /\ class' = class /\ lib' = lib
  BY DEF Used, LoadReturns, At
<1>2. frame[t][depth[t]].at \in {"used", "loaded", "failed"}
  BY DEF Used, LoadReturns, At, Top
<1>3. depth[t] \in Levels /\ StackOK(t, depth[t])
  BY <1>1, DepthAssumption DEF IInv, TypeOK, Stacks, Levels
<1>4. ~frame[t][depth[t]].sub
  BY <1>2, <1>3 DEF StackOK, InitSteps, WorkSteps
<1>5. frame[t][depth[t]].at \notin WorkSteps \cup Own
  BY <1>2 DEF WorkSteps, Own, Private, OnLoadSteps
<1> QED BY <1>1, <1>4, <1>5, PopInv

\* The invariant is kept when the superclass is initialized first.
LEMMA InitSuperInv ==
  ASSUME IInv, NEW t \in Threads, InitSuper(t)
  PROVE  IInv'
<1> USE DepthAssumption, SuperAssumption, NameAssumption
<1> DEFINE k == depth[t]
<1> DEFINE c == frame[t][k].x
<1>1. TypeOK /\ Stacks /\ ClassInv /\ LoadInv /\ StackType
  BY DEF IInv, TypeOK, StackType
<1>2. /\ k \in Levels /\ k + 1 \in Levels /\ frame[t][k].at = "super"
      /\ class' = class /\ lib' = lib
  BY <1>1 DEF InitSuper, At, Top, StackType, Levels
<1>3. StackOK(t, k) /\ ClassFrameOK(t, k) /\ c \in Classes
  BY <1>1, <1>2 DEF Stacks, ClassInv, StackOK, WorkSteps
<1>4. Super[c] \in Classes
  BY <1>3 DEF InitSuper, Top
<1>5. PICK f : f = [NoFrame EXCEPT !.at = "lock", !.x = Super[c], !.sub = TRUE]
  OBVIOUS
<1>6. f \in Frame /\ f.at = "lock" /\ f.x = Super[c] /\ f.sub /\ f.e = NoEntry
  BY <1>4, <1>5 DEF NoFrame, Frame, Steps, InitSteps
<1>7. /\ depth' = [depth EXCEPT ![t] = k + 1]
      /\ frame' = [frame EXCEPT ![t] = [frame[t] EXCEPT ![k].at = "superwait", ![k + 1] = f]]
  BY <1>5 DEF InitSuper, Top
<1>8. depth'[t] = k + 1 /\ \A u \in Threads : u # t => depth'[u] = depth[u]
  BY <1>1, <1>7 DEF StackType
<1>9. /\ \A u \in Threads, d \in Levels :
           u # t \/ (d # k /\ d # k + 1) => frame'[u][d] = frame[u][d]
      /\ frame'[t][k] = [frame[t][k] EXCEPT !.at = "superwait"]
      /\ frame'[t][k + 1] = f
  BY <1>1, <1>2, <1>7 DEF StackType, Levels
<1>10. frame[t][k] \in Frame
  BY <1>1, <1>2 DEF StackType
<1>11. /\ frame'[t][k].at = "superwait" /\ frame'[t][k].x = c
       /\ frame'[t][k].sub = frame[t][k].sub /\ frame'[t][k].e = frame[t][k].e
       /\ frame'[t][k] \in Frame
  BY <1>9, <1>10 DEF Frame, Steps, WorkSteps
<1>12. StackType'
  <2>1. frame' \in [Threads -> [Levels -> Frame]]
    <3>1. \A d \in Levels : frame'[t][d] \in Frame
      BY <1>1, <1>6, <1>9, <1>11 DEF StackType
    <3>2. [frame[t] EXCEPT ![k].at = "superwait", ![k + 1] = f] \in [Levels -> Frame]
      BY <1>1, <1>2, <1>6, <1>7, <3>1 DEF StackType
    <3> QED BY <1>1, <1>7, <3>2 DEF StackType
  <2>2. depth' \in [Threads -> 0..MaxDepth]
    BY <1>1, <1>2, <1>7 DEF StackType, Levels
  <2> QED BY <2>1, <2>2 DEF StackType
<1>13. TypeOK'
  BY <1>1, <1>2, <1>12 DEF TypeOK, StackType, class, lib
<1>14. frame[t][k + 1] = NoFrame
  BY <1>1, <1>2 DEF Stacks, StackOK, Levels
<1>15. ASSUME NEW u \in Threads, NEW d \in Levels PROVE StackOK(u, d)'
  <2>1. d \in Nat /\ depth[u] \in Nat /\ depth[u] <= MaxDepth /\ k \in Nat
    BY <1>1 DEF StackType, Levels
  <2>2. d < depth[u] => d + 1 \in Levels
    BY <2>1 DEF Levels
  <2>3. d > 1 => d - 1 \in Levels
    BY <2>1 DEF Levels
  <2>4. StackOK(u, d)
    BY <1>1 DEF Stacks
  <2>5. CASE u # t
    <3>1. depth'[u] = depth[u] /\ \A j \in Levels : frame'[u][j] = frame[u][j]
      BY <1>8, <1>9, <2>5
    <3>2. /\ frame'[u][d] = frame[u][d]
          /\ d < depth[u] => frame'[u][d + 1] = frame[u][d + 1]
          /\ d > 1 => frame'[u][d - 1] = frame[u][d - 1]
      BY <2>2, <2>3, <3>1
    <3> QED BY <2>4, <3>1, <3>2, StackStays
  <2>6. CASE u = t /\ d < k
    <3>1. frame'[t][d] = frame[t][d]
      BY <1>9, <2>1, <2>6
    <3>2. d + 1 <= k /\ frame'[t][d + 1].sub = frame[t][d + 1].sub
                     /\ frame'[t][d + 1].x = frame[t][d + 1].x
      <4>1. d + 1 \in Levels /\ d + 1 <= k
        BY <2>1, <2>2, <2>6
      <4>2. CASE d + 1 = k
        BY <1>11, <4>1, <4>2
      <4>3. CASE d + 1 # k
        BY <1>9, <2>1, <4>1, <4>3
      <4> QED BY <4>1, <4>2, <4>3
    <3>3. d > 1 => frame'[t][d - 1] = frame[t][d - 1]
      BY <1>9, <2>1, <2>3, <2>6
    <3> QED BY <1>8, <2>1, <2>4, <2>6, <3>1, <3>2, <3>3 DEF StackOK
  <2>7. CASE u = t /\ d = k
    <3>1. d > 1 => frame'[t][d - 1] = frame[t][d - 1]
      BY <1>9, <2>1, <2>3, <2>7
    <3>2. frame'[t][d + 1].sub /\ frame'[t][d + 1].x = Super[c]
      BY <1>6, <1>9, <2>7
    <3>3. frame[t][d].sub => d > 1 /\ frame[t][d - 1].at = "superwait"
      BY <1>3, <2>7 DEF StackOK
    <3>4. frame'[t][d].sub => d > 1 /\ frame'[t][d - 1].at = "superwait"
      BY <1>11, <2>7, <3>1, <3>3
    <3>5. frame'[t][d].at = "superwait" /\ frame'[t][d].x = c
      BY <1>11, <2>7
    <3> HIDE DEF c
    <3> QED BY <1>3, <1>8, <2>1, <2>7, <3>2, <3>4, <3>5 DEF StackOK, WorkSteps, UseSteps,
               LoadSteps, OnLoadSteps
  <2>8. CASE u = t /\ d = k + 1
    <3>1. d - 1 = k /\ k >= 1
      BY <1>2, <2>1, <2>8 DEF Levels
    <3>2. frame'[t][d] = f /\ frame'[t][d - 1].at = "superwait"
      BY <1>9, <1>11, <2>8, <3>1
    <3> QED BY <1>4, <1>6, <1>8, <2>1, <2>8, <3>1, <3>2 DEF StackOK, InitSteps, LoadSteps,
               OnLoadSteps
  <2>9. CASE u = t /\ d > k + 1
    <3>1. frame'[t][d] = NoFrame
      BY <1>9, <2>1, <2>4, <2>9 DEF StackOK
    <3> QED BY <1>8, <2>1, <2>9, <3>1 DEF StackOK, NoFrame, UseSteps, InitSteps, WorkSteps,
               LoadSteps, OnLoadSteps
  <2> QED BY <2>1, <2>5, <2>6, <2>7, <2>8, <2>9
<1>16. LoadInv'
  <2>1. ASSUME NEW u \in Threads, NEW d \in Levels
        PROVE  \/ frame'[u][d].at = frame[u][d].at /\ frame'[u][d].e = frame[u][d].e
               \/ /\ frame'[u][d].at \notin TableSteps /\ frame[u][d].at \notin Own
                  /\ frame'[u][d].e \in {NoEntry, frame[u][d].e}
    <3>1. CASE u = t /\ d = k
      BY <1>2, <1>11, <3>1 DEF TableSteps, Own, Private, OnLoadSteps
    <3>2. CASE u = t /\ d = k + 1
      BY <1>6, <1>9, <1>14, <3>2 DEF NoFrame, TableSteps, Own, Private, OnLoadSteps
    <3>3. CASE u # t \/ (d # k /\ d # k + 1)
      BY <1>9, <3>3
    <3> QED BY <3>1, <3>2, <3>3
  <2> QED BY <1>1, <1>2, <2>1, LoadsKept DEF LoadKept
<1>17. ASSUME NEW u \in Threads, NEW d \in Levels
       PROVE  /\ frame[u][d].at \in Active =>
                   frame'[u][d].at \in Active /\ frame'[u][d].x = frame[u][d].x
              /\ frame[u][d].at \in WorkSteps =>
                   frame'[u][d].at \in WorkSteps /\ frame'[u][d].x = frame[u][d].x
              /\ frame'[u][d].at \in Active => frame[u][d].at \in Active
  <2>1. CASE u = t /\ d = k
    BY <1>2, <1>11, <2>1 DEF Active, WorkSteps
  <2>2. CASE u = t /\ d = k + 1
    BY <1>6, <1>9, <1>14, <2>2 DEF NoFrame, Active, WorkSteps
  <2>3. CASE u # t \/ (d # k /\ d # k + 1)
    BY <1>9, <2>3
  <2> QED BY <2>1, <2>2, <2>3
<1>18. /\ status' = status /\ initThread' = initThread /\ owner' = owner
       /\ waitSet' = waitSet /\ resolved' = resolved
  BY <1>2 DEF class
<1>19. ASSUME NEW u \in Threads, NEW d \in Levels PROVE ClassFrameOK(u, d)'
  <2>1. ClassFrameOK(u, d)
    BY <1>1 DEF ClassInv
  <2>2. CASE u = t /\ d = k
    BY <1>2, <1>3, <1>11, <1>18, <2>2 DEF ClassFrameOK, Active, MonSteps
  <2>3. CASE u = t /\ d = k + 1
    BY <1>6, <1>9, <2>3 DEF ClassFrameOK, Active, MonSteps
  <2>4. CASE u # t \/ (d # k /\ d # k + 1)
    BY <1>9, <1>18, <2>1, <2>4 DEF ClassFrameOK, Ready, SuperOK
  <2> QED BY <2>2, <2>3, <2>4
<1>20. ASSUME NEW u \in Threads, NEW v \in Threads, NEW d \in Levels, NEW j \in Levels
       PROVE  WorkPairOK(u, d, v, j)'
  BY <1>1, <1>17 DEF ClassInv, WorkPairOK
<1>21. ASSUME NEW b \in Classes PROVE ClassOK(b)'
  <2>1. ClassOK(b)
    BY <1>1 DEF ClassInv
  <2>2. /\ status[b] = "initializing" =>
             \E d \in Levels : /\ frame'[initThread[b]][d].x = b
                               /\ frame'[initThread[b]][d].at \in Active
        /\ \A w \in waitSet[b] : \E u \in Threads \ {w}, d \in Levels :
             frame'[u][d].x = b /\ frame'[u][d].at \in WorkSteps
    BY <1>1, <1>17, WorkKept
  <2> QED BY <1>18, <2>1, <2>2 DEF ClassOK, SuperOK
<1> QED BY <1>13, <1>15, <1>16, <1>19, <1>20, <1>21 DEF IInv, Stacks, ClassInv

\* The invariant is kept when dvmInitClass() returns to the use of a field.
LEMMA ReturnReadyInv ==
  ASSUME IInv, NEW t \in Threads, At(t, "return"), ~frame[t][depth[t]].sub,
         status[frame[t][depth[t]].x] # "error", Goto(t, "cache"), class' = class, lib' = lib
  PROVE  IInv'
<1> DEFINE k == depth[t]
<1> DEFINE c == frame[t][k].x
<1>1. TypeOK /\ Stacks /\ ClassInv /\ LoadInv /\ StackType
  BY DEF IInv, TypeOK, StackType
<1>2. k \in Levels /\ frame[t][k].at = "return" /\ Moved(t, "cache") /\ StackType'
  BY <1>1, MovedTop DEF At, Top, Steps, UseSteps
<1>3. StackOK(t, k) /\ ClassFrameOK(t, k) /\ c \in Classes
  BY <1>1, <1>2 DEF Stacks, ClassInv, StackOK, InitSteps
<1>4. TypeOK'
  BY <1>1, <1>2 DEF TypeOK, StackType, class, lib
<1>5. Stacks'
  BY <1>1, <1>2, <1>3, StackMoved DEF LoadSteps, OnLoadSteps
<1>6. LoadInv'
  BY <1>1, <1>2, MovedLoads DEF TableSteps, Own, Private, OnLoadSteps
<1>7. /\ status' = status /\ initThread' = initThread /\ owner' = owner
      /\ waitSet' = waitSet /\ resolved' = resolved
  BY DEF class
<1>8. ASSUME NEW u \in Threads, NEW d \in Levels
      PROVE  /\ frame'[u][d].x = frame[u][d].x
             /\ u # t \/ d # k => frame'[u][d] = frame[u][d]
             /\ frame[u][d].at \in WorkSteps => frame'[u][d].at = frame[u][d].at
             /\ frame[u][d].at \in Active => frame'[u][d].at = frame[u][d].at
             /\ frame'[u][d].at \in Active => frame[u][d].at \in Active
  BY <1>2 DEF Moved, Same, WorkSteps, Active
<1>9. ASSUME NEW u \in Threads, NEW d \in Levels PROVE ClassFrameOK(u, d)'
  <2>1. ClassFrameOK(u, d)
    BY <1>1 DEF ClassInv
  <2>2. CASE u = t /\ d = k
    BY <1>2, <1>3, <1>7, <2>2 DEF ClassFrameOK, Moved, MonSteps, Active, Ready
  <2>3. CASE u # t \/ d # k
    BY <1>7, <1>8, <2>1, <2>3 DEF ClassFrameOK, Ready, SuperOK
  <2> QED BY <2>2, <2>3
<1>10. ASSUME NEW u \in Threads, NEW v \in Threads, NEW d \in Levels, NEW j \in Levels
       PROVE  WorkPairOK(u, d, v, j)'
  BY <1>1, <1>8 DEF ClassInv, WorkPairOK
<1>11. ASSUME NEW b \in Classes PROVE ClassOK(b)'
  <2>1. ClassOK(b)
    BY <1>1 DEF ClassInv
  <2>2. /\ status[b] = "initializing" =>
             \E d \in Levels : /\ frame'[initThread[b]][d].x = b
                               /\ frame'[initThread[b]][d].at \in Active
        /\ \A w \in waitSet[b] : \E u \in Threads \ {w}, d \in Levels :
             frame'[u][d].x = b /\ frame'[u][d].at \in WorkSteps
    BY <1>1, <1>8, WorkKept
  <2> QED BY <1>7, <2>1, <2>2 DEF ClassOK, SuperOK
<1> QED BY <1>4, <1>5, <1>6, <1>9, <1>10, <1>11 DEF IInv, ClassInv

\* The invariant is kept when dvmInitClass() of a superclass returns.
LEMMA ReturnSuperInv ==
  ASSUME IInv, NEW t \in Threads, At(t, "return"), frame[t][depth[t]].sub, depth[t] > 1,
         NEW r \in {"clinit", "superfailed"},
         r = "clinit" => status[frame[t][depth[t]].x] # "error",
         depth' = [depth EXCEPT ![t] = depth[t] - 1],
         frame' = [frame EXCEPT ![t] = [frame[t] EXCEPT ![depth[t]] = NoFrame,
                                                        ![depth[t] - 1].at = r]],
         class' = class, lib' = lib
  PROVE  IInv'
<1> USE DepthAssumption, SuperAssumption, NameAssumption
<1> DEFINE k == depth[t]
<1>0. PICK m : m = k - 1
  OBVIOUS
<1>1. TypeOK /\ Stacks /\ ClassInv /\ LoadInv /\ StackType
  BY DEF IInv, TypeOK, StackType
<1>2. /\ k \in Levels /\ m \in Levels /\ frame[t][k].at = "return" /\ frame[t][k].sub
      /\ k \in Nat /\ m \in Nat /\ k = m + 1 /\ m # k
  BY <1>0, <1>1 DEF At, Top, StackType, Levels
<1>3. PICK c : c = frame[t][m].x
  OBVIOUS
<1>4. /\ frame[t][m].at = "superwait" /\ c \in Classes
      /\ StackOK(t, m) /\ ClassFrameOK(t, m) /\ ClassFrameOK(t, k)
  BY <1>1, <1>2, <1>3 DEF Stacks, ClassInv, StackOK, WorkSteps
<1>5. frame[t][k].x = Super[c] /\ Super[c] \in Classes
  <2>2. frame[t][k].x = Super[c]
    BY <1>2, <1>3, <1>4 DEF StackOK
  <2>3. frame[t][k].x \in Classes
    BY <1>1, <1>2 DEF Stacks, StackOK, InitSteps
  <2> QED BY <2>2, <2>3
<1>6. depth'[t] = m /\ \A u \in Threads : u # t => depth'[u] = depth[u]
  BY <1>0, <1>1 DEF StackType
<1>7. /\ \A u \in Threads, d \in Levels :
           u # t \/ (d # k /\ d # m) => frame'[u][d] = frame[u][d]
      /\ frame'[t][m] = [frame[t][m] EXCEPT !.at = r]
      /\ frame'[t][k] = NoFrame
  BY <1>0, <1>1, <1>2 DEF StackType
<1>8. frame[t][m] \in Frame /\ NoFrame \in Frame
  BY <1>1, <1>2 DEF StackType, NoFrame, Frame, Steps
<1>9. /\ frame'[t][m].at = r /\ frame'[t][m].x = c
      /\ frame'[t][m].sub = frame[t][m].sub
      /\ frame'[t][m].e = frame[t][m].e
      /\ frame'[t][m] \in Frame
  BY <1>3, <1>7, <1>8 DEF Frame, Steps, WorkSteps
<1>10. StackType'
  <2>1. frame' \in [Threads -> [Levels -> Frame]]
    <3>1. \A d \in Levels : frame'[t][d] \in Frame
      BY SMTT(30), <1>1, <1>7, <1>8, <1>9 DEF StackType
    <3>2. [frame[t] EXCEPT ![k] = NoFrame, ![m].at = r] \in [Levels -> Frame]
      BY <1>0, <1>1, <1>2, <3>1 DEF StackType
    <3> QED BY <1>0, <1>1, <3>2 DEF StackType
  <2>2. depth' \in [Threads -> 0..MaxDepth]
    BY <1>0, <1>1, <1>2 DEF StackType, Levels
  <2> QED BY <2>1, <2>2 DEF StackType
<1>11. TypeOK'
  BY <1>1, <1>10 DEF TypeOK, StackType, class, lib
<1>12. ASSUME NEW u \in Threads, NEW d \in Levels PROVE StackOK(u, d)'
  <2>1. d \in Nat /\ depth[u] \in Nat /\ depth[u] <= MaxDepth /\ k \in Nat
    BY <1>1 DEF StackType, Levels
  <2>2. d < depth[u] => d + 1 \in Levels
    BY <2>1 DEF Levels
  <2>3. d > 1 => d - 1 \in Levels
    BY <2>1 DEF Levels
  <2>4. StackOK(u, d)
    BY <1>1 DEF Stacks
  <2>5. CASE u # t
    <3>1. depth'[u] = depth[u] /\ \A j \in Levels : frame'[u][j] = frame[u][j]
      BY <1>6, <1>7, <2>5
    <3>2. /\ frame'[u][d] = frame[u][d]
          /\ d < depth[u] => frame'[u][d + 1] = frame[u][d + 1]
          /\ d > 1 => frame'[u][d - 1] = frame[u][d - 1]
      BY <2>2, <2>3, <3>1
    <3> QED BY <2>4, <3>1, <3>2, StackStays
  <2>6. CASE u = t /\ d < m
    <3>1. frame'[t][d] = frame[t][d]
      BY <1>2, <1>7, <2>1, <2>6
    <3>2. d + 1 <= m /\ frame'[t][d + 1].sub = frame[t][d + 1].sub
                         /\ frame'[t][d + 1].x = frame[t][d + 1].x
      <4>1. d + 1 \in Levels /\ d + 1 <= m
        <5>1. d < depth[u]
          BY <1>2, <2>1, <2>6
        <5> HIDE DEF k
        <5> QED BY <2>1, <2>2, <2>6, <5>1, <1>2
      <4>2. CASE d + 1 = m
        BY <1>3, <1>9, <4>1, <4>2
      <4>3. CASE d + 1 # m
        BY <1>2, <1>7, <2>1, <4>1, <4>3
      <4> QED BY <4>1, <4>2, <4>3
    <3>3. d > 1 => frame'[t][d - 1] = frame[t][d - 1]
      BY <1>2, <1>7, <2>1, <2>3, <2>6
    <3> QED BY <1>2, <1>6, <2>1, <2>4, <2>6, <3>1, <3>2, <3>3 DEF StackOK
  <2>7. CASE u = t /\ d = m
    <3>1. d > 1 => frame'[t][d - 1] = frame[t][d - 1]
      BY <1>2, <1>7, <2>1, <2>3, <2>7
    <3>2. frame[t][d].sub => d > 1 /\ frame[t][d - 1].at = "superwait"
      BY <1>4, <2>7 DEF StackOK
    <3>3. frame'[t][d].sub => d > 1 /\ frame'[t][d - 1].at = "superwait"
      BY <1>9, <2>7, <3>1, <3>2
    <3>4. frame'[t][d].at = r /\ frame'[t][d].x = c
      BY <1>9, <2>7
    <3> QED BY <1>2, <1>4, <1>6, <2>1, <2>7, <3>3, <3>4 DEF StackOK, WorkSteps, UseSteps,
               LoadSteps, OnLoadSteps
  <2>8. CASE u = t /\ d >= k
    <3>1. frame'[t][d] = NoFrame
      BY <1>2, <1>7, <2>1, <2>4, <2>8 DEF StackOK
    <3> QED BY <1>2, <1>6, <2>1, <2>8, <3>1 DEF StackOK, NoFrame, UseSteps, InitSteps, WorkSteps,
               LoadSteps, OnLoadSteps
  <2> QED BY <1>2, <2>1, <2>5, <2>6, <2>7, <2>8
<1>13. LoadInv'
  <2>1. ASSUME NEW u \in Threads, NEW d \in Levels
        PROVE  \/ frame'[u][d].at = frame[u][d].at /\ frame'[u][d].e = frame[u][d].e
               \/ /\ frame'[u][d].at \notin TableSteps /\ frame[u][d].at \notin Own
                  /\ frame'[u][d].e \in {NoEntry, frame[u][d].e}
    <3>1. CASE u = t /\ d = m
      BY <1>4, <1>9, <3>1 DEF TableSteps, Own, Private, OnLoadSteps
    <3>2. CASE u = t /\ d = k
      BY <1>2, <1>7, <3>2 DEF NoFrame, TableSteps, Own, Private, OnLoadSteps
    <3>3. CASE u # t \/ (d # k /\ d # m)
      BY <1>7, <3>3
    <3> QED BY <3>1, <3>2, <3>3
  <2> QED BY <1>1, <2>1, LoadsKept DEF LoadKept
<1>14. ASSUME NEW u \in Threads, NEW d \in Levels
       PROVE  /\ frame[u][d].at \in Active =>
                   frame'[u][d].at \in Active /\ frame'[u][d].x = frame[u][d].x
              /\ frame[u][d].at \in WorkSteps =>
                   frame'[u][d].at \in WorkSteps /\ frame'[u][d].x = frame[u][d].x
              /\ frame'[u][d].at \in Active => frame[u][d].at \in Active
  <2>1. CASE u = t /\ d = m
    BY <1>3, <1>4, <1>9, <2>1 DEF Active, WorkSteps
  <2>2. CASE u = t /\ d = k
    BY <1>2, <1>7, <2>2 DEF NoFrame, Active, WorkSteps
  <2>3. CASE u # t \/ (d # k /\ d # m)
    BY <1>7, <2>3
  <2> QED BY <2>1, <2>2, <2>3
<1>15. /\ status' = status /\ initThread' = initThread /\ owner' = owner
       /\ waitSet' = waitSet /\ resolved' = resolved
  BY DEF class
<1>16. r = "clinit" => SuperOK(c)
  <2>1. status[c] = "initializing" /\ initThread[c] = t
    BY <1>3, <1>4 DEF ClassFrameOK, Active
  <2>2. status[Super[c]] = "error" \/ Ready(t, Super[c])
    BY <1>2, <1>4, <1>5 DEF ClassFrameOK
  <2> QED BY <1>5, <2>1, <2>2 DEF SuperOK, Ready
<1>17. ASSUME NEW u \in Threads, NEW d \in Levels PROVE ClassFrameOK(u, d)'
  <2>1. ClassFrameOK(u, d)
    BY <1>1 DEF ClassInv
  <2>2. CASE u = t /\ d = m
    <3>1. frame'[t][d].at = r /\ frame'[t][d].x = c
      BY <1>9, <2>2
    <3>2. status'[c] = "initializing" /\ initThread'[c] = t
      BY <1>3, <1>4, <1>15 DEF ClassFrameOK, Active
    <3>3. r = "clinit" => SuperOK(frame[t][d].x)'
      BY <1>15, <1>16, <3>1 DEF SuperOK
    <3> QED BY <2>2, <3>1, <3>2, <3>3 DEF ClassFrameOK, Active, MonSteps
  <2>3. CASE u = t /\ d = k
    <3>1. frame'[u][d].at = "none"
      BY <1>7, <2>3 DEF NoFrame
    <3> QED BY <3>1 DEF ClassFrameOK, Active, MonSteps
  <2>4. CASE u # t \/ (d # k /\ d # m)
    BY ZenonT(60), <1>7, <1>15, <2>1, <2>4 DEF ClassFrameOK, Ready, SuperOK
  <2> QED BY <2>2, <2>3, <2>4
<1>18. ASSUME NEW u \in Threads, NEW v \in Threads, NEW d \in Levels, NEW j \in Levels
       PROVE  WorkPairOK(u, d, v, j)'
  BY <1>1, <1>14 DEF ClassInv, WorkPairOK
<1>19. ASSUME NEW b \in Classes PROVE ClassOK(b)'
  <2>1. ClassOK(b)
    BY <1>1 DEF ClassInv
  <2>2. /\ status[b] = "initializing" =>
             \E d \in Levels : /\ frame'[initThread[b]][d].x = b
                               /\ frame'[initThread[b]][d].at \in Active
        /\ \A w \in waitSet[b] : \E u \in Threads \ {w}, d \in Levels :
             frame'[u][d].x = b /\ frame'[u][d].at \in WorkSteps
    BY <1>1, <1>14, WorkKept
  <2> QED BY <1>15, <2>1, <2>2 DEF ClassOK, SuperOK
<1> QED BY <1>11, <1>12, <1>13, <1>17, <1>18, <1>19 DEF IInv, Stacks, ClassInv

\* The invariant is kept when dvmInitClass() returns.
LEMMA ReturnInv ==
  ASSUME IInv, NEW t \in Threads, Return(t)
  PROVE  IInv'
<1>1. /\ At(t, "return") /\ class' = class /\ lib' = lib /\ depth[t] > 0
      /\ frame[t][depth[t]].at = "return"
  BY DEF Return, At, Top
<1>2. CASE ~frame[t][depth[t]].sub /\ status[frame[t][depth[t]].x] # "error" /\ Goto(t, "cache")
  BY <1>1, <1>2, ReturnReadyInv
<1>3. CASE ~frame[t][depth[t]].sub /\ Pop(t)
  <2>1. frame[t][depth[t]].at \notin WorkSteps \cup Own
    BY <1>1 DEF WorkSteps, Own, Private, OnLoadSteps
  <2> QED BY <1>1, <1>3, <2>1, PopInv
<1>4. CASE /\ frame[t][depth[t]].sub /\ depth[t] > 1
           /\ depth' = [depth EXCEPT ![t] = depth[t] - 1]
           /\ frame' = [frame EXCEPT ![t] =
                [frame[t] EXCEPT ![depth[t]] = NoFrame,
                   ![depth[t] - 1].at = IF status[frame[t][depth[t]].x] # "error" THEN "clinit"
                                                                       ELSE "superfailed"]]
  <2>1. PICK r \in {"clinit", "superfailed"} :
          r = IF status[frame[t][depth[t]].x] # "error" THEN "clinit" ELSE "superfailed"
    OBVIOUS
  <2>2. r = "clinit" => status[frame[t][depth[t]].x] # "error"
    BY <2>1
  <2>3. frame' = [frame EXCEPT ![t] = [frame[t] EXCEPT ![depth[t]] = NoFrame,
                                                       ![depth[t] - 1].at = r]]
    BY <1>4, <2>1
  <2> QED BY <1>1, <1>4, <2>2, <2>3, ReturnSuperInv
<1> QED BY <1>2, <1>3, <1>4 DEF Return, Top

(***************************************************************************)
(* The steps of dvmLoadNativeCode().                                       *)
(***************************************************************************)
\* The invariant is kept when a JNI_OnLoad() returns.
LEMMA OnLoadReturnsInv ==
  ASSUME IInv, NEW t \in Threads, OnLoadReturns(t)
  PROVE  IInv'
<1> USE NobodyAssumption, NameAssumption
<1> DEFINE k == depth[t]
<1> DEFINE g == frame[t][k].e
<1> DEFINE x == frame[t][k].x
<1>1. TypeOK /\ Stacks /\ ClassInv /\ LoadInv /\ StackType
  BY DEF IInv, TypeOK, StackType
<1>2. k \in Levels /\ k > 0 /\ frame[t][k].at = "onload"
  BY <1>1 DEF OnLoadReturns, At, Top, StackType, Levels
<1>3. LoadFrameOK(t, k) /\ StackOK(t, k) /\ x \in Libs /\ g \in Entries \cup {NoEntry}
  <2>1. LoadFrameOK(t, k) /\ StackOK(t, k) /\ frame[t][k] \in Frame
    BY <1>1, <1>2 DEF Stacks, LoadInv, StackType
  <2> QED BY <1>2, <2>1 DEF StackOK, Frame, LoadSteps, OnLoadSteps
<1>4. PICK s \in {"okay", "bad"}, f \in Entries \cup {NoEntry} :
             /\ StackType' /\ MovedTo(t, s, f)
             /\ f = g
             /\ UNCHANGED <<class, lib>>
  BY <1>1, <1>2, <1>3, MovedTop
  DEF OnLoadReturns, At, Top, Moved, MovedTo, Steps, LoadSteps, OnLoadSteps
<1>5. TypeOK'
  BY <1>1, <1>3, <1>4 DEF TypeOK, StackType, class, lib, SharedLib, Unused
<1>6. Stacks'
  BY <1>1, <1>2, <1>3, <1>4, StackMovedTo
  DEF StackOK, UseSteps, InitSteps, WorkSteps, LoadSteps, OnLoadSteps
<1>7. ClassInv'
  BY <1>1, <1>2, <1>4, MovedToClasses DEF ClassSteps, InitSteps, WorkSteps
<1>8. ASSUME NEW u \in Threads, NEW d \in Levels
      PROVE  /\ u # t \/ d # k => frame'[u][d] = frame[u][d]
             /\ LoadFrameOK(u, d) /\ OwnPairOK(t, k, u, d) /\ OwnPairOK(u, d, t, k)
             /\ frame[u][d].e \in Entries \cup {NoEntry}
  BY <1>1, <1>2, <1>4 DEF MovedTo, Same, LoadInv, StackType, Frame
<1>9. frame'[t][k].at = s /\ frame'[t][k].e = f
  BY <1>4 DEF MovedTo
<1>10. \A l \in Libs : SlotOK(l) /\ slot[l] \in Entries \cup {NoEntry}
  BY <1>1 DEF LoadInv, TypeOK
<1>11. ASSUME NEW u \in Threads, NEW d \in Levels PROVE LoadFrameOK(u, d)'
  <2>1. CASE u # t \/ d # k
    <3>1. slot' = slot /\ entry' = entry
      BY <1>4 DEF lib
    <3> QED BY <1>8, <2>1, <3>1, LoadFrameStays
  <2>2. CASE u = t /\ d = k
    BY <1>1, <1>2, <1>3, <1>4, <1>9, <1>10, <2>2
    DEF LoadFrameOK, SlotOK, TypeOK, lib, Unused, Own, Private, Pending, OnLoadSteps
  <2> QED BY <2>1, <2>2
<1>12. ASSUME NEW u \in Threads, NEW v \in Threads, NEW d \in Levels, NEW j \in Levels
       PROVE  OwnPairOK(u, d, v, j)'
  <2>1. f = g /\ MovedTo(t, s, g)
    BY <1>4
  <2>2. /\ s \in Own => frame[t][k].at \in Own
        /\ s \in Private => frame[t][k].at \in Private
    BY <1>2 DEF Own, Private, OnLoadSteps
  <2> QED BY <1>1, <1>2, <2>1, <2>2, OwnPairsKept
<1>13. ASSUME NEW b \in Entries PROVE EntryOK(b)'
  <2>1. EntryOK(b)
    BY <1>1 DEF LoadInv
  <2>2. /\ entry[b].result = "pending" =>
             \E d \in Levels : /\ frame'[entry[b].thread][d].e = b
                               /\ frame'[entry[b].thread][d].at \in Pending
        /\ \A w \in condWait[b] : \E u \in Threads \ {w}, d \in Levels :
             frame'[u][d].e = b /\ frame'[u][d].at \in OnLoadSteps
    <3>1. ASSUME NEW u \in Threads, NEW d \in Levels
          PROVE  /\ frame[u][d].at \in Pending =>
                      frame'[u][d].e = frame[u][d].e /\ frame'[u][d].at \in Pending
                 /\ frame[u][d].at \in OnLoadSteps =>
                      frame'[u][d].e = frame[u][d].e /\ frame'[u][d].at \in OnLoadSteps
      <4>1. CASE u # t \/ d # k
        BY <1>8, <4>1
      <4>2. CASE u = t /\ d = k
        BY <1>2, <1>4, <1>9, <4>2 DEF Pending, Private, OnLoadSteps
      <4> QED BY <4>1, <4>2
    <3> QED BY <1>1, <3>1, OwnKept
  <2>3. entry' = entry /\ condWait' = condWait
    BY <1>4 DEF lib
  <2> QED BY <2>1, <2>2, <2>3 DEF EntryOK
<1>14. ASSUME NEW l \in Libs PROVE SlotOK(l)'
  BY <1>1, <1>2, <1>3, <1>4, <1>10
  DEF SlotOK, LoadFrameOK, TypeOK, lib, Unused, Own, Private, Pending, OnLoadSteps
<1> QED BY <1>5, <1>6, <1>7, <1>11, <1>12, <1>13, <1>14 DEF IInv, LoadInv

\* The invariant is kept when the table is searched.
LEMMA FindInv ==
  ASSUME IInv, NEW t \in Threads, Find(t)
  PROVE  IInv'
<1> USE NobodyAssumption, NameAssumption
<1> DEFINE k == depth[t]
<1> DEFINE g == frame[t][k].e
<1> DEFINE x == frame[t][k].x
<1>1. TypeOK /\ Stacks /\ ClassInv /\ LoadInv /\ StackType
  BY DEF IInv, TypeOK, StackType
<1>2. k \in Levels /\ k > 0 /\ frame[t][k].at = "find"
  BY <1>1 DEF Find, At, Top, StackType, Levels
<1>3. LoadFrameOK(t, k) /\ StackOK(t, k) /\ x \in Libs /\ g \in Entries \cup {NoEntry}
  <2>1. LoadFrameOK(t, k) /\ StackOK(t, k) /\ frame[t][k] \in Frame
    BY <1>1, <1>2 DEF Stacks, LoadInv, StackType
  <2> QED BY <1>2, <2>1 DEF StackOK, Frame, LoadSteps, OnLoadSteps
<1>4. PICK s \in {"dlopen", "failed", "check"}, f \in Entries \cup {NoEntry} :
             /\ StackType' /\ MovedTo(t, s, f)
             /\ s # "check" => f = g
             /\ s = "check" => f # NoEntry /\ f = slot[x]
             /\ UNCHANGED <<class, lib>>
  <2>1. ASSUME NEW s \in {"dlopen", "failed"}, Goto(t, s) PROVE StackType' /\ MovedTo(t, s, g)
    BY <1>1, <1>2, <2>1, MovedTop DEF Moved, MovedTo, Steps, LoadSteps, OnLoadSteps
  <2>2. ASSUME NEW e \in Entries, Become(t, [Top(t) EXCEPT !.at = "check", !.e = e])
        PROVE  StackType' /\ MovedTo(t, "check", e)
    BY <1>1, <1>2, <2>2, MovedToEntry DEF Steps, LoadSteps
  <2>3. UNCHANGED <<class, lib>>
    BY DEF Find
  <2>4. CASE Goto(t, "dlopen") \/ Goto(t, "failed")
    BY <1>3, <2>1, <2>3, <2>4
  <2>5. CASE /\ slot[x] # NoEntry
             /\ Become(t, [Top(t) EXCEPT !.at = "check", !.e = slot[x]])
    <3>1. slot[x] \in Entries
      BY <1>1, <1>3, <2>5 DEF TypeOK
    <3> QED BY <2>2, <2>3, <2>5, <3>1
  <2> QED BY <2>4, <2>5 DEF Find, Top
<1>5. TypeOK'
  BY <1>1, <1>3, <1>4 DEF TypeOK, StackType, class, lib, SharedLib, Unused
<1>6. Stacks'
  BY <1>1, <1>2, <1>3, <1>4, StackMovedTo
  DEF StackOK, UseSteps, InitSteps, WorkSteps, LoadSteps, OnLoadSteps
<1>7. ClassInv'
  BY <1>1, <1>2, <1>4, MovedToClasses DEF ClassSteps, InitSteps, WorkSteps
<1>8. ASSUME NEW u \in Threads, NEW d \in Levels
      PROVE  /\ u # t \/ d # k => frame'[u][d] = frame[u][d]
             /\ LoadFrameOK(u, d) /\ OwnPairOK(t, k, u, d) /\ OwnPairOK(u, d, t, k)
             /\ frame[u][d].e \in Entries \cup {NoEntry}
  BY <1>1, <1>2, <1>4 DEF MovedTo, Same, LoadInv, StackType, Frame
<1>9. frame'[t][k].at = s /\ frame'[t][k].e = f
  BY <1>4 DEF MovedTo
<1>10. \A l \in Libs : SlotOK(l) /\ slot[l] \in Entries \cup {NoEntry}
  BY <1>1 DEF LoadInv, TypeOK
<1>11. ASSUME NEW u \in Threads, NEW d \in Levels PROVE LoadFrameOK(u, d)'
  <2>1. CASE u # t \/ d # k
    <3>1. slot' = slot /\ entry' = entry
      BY <1>4 DEF lib
    <3> QED BY <1>8, <2>1, <3>1, LoadFrameStays
  <2>2. CASE u = t /\ d = k
    BY <1>1, <1>2, <1>3, <1>4, <1>9, <1>10, <2>2
    DEF LoadFrameOK, SlotOK, TypeOK, lib, Unused, Own, Private, Pending, OnLoadSteps
  <2> QED BY <2>1, <2>2
<1>12. ASSUME NEW u \in Threads, NEW v \in Threads, NEW d \in Levels, NEW j \in Levels
       PROVE  OwnPairOK(u, d, v, j)'
  <2>1. OwnPairOK(u, d, v, j)
    BY <1>1 DEF LoadInv
  <2>3. CASE (u # t \/ d # k) /\ (v # t \/ j # k)
    BY <1>8, <2>1, <2>3 DEF OwnPairOK
  <2>4. CASE u = t /\ d = k /\ (v # t \/ j # k)
    BY <1>2, <1>3, <1>4, <1>8, <1>9, <2>4 DEF OwnPairOK, Own, Private, OnLoadSteps
  <2>5. CASE (u # t \/ d # k) /\ v = t /\ j = k
    <3>1. CASE s = "check"
      <4>1. frame[u][d].at \in Private => frame[u][d].e # f
        BY <1>3, <1>4, <1>8, <3>1 DEF LoadFrameOK
      <4> QED BY <1>8, <1>9, <2>5, <3>1, <4>1 DEF OwnPairOK, Own, Private, OnLoadSteps
    <3>2. CASE s # "check"
      <4>1. f = g
        BY <1>4, <3>2
      <4>2. frame[t][k].at \in Own \/ s \notin Own
        BY <1>2, <1>4, <3>2 DEF Own, Private, OnLoadSteps
      <4> QED BY <1>8, <1>9, <2>5, <4>1, <4>2 DEF OwnPairOK
    <3> QED BY <3>1, <3>2
  <2>6. CASE u = t /\ d = k /\ v = t /\ j = k
    BY <2>6 DEF OwnPairOK
  <2> QED BY <2>3, <2>4, <2>5, <2>6
<1>13. ASSUME NEW b \in Entries PROVE EntryOK(b)'
  <2>1. EntryOK(b)
    BY <1>1 DEF LoadInv
  <2>2. /\ entry[b].result = "pending" =>
             \E d \in Levels : /\ frame'[entry[b].thread][d].e = b
                               /\ frame'[entry[b].thread][d].at \in Pending
        /\ \A w \in condWait[b] : \E u \in Threads \ {w}, d \in Levels :
             frame'[u][d].e = b /\ frame'[u][d].at \in OnLoadSteps
    <3>1. ASSUME NEW u \in Threads, NEW d \in Levels
          PROVE  /\ frame[u][d].at \in Pending =>
                      frame'[u][d].e = frame[u][d].e /\ frame'[u][d].at \in Pending
                 /\ frame[u][d].at \in OnLoadSteps =>
                      frame'[u][d].e = frame[u][d].e /\ frame'[u][d].at \in OnLoadSteps
      <4>1. CASE u # t \/ d # k
        BY <1>8, <4>1
      <4>2. CASE u = t /\ d = k
        BY <1>2, <1>4, <1>9, <4>2 DEF Pending, Private, OnLoadSteps
      <4> QED BY <4>1, <4>2
    <3> QED BY <1>1, <3>1, OwnKept
  <2>3. entry' = entry /\ condWait' = condWait
    BY <1>4 DEF lib
  <2> QED BY <2>1, <2>2, <2>3 DEF EntryOK
<1>14. ASSUME NEW l \in Libs PROVE SlotOK(l)'
  BY <1>1, <1>2, <1>3, <1>4, <1>10
  DEF SlotOK, LoadFrameOK, TypeOK, lib, Unused, Own, Private, Pending, OnLoadSteps
<1> QED BY <1>5, <1>6, <1>7, <1>11, <1>12, <1>13, <1>14 DEF IInv, LoadInv

\* The invariant is kept when the library is opened.
LEMMA DlopenInv ==
  ASSUME IInv, NEW t \in Threads, Dlopen(t)
  PROVE  IInv'
<1> USE NobodyAssumption, NameAssumption
<1> DEFINE k == depth[t]
<1> DEFINE g == frame[t][k].e
<1> DEFINE x == frame[t][k].x
<1>1. TypeOK /\ Stacks /\ ClassInv /\ LoadInv /\ StackType
  BY DEF IInv, TypeOK, StackType
<1>2. k \in Levels /\ k > 0 /\ frame[t][k].at = "dlopen"
  <2>1. depth[t] > 0 /\ frame[t][depth[t]].at = "dlopen"
    BY DEF Dlopen, At, Top
  <2> QED BY <1>1, <2>1, DepthAssumption DEF StackType, Levels
<1>3. LoadFrameOK(t, k) /\ StackOK(t, k) /\ x \in Libs /\ g \in Entries \cup {NoEntry}
  <2>1. LoadFrameOK(t, k) /\ StackOK(t, k) /\ frame[t][k] \in Frame
    BY <1>1, <1>2 DEF Stacks, LoadInv, StackType
  <2> QED BY <1>2, <2>1 DEF StackOK, Frame, LoadSteps, OnLoadSteps
<1>4. PICK s \in {"failed", "probe"}, f \in Entries \cup {NoEntry} :
             /\ StackType' /\ MovedTo(t, s, f)
             /\ s = "failed" => f = g /\ entry' = entry
             /\ s = "probe" => /\ f \in Entries /\ entry[f] = Unused
                                   /\ \E r \in SharedLib : /\ entry' = [entry EXCEPT ![f] = r]
                                                           /\ r.thread = t /\ r.result = "pending"
             /\ UNCHANGED <<class, slot, condWait>>
  <2>1. ASSUME NEW s \in {"failed"}, Goto(t, s) PROVE StackType' /\ MovedTo(t, s, g)
    BY <1>1, <1>2, <2>1, MovedTop DEF Moved, MovedTo, Steps, LoadSteps, OnLoadSteps
  <2>2. ASSUME NEW e \in Entries, Become(t, [Top(t) EXCEPT !.at = "probe", !.e = e])
        PROVE  StackType' /\ MovedTo(t, "probe", e)
    BY <1>1, <1>2, <2>2, MovedToEntry DEF Steps, LoadSteps
  <2>3. UNCHANGED <<class, slot, condWait>>
    BY DEF Dlopen
  <2>4. CASE Goto(t, "failed") /\ UNCHANGED entry
    BY <1>3, <2>1, <2>3, <2>4
  <2>5. ASSUME NEW e \in Entries, entry[e] = Unused,
               entry' = [entry EXCEPT ![e] = [x |-> x, ld |-> frame[t][k].ld, thread |-> t,
                                              result |-> "pending"]],
               Become(t, [Top(t) EXCEPT !.at = "probe", !.e = e])
        PROVE  \E r \in SharedLib : /\ entry' = [entry EXCEPT ![e] = r]
                                    /\ r.thread = t /\ r.result = "pending"
    <3>1. frame[t][k].ld \in Loaders \cup {NoLoader}
      BY <1>1, <1>2 DEF StackType, Frame
    <3> DEFINE r == [x |-> x, ld |-> frame[t][k].ld, thread |-> t, result |-> "pending"]
    <3>2. r \in SharedLib /\ r.thread = t /\ r.result = "pending"
      BY <1>3, <3>1 DEF SharedLib
    <3> QED BY <2>5, <3>2
  <2>6. ASSUME NEW e \in Entries, entry[e] = Unused,
               entry' = [entry EXCEPT ![e] = [x |-> x, ld |-> frame[t][k].ld, thread |-> t,
                                              result |-> "pending"]],
               Become(t, [Top(t) EXCEPT !.at = "probe", !.e = e])
        PROVE  \E s \in {"failed", "probe"}, f \in Entries \cup {NoEntry} :
                 /\ StackType' /\ MovedTo(t, s, f)
                 /\ s = "failed" => f = g /\ entry' = entry
                 /\ s = "probe" => /\ f \in Entries /\ entry[f] = Unused
                                   /\ \E r \in SharedLib :
                                        /\ entry' = [entry EXCEPT ![f] = r]
                                        /\ r.thread = t /\ r.result = "pending"
                 /\ UNCHANGED <<class, slot, condWait>>
    <3>1. StackType' /\ MovedTo(t, "probe", e)
      BY <2>2, <2>6
    <3>2. \E r \in SharedLib : /\ entry' = [entry EXCEPT ![e] = r]
                               /\ r.thread = t /\ r.result = "pending"
      BY <2>5, <2>6
    <3> HIDE DEF g, k, x
    <3> QED BY <2>3, <2>6, <3>1, <3>2
  <2> HIDE DEF g
  <2> QED BY <2>4, <2>6 DEF Dlopen, Top
<1>5. TypeOK'
  <2>1. entry' \in [Entries -> SharedLib]
    <3>1. Unused \in SharedLib
      BY DEF Unused, SharedLib
    <3> QED BY <1>1, <1>4, <3>1 DEF TypeOK
  <2>2. class' = class /\ slot' = slot /\ condWait' = condWait
    BY <1>4
  <2> QED BY <1>1, <1>4, <2>1, <2>2 DEF TypeOK, StackType, class
<1>6. Stacks'
  BY <1>1, <1>2, <1>3, <1>4, StackMovedTo
  DEF StackOK, UseSteps, InitSteps, WorkSteps, LoadSteps, OnLoadSteps
<1>7. ClassInv'
  BY <1>1, <1>2, <1>4, MovedToClasses DEF ClassSteps, InitSteps, WorkSteps
<1>8. ASSUME NEW u \in Threads, NEW d \in Levels
      PROVE  /\ u # t \/ d # k => frame'[u][d] = frame[u][d]
             /\ LoadFrameOK(u, d) /\ OwnPairOK(t, k, u, d) /\ OwnPairOK(u, d, t, k)
             /\ frame[u][d].e \in Entries \cup {NoEntry}
  BY <1>1, <1>2, <1>4 DEF MovedTo, Same, LoadInv, StackType, Frame
<1>9. frame'[t][k].at = s /\ frame'[t][k].e = f
  BY <1>4 DEF MovedTo
<1>10. \A l \in Libs : SlotOK(l) /\ slot[l] \in Entries \cup {NoEntry}
  BY <1>1 DEF LoadInv, TypeOK
<1>11. ASSUME NEW u \in Threads, NEW d \in Levels PROVE LoadFrameOK(u, d)'
  <2>1. CASE u # t \/ d # k
    <3>1. frame[u][d].e # NoEntry => entry'[frame[u][d].e] = entry[frame[u][d].e]
      BY <1>1, <1>4, <1>8 DEF LoadFrameOK, TypeOK, Unused
    <3>2. slot' = slot /\ frame'[u][d] = frame[u][d]
      BY <1>4, <1>8, <2>1
    <3> QED BY <1>8, <3>1, <3>2 DEF LoadFrameOK, Own, OnLoadSteps, Private, Pending
  <2>2. CASE u = t /\ d = k
    BY SMTT(30), <1>1, <1>2, <1>3, <1>4, <1>9, <1>10, <2>2
    DEF LoadFrameOK, SlotOK, TypeOK, lib, Unused, Own, Private, Pending, OnLoadSteps
  <2> QED BY <2>1, <2>2
<1>12. ASSUME NEW u \in Threads, NEW v \in Threads, NEW d \in Levels, NEW j \in Levels
       PROVE  OwnPairOK(u, d, v, j)'
  <2>1. OwnPairOK(u, d, v, j)
    BY <1>1 DEF LoadInv
  <2>2. /\ s = "probe" => frame[u][d].e # f
        /\ s = "probe" => frame[v][j].e # f
    BY <1>4, <1>8, NameAssumption DEF LoadFrameOK, Unused
  <2>3. CASE (u # t \/ d # k) /\ (v # t \/ j # k)
    BY <1>8, <2>1, <2>3 DEF OwnPairOK
  <2>4. CASE u = t /\ d = k /\ (v # t \/ j # k)
    BY <1>2, <1>4, <1>8, <1>9, <2>2, <2>4 DEF OwnPairOK, Own, Private, OnLoadSteps
  <2>5. CASE (u # t \/ d # k) /\ v = t /\ j = k
    BY <1>2, <1>4, <1>8, <1>9, <2>2, <2>5 DEF OwnPairOK, Own, Private, OnLoadSteps
  <2>6. CASE u = t /\ d = k /\ v = t /\ j = k
    BY <2>6 DEF OwnPairOK
  <2> QED BY <2>3, <2>4, <2>5, <2>6
<1>13. ASSUME NEW b \in Entries PROVE EntryOK(b)'
  <2>1. EntryOK(b)
    BY <1>1 DEF LoadInv
  <2>2. /\ entry[b].result = "pending" =>
             \E d \in Levels : /\ frame'[entry[b].thread][d].e = b
                               /\ frame'[entry[b].thread][d].at \in Pending
        /\ \A w \in condWait[b] : \E u \in Threads \ {w}, d \in Levels :
             frame'[u][d].e = b /\ frame'[u][d].at \in OnLoadSteps
    <3>1. ASSUME NEW u \in Threads, NEW d \in Levels
          PROVE  /\ frame[u][d].at \in Pending =>
                      frame'[u][d].e = frame[u][d].e /\ frame'[u][d].at \in Pending
                 /\ frame[u][d].at \in OnLoadSteps =>
                      frame'[u][d].e = frame[u][d].e /\ frame'[u][d].at \in OnLoadSteps
      <4>1. CASE u # t \/ d # k
        BY <1>8, <4>1
      <4>2. CASE u = t /\ d = k
        BY <1>2, <1>4, <1>9, <4>2 DEF Pending, Private, OnLoadSteps
      <4> QED BY <4>1, <4>2
    <3> QED BY <1>1, <3>1, OwnKept
  <2>3. CASE s = "probe" /\ b = f
    <3>1. entry'[b].result = "pending" /\ entry'[b].thread = t
      BY <1>1, <1>4, <2>3 DEF TypeOK
    <3>2. frame'[t][k].e = b /\ frame'[t][k].at \in Pending
      BY <1>9, <2>3 DEF Pending, Private
    <3>3. condWait' = condWait
      BY <1>4
    <3> QED BY <1>2, <2>2, <3>1, <3>2, <3>3 DEF EntryOK
  <2>4. CASE s # "probe" \/ b # f
    <3>1. entry'[b] = entry[b] /\ condWait' = condWait
      BY <1>1, <1>4, <2>4 DEF TypeOK
    <3> QED BY <2>1, <2>2, <3>1 DEF EntryOK
  <2> QED BY <2>3, <2>4
<1>14. ASSUME NEW l \in Libs PROVE SlotOK(l)'
  BY <1>1, <1>2, <1>3, <1>4, <1>10
  DEF SlotOK, LoadFrameOK, TypeOK, lib, Unused, Own, Private, Pending, OnLoadSteps
<1> QED BY <1>5, <1>6, <1>7, <1>11, <1>12, <1>13, <1>14 DEF IInv, LoadInv

\* The invariant is kept when the table is searched again.
LEMMA ProbeInv ==
  ASSUME IInv, NEW t \in Threads, Probe(t)
  PROVE  IInv'
<1> USE NobodyAssumption, NameAssumption
<1> DEFINE k == depth[t]
<1> DEFINE g == frame[t][k].e
<1> DEFINE x == frame[t][k].x
<1>1. TypeOK /\ Stacks /\ ClassInv /\ LoadInv /\ StackType
  BY DEF IInv, TypeOK, StackType
<1>2. k \in Levels /\ k > 0 /\ frame[t][k].at = "probe"
  BY <1>1 DEF Probe, At, Top, StackType, Levels
<1>3. LoadFrameOK(t, k) /\ StackOK(t, k) /\ x \in Libs /\ g \in Entries \cup {NoEntry}
  <2>1. LoadFrameOK(t, k) /\ StackOK(t, k) /\ frame[t][k] \in Frame
    BY <1>1, <1>2 DEF Stacks, LoadInv, StackType
  <2> QED BY <1>2, <2>1 DEF StackOK, Frame, LoadSteps, OnLoadSteps
<1>4. PICK s \in {"store", "check"}, f \in Entries \cup {NoEntry} :
             /\ StackType' /\ MovedTo(t, s, f)
             /\ s = "store" => f = g /\ entry' = entry
             /\ s = "check" => f # NoEntry /\ f = slot[x] /\ entry' = [entry EXCEPT ![g] = Unused]
             /\ UNCHANGED <<class, slot, condWait>>
  <2>1. ASSUME NEW s \in {"store"}, Goto(t, s) PROVE StackType' /\ MovedTo(t, s, g)
    BY <1>1, <1>2, <2>1, MovedTop DEF Moved, MovedTo, Steps, LoadSteps, OnLoadSteps
  <2>2. ASSUME NEW e \in Entries, Become(t, [Top(t) EXCEPT !.at = "check", !.e = e])
        PROVE  StackType' /\ MovedTo(t, "check", e)
    BY <1>1, <1>2, <2>2, MovedToEntry DEF Steps, LoadSteps
  <2>3. UNCHANGED <<class, slot, condWait>>
    BY DEF Probe
  <2>4. CASE Goto(t, "store") /\ UNCHANGED entry
    BY <1>3, <2>1, <2>3, <2>4
  <2>5. CASE /\ slot[x] # NoEntry
             /\ entry' = [entry EXCEPT ![g] = Unused]
             /\ Become(t, [Top(t) EXCEPT !.at = "check", !.e = slot[x]])
    <3>1. slot[x] \in Entries
      BY <1>1, <1>3, <2>5 DEF TypeOK
    <3> QED BY <2>2, <2>3, <2>5, <3>1
  <2> QED BY <2>4, <2>5 DEF Probe, Top
<1>5. TypeOK'
  <2>1. entry' \in [Entries -> SharedLib]
    <3>1. Unused \in SharedLib
      BY DEF Unused, SharedLib
    <3> QED BY <1>1, <1>4, <3>1 DEF TypeOK
  <2>2. class' = class /\ slot' = slot /\ condWait' = condWait
    BY <1>4
  <2> QED BY <1>1, <1>4, <2>1, <2>2 DEF TypeOK, StackType, class
<1>6. Stacks'
  BY <1>1, <1>2, <1>3, <1>4, StackMovedTo
  DEF StackOK, UseSteps, InitSteps, WorkSteps, LoadSteps, OnLoadSteps
<1>7. ClassInv'
  BY <1>1, <1>2, <1>4, MovedToClasses DEF ClassSteps, InitSteps, WorkSteps
<1>8. ASSUME NEW u \in Threads, NEW d \in Levels
      PROVE  /\ u # t \/ d # k => frame'[u][d] = frame[u][d]
             /\ LoadFrameOK(u, d) /\ OwnPairOK(t, k, u, d) /\ OwnPairOK(u, d, t, k)
             /\ frame[u][d].e \in Entries \cup {NoEntry}
  BY <1>1, <1>2, <1>4 DEF MovedTo, Same, LoadInv, StackType, Frame
<1>9. frame'[t][k].at = s /\ frame'[t][k].e = f
  BY <1>4 DEF MovedTo
<1>10. \A l \in Libs : SlotOK(l) /\ slot[l] \in Entries \cup {NoEntry}
  BY <1>1 DEF LoadInv, TypeOK
<1>11. ASSUME NEW u \in Threads, NEW d \in Levels PROVE LoadFrameOK(u, d)'
  <2>1. CASE u # t \/ d # k
    <3>1. frame[u][d].e # NoEntry => entry'[frame[u][d].e] = entry[frame[u][d].e]
      <4>1. frame[u][d].e # g
        BY <1>2, <1>8, <2>1 DEF OwnPairOK, Private
      <4> QED BY <1>1, <1>4, <1>8, <4>1 DEF TypeOK
    <3> QED BY <1>4, <1>8, <2>1, <3>1, LoadFrameStays
  <2>2. CASE u = t /\ d = k
    BY SMTT(30), <1>1, <1>2, <1>3, <1>4, <1>9, <1>10, <2>2
    DEF LoadFrameOK, SlotOK, TypeOK, lib, Unused, Own, Private, Pending, OnLoadSteps
  <2> QED BY <2>1, <2>2
<1>12. ASSUME NEW u \in Threads, NEW v \in Threads, NEW d \in Levels, NEW j \in Levels
       PROVE  OwnPairOK(u, d, v, j)'
  <2>1. OwnPairOK(u, d, v, j)
    BY <1>1 DEF LoadInv
  <2>3. CASE (u # t \/ d # k) /\ (v # t \/ j # k)
    BY <1>8, <2>1, <2>3 DEF OwnPairOK
  <2>4. CASE u = t /\ d = k /\ (v # t \/ j # k)
    BY <1>2, <1>3, <1>4, <1>8, <1>9, <2>4 DEF OwnPairOK, Own, Private, OnLoadSteps
  <2>5. CASE (u # t \/ d # k) /\ v = t /\ j = k
    <3>1. CASE s = "check"
      <4>1. frame[u][d].at \in Private => frame[u][d].e # f
        BY SMTT(30), <1>3, <1>4, <1>8, <3>1 DEF LoadFrameOK
      <4> QED BY <1>8, <1>9, <2>5, <3>1, <4>1 DEF OwnPairOK, Own, Private, OnLoadSteps
    <3>2. CASE s # "check"
      <4>1. f = g
        BY <1>4, <3>2
      <4>2. frame[t][k].at \in Own \/ s \notin Own
        BY <1>2, <1>4, <3>2 DEF Own, Private, OnLoadSteps
      <4> QED BY <1>8, <1>9, <2>5, <4>1, <4>2 DEF OwnPairOK
    <3> QED BY <3>1, <3>2
  <2>6. CASE u = t /\ d = k /\ v = t /\ j = k
    BY <2>6 DEF OwnPairOK
  <2> QED BY <2>3, <2>4, <2>5, <2>6
<1>13. ASSUME NEW b \in Entries PROVE EntryOK(b)'
  <2>1. EntryOK(b) /\ condWait' = condWait
    BY <1>1, <1>4 DEF LoadInv
  <2>2. CASE s = "check" /\ b = g
    <3>1. entry'[b].result = "unused"
      BY <1>1, <1>4, <2>2 DEF TypeOK, Unused
    <3>2. ASSUME NEW u \in Threads, NEW d \in Levels, frame[u][d].e = b,
                 frame[u][d].at \in OnLoadSteps
          PROVE  FALSE
      BY <1>2, <1>8, <2>2, <3>2 DEF OwnPairOK, Private, OnLoadSteps
    <3>3. condWait[b] = {}
      BY <2>1, <3>2 DEF EntryOK
    <3> QED BY <2>1, <3>1, <3>3 DEF EntryOK
  <2>3. CASE s # "check" \/ b # g
    <3>1. entry'[b] = entry[b]
      BY <1>1, <1>4, <2>3 DEF TypeOK
    <3>2. ASSUME NEW u \in Threads, NEW d \in Levels, frame[u][d].e = b
          PROVE  /\ frame[u][d].at \in Pending =>
                      frame'[u][d].e = b /\ frame'[u][d].at \in Pending
                 /\ frame[u][d].at \in OnLoadSteps =>
                      frame'[u][d].e = b /\ frame'[u][d].at \in OnLoadSteps
      <4>1. CASE u = t /\ d = k
        BY <1>2, <1>4, <1>9, <2>3, <3>2, <4>1 DEF Pending, Private, OnLoadSteps
      <4>2. CASE u # t \/ d # k
        BY <1>8, <3>2, <4>2
      <4> QED BY <4>1, <4>2
    <3> QED BY <1>1, <2>1, <3>1, <3>2, OwnKept DEF EntryOK
  <2> QED BY <2>2, <2>3
<1>14. ASSUME NEW l \in Libs PROVE SlotOK(l)'
  BY <1>1, <1>2, <1>3, <1>4, <1>10
  DEF SlotOK, LoadFrameOK, TypeOK, lib, Unused, Own, Private, Pending, OnLoadSteps
<1> QED BY <1>5, <1>6, <1>7, <1>11, <1>12, <1>13, <1>14 DEF IInv, LoadInv

\* The invariant is kept when a SharedLib is put in the table.
LEMMA StoreInv ==
  ASSUME IInv, NEW t \in Threads, Store(t)
  PROVE  IInv'
<1> USE NobodyAssumption, NameAssumption
<1> DEFINE k == depth[t]
<1> DEFINE g == frame[t][k].e
<1> DEFINE x == frame[t][k].x
<1>1. TypeOK /\ Stacks /\ ClassInv /\ LoadInv /\ StackType
  BY DEF IInv, TypeOK, StackType
<1>2. k \in Levels /\ k > 0 /\ frame[t][k].at = "store"
  BY <1>1 DEF Store, At, Top, StackType, Levels
<1>3. LoadFrameOK(t, k) /\ StackOK(t, k) /\ x \in Libs /\ g \in Entries \cup {NoEntry}
  <2>1. LoadFrameOK(t, k) /\ StackOK(t, k) /\ frame[t][k] \in Frame
    BY <1>1, <1>2 DEF Stacks, LoadInv, StackType
  <2> QED BY <1>2, <2>1 DEF StackOK, Frame, LoadSteps, OnLoadSteps
<1>4. PICK s \in {"onload"}, f \in Entries \cup {NoEntry} :
             /\ StackType' /\ MovedTo(t, s, f)
             /\ f = g
             /\ slot' = [slot EXCEPT ![x] = g]
             /\ UNCHANGED <<class, entry, condWait>>
  BY <1>1, <1>2, <1>3, MovedTop
  DEF Store, At, Top, Moved, MovedTo, Steps, LoadSteps, OnLoadSteps
<1>5. TypeOK'
  BY <1>1, <1>3, <1>4 DEF TypeOK, StackType, class, lib, SharedLib, Unused
<1>6. Stacks'
  BY <1>1, <1>2, <1>3, <1>4, StackMovedTo
  DEF StackOK, UseSteps, InitSteps, WorkSteps, LoadSteps, OnLoadSteps
<1>7. ClassInv'
  BY <1>1, <1>2, <1>4, MovedToClasses DEF ClassSteps, InitSteps, WorkSteps
<1>8. ASSUME NEW u \in Threads, NEW d \in Levels
      PROVE  /\ u # t \/ d # k => frame'[u][d] = frame[u][d]
             /\ LoadFrameOK(u, d) /\ OwnPairOK(t, k, u, d) /\ OwnPairOK(u, d, t, k)
             /\ frame[u][d].e \in Entries \cup {NoEntry}
  BY <1>1, <1>2, <1>4 DEF MovedTo, Same, LoadInv, StackType, Frame
<1>9. frame'[t][k].at = s /\ frame'[t][k].e = f
  BY <1>4 DEF MovedTo
<1>10. \A l \in Libs : SlotOK(l) /\ slot[l] \in Entries \cup {NoEntry}
  BY <1>1 DEF LoadInv, TypeOK
<1>11. ASSUME NEW u \in Threads, NEW d \in Levels PROVE LoadFrameOK(u, d)'
  <2>1. CASE u # t \/ d # k
    <3>1. entry' = entry /\ frame'[u][d] = frame[u][d]
      BY <1>4, <1>8, <2>1
    <3>2. ASSUME frame[u][d].at \in Private, NEW l \in Libs PROVE slot'[l] # frame[u][d].e
      <4>1. frame[u][d].e # g
        BY <1>2, <1>8, <2>1, <3>2 DEF OwnPairOK, Private
      <4> QED BY <1>1, <1>4, <1>8, <3>2, <4>1 DEF TypeOK, LoadFrameOK
    <3> QED BY <1>8, <3>1, <3>2 DEF LoadFrameOK, Own, OnLoadSteps, Private, Pending
  <2>2. CASE u = t /\ d = k
    BY <1>1, <1>2, <1>3, <1>4, <1>9, <1>10, <2>2
    DEF LoadFrameOK, SlotOK, TypeOK, lib, Unused, Own, Private, Pending, OnLoadSteps
  <2> QED BY <2>1, <2>2
<1>12. ASSUME NEW u \in Threads, NEW v \in Threads, NEW d \in Levels, NEW j \in Levels
       PROVE  OwnPairOK(u, d, v, j)'
  <2>1. f = g /\ MovedTo(t, s, g)
    BY <1>4
  <2>2. /\ s \in Own => frame[t][k].at \in Own
        /\ s \in Private => frame[t][k].at \in Private
    BY <1>2 DEF Own, Private, OnLoadSteps
  <2> QED BY <1>1, <1>2, <2>1, <2>2, OwnPairsKept
<1>13. ASSUME NEW b \in Entries PROVE EntryOK(b)'
  <2>1. EntryOK(b)
    BY <1>1 DEF LoadInv
  <2>2. /\ entry[b].result = "pending" =>
             \E d \in Levels : /\ frame'[entry[b].thread][d].e = b
                               /\ frame'[entry[b].thread][d].at \in Pending
        /\ \A w \in condWait[b] : \E u \in Threads \ {w}, d \in Levels :
             frame'[u][d].e = b /\ frame'[u][d].at \in OnLoadSteps
    <3>1. ASSUME NEW u \in Threads, NEW d \in Levels
          PROVE  /\ frame[u][d].at \in Pending =>
                      frame'[u][d].e = frame[u][d].e /\ frame'[u][d].at \in Pending
                 /\ frame[u][d].at \in OnLoadSteps =>
                      frame'[u][d].e = frame[u][d].e /\ frame'[u][d].at \in OnLoadSteps
      <4>1. CASE u # t \/ d # k
        BY <1>8, <4>1
      <4>2. CASE u = t /\ d = k
        BY <1>2, <1>4, <1>9, <4>2 DEF Pending, Private, OnLoadSteps
      <4> QED BY <4>1, <4>2
    <3> QED BY <1>1, <3>1, OwnKept
  <2> QED
    BY <1>1, <1>2, <1>3, <1>4, <2>1, <2>2
    DEF EntryOK, LoadFrameOK, TypeOK, lib, Own, Private, Pending, OnLoadSteps
<1>14. ASSUME NEW l \in Libs PROVE SlotOK(l)'
  BY <1>1, <1>2, <1>3, <1>4, <1>10
  DEF SlotOK, LoadFrameOK, TypeOK, lib, Unused, Own, Private, Pending, OnLoadSteps
<1> QED BY <1>5, <1>6, <1>7, <1>11, <1>12, <1>13, <1>14 DEF IInv, LoadInv

\* The invariant is kept when the result is stored.
LEMMA StoreResultInv ==
  ASSUME IInv, NEW t \in Threads, StoreResult(t)
  PROVE  IInv'
<1> USE NobodyAssumption, NameAssumption
<1> DEFINE k == depth[t]
<1> DEFINE g == frame[t][k].e
<1> DEFINE x == frame[t][k].x
<1>1. TypeOK /\ Stacks /\ ClassInv /\ LoadInv /\ StackType
  BY DEF IInv, TypeOK, StackType
<1>2. k \in Levels /\ k > 0 /\ frame[t][k].at \in {"okay", "bad"}
  BY <1>1 DEF StoreResult, At, Top, StackType, Levels
<1>3. LoadFrameOK(t, k) /\ StackOK(t, k) /\ x \in Libs /\ g \in Entries \cup {NoEntry}
  <2>1. LoadFrameOK(t, k) /\ StackOK(t, k) /\ frame[t][k] \in Frame
    BY <1>1, <1>2 DEF Stacks, LoadInv, StackType
  <2> QED BY <1>2, <2>1 DEF StackOK, Frame, LoadSteps, OnLoadSteps
<1>4. PICK s \in {"clear"}, f \in Entries \cup {NoEntry} :
             /\ StackType' /\ MovedTo(t, s, f)
             /\ f = g
             /\ \E r \in SharedLib : /\ entry' = [entry EXCEPT ![g] = r]
                                      /\ r.thread = entry[g].thread
                                      /\ r.result \in {"okay", "failed"}
             /\ UNCHANGED <<class, slot, condWait>>
  <2>1. StackType' /\ MovedTo(t, "clear", g)
    BY <1>1, <1>2, MovedTop DEF StoreResult, Moved, MovedTo, Steps, OnLoadSteps
  <2>2. g \in Entries /\ entry[g] \in SharedLib
    BY <1>1, <1>2, <1>3 DEF LoadFrameOK, TypeOK, Own, OnLoadSteps
  <2>3. PICK r0 \in {"okay", "failed"} : entry' = [entry EXCEPT ![g].result = r0]
    BY DEF StoreResult, Top
  <2>4. [entry[g] EXCEPT !.result = r0] \in SharedLib
    BY <2>2 DEF SharedLib
  <2>5. PICK r \in SharedLib : r = [entry[g] EXCEPT !.result = r0]
    BY <2>4
  <2>6. r.thread = entry[g].thread /\ r.result = r0
    BY <2>2, <2>5 DEF SharedLib
  <2>7. entry' = [entry EXCEPT ![g] = r]
    BY <2>3, <2>5
  <2>8. UNCHANGED <<class, slot, condWait>>
    BY DEF StoreResult
  <2> QED BY <2>1, <2>2, <2>6, <2>7, <2>8
<1>5. TypeOK'
  <2>1. entry' \in [Entries -> SharedLib]
    <3>1. Unused \in SharedLib
      BY DEF Unused, SharedLib
    <3> QED BY <1>1, <1>4, <3>1 DEF TypeOK
  <2>2. class' = class /\ slot' = slot /\ condWait' = condWait
    BY <1>4
  <2> QED BY <1>1, <1>4, <2>1, <2>2 DEF TypeOK, StackType, class
<1>6. Stacks'
  BY <1>1, <1>2, <1>3, <1>4, StackMovedTo
  DEF StackOK, UseSteps, InitSteps, WorkSteps, LoadSteps, OnLoadSteps
<1>7. ClassInv'
  BY <1>1, <1>2, <1>4, MovedToClasses DEF ClassSteps, InitSteps, WorkSteps
<1>8. ASSUME NEW u \in Threads, NEW d \in Levels
      PROVE  /\ u # t \/ d # k => frame'[u][d] = frame[u][d]
             /\ LoadFrameOK(u, d) /\ OwnPairOK(t, k, u, d) /\ OwnPairOK(u, d, t, k)
             /\ frame[u][d].e \in Entries \cup {NoEntry}
  BY <1>1, <1>2, <1>4 DEF MovedTo, Same, LoadInv, StackType, Frame
<1>9. frame'[t][k].at = s /\ frame'[t][k].e = f
  BY <1>4 DEF MovedTo
<1>10. \A l \in Libs : SlotOK(l) /\ slot[l] \in Entries \cup {NoEntry}
  BY <1>1 DEF LoadInv, TypeOK
<1>11. ASSUME NEW u \in Threads, NEW d \in Levels PROVE LoadFrameOK(u, d)'
  <2>1. CASE u # t \/ d # k
    <3>1. slot' = slot /\ frame'[u][d] = frame[u][d]
      BY <1>4, <1>8, <2>1
    <3>2. CASE frame[u][d].e # g
      <4>1. frame[u][d].e # NoEntry => entry'[frame[u][d].e] = entry[frame[u][d].e]
        BY <1>1, <1>4, <1>8, <3>2 DEF TypeOK
      <4> QED BY <1>8, <3>1, <4>1, LoadFrameStays
    <3>3. CASE frame[u][d].e = g
      <4>1. g \in Entries /\ entry[g].result = "pending" /\ entry[g].thread = t
        BY <1>2, <1>3 DEF LoadFrameOK, Own, Pending, Private, OnLoadSteps
      <4>2. entry'[g].result \in {"okay", "failed"} /\ entry'[g].thread = t
        BY <1>1, <1>4, <4>1 DEF TypeOK
      <4>3. frame[u][d].at \notin Own
        BY <1>2, <1>8, <2>1, <3>3 DEF OwnPairOK, Own, OnLoadSteps
      <4>4. frame[u][d].at = "loaded" => entry[g].thread = t
        BY <4>1
      <4> HIDE DEF g
      <4> QED BY <1>8, <3>1, <3>3, <4>1, <4>2, <4>3
          DEF LoadFrameOK, Own, OnLoadSteps, Private, Pending
    <3> QED BY <3>2, <3>3
  <2>2. CASE u = t /\ d = k
    <3>1. g \in Entries /\ entry[g].thread = t
      BY <1>2, <1>3 DEF LoadFrameOK, Own, Pending, Private, OnLoadSteps
    <3>2. entry'[g].result \in {"okay", "failed"} /\ entry'[g].thread = t
      BY <1>1, <1>4, <3>1 DEF TypeOK
    <3>3. frame'[u][d].at = "clear" /\ frame'[u][d].e = g /\ g # NoEntry
      BY <1>4, <1>9, <2>2, <3>1
    <3> HIDE DEF g
    <3> QED BY <2>2, <3>2, <3>3
        DEF LoadFrameOK, Own, Private, Pending, OnLoadSteps
  <2> QED BY <2>1, <2>2
<1>12. ASSUME NEW u \in Threads, NEW v \in Threads, NEW d \in Levels, NEW j \in Levels
       PROVE  OwnPairOK(u, d, v, j)'
  <2>1. f = g /\ MovedTo(t, s, g)
    BY <1>4
  <2>2. /\ s \in Own => frame[t][k].at \in Own
        /\ s \in Private => frame[t][k].at \in Private
    BY <1>2 DEF Own, Private, OnLoadSteps
  <2> QED BY <1>1, <1>2, <2>1, <2>2, OwnPairsKept
<1>13. ASSUME NEW b \in Entries PROVE EntryOK(b)'
  <2>1. EntryOK(b) /\ condWait' = condWait
    BY <1>1, <1>4 DEF LoadInv
  <2>2. CASE b = g
    <3>1. entry'[b].result # "pending"
      BY <1>1, <1>4, <2>2 DEF TypeOK
    <3>2. \A w \in condWait[b] : \E u \in Threads \ {w}, d \in Levels :
             frame'[u][d].e = b /\ frame'[u][d].at \in OnLoadSteps
      <4>1. ASSUME NEW w \in condWait[b]
            PROVE  \E u \in Threads \ {w}, d \in Levels :
                     frame'[u][d].e = b /\ frame'[u][d].at \in OnLoadSteps
        <5>1. PICK u \in Threads \ {w}, d \in Levels :
                     frame[u][d].e = b /\ frame[u][d].at \in OnLoadSteps
          BY <2>1 DEF EntryOK
        <5>2. frame'[u][d].e = b /\ frame'[u][d].at \in OnLoadSteps
          BY <1>2, <1>4, <1>8, <1>9, <5>1 DEF OnLoadSteps
        <5> QED BY <5>2
      <4> QED BY <4>1
    <3> QED BY <2>1, <3>1, <3>2 DEF EntryOK
  <2>3. CASE b # g
    <3>1. entry'[b] = entry[b]
      BY <1>1, <1>4, <2>3 DEF TypeOK
    <3>2. ASSUME NEW u \in Threads, NEW d \in Levels, frame[u][d].e = b
          PROVE  frame'[u][d] = frame[u][d]
      BY <1>8, <2>3, <3>2
    <3> QED BY <1>1, <2>1, <3>1, <3>2, OwnKept DEF EntryOK
  <2> QED BY <2>2, <2>3
<1>14. ASSUME NEW l \in Libs PROVE SlotOK(l)'
  BY <1>1, <1>2, <1>3, <1>4, <1>10
  DEF SlotOK, LoadFrameOK, TypeOK, lib, Unused, Own, Private, Pending, OnLoadSteps
<1> QED BY <1>5, <1>6, <1>7, <1>11, <1>12, <1>13, <1>14 DEF IInv, LoadInv

\* The invariant is kept when the loading thread is cleared.
LEMMA ClearThreadInv ==
  ASSUME IInv, NEW t \in Threads, ClearThread(t)
  PROVE  IInv'
<1> USE NobodyAssumption, NameAssumption
<1> DEFINE k == depth[t]
<1> DEFINE g == frame[t][k].e
<1> DEFINE x == frame[t][k].x
<1>1. TypeOK /\ Stacks /\ ClassInv /\ LoadInv /\ StackType
  BY DEF IInv, TypeOK, StackType
<1>2. k \in Levels /\ k > 0 /\ frame[t][k].at = "clear"
  BY <1>1 DEF ClearThread, At, Top, StackType, Levels
<1>3. LoadFrameOK(t, k) /\ StackOK(t, k) /\ x \in Libs /\ g \in Entries \cup {NoEntry}
  <2>1. LoadFrameOK(t, k) /\ StackOK(t, k) /\ frame[t][k] \in Frame
    BY <1>1, <1>2 DEF Stacks, LoadInv, StackType
  <2> QED BY <1>2, <2>1 DEF StackOK, Frame, LoadSteps, OnLoadSteps
<1>4. PICK s \in {"broadcast"}, f \in Entries \cup {NoEntry} :
             /\ StackType' /\ MovedTo(t, s, f)
             /\ f = g
             /\ \E r \in SharedLib : /\ entry' = [entry EXCEPT ![g] = r]
                                      /\ r.thread = Nobody /\ r.result = entry[g].result
             /\ UNCHANGED <<class, slot, condWait>>
  <2>1. StackType' /\ MovedTo(t, "broadcast", g)
    BY <1>1, <1>2, MovedTop DEF ClearThread, Moved, MovedTo, Steps, OnLoadSteps
  <2>2. g \in Entries /\ entry[g] \in SharedLib
    BY <1>1, <1>2, <1>3 DEF LoadFrameOK, TypeOK, Own, OnLoadSteps
  <2>3. entry' = [entry EXCEPT ![g].thread = Nobody]
    BY DEF ClearThread, Top
  <2>4. [entry[g] EXCEPT !.thread = Nobody] \in SharedLib
    BY <2>2 DEF SharedLib
  <2>5. PICK r \in SharedLib : r = [entry[g] EXCEPT !.thread = Nobody]
    BY <2>4
  <2>6. r.thread = Nobody /\ r.result = entry[g].result
    BY <2>2, <2>5 DEF SharedLib
  <2>7. entry' = [entry EXCEPT ![g] = r]
    BY <2>3, <2>5
  <2>8. UNCHANGED <<class, slot, condWait>>
    BY DEF ClearThread
  <2> QED BY <2>1, <2>2, <2>6, <2>7, <2>8
<1>5. TypeOK'
  <2>1. entry' \in [Entries -> SharedLib]
    <3>1. Unused \in SharedLib
      BY DEF Unused, SharedLib
    <3> QED BY <1>1, <1>4, <3>1 DEF TypeOK
  <2>2. class' = class /\ slot' = slot /\ condWait' = condWait
    BY <1>4
  <2> QED BY <1>1, <1>4, <2>1, <2>2 DEF TypeOK, StackType, class
<1>6. Stacks'
  BY <1>1, <1>2, <1>3, <1>4, StackMovedTo
  DEF StackOK, UseSteps, InitSteps, WorkSteps, LoadSteps, OnLoadSteps
<1>7. ClassInv'
  BY <1>1, <1>2, <1>4, MovedToClasses DEF ClassSteps, InitSteps, WorkSteps
<1>8. ASSUME NEW u \in Threads, NEW d \in Levels
      PROVE  /\ u # t \/ d # k => frame'[u][d] = frame[u][d]
             /\ LoadFrameOK(u, d) /\ OwnPairOK(t, k, u, d) /\ OwnPairOK(u, d, t, k)
             /\ frame[u][d].e \in Entries \cup {NoEntry}
  BY <1>1, <1>2, <1>4 DEF MovedTo, Same, LoadInv, StackType, Frame
<1>9. frame'[t][k].at = s /\ frame'[t][k].e = f
  BY <1>4 DEF MovedTo
<1>10. \A l \in Libs : SlotOK(l) /\ slot[l] \in Entries \cup {NoEntry}
  BY <1>1 DEF LoadInv, TypeOK
<1>11. ASSUME NEW u \in Threads, NEW d \in Levels PROVE LoadFrameOK(u, d)'
  <2>1. CASE u # t \/ d # k
    <3>1. slot' = slot /\ frame'[u][d] = frame[u][d]
      BY <1>4, <1>8, <2>1
    <3>2. CASE frame[u][d].e # g
      <4>1. frame[u][d].e # NoEntry => entry'[frame[u][d].e] = entry[frame[u][d].e]
        BY <1>1, <1>4, <1>8, <3>2 DEF TypeOK
      <4> QED BY <1>8, <3>1, <4>1 DEF LoadFrameOK, Own, OnLoadSteps, Private, Pending
    <3>3. CASE frame[u][d].e = g
      <4>1. g \in Entries /\ entry[g].result \in {"okay", "failed"} /\ entry[g].thread = t
        BY <1>2, <1>3, <1>4 DEF LoadFrameOK, Own, OnLoadSteps
      <4>2. entry'[g].result = entry[g].result /\ entry'[g].thread = Nobody
        BY <1>1, <1>4, <4>1 DEF TypeOK
      <4>3. frame[u][d].at \notin Own
        BY <1>2, <1>8, <2>1, <3>3 DEF OwnPairOK, Own, OnLoadSteps
      <4>4. u = t => frame[u][d].at # "loaded"
        BY <1>1, <1>2, <2>1, BelowTop
      <4>5. frame[u][d].at = "loaded" => entry[g].result = "okay"
        BY <1>8, <3>3, <4>1, <4>4 DEF LoadFrameOK
      <4> HIDE DEF g
      <4> QED BY <1>8, <3>1, <3>3, <4>1, <4>2, <4>3, <4>5
          DEF LoadFrameOK, Own, OnLoadSteps, Private, Pending
    <3> QED BY <3>2, <3>3
  <2>2. CASE u = t /\ d = k
    <3>1. g \in Entries /\ entry[g].result \in {"okay", "failed"}
      BY <1>2, <1>3 DEF LoadFrameOK, Own, Pending, Private, OnLoadSteps
    <3>2. entry'[g].result \in {"okay", "failed"}
      BY <1>1, <1>4, <3>1 DEF TypeOK
    <3>3. frame'[u][d].at = "broadcast" /\ frame'[u][d].e = g /\ g # NoEntry
      BY <1>4, <1>9, <2>2, <3>1
    <3> HIDE DEF g
    <3> QED BY <2>2, <3>2, <3>3
        DEF LoadFrameOK, Own, Private, Pending, OnLoadSteps
  <2> QED BY <2>1, <2>2
<1>12. ASSUME NEW u \in Threads, NEW v \in Threads, NEW d \in Levels, NEW j \in Levels
       PROVE  OwnPairOK(u, d, v, j)'
  <2>1. f = g /\ MovedTo(t, s, g)
    BY <1>4
  <2>2. /\ s \in Own => frame[t][k].at \in Own
        /\ s \in Private => frame[t][k].at \in Private
    BY <1>2 DEF Own, Private, OnLoadSteps
  <2> QED BY <1>1, <1>2, <2>1, <2>2, OwnPairsKept
<1>13. ASSUME NEW b \in Entries PROVE EntryOK(b)'
  <2>1. EntryOK(b)
    BY <1>1 DEF LoadInv
  <2>2. /\ entry[b].result = "pending" =>
             \E d \in Levels : /\ frame'[entry[b].thread][d].e = b
                               /\ frame'[entry[b].thread][d].at \in Pending
        /\ \A w \in condWait[b] : \E u \in Threads \ {w}, d \in Levels :
             frame'[u][d].e = b /\ frame'[u][d].at \in OnLoadSteps
    <3>1. ASSUME NEW u \in Threads, NEW d \in Levels
          PROVE  /\ frame[u][d].at \in Pending =>
                      frame'[u][d].e = frame[u][d].e /\ frame'[u][d].at \in Pending
                 /\ frame[u][d].at \in OnLoadSteps =>
                      frame'[u][d].e = frame[u][d].e /\ frame'[u][d].at \in OnLoadSteps
      <4>1. CASE u # t \/ d # k
        BY <1>8, <4>1
      <4>2. CASE u = t /\ d = k
        BY <1>2, <1>4, <1>9, <4>2 DEF Pending, Private, OnLoadSteps
      <4> QED BY <4>1, <4>2
    <3> QED BY <1>1, <3>1, OwnKept
  <2>3. /\ entry'[b] = entry[b] \/ entry'[b].result # "pending"
        /\ condWait' = condWait
    <3>1. entry[g].result \in {"okay", "failed"} /\ g \in Entries
      BY <1>2, <1>3 DEF LoadFrameOK, Own, OnLoadSteps
    <3> QED BY <1>1, <1>4, <3>1 DEF TypeOK
  <2> QED BY <2>1, <2>2, <2>3 DEF EntryOK
<1>14. ASSUME NEW l \in Libs PROVE SlotOK(l)'
  BY <1>1, <1>2, <1>3, <1>4, <1>10
  DEF SlotOK, LoadFrameOK, TypeOK, lib, Unused, Own, Private, Pending, OnLoadSteps
<1> QED BY <1>5, <1>6, <1>7, <1>11, <1>12, <1>13, <1>14 DEF IInv, LoadInv

\* The invariant is kept when those who wait for the result are told.
LEMMA BroadcastInv ==
  ASSUME IInv, NEW t \in Threads, Broadcast(t)
  PROVE  IInv'
<1> USE NobodyAssumption, NameAssumption
<1> DEFINE k == depth[t]
<1> DEFINE g == frame[t][k].e
<1> DEFINE x == frame[t][k].x
<1>1. TypeOK /\ Stacks /\ ClassInv /\ LoadInv /\ StackType
  BY DEF IInv, TypeOK, StackType
<1>2. k \in Levels /\ k > 0 /\ frame[t][k].at = "broadcast"
  BY <1>1 DEF Broadcast, At, Top, StackType, Levels
<1>3. LoadFrameOK(t, k) /\ StackOK(t, k) /\ x \in Libs /\ g \in Entries \cup {NoEntry}
  <2>1. LoadFrameOK(t, k) /\ StackOK(t, k) /\ frame[t][k] \in Frame
    BY <1>1, <1>2 DEF Stacks, LoadInv, StackType
  <2> QED BY <1>2, <2>1 DEF StackOK, Frame, LoadSteps, OnLoadSteps
<1>4. PICK s \in {"loaded", "failed"}, f \in Entries \cup {NoEntry} :
             /\ StackType' /\ MovedTo(t, s, f)
             /\ f = g
             /\ s = "loaded" => entry[g].result = "okay"
             /\ condWait' = [condWait EXCEPT ![g] = {}]
             /\ UNCHANGED <<class, slot, entry>>
  BY <1>1, <1>2, <1>3, MovedTop
  DEF Broadcast, At, Top, Moved, MovedTo, Steps, LoadSteps, OnLoadSteps, Answer
<1>5. TypeOK'
  BY <1>1, <1>3, <1>4 DEF TypeOK, StackType, class, lib, SharedLib, Unused
<1>6. Stacks'
  BY <1>1, <1>2, <1>3, <1>4, StackMovedTo
  DEF StackOK, UseSteps, InitSteps, WorkSteps, LoadSteps, OnLoadSteps
<1>7. ClassInv'
  BY <1>1, <1>2, <1>4, MovedToClasses DEF ClassSteps, InitSteps, WorkSteps
<1>8. ASSUME NEW u \in Threads, NEW d \in Levels
      PROVE  /\ u # t \/ d # k => frame'[u][d] = frame[u][d]
             /\ LoadFrameOK(u, d) /\ OwnPairOK(t, k, u, d) /\ OwnPairOK(u, d, t, k)
             /\ frame[u][d].e \in Entries \cup {NoEntry}
  BY <1>1, <1>2, <1>4 DEF MovedTo, Same, LoadInv, StackType, Frame
<1>9. frame'[t][k].at = s /\ frame'[t][k].e = f
  BY <1>4 DEF MovedTo
<1>10. \A l \in Libs : SlotOK(l) /\ slot[l] \in Entries \cup {NoEntry}
  BY <1>1 DEF LoadInv, TypeOK
<1>11. ASSUME NEW u \in Threads, NEW d \in Levels PROVE LoadFrameOK(u, d)'
  <2>1. CASE u # t \/ d # k
    <3>1. slot' = slot /\ entry' = entry
      BY <1>4 DEF lib
    <3> QED BY <1>8, <2>1, <3>1, LoadFrameStays
  <2>2. CASE u = t /\ d = k
    BY <1>1, <1>2, <1>3, <1>4, <1>9, <1>10, <2>2
    DEF LoadFrameOK, SlotOK, TypeOK, lib, Unused, Own, Private, Pending, OnLoadSteps
  <2> QED BY <2>1, <2>2
<1>12. ASSUME NEW u \in Threads, NEW v \in Threads, NEW d \in Levels, NEW j \in Levels
       PROVE  OwnPairOK(u, d, v, j)'
  <2>1. f = g /\ MovedTo(t, s, g)
    BY <1>4
  <2>2. /\ s \in Own => frame[t][k].at \in Own
        /\ s \in Private => frame[t][k].at \in Private
    BY <1>2 DEF Own, Private, OnLoadSteps
  <2> QED BY <1>1, <1>2, <2>1, <2>2, OwnPairsKept
<1>13. ASSUME NEW b \in Entries PROVE EntryOK(b)'
  <2>1. EntryOK(b) /\ entry' = entry
    BY <1>1, <1>4 DEF LoadInv
  <2>2. CASE b = g
    <3>1. entry[b].result # "pending"
      BY <1>2, <1>3, <2>2 DEF LoadFrameOK
    <3>2. condWait'[b] = {}
      BY <1>1, <1>4, <2>2 DEF TypeOK
    <3> QED BY <2>1, <3>1, <3>2 DEF EntryOK
  <2>3. CASE b # g
    <3>1. condWait'[b] = condWait[b]
      BY <1>1, <1>4, <2>3 DEF TypeOK
    <3>2. ASSUME NEW u \in Threads, NEW d \in Levels, frame[u][d].e = b
          PROVE  frame'[u][d] = frame[u][d]
      BY <1>8, <2>3, <3>2
    <3> QED BY <1>1, <2>1, <3>1, <3>2, OwnKept DEF EntryOK
  <2> QED BY <2>2, <2>3
<1>14. ASSUME NEW l \in Libs PROVE SlotOK(l)'
  BY <1>1, <1>2, <1>3, <1>4, <1>10
  DEF SlotOK, LoadFrameOK, TypeOK, lib, Unused, Own, Private, Pending, OnLoadSteps
<1> QED BY <1>5, <1>6, <1>7, <1>11, <1>12, <1>13, <1>14 DEF IInv, LoadInv

\* The invariant is kept when a load finds who is loading.
LEMMA CheckThreadInv ==
  ASSUME IInv, NEW t \in Threads, CheckThread(t)
  PROVE  IInv'
<1> USE NobodyAssumption, NameAssumption
<1> DEFINE k == depth[t]
<1> DEFINE g == frame[t][k].e
<1> DEFINE x == frame[t][k].x
<1>1. TypeOK /\ Stacks /\ ClassInv /\ LoadInv /\ StackType
  BY DEF IInv, TypeOK, StackType
<1>2. k \in Levels /\ k > 0 /\ frame[t][k].at = "check"
  BY <1>1 DEF CheckThread, At, Top, StackType, Levels
<1>3. LoadFrameOK(t, k) /\ StackOK(t, k) /\ x \in Libs /\ g \in Entries \cup {NoEntry}
  <2>1. LoadFrameOK(t, k) /\ StackOK(t, k) /\ frame[t][k] \in Frame
    BY <1>1, <1>2 DEF Stacks, LoadInv, StackType
  <2> QED BY <1>2, <2>1 DEF StackOK, Frame, LoadSteps, OnLoadSteps
<1>4. PICK s \in {"loaded", "test"}, f \in Entries \cup {NoEntry} :
             /\ StackType' /\ MovedTo(t, s, f)
             /\ f = g
             /\ s = "loaded" => entry[g].thread = t
             /\ s = "test" => entry[g].thread # t
             /\ UNCHANGED <<class, lib>>
  BY <1>1, <1>2, <1>3, MovedTop
  DEF CheckThread, At, Top, Moved, MovedTo, Steps, LoadSteps, OnLoadSteps
<1>5. TypeOK'
  BY <1>1, <1>3, <1>4 DEF TypeOK, StackType, class, lib, SharedLib, Unused
<1>6. Stacks'
  BY <1>1, <1>2, <1>3, <1>4, StackMovedTo
  DEF StackOK, UseSteps, InitSteps, WorkSteps, LoadSteps, OnLoadSteps
<1>7. ClassInv'
  BY <1>1, <1>2, <1>4, MovedToClasses DEF ClassSteps, InitSteps, WorkSteps
<1>8. ASSUME NEW u \in Threads, NEW d \in Levels
      PROVE  /\ u # t \/ d # k => frame'[u][d] = frame[u][d]
             /\ LoadFrameOK(u, d) /\ OwnPairOK(t, k, u, d) /\ OwnPairOK(u, d, t, k)
             /\ frame[u][d].e \in Entries \cup {NoEntry}
  BY <1>1, <1>2, <1>4 DEF MovedTo, Same, LoadInv, StackType, Frame
<1>9. frame'[t][k].at = s /\ frame'[t][k].e = f
  BY <1>4 DEF MovedTo
<1>10. \A l \in Libs : SlotOK(l) /\ slot[l] \in Entries \cup {NoEntry}
  BY <1>1 DEF LoadInv, TypeOK
<1>11. ASSUME NEW u \in Threads, NEW d \in Levels PROVE LoadFrameOK(u, d)'
  <2>1. CASE u # t \/ d # k
    <3>1. slot' = slot /\ entry' = entry
      BY <1>4 DEF lib
    <3> QED BY <1>8, <2>1, <3>1, LoadFrameStays
  <2>2. CASE u = t /\ d = k
    BY <1>1, <1>2, <1>3, <1>4, <1>9, <1>10, <2>2
    DEF LoadFrameOK, SlotOK, TypeOK, lib, Unused, Own, Private, Pending, OnLoadSteps
  <2> QED BY <2>1, <2>2
<1>12. ASSUME NEW u \in Threads, NEW v \in Threads, NEW d \in Levels, NEW j \in Levels
       PROVE  OwnPairOK(u, d, v, j)'
  <2>1. f = g /\ MovedTo(t, s, g)
    BY <1>4
  <2>2. /\ s \in Own => frame[t][k].at \in Own
        /\ s \in Private => frame[t][k].at \in Private
    BY <1>2 DEF Own, Private, OnLoadSteps
  <2> QED BY <1>1, <1>2, <2>1, <2>2, OwnPairsKept
<1>13. ASSUME NEW b \in Entries PROVE EntryOK(b)'
  <2>1. EntryOK(b)
    BY <1>1 DEF LoadInv
  <2>2. /\ entry[b].result = "pending" =>
             \E d \in Levels : /\ frame'[entry[b].thread][d].e = b
                               /\ frame'[entry[b].thread][d].at \in Pending
        /\ \A w \in condWait[b] : \E u \in Threads \ {w}, d \in Levels :
             frame'[u][d].e = b /\ frame'[u][d].at \in OnLoadSteps
    <3>1. ASSUME NEW u \in Threads, NEW d \in Levels
          PROVE  /\ frame[u][d].at \in Pending =>
                      frame'[u][d].e = frame[u][d].e /\ frame'[u][d].at \in Pending
                 /\ frame[u][d].at \in OnLoadSteps =>
                      frame'[u][d].e = frame[u][d].e /\ frame'[u][d].at \in OnLoadSteps
      <4>1. CASE u # t \/ d # k
        BY <1>8, <4>1
      <4>2. CASE u = t /\ d = k
        BY <1>2, <1>4, <1>9, <4>2 DEF Pending, Private, OnLoadSteps
      <4> QED BY <4>1, <4>2
    <3> QED BY <1>1, <3>1, OwnKept
  <2>3. entry' = entry /\ condWait' = condWait
    BY <1>4 DEF lib
  <2> QED BY <2>1, <2>2, <2>3 DEF EntryOK
<1>14. ASSUME NEW l \in Libs PROVE SlotOK(l)'
  BY <1>1, <1>2, <1>3, <1>4, <1>10
  DEF SlotOK, LoadFrameOK, TypeOK, lib, Unused, Own, Private, Pending, OnLoadSteps
<1> QED BY <1>5, <1>6, <1>7, <1>11, <1>12, <1>13, <1>14 DEF IInv, LoadInv

\* The invariant is kept when the result is looked at.
LEMMA CheckResultInv ==
  ASSUME IInv, NEW t \in Threads, CheckResult(t)
  PROVE  IInv'
<1> USE NobodyAssumption, NameAssumption
<1> DEFINE k == depth[t]
<1> DEFINE g == frame[t][k].e
<1> DEFINE x == frame[t][k].x
<1>1. TypeOK /\ Stacks /\ ClassInv /\ LoadInv /\ StackType
  BY DEF IInv, TypeOK, StackType
<1>2. k \in Levels /\ k > 0 /\ frame[t][k].at = "test"
  BY <1>1 DEF CheckResult, At, Top, StackType, Levels
<1>3. LoadFrameOK(t, k) /\ StackOK(t, k) /\ x \in Libs /\ g \in Entries \cup {NoEntry}
  <2>1. LoadFrameOK(t, k) /\ StackOK(t, k) /\ frame[t][k] \in Frame
    BY <1>1, <1>2 DEF Stacks, LoadInv, StackType
  <2> QED BY <1>2, <2>1 DEF StackOK, Frame, LoadSteps, OnLoadSteps
<1>4. PICK s \in {"asleep", "loaded", "failed"}, f \in Entries \cup {NoEntry} :
             /\ StackType' /\ MovedTo(t, s, f)
             /\ f = g
             /\ s = "loaded" => entry[g].result = "okay"
             /\ s = "asleep" => entry[g].result = "pending"
             /\ condWait' = IF s = "asleep" THEN [condWait EXCEPT ![g] = condWait[g] \cup {t}]
                                             ELSE condWait
             /\ UNCHANGED <<class, slot, entry>>
  BY <1>1, <1>2, <1>3, MovedTop
  DEF CheckResult, At, Top, Moved, MovedTo, Steps, LoadSteps, OnLoadSteps, Answer
<1>5. TypeOK'
  BY <1>1, <1>3, <1>4 DEF TypeOK, StackType, class, lib, SharedLib, Unused
<1>6. Stacks'
  BY <1>1, <1>2, <1>3, <1>4, StackMovedTo
  DEF StackOK, UseSteps, InitSteps, WorkSteps, LoadSteps, OnLoadSteps
<1>7. ClassInv'
  BY <1>1, <1>2, <1>4, MovedToClasses DEF ClassSteps, InitSteps, WorkSteps
<1>8. ASSUME NEW u \in Threads, NEW d \in Levels
      PROVE  /\ u # t \/ d # k => frame'[u][d] = frame[u][d]
             /\ LoadFrameOK(u, d) /\ OwnPairOK(t, k, u, d) /\ OwnPairOK(u, d, t, k)
             /\ frame[u][d].e \in Entries \cup {NoEntry}
  BY <1>1, <1>2, <1>4 DEF MovedTo, Same, LoadInv, StackType, Frame
<1>9. frame'[t][k].at = s /\ frame'[t][k].e = f
  BY <1>4 DEF MovedTo
<1>10. \A l \in Libs : SlotOK(l) /\ slot[l] \in Entries \cup {NoEntry}
  BY <1>1 DEF LoadInv, TypeOK
<1>11. ASSUME NEW u \in Threads, NEW d \in Levels PROVE LoadFrameOK(u, d)'
  <2>1. CASE u # t \/ d # k
    <3>1. slot' = slot /\ entry' = entry
      BY <1>4 DEF lib
    <3> QED BY <1>8, <2>1, <3>1, LoadFrameStays
  <2>2. CASE u = t /\ d = k
    BY <1>1, <1>2, <1>3, <1>4, <1>9, <1>10, <2>2
    DEF LoadFrameOK, SlotOK, TypeOK, lib, Unused, Own, Private, Pending, OnLoadSteps
  <2> QED BY <2>1, <2>2
<1>12. ASSUME NEW u \in Threads, NEW v \in Threads, NEW d \in Levels, NEW j \in Levels
       PROVE  OwnPairOK(u, d, v, j)'
  <2>1. f = g /\ MovedTo(t, s, g)
    BY <1>4
  <2>2. /\ s \in Own => frame[t][k].at \in Own
        /\ s \in Private => frame[t][k].at \in Private
    BY <1>2 DEF Own, Private, OnLoadSteps
  <2> QED BY <1>1, <1>2, <2>1, <2>2, OwnPairsKept
<1>13. ASSUME NEW b \in Entries PROVE EntryOK(b)'
  <2>1. EntryOK(b) /\ entry' = entry
    BY <1>1, <1>4 DEF LoadInv
  <2>2. /\ entry[b].result = "pending" =>
             \E d \in Levels : /\ frame'[entry[b].thread][d].e = b
                               /\ frame'[entry[b].thread][d].at \in Pending
        /\ \A w \in condWait[b] : \E u \in Threads \ {w}, d \in Levels :
             frame'[u][d].e = b /\ frame'[u][d].at \in OnLoadSteps
    <3>1. ASSUME NEW u \in Threads, NEW d \in Levels
          PROVE  /\ frame[u][d].at \in Pending =>
                      frame'[u][d].e = frame[u][d].e /\ frame'[u][d].at \in Pending
                 /\ frame[u][d].at \in OnLoadSteps =>
                      frame'[u][d].e = frame[u][d].e /\ frame'[u][d].at \in OnLoadSteps
      <4>1. CASE u # t \/ d # k
        BY <1>8, <4>1
      <4>2. CASE u = t /\ d = k
        BY <1>2, <1>4, <1>9, <4>2 DEF Pending, Private, OnLoadSteps
      <4> QED BY <4>1, <4>2
    <3> QED BY <1>1, <3>1, OwnKept
  <2>3. ASSUME NEW w \in condWait'[b]
        PROVE  \E u \in Threads \ {w}, d \in Levels :
                 frame'[u][d].e = b /\ frame'[u][d].at \in OnLoadSteps
    <3>1. CASE w \in condWait[b]
      BY <2>2, <3>1
    <3>2. CASE w \notin condWait[b]
      <4>1. w = t /\ b = g /\ entry[b].result = "pending"
        BY <1>1, <1>4, <2>3, <3>2 DEF TypeOK
      <4>2. PICK u \in Threads, d \in Levels :
              u = entry[b].thread /\ frame[u][d].e = b /\ frame[u][d].at \in Pending
        BY <2>1, <4>1 DEF EntryOK
      <4>3. u # t
        BY <1>2, <1>3, <4>1, <4>2 DEF LoadFrameOK
      <4>4. frame[u][d].at \notin Private
        BY <1>8, <4>1, <4>2, <4>3 DEF OwnPairOK
      <4>5. frame'[u][d].e = b /\ frame'[u][d].at \in OnLoadSteps
        BY <1>8, <4>2, <4>3, <4>4 DEF Pending, Private, OnLoadSteps
      <4> QED BY <4>1, <4>3, <4>5
    <3> QED BY <3>1, <3>2
  <2> QED BY <2>1, <2>2, <2>3 DEF EntryOK
<1>14. ASSUME NEW l \in Libs PROVE SlotOK(l)'
  BY <1>1, <1>2, <1>3, <1>4, <1>10
  DEF SlotOK, LoadFrameOK, TypeOK, lib, Unused, Own, Private, Pending, OnLoadSteps
<1> QED BY <1>5, <1>6, <1>7, <1>11, <1>12, <1>13, <1>14 DEF IInv, LoadInv

\* The invariant is kept when a thread wakes up to look again.
LEMMA CheckAgainInv ==
  ASSUME IInv, NEW t \in Threads, CheckAgain(t)
  PROVE  IInv'
<1> USE NobodyAssumption, NameAssumption
<1> DEFINE k == depth[t]
<1> DEFINE g == frame[t][k].e
<1> DEFINE x == frame[t][k].x
<1>1. TypeOK /\ Stacks /\ ClassInv /\ LoadInv /\ StackType
  BY DEF IInv, TypeOK, StackType
<1>2. k \in Levels /\ k > 0 /\ frame[t][k].at = "asleep"
  BY <1>1 DEF CheckAgain, At, Top, StackType, Levels
<1>3. LoadFrameOK(t, k) /\ StackOK(t, k) /\ x \in Libs /\ g \in Entries \cup {NoEntry}
  <2>1. LoadFrameOK(t, k) /\ StackOK(t, k) /\ frame[t][k] \in Frame
    BY <1>1, <1>2 DEF Stacks, LoadInv, StackType
  <2> QED BY <1>2, <2>1 DEF StackOK, Frame, LoadSteps, OnLoadSteps
<1>4. PICK s \in {"test"}, f \in Entries \cup {NoEntry} :
             /\ StackType' /\ MovedTo(t, s, f)
             /\ f = g
             /\ UNCHANGED <<class, lib>>
  BY <1>1, <1>2, <1>3, MovedTop
  DEF CheckAgain, At, Top, Moved, MovedTo, Steps, LoadSteps, OnLoadSteps
<1>5. TypeOK'
  BY <1>1, <1>3, <1>4 DEF TypeOK, StackType, class, lib, SharedLib, Unused
<1>6. Stacks'
  BY <1>1, <1>2, <1>3, <1>4, StackMovedTo
  DEF StackOK, UseSteps, InitSteps, WorkSteps, LoadSteps, OnLoadSteps
<1>7. ClassInv'
  BY <1>1, <1>2, <1>4, MovedToClasses DEF ClassSteps, InitSteps, WorkSteps
<1>8. ASSUME NEW u \in Threads, NEW d \in Levels
      PROVE  /\ u # t \/ d # k => frame'[u][d] = frame[u][d]
             /\ LoadFrameOK(u, d) /\ OwnPairOK(t, k, u, d) /\ OwnPairOK(u, d, t, k)
             /\ frame[u][d].e \in Entries \cup {NoEntry}
  BY <1>1, <1>2, <1>4 DEF MovedTo, Same, LoadInv, StackType, Frame
<1>9. frame'[t][k].at = s /\ frame'[t][k].e = f
  BY <1>4 DEF MovedTo
<1>10. \A l \in Libs : SlotOK(l) /\ slot[l] \in Entries \cup {NoEntry}
  BY <1>1 DEF LoadInv, TypeOK
<1>11. ASSUME NEW u \in Threads, NEW d \in Levels PROVE LoadFrameOK(u, d)'
  <2>1. CASE u # t \/ d # k
    <3>1. slot' = slot /\ entry' = entry
      BY <1>4 DEF lib
    <3> QED BY <1>8, <2>1, <3>1, LoadFrameStays
  <2>2. CASE u = t /\ d = k
    BY <1>1, <1>2, <1>3, <1>4, <1>9, <1>10, <2>2
    DEF LoadFrameOK, SlotOK, TypeOK, lib, Unused, Own, Private, Pending, OnLoadSteps
  <2> QED BY <2>1, <2>2
<1>12. ASSUME NEW u \in Threads, NEW v \in Threads, NEW d \in Levels, NEW j \in Levels
       PROVE  OwnPairOK(u, d, v, j)'
  <2>1. f = g /\ MovedTo(t, s, g)
    BY <1>4
  <2>2. /\ s \in Own => frame[t][k].at \in Own
        /\ s \in Private => frame[t][k].at \in Private
    BY <1>2 DEF Own, Private, OnLoadSteps
  <2> QED BY <1>1, <1>2, <2>1, <2>2, OwnPairsKept
<1>13. ASSUME NEW b \in Entries PROVE EntryOK(b)'
  <2>1. EntryOK(b)
    BY <1>1 DEF LoadInv
  <2>2. /\ entry[b].result = "pending" =>
             \E d \in Levels : /\ frame'[entry[b].thread][d].e = b
                               /\ frame'[entry[b].thread][d].at \in Pending
        /\ \A w \in condWait[b] : \E u \in Threads \ {w}, d \in Levels :
             frame'[u][d].e = b /\ frame'[u][d].at \in OnLoadSteps
    <3>1. ASSUME NEW u \in Threads, NEW d \in Levels
          PROVE  /\ frame[u][d].at \in Pending =>
                      frame'[u][d].e = frame[u][d].e /\ frame'[u][d].at \in Pending
                 /\ frame[u][d].at \in OnLoadSteps =>
                      frame'[u][d].e = frame[u][d].e /\ frame'[u][d].at \in OnLoadSteps
      <4>1. CASE u # t \/ d # k
        BY <1>8, <4>1
      <4>2. CASE u = t /\ d = k
        BY <1>2, <1>4, <1>9, <4>2 DEF Pending, Private, OnLoadSteps
      <4> QED BY <4>1, <4>2
    <3> QED BY <1>1, <3>1, OwnKept
  <2> QED
    BY <1>1, <1>2, <1>3, <1>4, <2>1, <2>2
    DEF EntryOK, LoadFrameOK, TypeOK, lib, Own, Private, Pending, OnLoadSteps
<1>14. ASSUME NEW l \in Libs PROVE SlotOK(l)'
  BY <1>1, <1>2, <1>3, <1>4, <1>10
  DEF SlotOK, LoadFrameOK, TypeOK, lib, Unused, Own, Private, Pending, OnLoadSteps
<1> QED BY <1>5, <1>6, <1>7, <1>11, <1>12, <1>13, <1>14 DEF IInv, LoadInv

(***************************************************************************)
(* The theorems.                                                           *)
(***************************************************************************)
\* The invariant holds at the start.
LEMMA InitHolds ==
  ASSUME Init
  PROVE  IInv
<1> USE NobodyAssumption, NameAssumption, DepthAssumption
<1>1. NoFrame \in Frame /\ Unused \in SharedLib
  BY DEF NoFrame, Frame, Steps, Unused, SharedLib
<1>2. TypeOK
  BY <1>1 DEF Init, TypeOK, Statuses
<1>3. \A t \in Threads, d \in Levels : frame[t][d] = NoFrame /\ depth[t] = 0 /\ d > 0
  BY DEF Init, Levels
<1>4. Stacks
  <2>1. ASSUME NEW t \in Threads, NEW d \in Levels PROVE StackOK(t, d)
    <3>1. frame[t][d] = NoFrame /\ d > 0 /\ depth[t] = 0 /\ d \in Nat
      BY <1>3 DEF Levels
    <3>2. ~(d <= depth[t]) /\ ~(d < depth[t])
      BY <3>1
    <3>3. frame[t][d].at = "none" /\ ~frame[t][d].sub
      BY <3>1 DEF NoFrame
    <3> QED BY <3>1, <3>2, <3>3 DEF StackOK, UseSteps, InitSteps, WorkSteps, LoadSteps,
               OnLoadSteps
  <2> QED BY <2>1 DEF Stacks
<1>5. ClassInv
  <2>1. ASSUME NEW t \in Threads, NEW d \in Levels PROVE ClassFrameOK(t, d)
    BY <1>3 DEF ClassFrameOK, NoFrame, MonSteps, Active
  <2>2. ASSUME NEW t \in Threads, NEW u \in Threads, NEW d \in Levels, NEW k \in Levels
        PROVE  WorkPairOK(t, d, u, k)
    BY <1>3 DEF WorkPairOK, NoFrame, Active
  <2>3. ASSUME NEW c \in Classes PROVE ClassOK(c)
    BY DEF Init, ClassOK
  <2> QED BY <2>1, <2>2, <2>3 DEF ClassInv
<1>6. LoadInv
  <2>1. ASSUME NEW t \in Threads, NEW d \in Levels PROVE LoadFrameOK(t, d)
    BY <1>3 DEF LoadFrameOK, NoFrame, Own, Pending, Private, OnLoadSteps
  <2>2. ASSUME NEW t \in Threads, NEW u \in Threads, NEW d \in Levels, NEW k \in Levels
        PROVE  OwnPairOK(t, d, u, k)
    BY <1>3 DEF OwnPairOK, NoFrame, Own, Private, OnLoadSteps
  <2>3. ASSUME NEW e \in Entries PROVE EntryOK(e)
    BY DEF Init, EntryOK, Unused
  <2>4. ASSUME NEW l \in Libs PROVE SlotOK(l)
    BY DEF Init, SlotOK
  <2> QED BY <2>1, <2>2, <2>3, <2>4 DEF LoadInv
<1> QED BY <1>2, <1>4, <1>5, <1>6 DEF IInv

\* Every step keeps the invariant.
LEMMA StepInv ==
  ASSUME IInv, [Next]_vars
  PROVE  IInv'
<1>1. CASE UNCHANGED vars
  <2>1. /\ status' = status /\ initThread' = initThread /\ owner' = owner
        /\ waitSet' = waitSet /\ resolved' = resolved /\ slot' = slot /\ entry' = entry
        /\ condWait' = condWait /\ frame' = frame /\ depth' = depth
    BY <1>1 DEF vars, class, lib, stack
  <2>2. TypeOK' /\ Stacks'
    BY <2>1 DEF IInv, TypeOK, Stacks, StackOK
  <2>3. ClassInv'
    BY <2>1 DEF IInv, ClassInv, ClassFrameOK, WorkPairOK, ClassOK, Ready, SuperOK
  <2>4. LoadInv'
    BY <2>1 DEF IInv, LoadInv, LoadFrameOK, OwnPairOK, EntryOK, SlotOK
  <2> QED BY <2>2, <2>3, <2>4 DEF IInv
<1>2. ASSUME NEW t \in Threads, Code(t) PROVE IInv'
  BY <1>2, UseFieldInv, LoadLibraryInv, ClinitEndsInv, OnLoadReturnsInv, WaitEndsInv DEF Code
<1>3. ASSUME NEW t \in Threads, InitClass(t) PROVE IInv'
  BY <1>3, ResolveInv, CacheInv, LeaveInv, VerifyInv, LoopInv, WakesInv, WokenInv, BeginInv,
     SuperReadyInv, InitSuperInv, SuperFailedInv, LockToNotifyInv, FinishInv, NotifyAllInv,
     UnlockInv, ReturnInv DEF InitClass
<1>4. ASSUME NEW t \in Threads, LoadNativeCode(t) PROVE IInv'
  BY <1>4, FindInv, DlopenInv, ProbeInv, StoreInv, StoreResultInv, ClearThreadInv,
     BroadcastInv, CheckThreadInv, CheckResultInv, CheckAgainInv, LeaveInv
  DEF LoadNativeCode
<1> QED BY <1>1, <1>2, <1>3, <1>4 DEF Next

\* The inductive invariant holds in every behaviour of dvmInitClass() and
\* dvmLoadNativeCode().
THEOREM Invariance == Spec => []IInv
<1>1. Init => IInv
  BY InitHolds
<1>2. IInv /\ [Next]_vars => IInv'
  BY StepInv
<1> QED BY <1>1, <1>2, PTL DEF Spec

\* Every field holds a value of its kind.
THEOREM TypeCorrect == Spec => []TypeOK
<1>1. IInv => TypeOK
  BY DEF IInv
<1> QED BY <1>1, Invariance, PTL

\* Nobody gets at a static field before its class is ready, save the thread that is
\* initializing it (dvmResolveStaticField, dvmInitClass).
THEOREM UsedWhenReady == Spec => []UseInitialized
<1>1. IInv => UseInitialized
  <2> SUFFICES ASSUME IInv, NEW t \in Threads, At(t, "used")
               PROVE  Ready(t, Top(t).x)
    BY DEF UseInitialized, Ready
  <2>1. depth[t] \in Levels /\ frame[t][depth[t]].at = "used"
    BY DepthAssumption DEF At, Top, IInv, TypeOK, Levels
  <2>2. ClassFrameOK(t, depth[t])
    BY <2>1 DEF IInv, ClassInv
  <2> QED BY <2>1, <2>2 DEF ClassFrameOK, Top
<1> QED BY <1>1, Invariance, PTL

\* A class is ready only when its superclass is, or when the superclass was being
\* initialized by the same thread (dvmInitClass).
THEOREM SuperclassFirst == Spec => []SuperFirst
<1>1. IInv => SuperFirst
  BY DEF IInv, ClassInv, ClassOK, SuperOK, SuperFirst
<1> QED BY <1>1, Invariance, PTL

\* Whoever sleeps waits for a thread that has the work on its stack and will wake it
\* (dvmInitClass, checkOnLoadResult).
THEOREM SleepersHaveWorkers == Spec => []SomebodyWorks
<1>1. IInv => SomebodyWorks
  <2> SUFFICES ASSUME IInv, NEW t \in Threads
               PROVE  /\ At(t, "waiting") /\ t \in waitSet[Top(t).x] =>
                           \E u \in Threads \ {t}, d \in Levels :
                             frame[u][d].x = Top(t).x /\ frame[u][d].at \in WorkSteps
                      /\ At(t, "asleep") /\ t \in condWait[Top(t).e] =>
                           \E u \in Threads \ {t}, d \in Levels :
                             frame[u][d].e = Top(t).e /\ frame[u][d].at \in OnLoadSteps
    BY DEF SomebodyWorks
  <2>1. ASSUME At(t, "waiting"), t \in waitSet[Top(t).x]
        PROVE  \E u \in Threads \ {t}, d \in Levels :
                 frame[u][d].x = Top(t).x /\ frame[u][d].at \in WorkSteps
    <3>1. depth[t] \in Levels /\ frame[t][depth[t]].at = "waiting"
      BY <2>1, DepthAssumption DEF At, Top, IInv, TypeOK, Levels
    <3>2. Top(t).x \in Classes
      BY <3>1 DEF IInv, Stacks, StackOK, InitSteps, Top
    <3>3. ClassOK(Top(t).x)
      BY <3>2 DEF IInv, ClassInv
    <3> QED BY <2>1, <3>3 DEF ClassOK
  <2>2. ASSUME At(t, "asleep"), t \in condWait[Top(t).e]
        PROVE  \E u \in Threads \ {t}, d \in Levels :
                 frame[u][d].e = Top(t).e /\ frame[u][d].at \in OnLoadSteps
    <3>1. depth[t] \in Levels /\ frame[t][depth[t]].at = "asleep"
      BY <2>2, DepthAssumption DEF At, Top, IInv, TypeOK, Levels
    <3>2. Top(t).e \in Entries
      <4>1. frame[t][depth[t]] \in Frame /\ LoadFrameOK(t, depth[t])
        BY <3>1 DEF IInv, TypeOK, LoadInv
      <4> QED BY <3>1, <4>1 DEF LoadFrameOK, Frame, Top
    <3>3. EntryOK(Top(t).e)
      BY <3>2 DEF IInv, LoadInv
    <3> QED BY <2>2, <3>3 DEF EntryOK
  <2> QED BY <2>1, <2>2
<1> QED BY <1>1, Invariance, PTL

\* A load that succeeds found a library whose JNI_OnLoad() has succeeded, or was made by
\* that JNI_OnLoad() itself (dvmLoadNativeCode, checkOnLoadResult).
THEOREM LoadedWhenReady == Spec => []LoadedReady
<1>1. IInv => LoadedReady
  <2> SUFFICES ASSUME IInv, NEW t \in Threads, At(t, "loaded")
               PROVE  entry[Top(t).e].result = "okay" \/ entry[Top(t).e].thread = t
    BY DEF LoadedReady
  <2>1. depth[t] \in Levels /\ frame[t][depth[t]].at = "loaded"
    BY DepthAssumption DEF At, Top, IInv, TypeOK, Levels
  <2>2. LoadFrameOK(t, depth[t])
    BY <2>1 DEF IInv, LoadInv
  <2> QED BY <2>1, <2>2 DEF LoadFrameOK, Top
<1> QED BY <1>1, Invariance, PTL

StatusStable == \A c \in Classes : status[c] \in Final => status'[c] = status[c]
ResultStable ==
  \A e \in Entries : entry[e].result \in {"okay", "failed"} =>
    entry'[e].result = entry[e].result

\* Steps that store a status or a SharedLib store no decided one.
LEMMA StepDecides ==
  ASSUME IInv, NEW t \in Threads, Code(t) \/ InitClass(t) \/ LoadNativeCode(t)
  PROVE  StatusStable /\ ResultStable
<1> DEFINE k == depth[t]
<1>1. TypeOK
  BY DEF IInv
<1>2. ASSUME depth[t] > 0
      PROVE  k \in Levels /\ ClassFrameOK(t, k) /\ LoadFrameOK(t, k) /\ frame[t][k] \in Frame
  <2>1. k \in Levels
    BY <1>1, <1>2, DepthAssumption DEF TypeOK, Levels
  <2> QED BY <1>1, <2>1 DEF TypeOK, IInv, ClassInv, LoadInv
<1>3. CASE class' = class /\ lib' = lib
  BY <1>3 DEF StatusStable, ResultStable, class, lib
<1>4. CASE WaitEnds(t) \/ Cache(t) \/ Loop(t) \/ Wakes(t) \/ LockToNotify(t) \/ NotifyAll(t)
           \/ Unlock(t)
  <2>1. status' = status /\ lib' = lib
    BY <1>4 DEF WaitEnds, Cache, Loop, Wakes, LockToNotify, NotifyAll, Unlock
  <2> QED BY <2>1 DEF StatusStable, ResultStable, lib
<1>5. CASE Verify(t)
  <2>1. lib' = lib /\ \A c \in Classes : status[c] \in Final => status'[c] = status[c]
    BY <1>1, <1>5 DEF Verify, TypeOK, Final
  <2> QED BY <2>1 DEF StatusStable, ResultStable, lib
<1>6. CASE Begin(t)
  <2>1. k > 0 /\ frame[t][k].at = "begin" /\ lib' = lib
    BY <1>6 DEF Begin, At, Top
  <2>2. status[frame[t][k].x] \in {"verified", "error"}
    BY <1>2, <2>1 DEF ClassFrameOK
  <2>3. \A c \in Classes : status[c] \in Final => status'[c] = status[c]
    <3>1. ASSUME NEW c \in Classes, status[c] \in Final PROVE status'[c] = status[c]
      BY <1>1, <2>2, <3>1, <1>6 DEF TypeOK, Final, Begin, Top
    <3> QED BY <3>1
  <2> QED BY <2>1, <2>3 DEF StatusStable, ResultStable, lib
<1>7. CASE SuperFailed(t) \/ Finish(t)
  <2>1. k > 0 /\ frame[t][k].at \in {"superfailed", "done", "thrown"} /\ lib' = lib
    BY <1>7 DEF SuperFailed, Finish, At, Top
  <2>2. status[frame[t][k].x] = "initializing"
    BY <1>2, <2>1 DEF ClassFrameOK, Active
  <2>3. \A c \in Classes : c # frame[t][k].x => status'[c] = status[c]
    BY <1>1, <1>7 DEF SuperFailed, Finish, TypeOK, Top
  <2> QED BY <2>1, <2>2, <2>3 DEF StatusStable, ResultStable, Final, lib
<1>8. CASE Store(t) \/ Broadcast(t) \/ CheckResult(t)
  <2>1. class' = class /\ entry' = entry
    BY <1>8 DEF Store, Broadcast, CheckResult
  <2> QED BY <2>1 DEF StatusStable, ResultStable, class
<1>9. CASE Dlopen(t)
  <2>1. \A e \in Entries : entry'[e] = entry[e] \/ entry[e] = Unused
    BY <1>1, <1>9 DEF Dlopen, TypeOK
  <2>2. class' = class
    BY <1>9 DEF Dlopen
  <2> QED BY <2>1, <2>2 DEF StatusStable, ResultStable, class, Unused
<1>10. CASE Probe(t) \/ StoreResult(t)
  <2>1. k > 0 /\ frame[t][k].at \in {"probe", "okay", "bad"} /\ class' = class
    BY <1>10 DEF Probe, StoreResult, At, Top
  <2>2. entry[frame[t][k].e].result = "pending"
    BY <1>2, <2>1 DEF LoadFrameOK, Pending, Private
  <2>3. \A e \in Entries : e # frame[t][k].e => entry'[e] = entry[e]
    BY <1>1, <1>10 DEF Probe, StoreResult, TypeOK, Top
  <2> QED BY <2>1, <2>2, <2>3 DEF StatusStable, ResultStable, class
<1>11. CASE ClearThread(t)
  <2>1. class' = class
    BY <1>11 DEF ClearThread
  <2>2. \A e \in Entries : entry'[e].result = entry[e].result
    BY <1>1, <1>11 DEF ClearThread, TypeOK, SharedLib
  <2> QED BY <2>1, <2>2 DEF StatusStable, ResultStable, class
<1>12. CASE \/ \E c \in Classes : UseField(t, c)
            \/ \E l \in Libs, ld \in Loaders : LoadLibrary(t, l, ld)
            \/ ClinitEnds(t) \/ OnLoadReturns(t) \/ Resolve(t) \/ Used(t) \/ Woken(t)
            \/ SuperReady(t) \/ InitSuper(t) \/ Return(t) \/ Find(t) \/ CheckThread(t)
            \/ CheckAgain(t) \/ LoadReturns(t)
  <2>1. class' = class /\ lib' = lib
    BY <1>12 DEF UseField, LoadLibrary, ClinitEnds, OnLoadReturns, Resolve, Used, Woken,
       SuperReady, InitSuper, Return, Find, CheckThread, CheckAgain, LoadReturns
  <2> QED BY <1>3, <2>1
<1> QED BY <1>4, <1>5, <1>6, <1>7, <1>8, <1>9, <1>10, <1>11, <1>12
        DEF Code, InitClass, LoadNativeCode

\* All threads see one outcome: a class that is ready or in error, and the result of a
\* JNI_OnLoad(), do not change any more (dvmInitClass, dvmLoadNativeCode).
THEOREM OutcomesStay == Spec => Decided
<1>1. IInv /\ [Next]_vars => [StatusStable /\ ResultStable]_vars
  BY StepDecides DEF Next
<1> QED BY <1>1, Invariance, PTL DEF Spec, Decided, StatusStable, ResultStable
=============================================================================
