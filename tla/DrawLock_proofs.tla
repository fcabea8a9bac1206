-------------------------- MODULE DrawLock_proofs --------------------------
(***************************************************************************)
(* Proofs about DrawLock, for any number of binder threads: what the       *)
(* threads leave for each other between hwc_prepare and hwc_set, and       *)
(* between the uevent thread's test of connected and its use.              *)
(***************************************************************************)
EXTENDS DrawLock, TLAPS

Inv == TypeOK /\ LockInv

LEMMA DpyFacts == EXTERNAL # VIRTUAL /\ EXTERNAL \in Dpy /\ VIRTUAL \in Dpy
  BY DEF EXTERNAL, VIRTUAL, Dpy

\* The client threads' steps leave the uevent thread where it is.
LEMMA ClientIsNotUevent ==
  ASSUME NEW c \in Client PROVE c \in Thread /\ c # Uevent
  BY DrawLockAssumption DEF Thread

\* A waiter that is woken stays a thread with a label.
LEMMA WokenLabel ==
  ASSUME NEW w \in Waiting
  PROVE  Woken[w] \in Label /\ Woken[w] \in {"onlineWoken", "pauseWoken", "resumeWoken"}
                            /\ (Woken[w] = "onlineWoken" => w = "onlineWait")
  BY DEF Waiting, Woken, Label

THEOREM InitInv == Init => Inv
<1> SUFFICES ASSUME Init PROVE Inv
  OBVIOUS
<1> USE DpyFacts
<1>1. TypeOK
  <2>1. "idle" \in Label
    BY DEF Label
  <2>2. pc \in [Thread -> Label] /\ target \in [Client -> Dpy]
    BY <2>1 DEF Init
  <2>3. resources \in [Dpy -> 0 .. MaxResources]
    BY DEF Init, MaxResources
  <2>4. fd \in [Dpy -> {"none", "open", "stale"}]
    BY DEF Init
  <2>5. /\ connected \in [Dpy -> BOOLEAN] /\ isActive \in [Dpy -> BOOLEAN]
        /\ isPause \in [Dpy -> BOOLEAN] /\ isConfiguring \in [Dpy -> BOOLEAN]
    BY DEF Init
  <2> QED BY <2>2, <2>3, <2>4, <2>5 DEF Init, TypeOK
<1>2. OneSetOfResources /\ DrawsWhatIsPrepared
  BY DEF Init, OneSetOfResources, DrawsWhatIsPrepared
<1>3. UeventKnows /\ WritebackClosed
  BY DEF Init, UeventKnows, WritebackClosed, Composed, Connecting, At, Thread
<1> QED BY <1>1, <1>2, <1>3 DEF Inv, LockInv

\* hwc_prepare: the displays it draws are connected, active and not paused.
LEMMA PrepareInv == Inv /\ Prepare => Inv'
<1> SUFFICES ASSUME Inv, Prepare PROVE Inv'
  OBVIOUS
<1> USE DpyFacts
<1>0. TypeOK /\ OneSetOfResources /\ UeventKnows /\ WritebackClosed
  BY DEF Inv, LockInv
<1>1. PICK given \in SUBSET lists, video \in BOOLEAN :
        LET joins == Joins(given)
            wb    == VIRTUAL \in given \/ (video /\ AssertiveDoable(given))
        IN  /\ connected' = [connected EXCEPT ![VIRTUAL] =
                               (@ \/ joins) /\ ~Leaves]
            /\ isPause' = [isPause EXCEPT ![VIRTUAL] = @ /\ ~joins /\ ~Leaves]
            /\ isConfiguring' = [d \in Dpy |->
                                   isConfiguring[d] /\ d \notin Drawn(given)]
            /\ resources' = [resources EXCEPT ![VIRTUAL] =
                               IF joins THEN Created(@)
                               ELSE IF Leaves THEN Destroyed(@) ELSE @]
            /\ fb2' = wb
            /\ fd' = [fd EXCEPT ![VIRTUAL] =
                        IF VIRTUAL \in Drawn(given) THEN "open"
                        ELSE IF ~wb /\ @ = "open" THEN "stale" ELSE @]
            /\ staged' = Drawn(given)
  BY DEF Prepare
<1>2. /\ drawing' = TRUE /\ invalidated' = FALSE
      /\ UNCHANGED <<lists, target, isActive>>
      /\ pc' = IF Leaves /\ At(Uevent, "wfdWait")
                 THEN [pc EXCEPT ![Uevent] = "configure"] ELSE pc
  BY DEF Prepare
<1>3. given \subseteq Dpy /\ Drawn(given) \subseteq Dpy
  BY <1>0 DEF TypeOK, Drawn
<1>4. /\ (connected'[EXTERNAL] <=> connected[EXTERNAL])
      /\ (isPause'[EXTERNAL] <=> isPause[EXTERNAL])
      /\ resources'[EXTERNAL] = resources[EXTERNAL]
      /\ fd'[EXTERNAL] = fd[EXTERNAL]
  BY <1>0, <1>1 DEF TypeOK
<1>5. /\ connected'[VIRTUAL] <=> (connected[VIRTUAL] \/ Joins(given)) /\ ~Leaves
      /\ isPause'[VIRTUAL] <=> isPause[VIRTUAL] /\ ~Joins(given) /\ ~Leaves
  BY <1>0, <1>1 DEF TypeOK
<1>6. resources'[VIRTUAL] = IF connected'[VIRTUAL] THEN 1 ELSE 0
  <2>1. resources[VIRTUAL] = IF connected[VIRTUAL] THEN 1 ELSE 0
    BY <1>0 DEF OneSetOfResources
  <2>2. resources'[VIRTUAL] = IF Joins(given) THEN Created(resources[VIRTUAL])
                              ELSE IF Leaves THEN Destroyed(resources[VIRTUAL])
                              ELSE resources[VIRTUAL]
    BY <1>0, <1>1 DEF TypeOK
  <2>3. CASE Joins(given)
    BY <1>5, <2>1, <2>2, <2>3, <1>0
       DEF Joins, Leaves, Created, MaxResources, TypeOK
  <2>4. CASE ~Joins(given) /\ Leaves
    BY <1>5, <2>1, <2>2, <2>4, <1>0 DEF Leaves, Destroyed, TypeOK
  <2>5. CASE ~Joins(given) /\ ~Leaves
    BY <1>5, <2>1, <2>2, <2>5, <1>0 DEF TypeOK
  <2> QED BY <2>3, <2>4, <2>5
<1>7. TypeOK'
  <2>1. pc' \in [Thread -> Label]
    BY <1>0, <1>2 DEF TypeOK, Label, Thread
  <2>2. /\ connected' \in [Dpy -> BOOLEAN] /\ isActive' \in [Dpy -> BOOLEAN]
        /\ isPause' \in [Dpy -> BOOLEAN] /\ isConfiguring' \in [Dpy -> BOOLEAN]
    BY <1>0, <1>1, <1>2 DEF TypeOK
  <2>3. fd' \in [Dpy -> {"none", "open", "stale"}]
    BY <1>0, <1>1 DEF TypeOK
  <2>4. resources' \in [Dpy -> 0 .. MaxResources]
    BY <1>0, <1>1 DEF TypeOK, Created, Destroyed, MaxResources
  <2>5. fb2' \in BOOLEAN
    BY <1>1 DEF AssertiveDoable
  <2> QED BY <1>0, <1>1, <1>2, <1>3, <2>1, <2>2, <2>3, <2>4, <2>5 DEF TypeOK
<1>8. OneSetOfResources'
  BY <1>0, <1>4, <1>6 DEF OneSetOfResources, Dpy
<1>9. DrawsWhatIsPrepared'
  <2> SUFFICES ASSUME NEW d \in Drawn(given)
               PROVE  SetDraws(d)' /\ resources'[d] > 0 /\ fd'[d] = "open"
    BY <1>1 DEF DrawsWhatIsPrepared
  <2>1. CASE d = EXTERNAL
    <3>1. /\ isActive[d] /\ connected[d] /\ ~isPause[d] /\ d \in lists
      BY <2>1 DEF Drawn
    <3> QED BY <1>0, <1>2, <1>4, <2>1, <3>1
               DEF SetDraws, OneSetOfResources, UeventKnows
  <2>2. CASE d = VIRTUAL
    <3>1. VIRTUAL \in lists /\ (Joins(given) \/ ~isPause[VIRTUAL])
      BY <2>2 DEF Drawn
    <3>2. connected'[VIRTUAL] /\ ~isPause'[VIRTUAL]
      BY <1>5, <2>2, <3>1 DEF Joins, Leaves, Drawn
    <3>3. fd'[VIRTUAL] = "open"
      BY <1>0, <1>1, <2>2 DEF TypeOK
    <3> QED BY <1>6, <2>2, <3>2, <3>3 DEF SetDraws
  <2> QED BY <1>3, <2>1, <2>2 DEF Dpy
<1>10. UeventKnows'
  <2>1. Connecting' => Connecting
    BY <1>0, <1>2 DEF Connecting, TypeOK, At, Thread
  <2>2. isConfiguring[EXTERNAL] /\ ~connected[EXTERNAL] => isConfiguring'[EXTERNAL]
    BY <1>1 DEF Drawn
  <2>3. \A l \in {"offline", "online", "onlineWait", "unplug"} :
          At(Uevent, l)' => At(Uevent, l)
    BY <1>0, <1>2 DEF TypeOK, At, Thread
  <2> QED BY <1>0, <1>4, <2>1, <2>2, <2>3 DEF UeventKnows
<1>11. WritebackClosed'
  <2> SUFFICES ASSUME FewPipes, Composed', fb2' PROVE connected'[VIRTUAL]
    BY DEF WritebackClosed
  <2>1. Connecting
    BY <1>0, <1>2 DEF Composed, Connecting, TypeOK, At, Thread
  <2>2. ~AssertiveDoable(given)
    BY <1>0, <2>1 DEF AssertiveDoable, isSecondaryConfiguring, UeventKnows, Drawn
  <2>3. VIRTUAL \in given /\ VIRTUAL \in lists
    BY <1>1, <2>2
  <2> QED BY <1>5, <2>3 DEF Joins, Leaves
<1> QED BY <1>7, <1>8, <1>9, <1>10, <1>11 DEF Inv, LockInv

\* hwc_set: a waiter that is woken finds the display as it left it.
LEMMA SetInv == Inv /\ Set => Inv'
<1> SUFFICES ASSUME Inv, Set PROVE Inv'
  OBVIOUS
<1> USE DpyFacts
<1>0. TypeOK /\ OneSetOfResources /\ UeventKnows /\ WritebackClosed
  BY DEF Inv, LockInv
<1>1. /\ drawing /\ drawing' = FALSE
      /\ UNCHANGED <<lists, invalidated, target, attr, staged, fb2>>
  BY DEF Set
<1>2. \/ pc' = pc
      \/ \E t \in Waiters : pc' = [pc EXCEPT ![t] = Woken[pc[t]]]
  BY DEF Set, Goto
<1>3. \A t \in Waiters : t \in Thread /\ pc[t] \in Waiting
  BY DEF Waiters
<1>4. pc' \in [Thread -> Label]
  BY <1>0, <1>2, <1>3, WokenLabel DEF TypeOK
<1>5. \/ pc'[Uevent] = pc[Uevent]
      \/ pc'[Uevent] \in {"pauseWoken", "resumeWoken"}
      \/ pc[Uevent] = "onlineWait" /\ pc'[Uevent] = "onlineWoken"
  BY <1>0, <1>2, <1>3, WokenLabel DEF TypeOK, Thread
<1>6. TypeOK'
  BY <1>0, <1>1, <1>4 DEF TypeOK, attr
<1>7. UeventKnows'
  BY <1>0, <1>1, <1>5 DEF UeventKnows, At, Connecting, attr
<1>8. WritebackClosed'
  BY <1>0, <1>1, <1>5 DEF WritebackClosed, Composed, At, attr
<1> QED BY <1>0, <1>1, <1>6, <1>7, <1>8
           DEF Inv, LockInv, OneSetOfResources, DrawsWhatIsPrepared, attr

\* SurfaceFlinger's other steps need the lock, and leave connected alone.
LEMMA FlingerInv ==
  ASSUME Inv,
         \/ \E on \in BOOLEAN : PowerExternal(on) \/ PowerPrimary(on)
         \/ VirtualAppears \/ VirtualDisappears
  PROVE  Inv'
<1> USE DpyFacts
<1>0. TypeOK /\ OneSetOfResources /\ UeventKnows /\ WritebackClosed
  BY DEF Inv, LockInv
<1>1. /\ drawing' = FALSE /\ pc' = pc /\ connected' = connected
      /\ isConfiguring' = isConfiguring /\ fd' = fd /\ resources' = resources
      /\ fb2' = fb2 /\ target' = target /\ isPause' = isPause
  BY DEF PowerExternal, PowerPrimary, VirtualAppears, VirtualDisappears, Free,
         attr
<1>2. /\ isActive' \in [Dpy -> BOOLEAN] /\ lists' \subseteq Dpy
      /\ staged' \subseteq Dpy /\ invalidated' \in BOOLEAN
  BY <1>0 DEF PowerExternal, PowerPrimary, VirtualAppears, VirtualDisappears,
              TypeOK, attr
<1>3. TypeOK'
  BY <1>0, <1>1, <1>2 DEF TypeOK
<1>4. UeventKnows' /\ WritebackClosed'
  BY <1>0, <1>1 DEF UeventKnows, WritebackClosed, Composed, Connecting, At
<1> QED BY <1>0, <1>1, <1>3, <1>4
           DEF Inv, LockInv, OneSetOfResources, DrawsWhatIsPrepared

\* A step of the uevent thread that takes no lock changes only its label.
LEMMA UnlockedInv ==
  ASSUME Inv,
         \/ UeventOffline \/ UeventOnline \/ OnlineWakes \/ CheckVD
         \/ WaitForTeardown \/ Configure \/ WfdOffline
  PROVE  Inv'
<1>0. TypeOK /\ OneSetOfResources /\ DrawsWhatIsPrepared /\ UeventKnows
      /\ WritebackClosed
  BY DEF Inv, LockInv
<1>1. UNCHANGED <<sf, invalidated, target, attr>>
  BY DEF UeventOffline, UeventOnline, OnlineWakes, CheckVD, WaitForTeardown,
         Configure, WfdOffline
<1>2. PICK l \in {"offline", "online", "checkVD", "wfd", "configure", "wfdWait",
                  "connect"} : pc' = [pc EXCEPT ![Uevent] = l]
  BY DEF UeventOffline, UeventOnline, OnlineWakes, CheckVD, WaitForTeardown,
         Configure, WfdOffline, Goto
<1>3. TypeOK'
  <2>1. l \in Label
    BY DEF Label
  <2>2. pc' \in [Thread -> Label]
    BY <1>0, <1>2, <2>1 DEF TypeOK
  <2> QED BY <1>0, <1>1, <2>2 DEF TypeOK, sf, attr
<1>4. pc'[Uevent] = l
  BY <1>0, <1>2 DEF TypeOK, Thread
<1>5. /\ l = "offline" => connected[EXTERNAL]
      /\ l = "online" => ~connected[EXTERNAL]
      /\ l \notin {"offline", "online"} => Connecting
      /\ l \notin {"offline", "online", "connect"} => Composed
  BY <1>0, <1>2, <1>4
     DEF UeventOffline, UeventOnline, OnlineWakes, CheckVD, WaitForTeardown,
         Configure, WfdOffline, OnlineExpected, Connecting, Composed, At, Goto,
         TypeOK, Thread
<1>6. UeventKnows'
  BY <1>0, <1>1, <1>4, <1>5 DEF UeventKnows, Connecting, At, attr
<1>7. WritebackClosed'
  BY <1>0, <1>1, <1>4, <1>5 DEF WritebackClosed, Composed, At, attr, sf
<1> QED BY <1>0, <1>1, <1>3, <1>6, <1>7
           DEF Inv, LockInv, OneSetOfResources, DrawsWhatIsPrepared, SetDraws,
               attr, sf

\* The uevent thread's steps under the lock: EXTERNAL is disconnected, is
\* about to be connected, or is connected, and its objects with it.
LEMMA HandleOfflineInv == Inv /\ HandleOffline => Inv'
<1> SUFFICES ASSUME Inv, HandleOffline PROVE Inv'
  OBVIOUS
<1> USE DpyFacts
<1>0. TypeOK /\ OneSetOfResources /\ UeventKnows /\ WritebackClosed
  BY DEF Inv, LockInv
<1>1. pc' \in [Thread -> Label] /\ pc'[Uevent] = "unplug"
  BY <1>0 DEF HandleOffline, Goto, TypeOK, Label, Thread
<1>2. connected[EXTERNAL] /\ ~connected'[EXTERNAL]
  BY <1>0 DEF HandleOffline, UeventKnows, TypeOK
<1>3. TypeOK'
  BY <1>0, <1>1 DEF HandleOffline, TypeOK, Destroyed, MaxResources, sf
<1>4. OneSetOfResources'
  BY <1>0, <1>2 DEF HandleOffline, OneSetOfResources, TypeOK, Destroyed
<1>5. UeventKnows' /\ WritebackClosed'
  BY <1>1, <1>2 DEF UeventKnows, WritebackClosed, Connecting, Composed, At
<1> QED BY <1>3, <1>4, <1>5
           DEF Inv, LockInv, HandleOffline, Free, DrawsWhatIsPrepared, sf

LEMMA HandleOnlineInv == Inv /\ HandleOnline => Inv'
<1> SUFFICES ASSUME Inv, HandleOnline PROVE Inv'
  OBVIOUS
<1> USE DpyFacts
<1>0. TypeOK /\ OneSetOfResources /\ UeventKnows /\ WritebackClosed
  BY DEF Inv, LockInv
<1>1. pc' \in [Thread -> Label] /\ pc'[Uevent] = "onlineWait"
  BY <1>0 DEF HandleOnline, Goto, TypeOK, Label, Waiting, Thread
<1>2. TypeOK' /\ isConfiguring'[EXTERNAL] /\ ~drawing'
  BY <1>0, <1>1 DEF HandleOnline, TypeOK, Repaint, Free, sf
<1>3. UeventKnows' /\ WritebackClosed'
  BY <1>0, <1>1, <1>2
     DEF HandleOnline, UeventKnows, WritebackClosed, Connecting, Composed, At
<1> QED BY <1>0, <1>2, <1>3
           DEF Inv, LockInv, HandleOnline, OneSetOfResources,
               DrawsWhatIsPrepared

LEMMA ConnectInv == Inv /\ Connect => Inv'
<1> SUFFICES ASSUME Inv, Connect PROVE Inv'
  OBVIOUS
<1> USE DpyFacts
<1>0. TypeOK /\ OneSetOfResources /\ UeventKnows /\ WritebackClosed
  BY DEF Inv, LockInv
<1>1. pc' \in [Thread -> Label] /\ pc'[Uevent] = "plug"
  BY <1>0 DEF Connect, Goto, TypeOK, Label, Thread
<1>2. /\ ~connected[EXTERNAL] /\ connected'[EXTERNAL]
      /\ fd'[EXTERNAL] = "open"
  BY <1>0 DEF Connect, UeventKnows, Connecting, At, TypeOK
<1>3. TypeOK'
  BY <1>0, <1>1 DEF Connect, TypeOK, Created, MaxResources, sf
<1>4. OneSetOfResources'
  BY <1>0, <1>2 DEF Connect, OneSetOfResources, TypeOK, Created, MaxResources
<1>5. UeventKnows' /\ WritebackClosed'
  BY <1>1, <1>2 DEF UeventKnows, WritebackClosed, Connecting, Composed, At
<1> QED BY <1>3, <1>4, <1>5
           DEF Inv, LockInv, Connect, Free, DrawsWhatIsPrepared, sf

LEMMA HotplugInv == Inv /\ (HotplugOffline \/ HotplugOnline) => Inv'
<1> SUFFICES ASSUME Inv, HotplugOffline \/ HotplugOnline PROVE Inv'
  OBVIOUS
<1> USE DpyFacts
<1>0. TypeOK /\ OneSetOfResources /\ UeventKnows /\ WritebackClosed
  BY DEF Inv, LockInv
<1>1. pc' \in [Thread -> Label] /\ pc'[Uevent] = "idle"
  BY <1>0 DEF HotplugOffline, HotplugOnline, Goto, TypeOK, Label, Thread
<1>2. lists' \subseteq Dpy
  BY <1>0 DEF HotplugOffline, HotplugOnline, TypeOK
<1>3. /\ drawing' = FALSE /\ invalidated' = TRUE
      /\ UNCHANGED <<target, attr, staged, fb2>>
  BY DEF HotplugOffline, HotplugOnline, Free
<1>4. TypeOK'
  BY <1>0, <1>1, <1>2, <1>3 DEF TypeOK, attr
<1>5. UeventKnows' /\ WritebackClosed'
  BY <1>0, <1>1, <1>3
     DEF UeventKnows, WritebackClosed, Connecting, Composed, At, attr
<1> QED BY <1>0, <1>3, <1>4, <1>5
           DEF Inv, LockInv, OneSetOfResources, DrawsWhatIsPrepared, attr

\* A binder thread leaves the uevent thread, connected and the objects alone.
LEMMA ClientInv ==
  ASSUME Inv, NEW c \in Client,
         \/ \E d \in Dpy, what \in {"pause", "resume"} : Call(c, d, what)
         \/ ClientStep(c)
  PROVE  Inv'
<1> USE DpyFacts
<1>0. TypeOK /\ OneSetOfResources /\ DrawsWhatIsPrepared /\ UeventKnows
      /\ WritebackClosed
  BY DEF Inv, LockInv
<1>1. PICK l \in {"pause", "resume", "pauseWait", "resumeWait", "idle"} :
        pc' = [pc EXCEPT ![c] = l]
  BY DEF Call, ClientStep, Pause, PauseCommits, Resume, ResumeEnds, Goto
<1>2. pc' \in [Thread -> Label] /\ pc'[Uevent] = pc[Uevent]
  <2>1. l \in Label
    BY DEF Label, Waiting
  <2> QED BY <1>0, <1>1, <2>1, ClientIsNotUevent DEF TypeOK, Thread
<1>3. /\ UNCHANGED sf /\ connected' = connected /\ fd' = fd
      /\ resources' = resources
  BY DEF Call, ClientStep, Pause, PauseCommits, Resume, ResumeEnds, attr
<1>4. isConfiguring[EXTERNAL] => isConfiguring'[EXTERNAL]
  BY <1>0 DEF Call, ClientStep, Pause, PauseCommits, Resume, ResumeEnds, attr,
              TypeOK
<1>5. TypeOK'
  <2>1. target' \in [Client -> Dpy] /\ invalidated' \in BOOLEAN
    BY <1>0 DEF Call, ClientStep, Pause, PauseCommits, Resume, ResumeEnds,
                TypeOK, Repaint
  <2>2. isActive' \in [Dpy -> BOOLEAN] /\ isPause' \in [Dpy -> BOOLEAN]
        /\ isConfiguring' \in [Dpy -> BOOLEAN]
    BY <1>0 DEF Call, ClientStep, Pause, PauseCommits, Resume, ResumeEnds,
                TypeOK, attr
  <2> QED BY <1>0, <1>2, <1>3, <2>1, <2>2 DEF TypeOK, sf
<1>6. UeventKnows' /\ WritebackClosed'
  BY <1>0, <1>2, <1>3, <1>4
     DEF UeventKnows, WritebackClosed, Connecting, Composed, At, sf
<1>7. DrawsWhatIsPrepared'
  <2>1. CASE drawing
    <3>1. isPause' = isPause /\ isActive' = isActive
      BY <2>1 DEF Call, ClientStep, Pause, PauseCommits, Resume, ResumeEnds,
                  Free, attr
    <3> QED BY <1>0, <1>3, <3>1 DEF DrawsWhatIsPrepared, SetDraws, sf
  <2>2. CASE ~drawing
    BY <1>3, <2>2 DEF DrawsWhatIsPrepared, sf
  <2> QED BY <2>1, <2>2
<1> QED BY <1>0, <1>3, <1>5, <1>6, <1>7 DEF Inv, LockInv, OneSetOfResources

\* The invariant is inductive.
LEMMA NextInv == Inv /\ [Next]_vars => Inv'
<1> SUFFICES ASSUME Inv, [Next]_vars PROVE Inv'
  OBVIOUS
<1>1. CASE Prepare
  BY <1>1, PrepareInv
<1>2. CASE Set
  BY <1>2, SetInv
<1>3. CASE \/ \E on \in BOOLEAN : PowerExternal(on) \/ PowerPrimary(on)
           \/ VirtualAppears \/ VirtualDisappears
  BY <1>3, FlingerInv
<1>4. CASE UeventOffline \/ UeventOnline \/ WfdOffline
  BY <1>4, UnlockedInv
<1>5. CASE UeventStep
  BY <1>5, UnlockedInv, HandleOfflineInv, HandleOnlineInv, ConnectInv,
     HotplugInv DEF UeventStep
<1>6. CASE \E c \in Client :
             \/ \E d \in Dpy, what \in {"pause", "resume"} : Call(c, d, what)
             \/ ClientStep(c)
  BY <1>6, ClientInv
<1>7. CASE UNCHANGED vars
  BY <1>7 DEF vars, attr, Inv, LockInv, TypeOK, OneSetOfResources,
              DrawsWhatIsPrepared, SetDraws, UeventKnows, WritebackClosed,
              Composed, Connecting, At
<1> QED BY <1>1, <1>2, <1>3, <1>4, <1>5, <1>6, <1>7 DEF Next

THEOREM Invariance == Spec => []Inv
<1> QED BY InitInv, NextInv, PTL DEF Spec

\* The composition objects of a display exist exactly while it is connected,
\* and are never created twice, whatever the threads interleave.
THEOREM Resources == Spec => []OneSetOfResources
<1>1. Inv => OneSetOfResources
  BY DEF Inv, LockInv
<1> QED BY <1>1, Invariance, PTL

\* What hwc_prepare decided to draw is still connected, active, unpaused and
\* backed by its objects and framebuffer when hwc_set draws it.
THEOREM DrawSafety == Spec => []DrawsWhatIsPrepared
<1>1. Inv => DrawsWhatIsPrepared
  BY DEF Inv, LockInv
<1> QED BY <1>1, Invariance, PTL

\* On a target with fewer than 8 pipes the composition that a
\* new HDMI connection waits for has closed fb2 before fb1 is opened.
THEOREM MixerHandover == Spec => []MixerFree
<1>1. Inv => MixerFree
  BY DEF Inv, LockInv, WritebackClosed, Composed, MixerFree, At
<1> QED BY <1>1, Invariance, PTL
=============================================================================
