------------------------------ MODULE DrawLock ------------------------------
(***************************************************************************)
(* The secondary displays of the composer and the threads that change them *)
(* (libhwcomposer): SurfaceFlinger's thread, which holds mDrawLock from    *)
(* hwc_prepare to the end of hwc_set; the uevent thread, which connects    *)
(* and disconnects HDMI; binder threads, which pause and resume a display. *)
(*                                                                         *)
(* mDrawLock and mWfdSyncLock are a mutex and a condition variable each    *)
(* (Locker): wait() has no predicate and signal() wakes one waiter.  Every *)
(* critical section but SurfaceFlinger's is one action here, so the mutex  *)
(* is held exactly while drawing is TRUE.                                  *)
(***************************************************************************)
EXTENDS Integers

CONSTANTS
  Client,    \* binder threads of QClient, each in setSecondaryDisplayStatus
  FewPipes   \* the target has fewer than 8 pipes (MDPComp::isFrameDoable)

EXTERNAL == "EXTERNAL"
VIRTUAL  == "VIRTUAL"
Dpy      == {EXTERNAL, VIRTUAL}
Uevent   == "uevent"
Thread   == Client \cup {Uevent}

ASSUME DrawLockAssumption == FewPipes \in BOOLEAN /\ Uevent \notin Client

VARIABLES
  drawing,      \* hwc_prepare has returned and hwc_set has not: lock is held
  lists,        \* the displays SurfaceFlinger passes a layer list for
  invalidated,  \* proc->invalidate() was called: a composition is due
  pc, target,   \* where a thread is; the display a client's call is about
  connected, isActive, isPause, isConfiguring,  \* dpyAttr
  fd,           \* dpyAttr[dpy].fd: "none", "open", or "stale" once closed
  resources,    \* live sets of composition objects (mMDPComp, mFBUpdate)
  staged,       \* displays with overlays SET in the driver
  fb2           \* the Writeback object exists, and holds fb2 open

attr == <<connected, isActive, isPause, isConfiguring, fd, resources>>
sf   == <<drawing, lists, staged, fb2>>
vars == <<drawing, lists, invalidated, pc, target, attr, staged, fb2>>

\* Leaked objects are counted up to this bound.
MaxResources == 2

Waiting == {"onlineWait", "pauseWait", "resumeWait"}
Woken   == [w \in Waiting |->
              CASE w = "onlineWait" -> "onlineWoken"
                [] w = "pauseWait"  -> "pauseWoken"
                [] w = "resumeWait" -> "resumeWoken"]
Label   == Waiting \cup {Woken[w] : w \in Waiting} \cup
           {"idle", "offline", "unplug", "online", "checkVD", "wfd", "wfdWait",
            "configure", "connect", "plug", "pause", "resume"}

Goto(t, label) == pc' = [pc EXCEPT ![t] = label]
At(t, label)   == pc[t] = label

\* Mutant: the lock is released between hwc_prepare and hwc_set.
NeverHeld == TRUE

Free == ~drawing

\* What invalidated becomes in a thread that goes to wait for a composition.
\* Mutant: the thread does not ask for it.
NoRepaint == invalidated

Repaint == TRUE

isSecondaryConfiguring(conf) == \E d \in Dpy : conf[d]
isVDConnected == connected[VIRTUAL]

----------------------------------------------------------------------------
Init ==
  /\ drawing = FALSE
  /\ lists = {}
  /\ invalidated = FALSE
  /\ pc = [t \in Thread |-> "idle"]
  /\ target \in [Client -> {EXTERNAL}]
  /\ connected = [d \in Dpy |-> FALSE]
  /\ isActive = [d \in Dpy |-> FALSE]
  /\ isPause = [d \in Dpy |-> FALSE]
  /\ isConfiguring = [d \in Dpy |-> FALSE]
  /\ fd = [d \in Dpy |-> "none"]
  /\ resources = [d \in Dpy |-> 0]
  /\ staged = {}
  /\ fb2 = FALSE

Created(n)   == IF n = MaxResources THEN n ELSE n + 1
Destroyed(n) == IF n = 0 THEN 0 ELSE n - 1

----------------------------------------------------------------------------
(* SurfaceFlinger's thread.                                                *)

\* A round prepares VIRTUAL, then EXTERNAL, then the primary.  It acts on the
\* lists that carry something: an output buffer for VIRTUAL, an application
\* layer for EXTERNAL.
Joins(given) == VIRTUAL \in given /\ ~connected[VIRTUAL]
Leaves == connected[VIRTUAL] /\ VIRTUAL \notin lists

Drawn(given) ==
  {d \in given :
     \/ d = VIRTUAL /\ (Joins(given) \/ ~isPause[VIRTUAL])
     \/ d = EXTERNAL /\ isActive[d] /\ connected[d] /\ ~isPause[d]}

\* Assertive display post-processes the primary's only video through fb2
\* when no secondary is connected.  A pending connection forbids it only where
\* it forbids MDP composition altogether; elsewhere video layers go on.
\* Mutant: a pending connection is not looked at.
AssertiveUnlessConnected(given) ==
  ~connected[EXTERNAL] /\ ~connected[VIRTUAL] /\ ~Joins(given)

AssertiveDoable(given) ==
  /\ ~connected[EXTERNAL] /\ ~connected[VIRTUAL] /\ ~Joins(given)
  /\ ~(FewPipes /\ isSecondaryConfiguring(
         [d \in Dpy |-> isConfiguring[d] /\ d \notin Drawn(given)]))

\* VDS::prepare connects the virtual display and VDS::destroy, once the other
\* two are done, disconnects it and signals mWfdSyncLock.
Prepare ==
  /\ Free
  /\ \E given \in SUBSET lists, video \in BOOLEAN :
       LET joins == Joins(given)
           wb    == VIRTUAL \in given \/ (video /\ AssertiveDoable(given))
       IN  /\ connected' = [connected EXCEPT ![VIRTUAL] =
                              (@ \/ joins) /\ ~Leaves]
           /\ isPause' = [isPause EXCEPT ![VIRTUAL] = @ /\ ~joins /\ ~Leaves]
           /\ isConfiguring' = [d \in Dpy |->
                                  isConfiguring[d] /\ d \notin Drawn(given)]
           /\ resources' = [resources EXCEPT ![VIRTUAL] =
                              IF joins THEN Created(@)
                              ELSE IF Leaves THEN Destroyed(@) ELSE @]
           /\ fb2' = wb
           /\ fd' = [fd EXCEPT ![VIRTUAL] =
                       IF VIRTUAL \in Drawn(given) THEN "open"
                       ELSE IF ~wb /\ @ = "open" THEN "stale" ELSE @]
           /\ staged' = Drawn(given)
  /\ pc' = IF Leaves /\ At(Uevent, "wfdWait")
             THEN [pc EXCEPT ![Uevent] = "configure"] ELSE pc
  /\ drawing' = TRUE
  /\ invalidated' = FALSE
  /\ UNCHANGED <<lists, target, isActive>>

\* hwc_set draws, signals one of the waiters and unlocks.
Waiters == {t \in Thread : pc[t] \in Waiting}

Set ==
  /\ drawing
  /\ drawing' = FALSE
  /\ IF Waiters = {} THEN UNCHANGED pc
                     ELSE \E t \in Waiters : Goto(t, Woken[pc[t]])
  /\ UNCHANGED <<lists, invalidated, target, attr, staged, fb2>>

\* hwc_setPowerMode, which frees every display's pipes on the way off.
PowerExternal(on) ==
  /\ Free /\ EXTERNAL \in lists
  /\ staged' = IF on THEN staged ELSE {}
  /\ isActive' = [isActive EXCEPT ![EXTERNAL] = on]
  /\ UNCHANGED <<drawing, lists, invalidated, pc, target, connected, isPause,
                 isConfiguring, fd, resources, fb2>>

\* A failed FBIOBLANK returns before the virtual display is looked at.
PowerPrimary(on) ==
  /\ Free
  /\ staged' = IF on THEN staged ELSE {}
  /\ \E blanked \in BOOLEAN :
       isActive' = [isActive EXCEPT ![VIRTUAL] =
                      IF blanked /\ connected[VIRTUAL] THEN on ELSE @]
  /\ UNCHANGED <<drawing, lists, invalidated, pc, target, connected, isPause,
                 isConfiguring, fd, resources, fb2>>

\* A virtual display is created or deleted in SurfaceFlinger.
VirtualAppears ==
  /\ Free /\ VIRTUAL \notin lists
  /\ lists' = lists \cup {VIRTUAL}
  /\ UNCHANGED <<drawing, invalidated, pc, target, attr, staged, fb2>>

VirtualDisappears ==
  /\ Free /\ VIRTUAL \in lists
  /\ lists' = lists \ {VIRTUAL}
  /\ invalidated' = TRUE
  /\ UNCHANGED <<drawing, pc, target, attr, staged, fb2>>

----------------------------------------------------------------------------
(* The uevent thread, with HDMI as an external display.                    *)

\* Mutant: a repeated ONLINE is not recognised.
AnyOnline == TRUE

OnlineExpected == ~connected[EXTERNAL]

\* handle_uevent: OFFLINE is ignored unless connected, ONLINE if connected.
UeventOffline ==
  /\ At(Uevent, "idle") /\ connected[EXTERNAL]
  /\ Goto(Uevent, "offline")
  /\ UNCHANGED <<sf, invalidated, target, attr>>

UeventOnline ==
  /\ At(Uevent, "idle") /\ OnlineExpected
  /\ Goto(Uevent, "online")
  /\ UNCHANGED <<sf, invalidated, target, attr>>

\* handle_offline, with resetDisplayInfo.
HandleOffline ==
  /\ At(Uevent, "offline") /\ Free
  /\ resources' = [resources EXCEPT ![EXTERNAL] = Destroyed(@)]
  /\ connected' = [connected EXCEPT ![EXTERNAL] = FALSE]
  /\ isActive' = [isActive EXCEPT ![EXTERNAL] = FALSE]
  /\ isPause' = [isPause EXCEPT ![EXTERNAL] = FALSE]
  /\ isConfiguring' = [isConfiguring EXCEPT ![EXTERNAL] = FALSE]
  /\ fd' = [fd EXCEPT ![EXTERNAL] = "none"]
  /\ Goto(Uevent, "unplug")
  /\ UNCHANGED <<sf, invalidated, target>>

HotplugOffline ==
  /\ At(Uevent, "unplug")
  /\ Free
  /\ lists' = lists \ {EXTERNAL}
  /\ invalidated' = TRUE
  /\ Goto(Uevent, "idle")
  /\ UNCHANGED <<drawing, target, attr, staged, fb2>>

HandleOnline ==
  /\ At(Uevent, "online") /\ Free
  /\ isConfiguring' = [isConfiguring EXCEPT ![EXTERNAL] = TRUE]
  /\ invalidated' = Repaint
  /\ Goto(Uevent, "onlineWait")
  /\ UNCHANGED <<sf, target, connected, isActive, isPause, fd, resources>>

OnlineWakes ==
  /\ At(Uevent, "onlineWoken") /\ Free
  /\ Goto(Uevent, "checkVD")
  /\ UNCHANGED <<sf, invalidated, target, attr>>

\* isVDConnected is read with no lock held.
CheckVD ==
  /\ At(Uevent, "checkVD")
  /\ Goto(Uevent, IF isVDConnected THEN "wfd" ELSE "configure")
  /\ UNCHANGED <<sf, invalidated, target, attr>>

WaitForTeardown ==
  /\ At(Uevent, "wfd")
  /\ Goto(Uevent, "wfdWait")
  /\ UNCHANGED <<sf, invalidated, target, attr>>

\* HDMIDisplay::configure opens fb1.
Configure ==
  /\ At(Uevent, "configure")
  /\ Goto(Uevent, "connect")
  /\ UNCHANGED <<sf, invalidated, target, attr>>

Connect ==
  /\ At(Uevent, "connect") /\ Free
  /\ fd' = [fd EXCEPT ![EXTERNAL] = "open"]
  /\ resources' = [resources EXCEPT ![EXTERNAL] = Created(@)]
  /\ isPause' = [isPause EXCEPT ![EXTERNAL] = FALSE]
  /\ connected' = [connected EXCEPT ![EXTERNAL] = TRUE]
  /\ isConfiguring' = [isConfiguring EXCEPT ![EXTERNAL] = TRUE]
  /\ Goto(Uevent, "plug")
  /\ UNCHANGED <<sf, invalidated, target, isActive>>

HotplugOnline ==
  /\ At(Uevent, "plug") /\ Free
  /\ lists' = lists \cup {EXTERNAL}
  /\ invalidated' = TRUE
  /\ Goto(Uevent, "idle")
  /\ UNCHANGED <<drawing, target, attr, staged, fb2>>

----------------------------------------------------------------------------
(* Binder threads: setSecondaryDisplayStatus.                              *)

\* handle_pause and handle_resume read connected before they lock.
Call(c, d, what) ==
  /\ At(c, "idle") /\ connected[d]
  /\ target' = [target EXCEPT ![c] = d]
  /\ Goto(c, what)
  /\ UNCHANGED <<sf, invalidated, attr>>

Pause(c) ==
  /\ At(c, "pause") /\ Free
  /\ isActive' = [isActive EXCEPT ![target[c]] = TRUE]
  /\ isPause' = [isPause EXCEPT ![target[c]] = TRUE]
  /\ invalidated' = Repaint
  /\ Goto(c, "pauseWait")
  /\ UNCHANGED <<sf, target, connected, isConfiguring, fd, resources>>

\* After the wait: displayCommit to unstage the pipes, and a repaint.
PauseCommits(c) ==
  /\ At(c, "pauseWoken") /\ Free
  /\ invalidated' = TRUE
  /\ Goto(c, "idle")
  /\ UNCHANGED <<sf, target, attr>>

Resume(c) ==
  /\ At(c, "resume") /\ Free
  /\ isConfiguring' = [isConfiguring EXCEPT ![target[c]] = TRUE]
  /\ isActive' = [isActive EXCEPT ![target[c]] = TRUE]
  /\ invalidated' = Repaint
  /\ Goto(c, "resumeWait")
  /\ UNCHANGED <<sf, target, connected, isPause, fd, resources>>

ResumeEnds(c) ==
  /\ At(c, "resumeWoken") /\ Free
  /\ isPause' = [isPause EXCEPT ![target[c]] = FALSE]
  /\ invalidated' = TRUE
  /\ Goto(c, "idle")
  /\ UNCHANGED <<sf, target, connected, isActive, isConfiguring, fd,
                 resources>>

\* Status OFFLINE for the virtual display only signals mWfdSyncLock.
WfdOffline ==
  /\ At(Uevent, "wfdWait")
  /\ Goto(Uevent, "configure")
  /\ UNCHANGED <<sf, invalidated, target, attr>>

----------------------------------------------------------------------------
UeventStep ==
  \/ HandleOffline \/ HotplugOffline
  \/ HandleOnline \/ OnlineWakes \/ CheckVD \/ WaitForTeardown
  \/ Configure \/ Connect \/ HotplugOnline

ClientStep(c) == Pause(c) \/ PauseCommits(c) \/ Resume(c) \/ ResumeEnds(c)

Next ==
  \/ Prepare \/ Set \/ VirtualAppears \/ VirtualDisappears
  \/ \E on \in BOOLEAN : PowerExternal(on) \/ PowerPrimary(on)
  \/ UeventOffline \/ UeventOnline \/ UeventStep
  \/ \E c \in Client, d \in Dpy, what \in {"pause", "resume"} : Call(c, d, what)
  \/ \E c \in Client : ClientStep(c)
  \/ WfdOffline

Spec == Init /\ [][Next]_vars

\* SurfaceFlinger answers an invalidate with a composition and finishes it; a
\* thread in the middle of an operation goes on and gets the lock it keeps
\* asking for; a waiter is not passed over for ever (futexes wake in order); the
\* WFD stack tears its display down when HDMI is connecting.
Fairness ==
  /\ WF_vars(invalidated /\ Prepare)
  /\ WF_vars(Set)
  /\ SF_vars(UeventStep)
  /\ \A c \in Client : SF_vars(ClientStep(c))
  /\ \A t \in Thread : SF_vars(Set /\ pc[t] \in Waiting /\ pc'[t] # pc[t])
  /\ SF_vars(pc[Uevent] \in {"checkVD", "wfd", "wfdWait"} /\ VirtualDisappears)

FairSpec == Spec /\ Fairness

----------------------------------------------------------------------------
(* Properties.                                                             *)

\* Every variable keeps its shape.
TypeOK ==
  /\ drawing \in BOOLEAN /\ invalidated \in BOOLEAN /\ fb2 \in BOOLEAN
  /\ lists \subseteq Dpy /\ staged \subseteq Dpy
  /\ pc \in [Thread -> Label]
  /\ target \in [Client -> Dpy]
  /\ connected \in [Dpy -> BOOLEAN] /\ isActive \in [Dpy -> BOOLEAN]
  /\ isPause \in [Dpy -> BOOLEAN] /\ isConfiguring \in [Dpy -> BOOLEAN]
  /\ fd \in [Dpy -> {"none", "open", "stale"}]
  /\ resources \in [Dpy -> 0 .. MaxResources]

\* The composition objects of a display exist exactly while it is connected,
\* and once: initCompositionResources never overwrites live objects although
\* handle_uevent tests connected long before, and without the lock.
OneSetOfResources ==
  \A d \in Dpy : resources[d] = IF connected[d] THEN 1 ELSE 0

\* The displays hwc_set draws are those hwc_prepare prepared, their objects
\* are still there, and their framebuffer is open: no hotplug, pause or
\* resume slips in between.
SetDraws(d) ==
  connected[d] /\ ~isPause[d] /\ (d = EXTERNAL => isActive[d] /\ d \in lists)

DrawsWhatIsPrepared ==
  drawing => \A d \in staged : SetDraws(d) /\ resources[d] > 0 /\ fd[d] = "open"

\* On a target with fewer than 8 pipes, assertive display no longer keeps Layer
\* Mixer #0 on the writeback when HDMIDisplay opens fb1.  hwc_uevents.cpp says
\* so of every target ("This block will force composition to close fb2"), but
\* with 8 pipes or more it is not so: isFrameDoable (hwc_mdpcomp.cpp) goes on
\* composing video while a display is configuring, and AssertiveDisplay::
\* isDoable asks isSecondaryConnected alone, so the composition the uevent
\* thread waits for may leave fb2 open, or open it.
MixerFree ==
  FewPipes /\ At(Uevent, "configure") => (fb2 => connected[VIRTUAL])

\* Every thread that waits for a composition is woken.
WaitersWake ==
  \A t \in Thread : pc[t] \in Waiting ~> pc[t] \notin Waiting

\* "Teardown signalled": the uevent thread hears of the WFD teardown it
\* waits for.
TeardownHeard == At(Uevent, "wfdWait") ~> ~At(Uevent, "wfdWait")

\* The uevent thread is connecting EXTERNAL.
Connecting ==
  pc[Uevent] \in {"onlineWait", "onlineWoken", "checkVD", "wfd", "wfdWait",
                  "configure", "connect"}

\* What makes them inductive.  The uevent thread alone connects and disconnects
\* EXTERNAL, so what it tested before it locked still holds; a connected
\* EXTERNAL has its framebuffer open; isConfiguring, set when the connection
\* begins, keeps fb2 from being opened again once a composition has seen it.
UeventKnows ==
  /\ At(Uevent, "offline") => connected[EXTERNAL]
  /\ At(Uevent, "online") \/ At(Uevent, "onlineWait") => ~connected[EXTERNAL]
  /\ At(Uevent, "unplug") => ~connected[EXTERNAL]
  /\ Connecting => ~connected[EXTERNAL] /\ isConfiguring[EXTERNAL]
  /\ connected[EXTERNAL] => fd[EXTERNAL] = "open"

Composed ==
  \/ pc[Uevent] \in {"onlineWoken", "checkVD", "wfd", "wfdWait", "configure"}
  \/ At(Uevent, "onlineWait") /\ drawing

WritebackClosed == FewPipes /\ Composed => (fb2 => connected[VIRTUAL])

LockInv ==
  /\ OneSetOfResources
  /\ DrawsWhatIsPrepared
  /\ UeventKnows
  /\ WritebackClosed
=============================================================================
