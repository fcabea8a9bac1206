------------------------------- MODULE Power --------------------------------
(***************************************************************************)
(* The power of the primary panel, its vsync interrupts and the HDMI plug  *)
(* (libhwcomposer: hwc.cpp, hwc_vsync.cpp, hwc_uevents.cpp; libhdmi), with *)
(* the threads that meet there:                                            *)
(*   SurfaceFlinger's, which sets power modes, composes, and resets a panel*)
(*   that was reported dead at the next hwc_prepare;                       *)
(*   its event control thread, which turns vsync on and off;               *)
(*   the vsync thread, which also follows the blank events of the panel;   *)
(*   the uevent thread, which hears of a dead panel and of the HDMI cable. *)
(* FBIOBLANK, the vsync ioctl and the assignments after them are steps of  *)
(* their own.  mDrawLock is held while Locked; the event control and vsync *)
(* threads never take it.                                                  *)
(***************************************************************************)
EXTENDS Hdmi

CONSTANTS
  None,
  Sinks,       \* the mode lists (EDID) of the sinks that may be plugged in
  UserModes,   \* values of hw.hdmi.resolution, NoMode if unset
  Switches,    \* values of sys.hwc.mdp_downscale_enabled
  PrimarySize  \* of the panel

ASSUME PowerAssumption == None \notin BOOLEAN /\ None \notin Sinks

VARIABLES
  power,        \* of the panel: "on", "suspend" or "off"
  dead,         \* the panel does not answer
  vsync,        \* the vsync interrupt of the panel is enabled
  blankEvent,   \* show_blank_event has been notified and not been read
  isActive,     \* dpyAttr[PRIMARY].isActive
  resetStatus,  \* mPanelResetStatus
  enable,       \* vstate.enable
  invalidated,  \* proc->invalidate() was called
  sf,           \* where SurfaceFlinger's thread is
  ev,           \* the request the event control thread works on, or None
  vs,           \* what the vsync thread has read: "idle", "on" or "off"
  sink,         \* the mode list of the sink on the cable, or None
  hpd,          \* the HDMI driver reports hotplugs
  uevents,      \* what the uevent thread has not read yet
  ue,           \* where the uevent thread is
  hdmi,         \* the HDMIDisplay object
  connected,    \* dpyAttr[EXTERNAL].connected
  attr,         \* the size and scaling mode in dpyAttr[EXTERNAL]
  timing,       \* the mode FBIOPUT_VSCREENINFO has given the driver
  changes       \* how often power and cable may still change, and a panel die

panel  == <<power, dead, vsync, blankEvent>>
ctx    == <<isActive, resetStatus, enable>>
sfVars == <<sf, invalidated>>
cable  == <<sink, hpd, uevents>>
ext    == <<hdmi, connected, attr, timing>>
vars   == <<panel, ctx, sfVars, ev, vs, cable, ue, ext, changes>>

\* Bounds of the model: changes of power, of the cable, deaths of the panel.
MaxPower == 2
MaxCable == 2
MaxDeaths == 1

PowerMode == {"on", "suspend", "off"}
Reset == [modes |-> <<>>, mode |-> NoMode, size |-> <<0, 0>>, scaling |-> FALSE]
NoAttr == [size |-> <<0, 0>>, scaling |-> FALSE]

Locked == sf \in {"assign", "assignOff", "assignOn", "set"}

Init ==
  /\ power = "on" /\ dead = FALSE /\ vsync = FALSE /\ blankEvent = FALSE
  /\ isActive = TRUE /\ resetStatus = FALSE /\ enable = FALSE
  /\ sf = "idle" /\ invalidated = FALSE
  /\ ev = None
  /\ vs = "idle"
  /\ sink \in Sinks \cup {None} /\ hpd = FALSE /\ uevents = <<>>
  /\ ue = "idle"
  /\ \E uninitialised \in BOOLEAN :
       hdmi = [open |-> FALSE, info |-> Reset, downscale |-> uninitialised]
  /\ connected = FALSE /\ attr = NoAttr /\ timing = NoMode
  /\ changes = [power |-> MaxPower, cable |-> MaxCable, deaths |-> MaxDeaths]

----------------------------------------------------------------------------
(* Power modes and the panel's reset, in SurfaceFlinger's thread.          *)

\* FBIOBLANK.  Without power there is no vsync interrupt, and a panel that is
\* switched off starts afresh.
Blank(mode) ==
  /\ power' = mode
  /\ dead' = (dead /\ mode # "off")
  /\ vsync' = (vsync /\ mode = "on")
  /\ blankEvent' = (blankEvent \/ mode # power)

SetHPD(on) ==
  /\ hpd' = on
  /\ uevents' = IF ~hpd /\ on /\ sink # None
                  THEN Append(uevents, "online") ELSE uevents

\* What follows FBIOBLANK in hwc_setPowerMode.
AssignActive(mode) ==
  /\ isActive' = (mode # "off")
  /\ IF mode = "on" THEN SetHPD(TRUE) ELSE UNCHANGED <<hpd, uevents>>

\* SurfaceFlinger turns vsync off before it takes the power away.  It sets a new
\* mode, or at boot "on" once more, which is when HDMI is let in.
SetPowerMode(mode) ==
  /\ sf = "idle"
  /\ mode # power \/ ~hpd
  /\ changes.power > 0
  /\ mode # "on" => ~enable /\ ev = None
  /\ Blank(mode)
  /\ sf' = "assign"
  /\ changes' = [changes EXCEPT !.power = @ - 1]
  /\ UNCHANGED <<invalidated, ctx, ev, vs, cable, ue, ext>>

PowerModeSet ==
  /\ sf = "assign"
  /\ AssignActive(power)
  /\ sf' = "idle"
  /\ UNCHANGED <<invalidated, panel, resetStatus, enable, ev, vs,
                 sink, ue, ext, changes>>

\* hwc_prepare resets a panel that was reported dead: off, on, and vsync on.
ResetPanel ==
  /\ sf = "idle" /\ resetStatus
  /\ isActive
  /\ Blank("off")
  /\ sf' = "assignOff" /\ invalidated' = FALSE
  /\ UNCHANGED <<ctx, ev, vs, cable, ue, ext, changes>>

ResetOff ==
  /\ sf = "assignOff"
  /\ AssignActive("off")
  /\ sf' = "unblank"
  /\ UNCHANGED <<invalidated, panel, resetStatus, enable, ev, vs,
                 sink, ue, ext, changes>>

ResetUnblank ==
  /\ sf = "unblank"
  /\ Blank("on")
  /\ sf' = "assignOn"
  /\ UNCHANGED <<invalidated, ctx, ev, vs, cable, ue, ext,
                 changes>>

ResetOn ==
  /\ sf = "assignOn"
  /\ AssignActive("on")
  /\ sf' = "enableVsync"
  /\ UNCHANGED <<invalidated, panel, resetStatus, enable, ev, vs,
                 sink, ue, ext, changes>>

\* Mutant: the reset leaves vsync as the blank left it.
VsyncAsBlanked == vsync

VsyncAfterReset == TRUE

ResetVsync ==
  /\ sf = "enableVsync"
  /\ vsync' = VsyncAfterReset
  /\ sf' = "clear"
  /\ UNCHANGED <<invalidated, power, dead, blankEvent, ctx, ev, vs,
                 cable, ue, ext, changes>>

\* A display that is off needs no reset.
ClearStatus ==
  /\ \/ sf = "clear" /\ UNCHANGED invalidated
     \/ sf = "idle" /\ resetStatus /\ ~isActive /\ invalidated' = FALSE
  /\ resetStatus' = FALSE
  /\ sf' = "prepare"
  /\ UNCHANGED <<panel, isActive, enable, ev, vs, cable, ue, ext,
                 changes>>

Prepare ==
  /\ \/ sf = "idle" /\ ~resetStatus /\ invalidated' = FALSE
     \/ sf = "prepare" /\ UNCHANGED invalidated
  /\ sf' = "set"
  /\ UNCHANGED <<panel, ctx, ev, vs, cable, ue, ext, changes>>

\* The end of hwc_set signals mDrawLock, which the uevent thread may wait on.
Set ==
  /\ sf = "set"
  /\ sf' = "idle"
  /\ ue' = IF ue = "wait" THEN "configure" ELSE ue
  /\ UNCHANGED <<invalidated, panel, ctx, ev, vs, cable, ext,
                 changes>>

----------------------------------------------------------------------------
(* Vsync on and off.  The driver refuses the ioctl for a panel without     *)
(* power, and hwc_eventControl returns that error without any effect.      *)

EventControl(on) ==
  /\ ev = None
  /\ enable # on
  /\ power = "on"
  /\ vsync' = on
  /\ ev' = on
  /\ UNCHANGED <<power, dead, blankEvent, ctx, sfVars, vs, cable, ue, ext,
                 changes>>

EventControlled ==
  /\ ev # None
  /\ enable' = ev
  /\ ev' = None
  /\ UNCHANGED <<panel, isActive, resetStatus, sfVars, vs, cable, ue, ext,
                 changes>>

----------------------------------------------------------------------------
(* The vsync thread.  Reading the node clears its notification.            *)

ReadBlank ==
  /\ vs = "idle" /\ blankEvent
  /\ vs' = IF power = "off" THEN "off" ELSE "on"
  /\ blankEvent' = FALSE
  /\ UNCHANGED <<power, dead, vsync, ctx, sfVars, ev, cable, ue, ext,
                 changes>>

\* Mutant: what was notified since the read is taken for handled.
Forgotten == FALSE

Renotified == blankEvent

handle_blank_event ==
  /\ vs # "idle"
  /\ isActive' = (vs = "on")
  /\ vs' = "idle"
  /\ blankEvent' = Renotified
  /\ UNCHANGED <<power, dead, vsync, resetStatus, enable, sfVars, ev, cable, ue,
                 ext, changes>>

----------------------------------------------------------------------------
(* The world: the panel, which the driver checks every few seconds, and    *)
(* the cable.                                                              *)

Quiet == sf = "idle" /\ vs = "idle" /\ ~blankEvent

PanelDies ==
  /\ power = "on" /\ ~dead /\ Quiet
  /\ changes.deaths > 0
  /\ dead' = TRUE
  /\ uevents' = Append(uevents, "dead")
  /\ changes' = [changes EXCEPT !.deaths = @ - 1]
  /\ UNCHANGED <<power, vsync, blankEvent, ctx, sfVars, ev, vs, sink, hpd, ue,
                 ext>>

Cable(new, event) ==
  /\ changes.cable > 0
  /\ sink' = new
  /\ uevents' = IF hpd THEN Append(uevents, event) ELSE uevents
  /\ changes' = [changes EXCEPT !.cable = @ - 1]
  /\ UNCHANGED <<panel, ctx, sfVars, ev, vs, hpd, ue, ext>>

Plug   == sink = None /\ \E s \in Sinks : Cable(s, "online")
Unplug == sink # None /\ Cable(None, "offline")

----------------------------------------------------------------------------
(* The uevent thread.                                                      *)

Turn(pc) == ue' = pc /\ uevents' = Tail(uevents)

Heard(event) == ue = "idle" /\ uevents # <<>> /\ Head(uevents) = event

PanelDead ==
  /\ Heard("dead")
  /\ resetStatus' = TRUE
  /\ Turn("invalidate")
  /\ UNCHANGED <<panel, isActive, enable, sfVars, ev, vs, sink, hpd, ext,
                 changes>>

\* Mutant: nothing asks for the composition that resets the panel.
NotInvalidated == invalidated

Invalidated == TRUE

InvalidateForReset ==
  /\ ue = "invalidate"
  /\ invalidated' = Invalidated
  /\ ue' = "idle"
  /\ UNCHANGED <<panel, ctx, sf, ev, vs, cable, ext, changes>>

\* Mutant: an unplugging is not heard of if a sink is there again.
UnlessReplugged == IF connected /\ sink = None THEN "offline" ELSE "idle"

\* The display's state is looked at here, without mDrawLock: an event that
\* changes nothing is dropped.
HearsOffline == IF connected THEN "offline" ELSE "idle"
HearsOnline  == IF connected THEN "idle" ELSE "online"

Offline ==
  /\ Heard("offline")
  /\ Turn(HearsOffline)
  /\ UNCHANGED <<panel, ctx, sfVars, ev, vs, sink, hpd, ext, changes>>

TornDown == [hdmi EXCEPT !.open = FALSE, !.info = Reset]

handle_offline ==
  /\ ue = "offline" /\ ~Locked
  /\ hdmi' = TornDown
  /\ connected' = FALSE /\ attr' = NoAttr
  /\ ue' = "idle"
  /\ UNCHANGED <<panel, ctx, sfVars, ev, vs, cable, timing, changes>>

\* It asks for a composition and waits for its end on mDrawLock.
Online ==
  /\ Heard("online")
  /\ Turn(HearsOnline)
  /\ UNCHANGED <<panel, ctx, sfVars, ev, vs, sink, hpd, ext, changes>>

AwaitComposition ==
  /\ ue = "online" /\ ~Locked
  /\ invalidated' = TRUE
  /\ ue' = "wait"
  /\ UNCHANGED <<panel, ctx, sf, ev, vs, cable, ext, changes>>

\* The mode list as it is read now; without a sink nothing is read, and what was
\* read before is kept.
readResolution == IF sink = None THEN hdmi.info.modes ELSE sink

\* The switch for downscaling, a property like the mode the
\* user asks for, is read after its last value was used.
configure ==
  /\ ue = "configure"
  /\ \E user \in UserModes, switch \in Switches :
       LET modes  == readResolution
           mode   == ChosenMode(user, modes)
           chosen == setAttributes(mode, PrimarySize, hdmi.downscale)
       IN  hdmi' = [open |-> TRUE, downscale |-> switch,
                    info |-> [modes |-> modes, mode |-> mode,
                              size |-> chosen.size, scaling |-> chosen.scaling]]
  /\ ue' = "activate"
  /\ UNCHANGED <<panel, ctx, sfVars, ev, vs, cable, connected, attr, timing,
                 changes>>

activateDisplay ==
  /\ ue = "activate"
  /\ timing' = hdmi.info.mode
  /\ ue' = "connect"
  /\ UNCHANGED <<panel, ctx, sfVars, ev, vs, cable, hdmi, connected, attr,
                 changes>>

DisplayInfo == [size |-> hdmi.info.size, scaling |-> hdmi.info.scaling]

Connect ==
  /\ ue = "connect" /\ ~Locked
  /\ attr' = DisplayInfo
  /\ connected' = TRUE
  /\ ue' = "idle"
  /\ UNCHANGED <<panel, ctx, sfVars, ev, vs, cable, hdmi, timing, changes>>

----------------------------------------------------------------------------
Composer ==
  \/ PowerModeSet \/ ResetPanel \/ ResetOff \/ ResetUnblank \/ ResetOn
  \/ ResetVsync \/ ClearStatus \/ Prepare \/ Set

EventThread == EventControlled \/ \E on \in BOOLEAN : EventControl(on)

VsyncThread == ReadBlank \/ handle_blank_event

UeventThread ==
  \/ PanelDead \/ InvalidateForReset \/ Offline \/ handle_offline
  \/ Online \/ AwaitComposition \/ configure \/ activateDisplay \/ Connect

World == PanelDies \/ Plug \/ Unplug \/ \E mode \in PowerMode : SetPowerMode(mode)

Next == Composer \/ EventThread \/ VsyncThread \/ UeventThread \/ World

Spec == Init /\ [][Next]_vars

\* The threads of the composer run on, and SurfaceFlinger, which sleeps between
\* two frames, does not keep the uevent thread from mDrawLock for ever; it
\* composes when it was asked to, and ends what it has begun.
FairSpec ==
  /\ Spec
  /\ WF_vars(VsyncThread) /\ SF_vars(UeventThread)
  /\ WF_vars(Composer /\ (invalidated \/ sf # "idle"))

----------------------------------------------------------------------------
TypeOK ==
  /\ power \in PowerMode
  /\ {dead, vsync, blankEvent, isActive, resetStatus, enable, invalidated, hpd,
      connected} \subseteq BOOLEAN
  /\ ev \in BOOLEAN \cup {None}
  /\ vs \in {"idle", "on", "off"}
  /\ sink \in Sinks \cup {None}

\* hwc_eventControl does nothing when vstate.enable is what was asked for: so
\* while it says enabled and the panel has power, the interrupt is enabled,
\* whatever resets and power modes came between (outside of a reset's own
\* steps and of an eventControl in progress).
VsyncKept ==
  enable /\ power = "on" /\ ev = None /\ sf \notin {"assignOn", "enableVsync"}
    => vsync

\* The external display is composed in a size the MDP can shrink to the sink's
\* mode, in an interlaced mode only when the sink has no other that is known,
\* and in the mode the driver was given.
FitsSink ==
  connected =>
    LET known    == Range(hdmi.info.modes) \cap DOMAIN gEDIDData
        physical == gEDIDData[hdmi.info.mode].size
    IN  /\ timing = hdmi.info.mode
        /\ isInterlacedMode(timing) => \A m \in known : isInterlacedMode(m)
        /\ Area(attr.size) <= maxMDPDownscale * Area(physical)
        /\ ~attr.scaling => attr.size = physical

\* Once the vsync thread has handled what was notified, isActive says whether
\* the panel has power, although that thread assigns what it read some time
\* ago and takes no lock.
ActiveInStep ==
  vs = "idle" /\ ~blankEvent /\ sf \notin {"assign", "assignOff", "assignOn"}
    => (isActive <=> power # "off")

\* Once the uevent thread has handled what was reported, the external display
\* is connected exactly if a sink is there, in the mode chosen from that
\* sink's own list, however cable and thread overtook each other.
HdmiInStep ==
  ue = "idle" /\ uevents = <<>> /\ hpd =>
    /\ connected <=> sink # None
    /\ connected => \E user \in UserModes :
                      hdmi.info.mode = ChosenMode(user, sink)

\* A panel that stops answering is reset: the uevent thread's report and its
\* invalidate() reach a composition, whatever the other threads do from then on.
\* The panel stops once, and while SurfaceFlinger's and the vsync thread are idle
\* (Quiet).  A report of one that stops in the middle of a reset is lost when
\* mPanelResetStatus is cleared after the unblanking (hwc.cpp:585-592): no
\* behaviour here has it, and this property says nothing of it.
PanelRecovers == dead ~> ~dead
----------------------------------------------------------------------------
(* What FitsSink asks of the table, the sinks and the panel.               *)

Size == (Nat \ {0}) \X (Nat \ {0})

\* The interlaced modes come first in the order of merit.
Ordered ==
  /\ gEDIDData \in Seq([size : Size, interlaced : BOOLEAN])
  /\ \A i, j \in DOMAIN gEDIDData :
       i < j /\ gEDIDData[j].interlaced => gEDIDData[i].interlaced

\* A mode the user asks for and a sink has is one of the table: for another
\* the code divides by a frame rate of 0.
KnownModes ==
  \A user \in UserModes, modes \in Sinks :
    user \in Range(modes) => user \in DOMAIN gEDIDData

\* The MDP shrinks a source to a quarter of its area at most.
FourTimes == PrimarySize \in Size /\ maxMDPDownscale <= 4
=============================================================================
