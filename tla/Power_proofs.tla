---------------------------- MODULE Power_proofs ----------------------------
(***************************************************************************)
(* Proofs about Power, for any sinks, modes and switches, without bound on *)
(* what the threads do between each other's steps: what vstate.enable and  *)
(* isActive say of the panel, and what connected says of the cable.  The   *)
(* last part is about the lights HAL, for any light states and any LED.    *)
(***************************************************************************)
EXTENDS Power, WellFoundedInduction, TLAPS

Point == {"idle", "assign", "assignOff", "unblank", "assignOn", "enableVsync",
          "clear", "prepare", "set"}

\* What the variables of the panel and of the threads that touch it range over.
Types ==
  /\ power \in PowerMode
  /\ vsync \in BOOLEAN /\ blankEvent \in BOOLEAN
  /\ isActive \in BOOLEAN /\ enable \in BOOLEAN
  /\ ev \in BOOLEAN \cup {None}
  /\ vs \in {"idle", "on", "off"}
  /\ sf \in Point

\* Where a reset is says what power the panel has.
ResetKnows ==
  /\ sf \in {"assignOff", "unblank"} => power = "off"
  /\ sf \in {"assignOn", "enableVsync"} => power = "on"

\* What the client asked for last: the request in progress, or what is enabled.
Asked == IF ev = None THEN enable ELSE ev

\* The interrupt is lost between the blank of a reset and its end, and nowhere
\* else; a panel without power for another reason was not asked for vsync.
VsyncInv ==
  /\ Asked /\ power = "on" /\ sf \notin {"assignOn", "enableVsync"} => vsync
  /\ power # "on" /\ sf \notin {"assignOff", "unblank"} => ~Asked

\* If nothing was notified since, what the vsync thread has read is still so,
\* and without a read in progress isActive is.
ActiveInv ==
  ~blankEvent =>
    /\ vs # "idle" => (vs = "on" <=> power # "off")
    /\ vs = "idle" /\ sf \notin {"assign", "assignOff", "assignOn"}
         => (isActive <=> power # "off")

IInv == Types /\ ResetKnows /\ VsyncInv /\ ActiveInv

LEMMA InitInv == Init => IInv
  BY PowerAssumption
  DEF Init, IInv, Types, ResetKnows, VsyncInv, ActiveInv, Asked, PowerMode, Point

\* Every step, by thread.
LEMMA ComposerInv == IInv /\ Composer => IInv'
<1> SUFFICES ASSUME IInv, Composer PROVE IInv'
  OBVIOUS
<1> USE PowerAssumption DEF IInv, Types, ResetKnows, VsyncInv, ActiveInv, Asked,
      PowerMode, Point, panel, ctx, sfVars, cable, ext
<1>1. CASE PowerModeSet
  BY <1>1 DEF PowerModeSet, AssignActive
<1>2. CASE ResetPanel
  BY <1>2 DEF ResetPanel, Blank
<1>3. CASE ResetOff
  BY <1>3 DEF ResetOff, AssignActive
<1>4. CASE ResetUnblank
  BY <1>4 DEF ResetUnblank, Blank
<1>5. CASE ResetOn
  BY <1>5 DEF ResetOn, AssignActive
<1>6. CASE ResetVsync
  BY <1>6 DEF ResetVsync, VsyncAfterReset
<1>7. CASE ClearStatus
  BY <1>7 DEF ClearStatus
<1>8. CASE Prepare
  BY <1>8 DEF Prepare
<1>9. CASE Set
  BY <1>9 DEF Set
<1>10. QED
  BY <1>1, <1>2, <1>3, <1>4, <1>5, <1>6, <1>7, <1>8, <1>9 DEF Composer

LEMMA ThreadsInv == IInv /\ (EventThread \/ VsyncThread) => IInv'
<1> SUFFICES ASSUME IInv, EventThread \/ VsyncThread PROVE IInv'
  OBVIOUS
<1> USE PowerAssumption DEF IInv, Types, ResetKnows, VsyncInv, ActiveInv, Asked,
      PowerMode, Point, panel, ctx, sfVars, cable, ext
<1>1. CASE EventControlled
  BY <1>1 DEF EventControlled
<1>2. ASSUME NEW on \in BOOLEAN, EventControl(on) PROVE IInv'
  BY <1>2 DEF EventControl
<1>3. CASE ReadBlank
  BY <1>3 DEF ReadBlank
<1>4. CASE handle_blank_event
  BY <1>4 DEF handle_blank_event, Renotified
<1>5. QED
  BY <1>1, <1>2, <1>3, <1>4 DEF EventThread, VsyncThread

\* The uevent thread and the cable touch nothing that IInv speaks of.
LEMMA ElsewhereInv ==
  ASSUME IInv,
         UNCHANGED <<power, vsync, blankEvent, isActive, enable, ev, vs, sf>>
  PROVE  IInv'
  BY DEF IInv, Types, ResetKnows, VsyncInv, ActiveInv, Asked

LEMMA UeventInv == IInv /\ UeventThread => IInv'
<1> SUFFICES ASSUME IInv, UeventThread PROVE IInv'
  OBVIOUS
<1>1. UNCHANGED <<power, vsync, blankEvent, isActive, enable, ev, vs, sf>>
  BY DEF UeventThread, PanelDead, InvalidateForReset, Offline, handle_offline,
         Online, AwaitComposition, configure, activateDisplay, Connect,
         panel, ctx, sfVars
<1>2. QED
  BY <1>1, ElsewhereInv

LEMMA WorldInv == IInv /\ World => IInv'
<1> SUFFICES ASSUME IInv, World PROVE IInv'
  OBVIOUS
<1>1. ASSUME NEW mode \in PowerMode, SetPowerMode(mode) PROVE IInv'
  BY <1>1, PowerAssumption
  DEF SetPowerMode, Blank, IInv, Types, ResetKnows, VsyncInv, ActiveInv, Asked,
      PowerMode, Point, ctx
<1>2. ASSUME PanelDies \/ Plug \/ Unplug PROVE IInv'
  <2>1. UNCHANGED <<power, vsync, blankEvent, isActive, enable, ev, vs, sf>>
    BY <1>2 DEF PanelDies, Plug, Unplug, Cable, panel, ctx, sfVars
  <2>2. QED
    BY <2>1, ElsewhereInv
<1>3. QED
  BY <1>1, <1>2 DEF World

\* The inductive invariant.
THEOREM Invariance == Spec => []IInv
<1>1. ASSUME IInv, [Next]_vars PROVE IInv'
  <2>1. CASE Next
    BY <1>1, <2>1, ComposerInv, ThreadsInv, UeventInv, WorldInv DEF Next
  <2>2. CASE UNCHANGED vars
    BY <1>1, <2>2, ElsewhereInv DEF vars, panel, ctx, sfVars
  <2>3. QED
    BY <1>1, <2>1, <2>2
<1>2. QED
  BY InitInv, <1>1, PTL DEF Spec

\* hwc_eventControl and reset_panel: while vstate.enable says so and the panel
\* has power, the interrupt is enabled.
THEOREM VsyncSurvivesReset == Spec => []VsyncKept
<1>1. IInv => VsyncKept
  BY DEF IInv, VsyncInv, VsyncKept, Asked
<1>2. QED
  BY Invariance, <1>1, PTL

\* The vsync thread and hwc_setPowerMode: isActive says whether the panel has
\* power, although both assign it and one takes no lock.
THEOREM ActiveFollowsPanel == Spec => []ActiveInStep
<1>1. IInv => ActiveInStep
  BY DEF IInv, ActiveInv, ActiveInStep
<1>2. QED
  BY Invariance, <1>1, PTL
----------------------------------------------------------------------------
(* The cable and the uevent thread.                                        *)

Event == {"online", "offline", "dead"}

\* The event that makes the display connected, or disconnected.
Leads(on) == IF on THEN "online" ELSE "offline"

NoCableEvent(s) == \A i \in DOMAIN s : s[i] = "dead"

\* Events that take turns, and lead from connected = x to a cable in state y.
Turns(s, x, y) ==
  /\ \A i \in DOMAIN s :
       s[i] = Leads(x) => \E k \in DOMAIN s : k < i /\ s[k] = Leads(~x)
  /\ \A i \in DOMAIN s :
       s[i] = Leads(~y) => \E k \in DOMAIN s : i < k /\ s[k] = Leads(y)
  /\ \A i, j \in DOMAIN s, z \in BOOLEAN :
       i < j /\ s[i] = Leads(z) /\ s[j] = Leads(z)
         => \E k \in DOMAIN s : i < k /\ k < j /\ s[k] = Leads(~z)
  /\ NoCableEvent(s) => x = y

\* A report of the cable's new state goes to the end.
LEMMA TurnsAppend ==
  ASSUME NEW s \in Seq(Event), NEW x \in BOOLEAN, NEW y \in BOOLEAN,
         Turns(s, x, ~y)
  PROVE  /\ Append(s, Leads(y)) \in Seq(Event)
         /\ Turns(Append(s, Leads(y)), x, y)
         /\ ~NoCableEvent(Append(s, Leads(y)))
<1> DEFINE t == Append(s, Leads(y))
           n == Len(s) + 1
<1>1. /\ t \in Seq(Event)
      /\ DOMAIN s = 1 .. Len(s) /\ Len(s) \in Nat
      /\ DOMAIN t = 1 .. n
      /\ \A i \in DOMAIN s : i \in DOMAIN t /\ t[i] = s[i] /\ i < n
      /\ n \in DOMAIN t /\ t[n] = Leads(y)
  BY DEF Event, Leads
<1>2. \A i \in DOMAIN t : i # n => i \in DOMAIN s
  BY <1>1
<1>3. \A i \in DOMAIN s : i \in Int
  BY <1>1
<1>4. Leads(TRUE) # Leads(FALSE) /\ Leads(y) # "dead"
  BY DEF Leads
<1> HIDE DEF t, n
<1>5. ~NoCableEvent(t)
  BY <1>1, <1>4 DEF NoCableEvent
<1>6. ASSUME NEW i \in DOMAIN t, t[i] = Leads(x)
      PROVE  \E k \in DOMAIN t : k < i /\ t[k] = Leads(~x)
  <2>1. CASE i # n
    <3>1. PICK k \in DOMAIN s : k < i /\ s[k] = Leads(~x)
      BY <1>1, <1>2, <1>6, <2>1 DEF Turns
    <3>2. QED
      BY <1>1, <3>1
  <2>2. CASE i = n
    <3>1. x = y
      BY <1>1, <1>4, <1>6, <2>2
    <3>2. PICK k \in DOMAIN s : s[k] # "dead"
      BY <3>1 DEF Turns, NoCableEvent
    <3>3. CASE s[k] = Leads(~x)
      BY <1>1, <2>2, <3>3
    <3>4. CASE s[k] = Leads(x)
      <4>1. PICK m \in DOMAIN s : m < k /\ s[m] = Leads(~x)
        BY <3>4 DEF Turns
      <4>2. QED
        BY <1>1, <2>2, <4>1
    <3>5. s[k] \in Event
      OBVIOUS
    <3>6. QED
      BY <3>2, <3>3, <3>4, <3>5 DEF Event, Leads
  <2>3. QED
    BY <2>1, <2>2
<1>7. ASSUME NEW i \in DOMAIN t, t[i] = Leads(~y)
      PROVE  \E k \in DOMAIN t : i < k /\ t[k] = Leads(y)
  <2>1. i # n
    BY <1>1, <1>4, <1>7
  <2>2. QED
    BY <1>1, <1>2, <2>1
<1>8. ASSUME NEW i \in DOMAIN t, NEW j \in DOMAIN t, NEW z \in BOOLEAN,
             i < j, t[i] = Leads(z), t[j] = Leads(z)
      PROVE  \E k \in DOMAIN t : i < k /\ k < j /\ t[k] = Leads(~z)
  <2>1. i \in DOMAIN s /\ s[i] = Leads(z)
    BY <1>1, <1>2, <1>8
  <2>2. CASE j # n
    <3>1. PICK k \in DOMAIN s : i < k /\ k < j /\ s[k] = Leads(~z)
      BY <1>1, <1>2, <1>8, <2>1, <2>2 DEF Turns
    <3>2. QED
      BY <1>1, <3>1
  <2>3. CASE j = n
    <3>1. Leads(z) = Leads(y)
      BY <1>1, <1>8, <2>3
    <3>2. Leads(~z) = Leads(~y)
      BY <3>1, <1>4
    <3>3. PICK k \in DOMAIN s : i < k /\ s[k] = Leads(~z)
      BY <2>1, <3>1, <3>2 DEF Turns
    <3>4. QED
      BY <1>1, <2>3, <3>3
  <2>4. QED
    BY <2>2, <2>3
<1>9. Turns(t, x, y)
  BY <1>5, <1>6, <1>7, <1>8 DEF Turns
<1>10. QED
  BY <1>1, <1>5, <1>9 DEF t

\* A dead panel says nothing about the cable.
LEMMA TurnsDead ==
  ASSUME NEW s \in Seq(Event), NEW x \in BOOLEAN, NEW y \in BOOLEAN
  PROVE  /\ Append(s, "dead") \in Seq(Event)
         /\ NoCableEvent(Append(s, "dead")) <=> NoCableEvent(s)
         /\ Turns(s, x, y) => Turns(Append(s, "dead"), x, y)
<1> DEFINE t == Append(s, "dead")
           n == Len(s) + 1
<1>1. /\ t \in Seq(Event)
      /\ DOMAIN s = 1 .. Len(s) /\ Len(s) \in Nat
      /\ DOMAIN t = 1 .. n
      /\ \A i \in DOMAIN s : i \in DOMAIN t /\ t[i] = s[i]
      /\ n \in DOMAIN t /\ t[n] = "dead"
  BY DEF Event
<1>2. \A i \in DOMAIN t : i # n => i \in DOMAIN s
  BY <1>1
<1>3. \A on \in BOOLEAN : Leads(on) # "dead"
  BY DEF Leads
<1> HIDE DEF t, n
<1>4. NoCableEvent(t) <=> NoCableEvent(s)
  BY <1>1, <1>2 DEF NoCableEvent
<1>5. ASSUME NEW i \in DOMAIN t, NEW on \in BOOLEAN, t[i] = Leads(on)
      PROVE  i \in DOMAIN s /\ s[i] = Leads(on)
  BY <1>1, <1>2, <1>3, <1>5
<1>6. ASSUME Turns(s, x, y), NEW i \in DOMAIN t, t[i] = Leads(x)
      PROVE  \E k \in DOMAIN t : k < i /\ t[k] = Leads(~x)
  BY <1>1, <1>5, <1>6 DEF Turns
<1>7. ASSUME Turns(s, x, y), NEW i \in DOMAIN t, t[i] = Leads(~y)
      PROVE  \E k \in DOMAIN t : i < k /\ t[k] = Leads(y)
  BY <1>1, <1>5, <1>7 DEF Turns
<1>8. ASSUME Turns(s, x, y), NEW i \in DOMAIN t, NEW j \in DOMAIN t,
             NEW z \in BOOLEAN, i < j, t[i] = Leads(z), t[j] = Leads(z)
      PROVE  \E k \in DOMAIN t : i < k /\ k < j /\ t[k] = Leads(~z)
  BY <1>1, <1>5, <1>8 DEF Turns
<1>9. Turns(s, x, y) => Turns(t, x, y)
  BY <1>4, <1>6, <1>7, <1>8 DEF Turns
<1>10. QED
  BY <1>1, <1>4, <1>9 DEF t

\* The first one is read: it changes nothing, or what it says.
LEMMA TurnsTail ==
  ASSUME NEW s \in Seq(Event), NEW x \in BOOLEAN, NEW y \in BOOLEAN,
         s # <<>>, Turns(s, x, y)
  PROVE  /\ Tail(s) \in Seq(Event)
         /\ Head(s) = "dead" => Turns(Tail(s), x, y)
         /\ Head(s) # "dead"
              => Head(s) = Leads(~x) /\ Turns(Tail(s), ~x, y)
<1> DEFINE t == Tail(s)
<1>1. /\ t \in Seq(Event)
      /\ DOMAIN s = 1 .. Len(s) /\ Len(s) \in Nat \ {0}
      /\ DOMAIN t = 1 .. Len(s) - 1
      /\ \A i \in DOMAIN t : i + 1 \in DOMAIN s /\ t[i] = s[i + 1] /\ 1 < i + 1
      /\ Head(s) = s[1] /\ 1 \in DOMAIN s
  OBVIOUS
<1>2. \A k \in DOMAIN s : 1 < k => k - 1 \in DOMAIN t /\ t[k - 1] = s[k]
  BY <1>1
<1>3. /\ DOMAIN s \subseteq Int /\ DOMAIN t \subseteq Int
      /\ \A k \in DOMAIN s : ~(k < 1)
  BY <1>1
<1>4. Leads(TRUE) # Leads(FALSE) /\ \A on \in BOOLEAN : Leads(on) # "dead"
  BY DEF Leads
<1>5. \A k \in DOMAIN s :
        s[k] \in Event /\ (s[k] = "dead" \/ s[k] = Leads(x) \/ s[k] = Leads(~x))
  BY DEF Event, Leads
<1>6. s[1] = "dead" \/ s[1] = Leads(~x)
  BY <1>1, <1>3, <1>5 DEF Turns
<1> HIDE DEF t
<1>7. ASSUME NEW i \in DOMAIN t, t[i] = Leads(~y)
      PROVE  \E k \in DOMAIN t : i < k /\ t[k] = Leads(y)
  <2>1. PICK k \in DOMAIN s : i + 1 < k /\ s[k] = Leads(y)
    BY <1>1, <1>7 DEF Turns
  <2>2. k - 1 \in DOMAIN t /\ t[k - 1] = Leads(y) /\ i < k - 1
    BY <1>1, <1>2, <1>3, <2>1
  <2>3. QED
    BY <2>2
<1>8. ASSUME NEW i \in DOMAIN t, NEW j \in DOMAIN t, NEW z \in BOOLEAN,
             i < j, t[i] = Leads(z), t[j] = Leads(z)
      PROVE  \E k \in DOMAIN t : i < k /\ k < j /\ t[k] = Leads(~z)
  <2>1. /\ i + 1 \in DOMAIN s /\ j + 1 \in DOMAIN s /\ i + 1 < j + 1
        /\ s[i + 1] = Leads(z) /\ s[j + 1] = Leads(z)
    BY <1>1, <1>3, <1>8
  <2>2. PICK k \in DOMAIN s : i + 1 < k /\ k < j + 1 /\ s[k] = Leads(~z)
    BY <2>1 DEF Turns
  <2>3. k - 1 \in DOMAIN t /\ t[k - 1] = Leads(~z) /\ i < k - 1 /\ k - 1 < j
    BY <1>1, <1>2, <1>3, <2>2
  <2>4. QED
    BY <2>3
<1>9. ASSUME s[1] = "dead"
      PROVE  Turns(t, x, y)
  <2>1. ASSUME NEW i \in DOMAIN t, t[i] = Leads(x)
        PROVE  \E k \in DOMAIN t : k < i /\ t[k] = Leads(~x)
    <3>1. PICK k \in DOMAIN s : k < i + 1 /\ s[k] = Leads(~x)
      BY <1>1, <2>1 DEF Turns
    <3>2. k # 1
      BY <1>4, <1>9, <3>1
    <3>3. k - 1 \in DOMAIN t /\ t[k - 1] = Leads(~x) /\ k - 1 < i
      BY <1>1, <1>2, <1>3, <3>1, <3>2
    <3>4. QED
      BY <3>3
  <2>2. NoCableEvent(t) => NoCableEvent(s)
    <3> SUFFICES ASSUME NoCableEvent(t), NEW k \in DOMAIN s
                 PROVE  s[k] = "dead"
      BY DEF NoCableEvent
    <3>1. CASE k = 1
      BY <1>9, <3>1
    <3>2. CASE 1 < k
      BY <1>2, <3>2 DEF NoCableEvent
    <3>3. QED
      BY <1>1, <3>1, <3>2
  <2>3. QED
    BY <1>7, <1>8, <2>1, <2>2 DEF Turns
<1>10. ASSUME s[1] = Leads(~x)
       PROVE  Turns(t, ~x, y)
  <2>1. ASSUME NEW i \in DOMAIN t, t[i] = Leads(~x)
        PROVE  \E k \in DOMAIN t : k < i /\ t[k] = Leads(x)
    <3>1. i + 1 \in DOMAIN s /\ 1 < i + 1 /\ s[i + 1] = Leads(~x)
      BY <1>1, <2>1
    <3>2. Leads(~~x) = Leads(x)
      BY <1>4
    <3>3. \E k \in DOMAIN s : 1 < k /\ k < i + 1 /\ s[k] = Leads(~~x)
      <4> DEFINE z == ~x
      <4>1. /\ 1 \in DOMAIN s /\ z \in BOOLEAN
            /\ s[1] = Leads(z) /\ s[i + 1] = Leads(z)
        <5>1. z \in BOOLEAN
          OBVIOUS
        <5>2. QED
          BY <1>1, <1>10, <3>1, <5>1
      <4> HIDE DEF z
      <4>2. \E k \in DOMAIN s : 1 < k /\ k < i + 1 /\ s[k] = Leads(~z)
        BY <3>1, <4>1 DEF Turns
      <4>3. QED
        BY <4>2 DEF z
    <3>4. PICK k \in DOMAIN s : 1 < k /\ k < i + 1 /\ s[k] = Leads(x)
      BY <3>2, <3>3
    <3>5. k - 1 \in DOMAIN t /\ t[k - 1] = Leads(x) /\ k - 1 < i
      BY <1>1, <1>2, <1>3, <3>4
    <3>6. QED
      BY <3>5
  <2>2. NoCableEvent(t) => ~x = y
    <3> SUFFICES ASSUME NoCableEvent(t), y = x
                 PROVE  FALSE
      OBVIOUS
    <3>1. PICK k \in DOMAIN s : 1 < k /\ s[k] = Leads(y)
      BY <1>1, <1>10 DEF Turns
    <3>2. QED
      BY <1>2, <1>4, <3>1 DEF NoCableEvent
  <2>3. QED
    BY <1>7, <1>8, <2>1, <2>2 DEF Turns
<1>11. QED
  BY <1>1, <1>6, <1>9, <1>10, <1>4 DEF t

----------------------------------------------------------------------------
Connecting == {"online", "wait", "configure", "activate", "connect"}

\* What connected will be when the thread is done with the event it has read.
Expected == (ue \in Connecting) \/ (connected /\ ue # "offline")

CableTypes ==
  /\ connected \in BOOLEAN /\ hpd \in BOOLEAN
  /\ uevents \in Seq(Event)
  /\ ue \in {"idle", "invalidate", "offline"} \cup Connecting

\* The thread looked at connected when it read the event; nobody else changes it.
ThreadKnows ==
  /\ ue \in Connecting => ~connected
  /\ ue = "offline" => connected

\* With nothing left to read, the mode is one of this sink's.
Chosen ==
  hpd /\ NoCableEvent(uevents)
      /\ (ue \in {"activate", "connect"} \/ (connected /\ ue # "offline"))
    => \E user \in UserModes : hdmi.info.mode = ChosenMode(user, sink)

InTurn ==
  IF hpd THEN Turns(uevents, Expected, sink # None)
         ELSE NoCableEvent(uevents) /\ ~Expected

CableInv == CableTypes /\ ThreadKnows /\ Chosen /\ InTurn

LEMMA CableInit == Init => CableInv
<1> SUFFICES ASSUME Init PROVE CableInv
  OBVIOUS
<1>1. uevents \in Seq(Event) /\ NoCableEvent(uevents)
  BY DEF Init, NoCableEvent
<1>2. ue = "idle" /\ connected = FALSE /\ hpd = FALSE
  BY DEF Init
<1>3. CableTypes
  BY <1>1, <1>2 DEF CableTypes
<1>4. ThreadKnows /\ ~Expected
  BY <1>2 DEF ThreadKnows, Connecting, Expected
<1>5. Chosen /\ InTurn
  BY <1>1, <1>2, <1>4 DEF Chosen, InTurn
<1>6. QED
  BY <1>3, <1>4, <1>5 DEF CableInv

LEMMA CableElsewhere ==
  ASSUME CableInv, UNCHANGED <<connected, hpd, uevents, ue, sink, hdmi>>
  PROVE  CableInv'
  BY DEF CableInv, CableTypes, ThreadKnows, Expected, Chosen, InTurn

\* The driver reports what it sees of the cable, once it may: mode "on" lets it.
LEMMA Reported ==
  ASSUME CableInv, UNCHANGED <<connected, ue, hdmi>>, hpd' = TRUE,
         NEW y \in BOOLEAN, y <=> sink' # None,
         uevents' = Append(uevents, Leads(y)),
         IF hpd THEN y <=> sink = None ELSE y
  PROVE  CableInv'
<1>1. Expected' = Expected /\ Expected \in BOOLEAN
  BY DEF Expected, CableInv, CableTypes
<1>2. Turns(uevents, Expected, ~y)
  <2>1. CASE hpd
    <3>1. (sink # None) = ~y
      BY <2>1
    <3>2. QED
      BY <2>1, <3>1 DEF CableInv, InTurn
  <2>2. CASE ~hpd
    <3>1. y = TRUE /\ NoCableEvent(uevents) /\ Expected = FALSE
      BY <2>2, <1>1 DEF CableInv, InTurn
    <3>2. QED
      BY <3>1 DEF Turns, NoCableEvent, Leads
  <2>3. QED
    BY <2>1, <2>2
<1>3. /\ uevents' \in Seq(Event)
      /\ Turns(uevents', Expected, y)
      /\ ~NoCableEvent(uevents')
  BY <1>1, <1>2, TurnsAppend DEF CableInv, CableTypes
<1>4. (sink' # None) = y
  OBVIOUS
<1>5. InTurn'
  BY <1>1, <1>3, <1>4 DEF InTurn
<1>6. Chosen'
  BY <1>3 DEF Chosen
<1>7. CableTypes' /\ ThreadKnows'
  BY <1>3 DEF CableInv, CableTypes, ThreadKnows
<1>8. QED
  BY <1>5, <1>6, <1>7 DEF CableInv

\* The first report is read, and the thread goes where it leads.
LEMMA ReportRead ==
  ASSUME CableInv, ue = "idle", uevents # <<>>, uevents' = Tail(uevents),
         UNCHANGED <<connected, hpd, sink, hdmi>>,
         \/ Head(uevents) = "dead" /\ ue' = "invalidate"
         \/ Head(uevents) = "online" /\ ue' = HearsOnline
         \/ Head(uevents) = "offline" /\ ue' = HearsOffline
  PROVE  CableInv'
<1>1. /\ uevents \in Seq(Event) /\ connected \in BOOLEAN
      /\ Expected = connected
      /\ (sink # None) \in BOOLEAN
  BY DEF CableInv, CableTypes, Expected, Connecting
<1>2. CASE Head(uevents) = "dead"
  <2>1. Expected' = Expected /\ ue' = "invalidate"
    BY <1>1, <1>2 DEF Expected, Connecting
  <2>2. /\ uevents' \in Seq(Event)
        /\ NoCableEvent(uevents') <=> NoCableEvent(uevents)
    <3>1. /\ uevents' \in Seq(Event) /\ uevents[1] = "dead"
          /\ \A i \in DOMAIN uevents : i = 1 \/ (i - 1 \in DOMAIN uevents'
                                                 /\ uevents'[i - 1] = uevents[i])
          /\ \A i \in DOMAIN uevents' : i + 1 \in DOMAIN uevents
                                        /\ uevents'[i] = uevents[i + 1]
      BY <1>1, <1>2
    <3>2. QED
      BY <3>1 DEF NoCableEvent
  <2>3. hpd => Turns(uevents', Expected, sink # None)
    BY <1>1, <1>2, TurnsTail DEF CableInv, InTurn
  <2>4. CableTypes' /\ ThreadKnows'
    BY <2>1, <2>2 DEF CableInv, CableTypes, ThreadKnows, Connecting
  <2>5. InTurn'
    BY <2>1, <2>2, <2>3 DEF CableInv, InTurn
  <2>6. Chosen'
    BY <2>1, <2>2 DEF CableInv, Chosen
  <2>7. QED
    BY <2>4, <2>5, <2>6 DEF CableInv
<1>3. CASE Head(uevents) # "dead"
  <2>1. hpd
    <3>1. 1 \in DOMAIN uevents /\ Head(uevents) = uevents[1]
      BY <1>1
    <3>2. QED
      BY <1>3, <3>1 DEF CableInv, InTurn, NoCableEvent
  <2>2. /\ uevents' \in Seq(Event)
        /\ Head(uevents) = Leads(~connected)
        /\ Turns(uevents', ~connected, sink # None)
    BY <1>1, <1>3, <2>1, TurnsTail DEF CableInv, InTurn
  <2>3. ue' = (IF connected THEN "offline" ELSE "online")
    BY <2>2, <1>3 DEF Leads, HearsOnline, HearsOffline
  <2>4. Expected' = ~connected
    BY <1>1, <2>3 DEF Expected, Connecting
  <2>5. CableTypes' /\ ThreadKnows'
    BY <1>1, <2>2, <2>3 DEF CableInv, CableTypes, ThreadKnows, Connecting
  <2>6. InTurn'
    BY <2>1, <2>2, <2>4 DEF InTurn
  <2>7. Chosen'
    BY <1>1, <2>3 DEF Chosen
  <2>8. QED
    BY <2>5, <2>6, <2>7 DEF CableInv
<1>4. QED
  BY <1>2, <1>3

\* The thread goes on with what it has read.
LEMMA Continued ==
  ASSUME CableInv, UNCHANGED <<hpd, uevents, sink>>,
         \/ InvalidateForReset \/ handle_offline \/ AwaitComposition \/ configure
         \/ activateDisplay \/ Connect
         \/ ue = "wait" /\ ue' = "configure" /\ UNCHANGED <<connected, hdmi>>
  PROVE  CableInv'
<1>1. \/ ue = "offline" /\ ue' = "idle" /\ connected' = FALSE
      \/ ue = "invalidate" /\ ue' = "idle" /\ UNCHANGED <<connected, hdmi>>
      \/ ue = "online" /\ ue' = "wait" /\ UNCHANGED <<connected, hdmi>>
      \/ ue = "wait" /\ ue' = "configure" /\ UNCHANGED <<connected, hdmi>>
      \/ ue = "configure" /\ ue' = "activate" /\ UNCHANGED connected
      \/ ue = "activate" /\ ue' = "connect" /\ UNCHANGED <<connected, hdmi>>
      \/ ue = "connect" /\ ue' = "idle" /\ connected' = TRUE /\ UNCHANGED hdmi
  BY DEF InvalidateForReset, handle_offline, AwaitComposition, configure,
         activateDisplay, Connect, ext
<1>2. CableTypes' /\ ThreadKnows'
  <2>1. /\ connected \in BOOLEAN /\ hpd \in BOOLEAN /\ uevents \in Seq(Event)
        /\ ue \in Connecting => connected = FALSE
    BY DEF CableInv, CableTypes, ThreadKnows
  <2>2. /\ connected' \in BOOLEAN /\ ue' # "offline"
        /\ ue' \in {"idle"} \cup Connecting
        /\ ue' \in Connecting => connected' = FALSE
    BY <1>1, <2>1 DEF Connecting
  <2>3. QED
    BY <2>1, <2>2 DEF CableTypes, ThreadKnows
<1>3. Expected' = Expected
  BY <1>1 DEF CableInv, CableTypes, Expected, Connecting
<1>4. InTurn'
  BY <1>3 DEF CableInv, InTurn
<1>5. Chosen'
  <2>1. CASE ue = "configure"
    <3> SUFFICES ASSUME hpd, NoCableEvent(uevents)
                 PROVE  \E user \in UserModes : hdmi'.info.mode = ChosenMode(user, sink)
      BY DEF Chosen
    <3>1. Expected
      BY <2>1 DEF Expected, Connecting
    <3>2. sink # None
      BY <3>1 DEF CableInv, InTurn, Turns
    <3>3. configure
      BY <2>1 DEF InvalidateForReset, handle_offline, AwaitComposition,
                  activateDisplay, Connect
    <3>4. QED
      BY <3>2, <3>3 DEF configure, readResolution
  <2>2. CASE ue # "configure"
    BY <1>1, <2>2 DEF CableInv, ThreadKnows, Connecting, Chosen
  <2>3. QED
    BY <2>1, <2>2
<1>6. QED
  BY <1>2, <1>4, <1>5 DEF CableInv

LEMMA CableComposer == CableInv /\ Composer => CableInv'
<1> SUFFICES ASSUME CableInv, Composer PROVE CableInv'
  OBVIOUS
<1>1. ASSUME SetHPD(TRUE), UNCHANGED <<sink, ue, ext>>
      PROVE  CableInv'
  <2>1. CASE ~hpd /\ sink # None
    <3>1. hpd' = TRUE /\ uevents' = Append(uevents, Leads(TRUE))
      BY <1>1, <2>1 DEF SetHPD, Leads
    <3>2. QED
      BY <1>1, <2>1, <3>1, Reported DEF ext
  <2>2. CASE ~hpd /\ sink = None
    <3>1. hpd' = TRUE /\ UNCHANGED <<connected, ue, hdmi, sink, uevents>>
      BY <1>1, <2>2 DEF SetHPD, ext
    <3>2. NoCableEvent(uevents) /\ ~Expected
      BY <2>2 DEF CableInv, InTurn
    <3>3. Turns(uevents, Expected, FALSE)
      <4>1. Expected = FALSE
        BY <3>2 DEF Expected
      <4>2. \A on \in BOOLEAN : Leads(on) # "dead"
        BY DEF Leads
      <4>3. QED
        BY <3>2, <4>1, <4>2 DEF Turns, NoCableEvent
    <3>4. InTurn'
      BY <2>2, <3>1, <3>3 DEF InTurn, Expected
    <3>5. CableTypes' /\ ThreadKnows' /\ Chosen'
      BY <2>2, <3>1, <3>2 DEF CableInv, CableTypes, ThreadKnows, Chosen,
                              Expected, Connecting
    <3>6. QED
      BY <3>4, <3>5 DEF CableInv
  <2>3. CASE hpd
    <3>1. UNCHANGED <<connected, hpd, uevents, ue, sink, hdmi>>
      BY <1>1, <2>3 DEF SetHPD, CableInv, CableTypes, ext
    <3>2. QED
      BY <3>1, CableElsewhere
  <2>4. QED
    BY <2>1, <2>2, <2>3
<1>2. CASE PowerModeSet \/ ResetOff \/ ResetOn
  <2>1. /\ UNCHANGED <<sink, ue, ext>>
        /\ SetHPD(TRUE) \/ UNCHANGED <<hpd, uevents>>
    <3>1. CASE PowerModeSet
      BY <3>1 DEF PowerModeSet, AssignActive, SetHPD, ext
    <3>2. CASE ResetOff
      BY <3>2 DEF ResetOff, AssignActive, SetHPD, ext
    <3>3. CASE ResetOn
      BY <3>3 DEF ResetOn, AssignActive, SetHPD, ext
    <3>4. QED
      BY <1>2, <3>1, <3>2, <3>3
  <2>2. QED
    BY <1>1, <2>1, CableElsewhere DEF ext
<1>3. CASE ResetPanel \/ ResetUnblank \/ ResetVsync \/ ClearStatus \/ Prepare
  <2>1. UNCHANGED <<connected, hpd, uevents, ue, sink, hdmi>>
    BY <1>3 DEF ResetPanel, ResetUnblank, ResetVsync, ClearStatus, Prepare,
                cable, ext
  <2>2. QED
    BY <2>1, CableElsewhere
<1>4. CASE Set
  <2>1. /\ UNCHANGED <<hpd, uevents, sink, connected, hdmi>>
        /\ \/ ue = "wait" /\ ue' = "configure"
           \/ ue' = ue
    BY <1>4 DEF Set, cable, ext
  <2>2. QED
    BY <2>1, CableElsewhere, Continued
<1>5. QED
  BY <1>2, <1>3, <1>4 DEF Composer

LEMMA CableUevent == CableInv /\ UeventThread => CableInv'
<1> SUFFICES ASSUME CableInv, UeventThread PROVE CableInv'
  OBVIOUS
<1>1. CASE PanelDead
  BY <1>1, ReportRead DEF PanelDead, Heard, Turn, ext
<1>2. CASE Offline
  BY <1>2, ReportRead DEF Offline, Heard, Turn, ext
<1>3. CASE Online
  BY <1>3, ReportRead DEF Online, Heard, Turn, ext
<1>4. CASE \/ InvalidateForReset \/ handle_offline \/ AwaitComposition
           \/ configure \/ activateDisplay \/ Connect
  <2>1. UNCHANGED <<hpd, uevents, sink>>
    BY <1>4 DEF InvalidateForReset, handle_offline, AwaitComposition,
                configure, activateDisplay, Connect, cable
  <2>2. QED
    BY <1>4, <2>1, Continued
<1>5. QED
  BY <1>1, <1>2, <1>3, <1>4 DEF UeventThread

LEMMA CableWorld == CableInv /\ World => CableInv'
<1> SUFFICES ASSUME CableInv, World PROVE CableInv'
  OBVIOUS
<1>1. ASSUME Plug \/ Unplug
      PROVE  CableInv'
  <2>1. PICK y \in BOOLEAN : /\ y <=> sink = None
                             /\ y <=> sink' # None
                             /\ Cable(sink', Leads(y))
    BY <1>1, PowerAssumption DEF Plug, Unplug, Cable, Leads
  <2>2. CASE hpd
    <3>1. /\ UNCHANGED <<connected, ue, hdmi, hpd>> /\ hpd' = TRUE
          /\ uevents' = Append(uevents, Leads(y))
      BY <2>1, <2>2 DEF Cable, CableInv, CableTypes, ext
    <3>2. QED
      BY <2>1, <2>2, <3>1, Reported
  <2>3. CASE ~hpd
    <3>1. UNCHANGED <<connected, ue, hdmi, hpd, uevents>>
      BY <2>1, <2>3 DEF Cable, ext
    <3>2. QED
      BY <2>3, <3>1 DEF CableInv, CableTypes, ThreadKnows, Chosen, InTurn, Expected
  <2>4. QED
    BY <2>2, <2>3
<1>2. CASE PanelDies
  <2>1. /\ uevents' = Append(uevents, "dead")
        /\ UNCHANGED <<connected, hpd, ue, sink, hdmi>>
    BY <1>2 DEF PanelDies, ext
  <2>2. /\ uevents \in Seq(Event) /\ Expected \in BOOLEAN
        /\ (sink # None) \in BOOLEAN
    BY DEF CableInv, CableTypes, Expected
  <2>3. /\ uevents' \in Seq(Event)
        /\ NoCableEvent(uevents') <=> NoCableEvent(uevents)
        /\ Turns(uevents, Expected, sink # None)
             => Turns(uevents', Expected, sink # None)
    BY <2>1, <2>2, TurnsDead
  <2>4. Expected' = Expected
    BY <2>1 DEF Expected
  <2>5. QED
    BY <2>1, <2>3, <2>4 DEF CableInv, CableTypes, ThreadKnows, Chosen, InTurn
<1>3. ASSUME NEW mode \in PowerMode, SetPowerMode(mode)
      PROVE  CableInv'
  <2>1. UNCHANGED <<connected, hpd, uevents, ue, sink, hdmi>>
    BY <1>3 DEF SetPowerMode, cable, ext
  <2>2. QED
    BY <2>1, CableElsewhere
<1>4. QED
  BY <1>1, <1>2, <1>3 DEF World

\* The inductive invariant of the cable.
THEOREM CableInvariance == Spec => []CableInv
<1>1. ASSUME CableInv, [Next]_vars PROVE CableInv'
  <2>1. CASE EventThread \/ VsyncThread
    <3>1. UNCHANGED <<connected, hpd, uevents, ue, sink, hdmi>>
      BY <2>1 DEF EventThread, VsyncThread, EventControlled, EventControl,
                  ReadBlank, handle_blank_event, cable, ext
    <3>2. QED
      BY <1>1, <3>1, CableElsewhere
  <2>2. CASE UNCHANGED vars
    BY <1>1, <2>2, CableElsewhere DEF vars, cable, ext
  <2>3. QED
    BY <1>1, <2>1, <2>2, CableComposer, CableUevent, CableWorld DEF Next
<1>2. QED
  BY CableInit, <1>1, PTL DEF Spec

\* hwc_uevents.cpp: once every report is handled the external display is
\* connected exactly if a sink is there, and in a mode of that sink's own list,
\* however often the cable was pulled and plugged while the thread worked.
THEOREM HdmiFollowsCable == Spec => []HdmiInStep
<1>1. CableInv => HdmiInStep
  <2> SUFFICES ASSUME CableInv, ue = "idle", uevents = <<>>, hpd
               PROVE  /\ connected <=> sink # None
                      /\ connected => \E user \in UserModes :
                                        hdmi.info.mode = ChosenMode(user, sink)
    BY DEF HdmiInStep
  <2>1. NoCableEvent(uevents)
    BY DEF NoCableEvent
  <2>2. Expected <=> connected
    BY DEF Expected, Connecting
  <2>3. QED
    BY <2>1, <2>2 DEF CableInv, InTurn, Turns, Chosen
<1>2. QED
  BY CableInvariance, <1>1, PTL

----------------------------------------------------------------------------
(* The mode and the size: what HDMIDisplay chooses.                        *)

LEMMA Product ==
  ASSUME NEW a \in Nat, NEW b \in Nat, NEW c \in Nat, NEW d \in Nat, a <= c, b <= d
  PROVE  a * b <= c * d
<1> DEFINE x == c - a
           y == d - b
<1>1. x \in Nat /\ y \in Nat /\ c = a + x /\ d = b + y
  OBVIOUS
<1> HIDE DEF x, y
<1>2. (a + x) * (b + y) = a * b + a * y + x * b + x * y
  BY <1>1
<1>3. a * b \in Nat /\ a * y \in Nat /\ x * b \in Nat /\ x * y \in Nat
  BY <1>1
<1> DEFINE p == a * b
           q == a * y
           r == x * b
           s == x * y
<1>4. p \in Nat /\ q \in Nat /\ r \in Nat /\ s \in Nat /\ (a + x) * (b + y) = p + q + r + s
  BY <1>2, <1>3
<1> HIDE DEF p, q, r, s
<1>5. p <= (a + x) * (b + y)
  BY <1>4
<1> QED
  BY <1>1, <1>5 DEF p

\* Twice the sides of the largest source allowed make four times its area.
LEMMA Halved ==
  ASSUME NEW w \in Nat, NEW h \in Nat, NEW m \in 1 .. 4
  PROVE  ((w * m) \div 2) * ((h * m) \div 2) <= (w * h) * m
<1> DEFINE a == (w * m) \div 2
           b == (h * m) \div 2
<1>1. a \in Nat /\ b \in Nat /\ 2 * a <= w * m /\ 2 * b <= h * m /\ w * m \in Nat /\ h * m \in Nat
  BY SMTT(30)
<1> HIDE DEF a, b
<1>2. (2 * a) * (2 * b) <= (w * m) * (h * m)
  BY <1>1, Product
<1>3. (2 * a) * (2 * b) = 4 * (a * b) /\ a * b \in Nat
  BY <1>1
<1>4. (w * m) * (h * m) = ((w * h) * m) * m /\ (w * h) * m \in Nat
  BY SMTT(30)
<1> DEFINE x == (w * h) * m
           p == a * b
<1>5. x * m <= x * 4 /\ x \in Nat
  <2> HIDE DEF x
  <2>1. x \in Nat
    BY <1>4 DEF x
  <2> QED BY <2>1, Product
<1>6. p <= x
  <2>1. p \in Nat /\ 4 * p <= x * m /\ x * m \in Nat
    BY <1>2, <1>3, <1>4, <1>5
  <2> HIDE DEF p, x
  <2> QED BY <1>5, <2>1
<1> QED
  BY <1>6 DEF a, b, p, x

LEMMA AlignedDown == ASSUME NEW n \in Nat PROVE aligndown(n) \in Nat /\ aligndown(n) <= n
  BY DEF aligndown

LEMMA AspectIsSize ==
  ASSUME NEW dest \in Size, NEW src \in Size
  PROVE  LET r == getAspectRatioPosition(dest, src)
         IN  r = <<r[1], r[2]>> /\ r[1] \in Nat /\ r[2] \in Nat
<1>1. /\ dest[1] \in Nat /\ dest[2] \in Nat /\ dest = <<dest[1], dest[2]>>
      /\ src[1] \in Nat \ {0} /\ src[2] \in Nat \ {0}
  BY DEF Size
<1> DEFINE x == dest[1] * src[2]
           y == dest[2] * src[1]
<1>2. x \in Nat /\ y \in Nat
  BY <1>1
<1>3. x \div src[1] \in Nat /\ y \div src[2] \in Nat
  <2> HIDE DEF x, y
  <2> QED BY <1>1, <1>2
<1> DEFINE r == getAspectRatioPosition(dest, src)
<1>4. r = <<dest[1], x \div src[1]>> \/ r = <<y \div src[2], dest[2]>> \/ r = dest
  BY <1>1 DEF getAspectRatioPosition
<1> HIDE DEF x, y, r
<1>5. r = <<r[1], r[2]>> /\ r[1] \in Nat /\ r[2] \in Nat
  BY <1>1, <1>3, <1>4
<1> QED
  BY <1>5 DEF r

LEMMA SizeFits ==
  ASSUME FourTimes, NEW hdmiSize \in Size
  PROVE  Area(ScaledSize(hdmiSize, PrimarySize)) <= maxMDPDownscale * Area(hdmiSize)
<1> DEFINE m == maxMDPDownscale
           w == hdmiSize[1]
           h == hdmiSize[2]
           dest == Landscape(PrimarySize)
           shape == getAspectRatioPosition(dest, hdmiSize)
           limited == IF Area(hdmiSize) * m < Area(shape)
                        THEN <<(w * m) \div 2, (h * m) \div 2>> ELSE shape
<1>1. m \in 1 .. 4 /\ w \in Nat /\ h \in Nat
  BY HdmiAssumption DEF FourTimes, Size
<1>2. dest \in Size
  BY DEF FourTimes, Landscape, Size
<1>3. shape[1] \in Nat /\ shape[2] \in Nat
  <2> HIDE DEF dest
  <2> QED BY <1>2, AspectIsSize
<1>4. /\ limited[1] \in Nat /\ limited[2] \in Nat
      /\ limited[1] * limited[2] <= (w * h) * m
  <2> HIDE DEF shape, w, h, m
  <2>1. (w * m) \div 2 \in Nat /\ (h * m) \div 2 \in Nat
        /\ ((w * m) \div 2) * ((h * m) \div 2) <= (w * h) * m
    <3>1. w * m \in Nat /\ h * m \in Nat
      BY <1>1
    <3>2. (w * m) \div 2 \in Nat /\ (h * m) \div 2 \in Nat
      BY <3>1
    <3> QED BY <1>1, <3>2, Halved
  <2>2. CASE Area(hdmiSize) * m < Area(shape)
    BY <2>1, <2>2
  <2>3. CASE ~(Area(hdmiSize) * m < Area(shape))
    <3>1. Area(hdmiSize) = w * h /\ Area(shape) = shape[1] * shape[2]
      BY DEF Area, w, h
    <3>2. (w * h) * m \in Nat /\ shape[1] * shape[2] \in Nat
      BY <1>1, <1>3
    <3> QED BY <1>3, <2>3, <3>1, <3>2
  <2> QED BY <2>2, <2>3
<1>5. ScaledSize(hdmiSize, PrimarySize) = <<aligndown(limited[1]), aligndown(limited[2])>>
  BY DEF ScaledSize
<1> HIDE DEF limited, w, h, m
<1>6. /\ aligndown(limited[1]) \in Nat /\ aligndown(limited[1]) <= limited[1]
      /\ aligndown(limited[2]) \in Nat /\ aligndown(limited[2]) <= limited[2]
  BY <1>4, AlignedDown
<1>7. aligndown(limited[1]) * aligndown(limited[2]) <= limited[1] * limited[2]
  BY <1>4, <1>6, Product
<1>8. m * (w * h) = (w * h) * m /\ (w * h) * m \in Nat
  BY <1>1
<1> DEFINE p == aligndown(limited[1]) * aligndown(limited[2])
           q == limited[1] * limited[2]
           z == (w * h) * m
<1>9. p \in Nat /\ q \in Nat /\ z \in Nat /\ p <= q /\ q <= z
  BY <1>4, <1>6, <1>7, <1>8
<1>10. Area(ScaledSize(hdmiSize, PrimarySize)) = p /\ maxMDPDownscale * Area(hdmiSize) = m * (w * h)
  BY <1>5 DEF Area, m, w, h
<1> HIDE DEF p, q, z
<1>11. p <= z
  BY <1>9
<1> QED
  BY <1>8, <1>10, <1>11 DEF z

\* The mode that comes last in the table.
LEMMA LastKnown ==
  ASSUME NEW n \in Nat, NEW S \in SUBSET (1 .. n), S # {}
  PROVE  Max(S) \in S /\ \A y \in S : Max(S) >= y
<1> DEFINE below == {k \in 0 .. n : n - k \in S}
<1>1. below # {} /\ below \subseteq Nat
  <2>1. PICK y \in S : y \in 1 .. n
    OBVIOUS
  <2>2. n - y \in 0 .. n /\ n - (n - y) = y
    BY <2>1
  <2>3. n - y \in below
    BY <2>2
  <2>4. below \subseteq Nat
    OBVIOUS
  <2> HIDE DEF below
  <2> QED
    BY <2>3, <2>4
<1>2. PICK z \in below : \A y \in below : <<y, z>> \notin OpToRel(<, Nat)
  BY <1>1, WFMin, NatLessThanWellFounded, Zenon
<1>3. \A y \in below : ~(y < z)
  BY <1>1, <1>2, Zenon DEF OpToRel
<1> DEFINE x == n - z
<1>4. x \in S /\ x \in Nat /\ z = n - x
  <2>1. z \in 0 .. n /\ n - z \in S
    BY <1>2
  <2> QED
    BY <2>1
<1>5. \A y \in S : x >= y
  <2> TAKE y \in S
  <2>1. y \in 1 .. n
    OBVIOUS
  <2>2. n - y \in 0 .. n /\ n - (n - y) = y
    BY <2>1
  <2>3. n - y \in below
    BY <2>2
  <2> HIDE DEF below, x
  <2> QED
    BY <1>3, <1>4, <2>1, <2>3
<1> HIDE DEF below, x
<1> QED
  BY <1>4, <1>5 DEF Max

\* What getBestMode and getUserMode choose is in the table, and interlaced only
\* if every mode is that the table knows of the sink.
LEMMA ModeFits ==
  ASSUME Ordered, KnownModes, NEW user \in UserModes, NEW modes \in Sinks \cup {<<>>}
  PROVE  LET mode == ChosenMode(user, modes)
         IN  /\ mode \in DOMAIN gEDIDData
             /\ isInterlacedMode(mode)
                  => \A m \in Range(modes) \cap DOMAIN gEDIDData : isInterlacedMode(m)
<1> DEFINE known == Range(modes) \cap DOMAIN gEDIDData
           asked == getUserMode(user, modes)
<1>1. DOMAIN gEDIDData = 1 .. Len(gEDIDData) /\ Len(gEDIDData) \in Nat
  BY DEF Ordered
<1>2. CASE asked # NoMode
  <2>1. asked = user /\ user \in Range(modes) /\ ~isInterlacedMode(user)
    BY <1>2 DEF getUserMode, isValidMode
  <2>2. modes # <<>>
    BY <2>1 DEF Range
  <2> QED
    BY <1>2, <2>1, <2>2 DEF KnownModes, ChosenMode
<1>3. CASE asked = NoMode /\ known = {}
  <2>1. ChosenMode(user, modes) = VGA
    BY <1>3 DEF ChosenMode, getBestMode
  <2> QED
    BY <1>3, <2>1, HdmiAssumption
<1>4. CASE asked = NoMode /\ known # {}
  <2>1. ChosenMode(user, modes) = Max(known)
    BY <1>4 DEF ChosenMode, getBestMode
  <2>2. Max(known) \in known /\ \A y \in known : Max(known) >= y
    <3>1. known \in SUBSET (1 .. Len(gEDIDData))
      BY <1>1
    <3> HIDE DEF known
    <3> QED
      BY <1>1, <1>4, <3>1, LastKnown
  <2> DEFINE best == Max(known)
  <2>3. \A m \in known : m \in DOMAIN gEDIDData /\ (m < best \/ m = best)
    BY <1>1, <2>2
  <2>4. best \in DOMAIN gEDIDData
    BY <2>2
  <2> HIDE DEF best
  <2>5. isInterlacedMode(best) => \A m \in known : isInterlacedMode(m)
    BY <2>3, <2>4 DEF isInterlacedMode, Ordered
  <2> QED
    BY <2>1, <2>4, <2>5 DEF best
<1> QED
  BY <1>2, <1>3, <1>4

\* A mode of the table is composed in its own size or in one that fits.
LEMMA AttributesFit ==
  ASSUME Ordered, FourTimes, NEW mode \in DOMAIN gEDIDData, NEW enabled
  PROVE  LET chosen   == setAttributes(mode, PrimarySize, enabled)
             physical == gEDIDData[mode].size
         IN  /\ Area(chosen.size) <= maxMDPDownscale * Area(physical)
             /\ ~chosen.scaling => chosen.size = physical
<1> DEFINE physical == gEDIDData[mode].size
           a == Area(physical)
<1>1. physical \in Size
  <2> DEFINE Row == [size : Size, interlaced : BOOLEAN]
  <2>1. gEDIDData \in Seq(Row)
    BY Zenon DEF Ordered
  <2>2. \A row \in Row : row.size \in Size
    OBVIOUS
  <2> HIDE DEF Row
  <2>3. gEDIDData[mode] \in Row
    BY <2>1
  <2> QED
    BY <2>2, <2>3
<1>2. Area(ScaledSize(physical, PrimarySize)) <= maxMDPDownscale * a
  <2> HIDE DEF physical
  <2> QED BY <1>1, SizeFits
<1>3. a <= maxMDPDownscale * a
  <2>1. physical[1] \in Nat /\ physical[2] \in Nat
    BY <1>1 DEF Size
  <2>2. a \in Nat
    BY <2>1 DEF Area
  <2> HIDE DEF a
  <2>3. maxMDPDownscale \in Nat /\ 1 <= maxMDPDownscale
    BY HdmiAssumption
  <2>4. 1 * a <= maxMDPDownscale * a
    BY <2>2, <2>3, Product
  <2> QED
    BY <2>2, <2>4
<1> HIDE DEF a
<1>4. CASE Downscales(physical, PrimarySize, enabled)
  BY <1>2, <1>4 DEF setAttributes, a
<1>5. CASE ~Downscales(physical, PrimarySize, enabled)
  BY <1>3, <1>5 DEF setAttributes, a
<1> QED
  BY <1>4, <1>5

----------------------------------------------------------------------------
(* What the thread makes of what it chose.                                 *)

\* What configure leaves behind in an HDMIDisplay.
Fits(info) ==
  /\ info.mode \in DOMAIN gEDIDData
  /\ isInterlacedMode(info.mode)
       => \A m \in Range(info.modes) \cap DOMAIN gEDIDData : isInterlacedMode(m)
  /\ Area(info.size) <= maxMDPDownscale * Area(gEDIDData[info.mode].size)
  /\ ~info.scaling => info.size = gEDIDData[info.mode].size

\* The object is as configure left it from there until the cable is pulled; the
\* driver knows its mode once activateDisplay has run, and dpyAttr its size once
\* the display is connected.  The mode list is a sink's also while no sink is
\* there: it is kept until the display is torn down.
FitInv ==
  /\ sink \in Sinks \cup {None}
  /\ hdmi.info.modes \in Sinks \cup {<<>>}
  /\ (ue \in {"activate", "connect"} \/ connected) => Fits(hdmi.info)
  /\ (ue = "connect" \/ connected) => timing = hdmi.info.mode
  /\ connected => attr = DisplayInfo

LEMMA FitInit == Init => FitInv
  BY DEF Init, FitInv, Reset

LEMMA FitElsewhere ==
  ASSUME FitInv, UNCHANGED ext, sink' \in Sinks \cup {None},
         ue' \in {"activate", "connect"} => ue' = ue
  PROVE  FitInv'
<1>1. UNCHANGED <<hdmi, connected, attr, timing>>
  BY DEF ext
<1>2. DisplayInfo' = DisplayInfo
  BY <1>1 DEF DisplayInfo
<1>3. (ue' = "connect" => ue = "connect") /\ (ue' = "activate" => ue = "activate")
  OBVIOUS
<1> QED
  BY <1>1, <1>2, <1>3 DEF FitInv

\* hdmi.cpp: configure chooses a mode and a size that fit.
LEMMA Configured ==
  ASSUME Ordered, KnownModes, FourTimes, FitInv, configure, ~connected
  PROVE  FitInv'
<1>1. PICK user \in UserModes, switch \in Switches :
        LET modes  == readResolution
            mode   == ChosenMode(user, modes)
            chosen == setAttributes(mode, PrimarySize, hdmi.downscale)
        IN  hdmi' = [open |-> TRUE, downscale |-> switch,
                     info |-> [modes |-> modes, mode |-> mode,
                               size |-> chosen.size, scaling |-> chosen.scaling]]
  BY DEF configure
<1> DEFINE modes  == readResolution
           mode   == ChosenMode(user, modes)
           chosen == setAttributes(mode, PrimarySize, hdmi.downscale)
           info   == [modes |-> modes, mode |-> mode,
                      size |-> chosen.size, scaling |-> chosen.scaling]
<1>2. /\ ue' = "activate" /\ UNCHANGED <<sink, connected, attr, timing>>
      /\ hdmi'.info = info
  BY <1>1 DEF configure, cable
<1>3. modes \in Sinks \cup {<<>>}
  BY DEF readResolution, FitInv
<1>4. /\ mode \in DOMAIN gEDIDData
      /\ isInterlacedMode(mode)
           => \A m \in Range(modes) \cap DOMAIN gEDIDData : isInterlacedMode(m)
  <2> HIDE DEF modes
  <2> QED
    BY <1>3, ModeFits
<1>5. /\ Area(chosen.size) <= maxMDPDownscale * Area(gEDIDData[mode].size)
      /\ ~chosen.scaling => chosen.size = gEDIDData[mode].size
  <2> HIDE DEF mode
  <2> QED
    BY <1>4, AttributesFit
<1> HIDE DEF modes, mode, chosen
<1>6. Fits(info)
  BY <1>4, <1>5 DEF Fits
<1>7. info.modes = modes
  OBVIOUS
<1> HIDE DEF info
<1> QED
  BY <1>2, <1>3, <1>6, <1>7 DEF FitInv

LEMMA FitUevent ==
  ASSUME Ordered, KnownModes, FourTimes, FitInv, CableInv, UeventThread
  PROVE  FitInv'
<1>1. CASE configure
  <2>1. ~connected
    BY <1>1 DEF configure, CableInv, ThreadKnows, Connecting
  <2> QED
    BY <1>1, <2>1, Configured
<1>2. CASE handle_offline
  <2>1. /\ hdmi'.info = Reset \/ hdmi'.info.modes = hdmi.info.modes
        /\ connected' = FALSE /\ ue' = "idle" /\ sink' = sink
    BY <1>2 DEF handle_offline, TornDown, cable
  <2>2. hdmi'.info.modes \in Sinks \cup {<<>>}
    BY <2>1 DEF FitInv, Reset
  <2> QED
    BY <2>1, <2>2 DEF FitInv
<1>3. CASE activateDisplay
  <2>1. /\ timing' = hdmi.info.mode /\ ue = "activate" /\ ue' = "connect"
        /\ UNCHANGED <<hdmi, connected, attr, sink>>
    BY <1>3 DEF activateDisplay, cable
  <2>2. DisplayInfo' = DisplayInfo
    BY <2>1 DEF DisplayInfo
  <2> QED
    BY <2>1, <2>2 DEF FitInv
<1>4. CASE Connect
  <2>1. /\ attr' = DisplayInfo /\ ue = "connect" /\ ue' = "idle"
        /\ UNCHANGED <<hdmi, timing, sink>>
    BY <1>4 DEF Connect, cable
  <2>2. DisplayInfo' = DisplayInfo
    BY <2>1 DEF DisplayInfo
  <2> QED
    BY <2>1, <2>2 DEF FitInv
<1>5. CASE \/ PanelDead \/ InvalidateForReset \/ Offline \/ Online
           \/ AwaitComposition
  <2>1. /\ UNCHANGED <<ext, sink>>
        /\ ue' \notin {"activate", "connect"}
    BY <1>5 DEF PanelDead, InvalidateForReset, Offline, Online,
                AwaitComposition, Turn, HearsOffline, HearsOnline, cable
  <2> QED
    BY <2>1, FitElsewhere DEF FitInv
<1> QED
  BY <1>1, <1>2, <1>3, <1>4, <1>5 DEF UeventThread

LEMMA FitOthers ==
  ASSUME FitInv, Composer \/ EventThread \/ VsyncThread \/ World
  PROVE  FitInv'
<1>1. UNCHANGED ext /\ (ue' \in {"activate", "connect"} => ue' = ue)
  <2>1. CASE Composer
    BY <2>1 DEF Composer, PowerModeSet, ResetPanel, ResetOff, ResetUnblank,
                ResetOn, ResetVsync, ClearStatus, Prepare, Set
  <2>2. CASE EventThread \/ VsyncThread
    BY <2>2 DEF EventThread, VsyncThread, EventControlled, EventControl,
                ReadBlank, handle_blank_event
  <2>3. CASE World
    BY <2>3 DEF World, PanelDies, Plug, Unplug, Cable, SetPowerMode
  <2> QED
    BY <2>1, <2>2, <2>3
<1>2. sink' \in Sinks \cup {None}
  <2>1. CASE Plug \/ Unplug
    BY <2>1 DEF Plug, Unplug, Cable
  <2>2. CASE Composer
    BY <2>2 DEF Composer, PowerModeSet, ResetPanel, ResetOff, ResetUnblank,
                ResetOn, ResetVsync, ClearStatus, Prepare, Set, cable, FitInv
  <2>3. CASE EventThread \/ VsyncThread
    BY <2>3 DEF EventThread, VsyncThread, EventControlled, EventControl,
                ReadBlank, handle_blank_event, cable, FitInv
  <2>4. CASE PanelDies \/ \E mode \in PowerMode : SetPowerMode(mode)
    BY <2>4 DEF PanelDies, SetPowerMode, cable, FitInv
  <2> QED
    BY <2>1, <2>2, <2>3, <2>4 DEF World
<1> QED
  BY <1>1, <1>2, FitElsewhere

\* configure, activateDisplay and updateDisplayInfo: the external display is
\* composed in a size the MDP can shrink to the sink's mode, interlaced only
\* when the sink has nothing else the table knows, and in the driver's mode.
THEOREM SizeFitsSink ==
  ASSUME Ordered, KnownModes, FourTimes PROVE Spec => []FitsSink
<1>1. ASSUME CableInv, FitInv, [Next]_vars PROVE FitInv'
  <2>1. CASE UNCHANGED vars
    <3>1. UNCHANGED ext /\ sink' = sink /\ ue' = ue
      BY <2>1 DEF vars, cable
    <3> QED
      BY <1>1, <3>1, FitElsewhere DEF FitInv
  <2> QED
    BY <1>1, <2>1, FitUevent, FitOthers DEF Next
<1>2. FitInv => FitsSink
  <2> SUFFICES ASSUME FitInv, connected
               PROVE  LET known    == Range(hdmi.info.modes) \cap DOMAIN gEDIDData
                          physical == gEDIDData[hdmi.info.mode].size
                      IN  /\ timing = hdmi.info.mode
                          /\ isInterlacedMode(timing) => \A m \in known : isInterlacedMode(m)
                          /\ Area(attr.size) <= maxMDPDownscale * Area(physical)
                          /\ ~attr.scaling => attr.size = physical
    BY DEF FitsSink
  <2>1. attr.size = hdmi.info.size /\ attr.scaling = hdmi.info.scaling
    BY DEF FitInv, DisplayInfo
  <2>2. Fits(hdmi.info) /\ timing = hdmi.info.mode
    BY DEF FitInv
  <2> QED
    BY <2>1, <2>2, Zenon DEF Fits
<1> QED
  BY CableInvariance, FitInit, <1>1, <1>2, PTL DEF Spec

----------------------------------------------------------------------------
(* The lights HAL, a module of its own that shares nothing with Power.     *)

CONSTANTS BlinkNodes, States
VARIABLES g_battery, g_notification, g_attention, led, lcd, button, bluetooth
L == INSTANCE Lights

\* A level that is not zero is positive, in what was asked for and in the dark.
LightsInv ==
  /\ g_battery \in States \cup {L!Dark}
  /\ g_notification \in States \cup {L!Dark}
  /\ L!FrontShown

LEMMA Levels ==
  ASSUME L!LightsAssumption, NEW state \in States \cup {L!Dark}, NEW c \in L!Colour
  PROVE  state.color[c] > 0 => state.color[c] # 0
  BY DEF L!LightsAssumption, L!Dark

\* What handle_speaker_battery_locked writes shows the light in front.
LEMMA WrittenShows ==
  ASSUME L!LightsAssumption, NEW front \in States \cup {L!Dark}
  PROVE  LET shown == L!set_speaker_light_locked(front)
         IN  IF L!Blink(front) = 0
               THEN shown = front.color
               ELSE \A c \in BlinkNodes :
                      front.color[c] > 0 => shown[c] = -L!Blink(front)
<1>1. CASE L!Blink(front) = 0
  BY <1>1 DEF L!set_speaker_light_locked
<1>2. CASE L!Blink(front) # 0
  <2> SUFFICES ASSUME NEW c \in BlinkNodes, front.color[c] > 0
               PROVE  L!set_speaker_light_locked(front)[c] = -L!Blink(front)
    BY <1>2
  <2>1. c \in L!Colour /\ front.color[c] # 0
    BY Levels DEF L!LightsAssumption
  <2>2. QED
    BY <1>2, <2>1 DEF L!set_speaker_light_locked
<1>3. QED
  BY <1>1, <1>2

LEMMA LightsInit == L!Init => LightsInv
<1> SUFFICES ASSUME L!Init PROVE LightsInv
  OBVIOUS
<1>1. L!Blink(L!Dark) = 0 /\ ~L!is_lit(L!Dark)
  BY DEF L!Blink, L!is_lit, L!Dark
<1>2. led = L!Dark.color
  BY DEF L!Init, L!Dark
<1>3. QED
  BY <1>1, <1>2 DEF L!Init, LightsInv, L!FrontShown

LEMMA LightsNext ==
  ASSUME L!LightsAssumption, LightsInv, [L!Next]_(L!vars) PROVE LightsInv'
<1>1. ASSUME UNCHANGED <<g_battery, g_notification, led>> PROVE LightsInv'
  BY <1>1 DEF LightsInv, L!FrontShown, L!is_lit, L!Blink
<1>2. ASSUME g_battery' \in States \cup {L!Dark},
             g_notification' \in States \cup {L!Dark},
             L!handle_speaker_battery_locked(g_battery', g_notification')
      PROVE  LightsInv'
  <2> DEFINE front == IF L!is_lit(g_battery') THEN g_battery' ELSE g_notification'
  <2>1. led' = L!set_speaker_light_locked(front)
    BY <1>2 DEF L!handle_speaker_battery_locked
  <2>2. front \in States \cup {L!Dark}
    BY <1>2
  <2>3. L!FrontShown'
    BY <2>1, <2>2, WrittenShows DEF L!FrontShown, L!is_lit, L!Blink
  <2>4. QED
    BY <1>2, <2>3 DEF LightsInv
<1>3. ASSUME NEW state \in States, L!set_light_battery(state) PROVE LightsInv'
  BY <1>2, <1>3 DEF L!set_light_battery, LightsInv
<1>4. ASSUME NEW state \in States, L!set_light_notifications(state) PROVE LightsInv'
  BY <1>2, <1>4 DEF L!set_light_notifications, LightsInv
<1>5. ASSUME NEW state \in States, L!set_light_attention(state) PROVE LightsInv'
  BY <1>2, <1>5 DEF L!set_light_attention, LightsInv
<1>6. ASSUME NEW state \in States,
             \/ L!set_light_backlight(state) \/ L!set_light_buttons(state)
             \/ L!set_light_bluetooth(state)
      PROVE  LightsInv'
  BY <1>1, <1>6 DEF L!set_light_backlight, L!set_light_buttons, L!set_light_bluetooth
<1>7. CASE UNCHANGED L!vars
  BY <1>1, <1>7 DEF L!vars
<1>8. QED
  BY <1>3, <1>4, <1>5, <1>6, <1>7 DEF L!Next

\* lights.c, set_speaker_light_locked and handle_speaker_battery_locked: whatever
\* was shown before, the LED shows the light in front.
THEOREM FrontIsShown ==
  ASSUME L!LightsAssumption PROVE L!Spec => []L!FrontShown
<1>1. LightsInv => L!FrontShown
  BY DEF LightsInv
<1>2. QED
  BY LightsInit, LightsNext, <1>1, PTL DEF L!Spec
=============================================================================
