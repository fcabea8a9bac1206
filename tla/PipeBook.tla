------------------------------ MODULE PipeBook ------------------------------
(***************************************************************************)
(* overlay::Overlay and its PipeBook (liboverlay/overlay.{h,cpp}): the     *)
(* book of the target's overlay pipes that every display draws from.       *)
(*                                                                         *)
(* A drawing round is hwc_prepare's: configBegin, then one display after   *)
(* the other (the highest index first) tries strategies until one is       *)
(* validated or none is left, then configDone collects what the round did  *)
(* not use; hwc_set then queues a buffer on every pipe of a validated      *)
(* strategy.  The client (MDPComp, FBUpdate, AD) is any sequence of        *)
(* getPipe, commit, validateAndSet and, after a failure, clear.            *)
(*                                                                         *)
(* driver is the kernel's side, external to this code: the overlays that   *)
(* have been SET and not UNSET, with the display, mixer and format given.  *)
(***************************************************************************)
EXTENDS Integers, Sequences

CONSTANTS NumPipes,  \* pipes of the target, PipeBook::NUM_PIPES
          PipeType,  \* PipeBook::pipeTypeLUT
          NumDpys,   \* displays, primary first
          Mixer,     \* mixers of a display: one, or two if it is split
          Target,    \* selects the getPipe policy: "default", "8x26", ...
          Nothing    \* DPY_UNUSED, MIXER_UNUSED, FORMAT_NONE, no overlay

Pipe == 0 .. NumPipes - 1
Dpy  == 0 .. NumDpys - 1
DPY_PRIMARY == 0
OV_INVALID  == NumPipes
Format  == {"YUV", "RGB"}
Session == {"NONE", "START", "END"}

Owner == [display : Dpy, mixer : Mixer, format : Format]

ASSUME PipeBookAssumption ==
  /\ NumPipes \in Nat
  /\ NumDpys \in Nat \ {0}
  /\ PipeType \in [Pipe -> {"RGB", "VG", "DMA"}]
  /\ Target \in {"default", "8x26", "8x16", "8994"}
  /\ Nothing \notin Dpy /\ Nothing \notin Mixer
  /\ Nothing \notin Format /\ Nothing \notin Owner

\* What a client asks getPipe for.  FBUpdate leaves numActiveDisplays at 1.
PipeSpecs ==
  {s \in [format : Format, needsScaling : BOOLEAN, fb : BOOLEAN,
          dpy : Dpy, mixer : Mixer, manyActive : BOOLEAN] :
     s.fb => s.format = "RGB" /\ ~s.manyActive}

VARIABLES
  mDisplay, mMixer, mFormatType,  \* the book: pipe -> value or Nothing
  mPipe,      \* pipe -> the display its GenericPipe was opened for, or Nothing
  hasId,      \* pipes whose GenericPipe carries a driver id (not -1)
  mSession,   \* pipe -> reservation session; not initialised by init()
  used,       \* sPipeUsageBitmap
  allocated,  \* sAllocatedBitmap
  sDMAMode,   \* "LINE" or "BLOCK"
  driver,     \* pipe -> Owner as SET in the kernel, or Nothing
  phase,      \* "idle", "config" (in hwc_prepare), "draw" (until hwc_set ends)
  turn,       \* the display being prepared; -1 when all are
  attempt,    \* the strategy of that display: "none", "trying", "failed", "set"
  plan        \* display -> the pipes its strategy draws with

book == <<mDisplay, mMixer, mFormatType, mPipe, mSession>>
vars == <<mDisplay, mMixer, mFormatType, mPipe, hasId, mSession, used,
          allocated, sDMAMode, driver, phase, turn, attempt, plan>>

Valid(i) == mPipe[i] # Nothing

\* Whether DMA pipes may serve display and rotator at once: 8x26 only.
DMAMultiplexing == Target = "8x26"

----------------------------------------------------------------------------
(* Which pipe a request gets.                                              *)

\* Pipe i is free, or booked for the same display, mixer and format.
\* AnyMixer is the mutant of the mutation tests that forgets the mixer.
AnyMixer(i, s) ==
  /\ mDisplay[i] \in {Nothing, s.dpy}
  /\ mFormatType[i] \in {Nothing, s.format}

Compatible(i, s) ==
  /\ mDisplay[i] \in {Nothing, s.dpy}
  /\ mMixer[i] \in {Nothing, s.mixer}
  /\ mFormatType[i] \in {Nothing, s.format}

\* Mutant: asks the usage bitmap instead of the allocation bitmap.
NotInUse(i) == i \notin used

Unallocated(i) == i \notin allocated

\* Mutant: the DMA mode is not looked at.
AnyDmaMode(i, s) == TRUE

DmaAllowed(i, s) ==
  \/ DMAMultiplexing /\ s.dpy # DPY_PRIMARY
  \/ ~(sDMAMode = "BLOCK" /\ PipeType[i] = "DMA")

\* The condition nextPipe puts on pipe i for a request s of the given type.
CanServe(i, type, s) ==
  /\ PipeType[i] = type
  /\ Compatible(i, s)
  /\ Unallocated(i)
  /\ DmaAllowed(i, s)

\* The pipe types getPipe tries, in order, on each target.
DmaUnless(cond) == IF cond THEN << >> ELSE <<"DMA">>

TypeOrder(s) ==
  LET contended == Target = "8x26" /\ s.manyActive /\ s.dpy = DPY_PRIMARY
      late      == DmaUnless(s.needsScaling)
  IN  CASE s.format = "YUV" -> <<"VG">>
        [] Target = "8x16" /\ s.needsScaling -> <<"VG">>
        [] Target = "8x16" /\ ~s.needsScaling -> <<"RGB", "DMA", "VG">>
        [] Target = "8994" -> <<"RGB", "VG">> \o late
        [] Target \in {"default", "8x26"} /\ ~s.fb ->
              DmaUnless(s.needsScaling \/ contended) \o <<"RGB", "VG">>
        [] Target = "8x26" /\ s.fb /\ s.dpy # DPY_PRIMARY -> late
        [] OTHER -> <<"RGB", "VG">> \o DmaUnless(s.needsScaling \/ contended)

\* getPipe answers dest: the first pipe of the first type that has one.
Answers(s, dest) ==
  LET order == TypeOrder(s) IN
  \/ /\ dest = OV_INVALID
     /\ \A k \in DOMAIN order, j \in Pipe : ~CanServe(j, order[k], s)
  \/ /\ dest \in Pipe
     /\ \E k \in DOMAIN order :
          /\ CanServe(dest, order[k], s)
          /\ \A j \in Pipe : CanServe(j, order[k], s) => dest <= j
          /\ \A h \in DOMAIN order : h < k =>
               \A j \in Pipe : ~CanServe(j, order[h], s)

----------------------------------------------------------------------------
Init ==
  /\ mDisplay = [i \in Pipe |-> Nothing]
  /\ mMixer = [i \in Pipe |-> Nothing]
  /\ mFormatType = [i \in Pipe |-> Nothing]
  /\ mPipe = [i \in Pipe |-> Nothing]
  /\ hasId = {}
  /\ mSession \in [Pipe -> Session]
  /\ used = {}
  /\ allocated = {}
  /\ sDMAMode = "LINE"
  /\ driver = [i \in Pipe |-> Nothing]
  /\ phase = "idle"
  /\ turn = -1
  /\ attempt = "none"
  /\ plan = [d \in Dpy |-> {}]

\* Displays are prepared from the highest index down to the primary.
LastDpy == NumDpys - 1

\* setDMAState picks the mode, then configBegin frees every bit for the round.
ConfigBegin ==
  /\ phase = "idle"
  /\ sDMAMode' \in {"LINE", "BLOCK"}
  /\ used' = {}
  /\ allocated' = {}
  /\ phase' = "config"
  /\ turn' = LastDpy
  /\ attempt' = "none"
  /\ plan' = [d \in Dpy |-> {}]
  /\ UNCHANGED <<book, hasId, driver>>

\* The session of a pipe nextPipe opens.  Mutant: it is left as found.
SessionAsFound(i) == mSession[i]

OpenedSession(i) == "NONE"

\* getPipe found pipe dest: nextPipe books it and opens it if it is not open.
Book(s, dest) ==
  /\ allocated' = allocated \cup {dest}
  /\ mDisplay' = [mDisplay EXCEPT ![dest] = s.dpy]
  /\ mMixer' = [mMixer EXCEPT ![dest] = s.mixer]
  /\ mFormatType' = [mFormatType EXCEPT ![dest] = s.format]
  /\ mPipe' = [mPipe EXCEPT ![dest] = IF Valid(dest) THEN @ ELSE s.dpy]
  /\ mSession' = [mSession EXCEPT ![dest] = IF Valid(dest) THEN @
                                                ELSE OpenedSession(dest)]
  /\ plan' = [plan EXCEPT ![s.dpy] = @ \cup {dest}]

Preparing(d) == phase = "config" /\ turn = d

GetPipe(s) ==
  /\ Preparing(s.dpy) /\ attempt \in {"none", "trying"}
  /\ \E dest \in Pipe :
       /\ Answers(s, dest)
       /\ Book(s, dest)
  /\ attempt' = "trying"
  /\ UNCHANGED <<hasId, used, sDMAMode, driver, phase, turn>>

\* No pipe for a layer: the strategy is given up.
GetPipeFails(s) ==
  /\ Preparing(s.dpy) /\ attempt \in {"none", "trying"}
  /\ Answers(s, OV_INVALID)
  /\ attempt' = "failed"
  /\ UNCHANGED <<book, hasId, used, allocated, sDMAMode, driver, phase, turn,
                 plan>>

\* The client gives up for a reason of its own (a rotator, a hardware limit).
GiveUp(d) ==
  /\ Preparing(d) /\ attempt = "trying"
  /\ attempt' = "failed"
  /\ UNCHANGED <<book, hasId, used, allocated, sDMAMode, driver, phase, turn,
                 plan>>

\* commit: MdpCtrl::set never fails, so the usage bit is always set.
Commit(d) ==
  /\ Preparing(d) /\ attempt = "trying"
  /\ \E dest \in plan[d] \ used : used' = used \cup {dest}
  /\ UNCHANGED <<book, hasId, allocated, sDMAMode, driver, phase, turn,
                 attempt, plan>>

\* The pipes validateAndSet hands to the driver for display d.
\* Mutant: those of every display.
StagedByAnyone(d) == {i \in used : Valid(i)}

Staged(d) == {i \in used : Valid(i) /\ mDisplay[i] = d}

\* The driver accepts: it numbers the new overlays and holds all of them.
ValidateAndSet(d) ==
  /\ Preparing(d) /\ attempt = "trying" /\ plan[d] \subseteq used
  /\ hasId' = hasId \cup Staged(d)
  /\ driver' = [i \in Pipe |->
                  IF i \in Staged(d)
                    THEN [display |-> d, mixer |-> mMixer[i],
                          format |-> mFormatType[i]]
                    ELSE driver[i]]
  /\ attempt' = "set"
  /\ UNCHANGED <<book, used, allocated, sDMAMode, phase, turn, plan>>

\* The driver refuses the list: nothing is set and no id is given.
ValidateFails(d) ==
  /\ Preparing(d) /\ attempt = "trying" /\ plan[d] \subseteq used
  /\ attempt' = "failed"
  /\ UNCHANGED <<book, hasId, used, allocated, sDMAMode, driver, phase, turn,
                 plan>>

\* PipeBook::destroy of every pipe in S; ~MdpCtrl unsets those with an id.
Destroy(S) ==
  /\ mDisplay' = [i \in Pipe |-> IF i \in S THEN Nothing ELSE mDisplay[i]]
  /\ mMixer' = [i \in Pipe |-> IF i \in S THEN Nothing ELSE mMixer[i]]
  /\ mFormatType' = [i \in Pipe |-> IF i \in S THEN Nothing ELSE mFormatType[i]]
  /\ mPipe' = [i \in Pipe |-> IF i \in S THEN Nothing ELSE mPipe[i]]
  /\ mSession' = [i \in Pipe |-> IF i \in S THEN "NONE" ELSE mSession[i]]
  /\ hasId' = hasId \ S
  /\ driver' = [i \in Pipe |-> IF i \in S \cap hasId THEN Nothing ELSE driver[i]]

\* The pipes clear takes from display d.  Mutant: those of every display.
AllBooked(d) == {i \in Pipe : mDisplay[i] # Nothing}

Mine(d) == {i \in Pipe : mDisplay[i] = d}

\* clear(dpy): the display's pipes are free again for the round; those the
\* driver has never seen are destroyed at once.
Clear(d) ==
  /\ Preparing(d) /\ attempt = "failed"
  /\ used' = used \ Mine(d)
  /\ allocated' = allocated \ Mine(d)
  /\ Destroy(Mine(d) \ hasId)
  /\ plan' = [plan EXCEPT ![d] = {}]
  /\ attempt' = "none"
  /\ UNCHANGED <<sDMAMode, phase, turn>>

\* The display is done, with a validated strategy or with none.
NextDisplay(d) ==
  /\ Preparing(d) /\ attempt \in {"none", "set"}
  /\ turn' = d - 1
  /\ attempt' = "none"
  /\ UNCHANGED <<book, hasId, used, allocated, sDMAMode, driver, phase, plan>>

\* What configDone collects.
Garbage(busy) ==
  {i \in Pipe : (i \notin busy /\ mSession[i] # "START") \/ mSession[i] = "END"}

ConfigDone ==
  /\ phase = "config" /\ turn = -1
  /\ Destroy(Garbage(used))
  /\ phase' = "draw"
  /\ UNCHANGED <<used, allocated, sDMAMode, turn, attempt, plan>>

\* hwc_set has queued every planned pipe and released the draw lock.
DrawDone ==
  /\ phase = "draw"
  /\ phase' = "idle"
  /\ UNCHANGED <<book, hasId, used, allocated, sDMAMode, driver, turn, attempt,
                 plan>>

\* hwc_setPowerMode(OFF): configBegin and configDone with nothing in between.
PowerOff ==
  /\ phase = "idle"
  /\ used' = {}
  /\ allocated' = {}
  /\ Destroy(Garbage({}))
  /\ plan' = [d \in Dpy |-> {}]
  /\ UNCHANGED <<sDMAMode, phase, turn, attempt>>

Prepare(d) ==
  \/ Commit(d) \/ GiveUp(d) \/ Clear(d) \/ NextDisplay(d)
  \/ ValidateAndSet(d) \/ ValidateFails(d)

Request(s) == GetPipe(s) \/ GetPipeFails(s)

Next ==
  \/ ConfigBegin \/ ConfigDone \/ DrawDone \/ PowerOff
  \/ \E s \in PipeSpecs : Request(s)
  \/ \E d \in Dpy : Prepare(d)

Spec == Init /\ [][Next]_vars

----------------------------------------------------------------------------
(* Properties.                                                             *)

\* Every variable keeps its shape; in particular the bitmaps and the plans
\* never hold OV_INVALID, the answer of a getPipe that found nothing.
TypeOK ==
  /\ mDisplay \in [Pipe -> Dpy \cup {Nothing}]
  /\ mMixer \in [Pipe -> Mixer \cup {Nothing}]
  /\ mFormatType \in [Pipe -> Format \cup {Nothing}]
  /\ mPipe \in [Pipe -> Dpy \cup {Nothing}]
  /\ hasId \subseteq Pipe
  /\ mSession \in [Pipe -> Session]
  /\ used \subseteq Pipe
  /\ allocated \subseteq Pipe
  /\ sDMAMode \in {"LINE", "BLOCK"}
  /\ driver \in [Pipe -> Owner \cup {Nothing}]
  /\ phase \in {"idle", "config", "draw"}
  /\ turn \in Dpy \cup {-1}
  /\ attempt \in {"none", "trying", "failed", "set"}
  /\ plan \in [Dpy -> SUBSET Pipe]

\* The book and the kernel agree: an overlay that is SET belongs to an open
\* pipe that knows its id, is booked for exactly the display, mixer and format
\* it was set for, and was opened on that display's framebuffer, where its
\* UNSET will go.  A lost UNSET or a rebooked pipe would break it.
DriverAgrees ==
  \A i \in Pipe :
    /\ driver[i] # Nothing <=> i \in hasId
    /\ driver[i] # Nothing =>
         /\ mPipe[i] = driver[i].display
         /\ driver[i] = [display |-> mDisplay[i], mixer |-> mMixer[i],
                         format |-> mFormatType[i]]

\* hwc_set never trips an assertion of Overlay::validate or
\* GenericPipe::queueBuffer, and never queues to another display's overlay:
\* a planned pipe exists, is in use, has an id and is set for the display
\* that planned it, whatever the other displays did after it was planned.
DrawReady ==
  phase = "draw" =>
    \A d \in Dpy : \A i \in plan[d] :
      Valid(i) /\ i \in used /\ i \in hasId /\ driver[i].display = d

\* configDone collects everything a round did not use: outside hwc_prepare an
\* open pipe, and so an overlay of the kernel, is one the last round uses.
\* The uninitialised mSession of a pipe never keeps it open.
Reclaimed ==
  phase # "config" => \A i \in Pipe : Valid(i) => i \in used

\* Once a round in block mode is configured, no overlay of a DMA pipe is left
\* for the rotator to collide with, except where DMA multiplexing allows it.
DmaReleased ==
  (phase = "draw" /\ sDMAMode = "BLOCK") =>
    \A i \in Pipe : PipeType[i] = "DMA" /\ driver[i] # Nothing =>
      DMAMultiplexing /\ driver[i].display # DPY_PRIMARY

\* "The bitmap helps allocate different pipe objects on each request": no
\* request is answered with a pipe that a strategy of the round already holds.
EachRequestNew ==
  phase = "config" =>
    \A s \in PipeSpecs, d \in Dpy : \A dest \in plan[d] : ~Answers(s, dest)

\* What makes the properties inductive: a booked pipe is an open one with no
\* reservation session; a pipe in use is allocated and booked; the plan of a
\* display is settled once its turn is over and empty before it.
Booked(i) ==
  /\ mPipe[i] = mDisplay[i]
  /\ mMixer[i] # Nothing <=> Valid(i)
  /\ mFormatType[i] # Nothing <=> Valid(i)
  /\ Valid(i) => mSession[i] = "NONE"

InUse(i) == Valid(i) /\ i \in allocated

Planned(d) ==
  /\ \A i \in plan[d] : mDisplay[i] = d /\ i \in allocated
  /\ (phase # "config" \/ d > turn \/ (d = turn /\ attempt = "set")) =>
        plan[d] \subseteq used \cap hasId
  /\ phase = "config" /\ (d < turn \/ (d = turn /\ attempt = "none")) =>
        plan[d] = {}

DmaMode(i) ==
  (PipeType[i] = "DMA" /\ i \in allocated /\ sDMAMode = "BLOCK") =>
    DMAMultiplexing /\ mDisplay[i] # DPY_PRIMARY

BookInv ==
  /\ \A i \in Pipe : Booked(i)
  /\ hasId \subseteq {i \in Pipe : Valid(i)}
  /\ \A i \in used : InUse(i)
  /\ \A d \in Dpy : Planned(d)
  /\ \A i \in Pipe : DmaMode(i)
  /\ phase = "draw" => turn = -1

\* The kernel sees the pipes acquired and released as PipeOwnership promises.
Ownership == INSTANCE PipeOwnership WITH Display <- Dpy, NoOwner <- Nothing,
                                         owner <- driver
Implements == Ownership!Spec
=============================================================================
