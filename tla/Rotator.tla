------------------------------- MODULE Rotator -------------------------------
(***************************************************************************)
(* One rotator session of the overlay library: MdssRot or MdpRot with its  *)
(* RotMem, from the configuration of a layer in hwc_prepare to the rotated *)
(* buffer that hwc_set queues on the layer's pipe.                         *)
(*                                                                         *)
(* A rotation is skipped when neither the configuration nor the input      *)
(* buffer changed (isRotCached).  The output goes round a ring of buffers; *)
(* each remembers the release fence of the frame that shows it, and is     *)
(* written again only once that fence signals.                             *)
(*                                                                         *)
(* Frames the display has not released are counted by late; a fence, and   *)
(* the last frame that reads a buffer, are the number of releases to go    *)
(* until it is over, 0 when it is.                                         *)
(***************************************************************************)
EXTENDS Integers

CONSTANTS
  Conf,      \* rotator configurations: source, crop, flags, transform
  Size,      \* Conf -> size of the rotated buffer (calcOutputBufSize)
  Secure,    \* Conf -> OV_MDP_SECURE_OVERLAY_SESSION
  Fd,        \* input buffers of the layer
  NoConf,    \* mRotInfo after reset()
  NoFd,      \* memory_id after reset()
  Targets    \* the targets considered

TYPE_MDP  == "MDP"
TYPE_MDSS == "MDSS"

\* A target has rotator hardware of one type (getRotatorHwType), steps of
\* queueBuffer that may fail, and a caller that looks at the result or not.
Target ==
  [type : {TYPE_MDP, TYPE_MDSS}, refuses : SUBSET {"remap", "play"},
   heeds : BOOLEAN]

ASSUME RotatorAssumption ==
  /\ Size \in [Conf -> Nat \ {0}]
  /\ Secure \in [Conf -> BOOLEAN]
  /\ NoConf \notin Conf /\ NoFd \notin Fd
  /\ Targets \subseteq Target

VARIABLES
  target,                \* the target, the same for ever
  phase,                 \* where the round is, for this rotator
  layer,                 \* the input buffer of the layer in this round
  mRotInfo, mLSRotInfo,  \* configuration, and that of the last rotation
  mEnabled,
  driver,                \* the configuration the driver holds
  src,                   \* mRotData.data.memory_id
  dst,                   \* the buffer mRotData.dst_data.offset points to
  mem,                   \* the size and security of the buffers; size 0: none
  mCurrIndex,
  content,               \* what was rotated into a buffer: <<conf, fd>>
  mRelFence,
  late,                  \* frames committed and not yet released
  last,                  \* the last frame whose scan-out reads a buffer
  shown                  \* the buffer this round queues on the pipe, if any

config == <<mRotInfo, mEnabled, driver>>
ring   == <<mLSRotInfo, src, dst, mem, mCurrIndex, content>>
vars   == <<target, phase, layer, config, ring, mRelFence, late, last, shown>>

ROT_NUM_BUFS == 2
Buf    == 0 .. ROT_NUM_BUFS - 1
NoBuf  == -1
Empty  == <<NoConf, NoFd>>
Closed == [size |-> 0, secure |-> FALSE]
MemOf(conf) == [size |-> Size[conf], secure |-> Secure[conf]]

\* The display queues at most this many frames before a commit blocks.
MaxLate == 3
now == late + 1

Remaining(n) == IF n = 0 THEN 0 ELSE n - 1

Reset ==
  /\ mRotInfo' = NoConf /\ mLSRotInfo' = NoConf
  /\ mEnabled' = FALSE /\ driver' = NoConf
  /\ src' = NoFd /\ dst' = 0 /\ mem' = Closed
  /\ mCurrIndex' = 0
  /\ content' = [b \in Buf |-> Empty]
  /\ mRelFence' = [b \in Buf |-> 0]
  /\ last' = [b \in Buf |-> 0]

Init ==
  /\ target \in Targets
  /\ phase = "prepare" /\ layer = NoFd
  /\ mRotInfo = NoConf /\ mLSRotInfo = NoConf
  /\ mEnabled = FALSE /\ driver = NoConf
  /\ src = NoFd /\ dst = 0 /\ mem = Closed
  /\ mCurrIndex = 0
  /\ content = [b \in Buf |-> Empty]
  /\ mRelFence = [b \in Buf |-> 0]
  /\ late = 0
  /\ last = [b \in Buf |-> 0]
  /\ shown = NoBuf

----------------------------------------------------------------------------
(* hwc_prepare: configRotator, and strategies that fail after it.          *)

\* Mutant: a switch between secure and non-secure buffers is not noticed.
AlwaysReusable(conf) == TRUE

isRotBufReusable(conf) ==
  target.type = TYPE_MDSS /\ mRotInfo # NoConf => Secure[mRotInfo] = Secure[conf]

\* MdpRot starts the session again only if the configuration is not that of
\* the last rotation.
Committed(conf) ==
  target.type = TYPE_MDSS \/ ~mEnabled \/ conf # mLSRotInfo

Configure(conf, fd) ==
  /\ phase = "prepare"
  /\ isRotBufReusable(conf)
  /\ mRotInfo' = conf
  /\ layer' = fd
  /\ phase' = "configured"
  /\ mEnabled' = TRUE
  /\ driver' = IF Committed(conf) THEN conf ELSE driver
  /\ UNCHANGED <<target, ring, mRelFence, late, last, shown>>

\* setOverlay, or startRotator, refuses: the strategy fails.
ConfigureFails(conf) ==
  /\ phase = "prepare"
  /\ isRotBufReusable(conf)
  /\ Committed(conf)
  /\ mRotInfo' = conf
  /\ mEnabled' = FALSE
  /\ UNCHANGED <<target, phase, layer, driver, ring, mRelFence, late, last, shown>>

\* A later step of the strategy fails; the session is handed out again.
Abandon ==
  /\ phase = "configured"
  /\ phase' = "prepare"
  /\ UNCHANGED <<target, layer, config, ring, mRelFence, late, last, shown>>

\* A round that does not need the session deletes it (RotMgr::configDone).
Unused ==
  /\ phase = "prepare" /\ late < MaxLate
  /\ Reset
  /\ late' = late + 1
  /\ UNCHANGED <<target, phase, layer, shown>>

\* RotMgr::clear, on the way to suspend.
Cleared ==
  /\ phase = "prepare"
  /\ Reset
  /\ UNCHANGED <<target, phase, layer, late, shown>>

----------------------------------------------------------------------------
(* hwc_set: hwc_sync places the round's release fence, draw() rotates.     *)

rotConfChanged == mRotInfo # mLSRotInfo

\* Mutant: the input buffer is not compared.
DataNeverChanged == FALSE

rotDataChanged == layer # src
isRotCached == ~rotConfChanged /\ ~rotDataChanged

\* sync_wait returns when the fence signals, or after a second without: only
\* the newest frame, which nothing replaces, stays on the screen that long.
WaitOver(b) == mRelFence[b] = 0 \/ (mRelFence[b] = late /\ late = 1)

\* Mutant: a cached rotation leaves its fence on the buffer to be written.
FencedAsCurrent == mCurrIndex

\* The ring of a session without memory has no previous buffer (% 0).
Previous == (mCurrIndex + ROT_NUM_BUFS - 1) % ROT_NUM_BUFS

setPrevBufReleaseFd ==
  /\ isRotCached
  /\ \E b \in IF mem = Closed THEN Buf ELSE {Previous} :
       mRelFence' = [mRelFence EXCEPT ![b] = now]

setCurrBufReleaseFd ==
  /\ ~isRotCached
  /\ WaitOver(mCurrIndex)
  /\ mRelFence' = [mRelFence EXCEPT ![mCurrIndex] = now]

HwcSync ==
  /\ phase = "configured"
  /\ setPrevBufReleaseFd \/ setCurrBufReleaseFd
  /\ phase' = "draw"
  /\ UNCHANGED <<target, layer, config, ring, late, last, shown>>

\* A caller that ignores a failure queues whatever dst points to.
DrawFailed ==
  /\ phase' = "commit"
  /\ shown' = IF target.heeds THEN NoBuf ELSE dst'
  /\ UNCHANGED <<target, layer, config, mRelFence, late>>

DrawCached ==
  /\ phase = "draw" /\ isRotCached
  /\ phase' = "commit"
  /\ shown' = dst
  /\ UNCHANGED <<target, layer, config, ring, mRelFence, late, last>>

\* remap() reallocates when the size changes.  Frames on their way keep the
\* old memory, which nothing writes.
Remapped(m, c, l) ==
  IF Size[mRotInfo] = mem.size
    THEN m = mem /\ c = content /\ l = last
    ELSE /\ m = MemOf(mRotInfo)
         /\ c = [b \in Buf |-> Empty]
         /\ l = [b \in Buf |-> 0]

\* The new input buffer is noted before the memory is there to rotate it.
RemapFails ==
  /\ "remap" \in target.refuses
  /\ phase = "draw" /\ ~isRotCached /\ Size[mRotInfo] # mem.size
  /\ src' = layer
  /\ \/ UNCHANGED <<mem, content, last>>
     \/ /\ mem' = Closed
        /\ content' = [b \in Buf |-> Empty]
        /\ last' = [b \in Buf |-> 0]
  /\ UNCHANGED <<mLSRotInfo, dst, mCurrIndex>>
  /\ DrawFailed

\* The driver refuses: the input buffer is restored, dst_data is not.
PlayFails ==
  /\ "play" \in target.refuses
  /\ phase = "draw" /\ ~isRotCached
  /\ Remapped(mem', content', last')
  /\ dst' = mCurrIndex
  /\ UNCHANGED <<mLSRotInfo, src, mCurrIndex>>
  /\ DrawFailed

Advance(i) == (i + 1) % ROT_NUM_BUFS

Play ==
  /\ phase = "draw" /\ ~isRotCached
  /\ src' = layer
  /\ dst' = mCurrIndex
  /\ \E c \in {content, [b \in Buf |-> Empty]} :
       /\ Remapped(mem', c, last')
       /\ content' = [c EXCEPT ![mCurrIndex] = <<driver, layer>>]
  /\ mLSRotInfo' = mRotInfo
  /\ mCurrIndex' = Advance(mCurrIndex)
  /\ phase' = "commit"
  /\ shown' = mCurrIndex
  /\ UNCHANGED <<target, layer, config, mRelFence, late>>

\* displayCommit: the frame will read the buffer until it is released.
Commit ==
  /\ phase = "commit" /\ late < MaxLate
  /\ late' = now
  /\ last' = [b \in Buf |->
                IF b = shown /\ mem # Closed THEN now ELSE last[b]]
  /\ shown' = NoBuf
  /\ phase' = "prepare"
  /\ UNCHANGED <<target, layer, config, ring, mRelFence>>

\* The display turns to the next frame, and the oldest fence signals.
Release ==
  /\ late > 1
  /\ late' = late - 1
  /\ mRelFence' = [b \in Buf |-> Remaining(mRelFence[b])]
  /\ last' = [b \in Buf |-> Remaining(last[b])]
  /\ UNCHANGED <<target, phase, layer, config, ring, shown>>

----------------------------------------------------------------------------
Next ==
  \/ \E conf \in Conf, fd \in Fd : Configure(conf, fd)
  \/ \E conf \in Conf : ConfigureFails(conf)
  \/ Abandon \/ Unused \/ Cleared
  \/ HwcSync
  \/ DrawCached \/ RemapFails \/ PlayFails \/ Play
  \/ Commit \/ Release

Spec == Init /\ [][Next]_vars

----------------------------------------------------------------------------
(* Properties.                                                             *)

\* Every variable keeps its shape; in particular the ring index stays in the
\* ring, and no fence is for a frame that does not exist.
TypeOK ==
  /\ target \in Targets
  /\ phase \in {"prepare", "configured", "draw", "commit"}
  /\ layer \in Fd \cup {NoFd} /\ src \in Fd \cup {NoFd}
  /\ {mRotInfo, mLSRotInfo, driver} \subseteq Conf \cup {NoConf}
  /\ mEnabled \in BOOLEAN
  /\ mem \in {MemOf(conf) : conf \in Conf} \cup {Closed}
  /\ mCurrIndex \in Buf /\ dst \in Buf
  /\ content \in [Buf -> (Conf \X Fd) \cup {Empty}]
  /\ late \in 0 .. MaxLate
  /\ mRelFence \in [Buf -> 0 .. MaxLate + 1]
  /\ last \in [Buf -> 0 .. MaxLate]
  /\ shown \in Buf \cup {NoBuf}

\* Targets on which a rotation, once its memory is there, does not fail; and
\* those where none fails, on the hardware that configures every round.
Plays    == "play" \notin target.refuses /\ target.heeds
Reliable == target.type = TYPE_MDSS /\ target.refuses = {}

\* "Wait for previous usage of this buffer to be over": the rotator never
\* writes a buffer that a frame still on its way to the screen reads, whatever
\* was skipped, abandoned or reallocated in between, and memory refused.
NoOverwrite == [][Plays /\ Play => last'[mCurrIndex] = 0]_vars

\* What the rotator puts on the pipe is the layer's current buffer, rotated as
\* it is configured now.
ShowsLayer ==
  phase = "commit" /\ shown # NoBuf =>
    mem # Closed /\ content[shown] = <<mRotInfo, layer>>

\* The buffer queued on the pipe is the layer's current buffer, rotated with
\* the layer's current configuration, although rotations are skipped and
\* configurations are abandoned.
ShowsCurrent == Reliable => ShowsLayer

\* "Need to fail rotator setup as rotator buffer needs reallocation": what is
\* shown was rotated into memory of the size and the security asked for.
BufferFits ==
  Reliable /\ phase = "commit" /\ shown # NoBuf => mem = MemOf(mRotInfo)

----------------------------------------------------------------------------
(* What makes them inductive.                                              *)

\* A buffer's fence covers its last reader; the newest frame does not read
\* the buffer that is written next; the round's fence is on the buffer that
\* the round shows.
FenceInv == Plays =>
  /\ \A b \in Buf : last[b] <= mRelFence[b] /\ last[b] <= late
  /\ phase # "commit" => last[mCurrIndex] = 0 \/ last[mCurrIndex] < late
  /\ mem # Closed => dst # mCurrIndex
  /\ phase = "draw" =>
       IF isRotCached
         THEN mem # Closed => mRelFence[Previous] = now
         ELSE mRelFence[mCurrIndex] = now /\ last[mCurrIndex] = 0
  /\ phase = "commit" /\ shown # NoBuf /\ mem # Closed =>
       shown = dst /\ mRelFence[shown] = now

\* The last rotation's output is in the buffer behind mCurrIndex, in memory
\* that fits it, and the session never changed its security.
RotationInv == Reliable =>
  /\ phase # "prepare" => mRotInfo \in Conf /\ driver = mRotInfo /\ layer \in Fd
  /\ IF mLSRotInfo = NoConf
       THEN mem = Closed /\ src = NoFd
       ELSE /\ mRotInfo # NoConf
            /\ Secure[mRotInfo] = Secure[mLSRotInfo]
            /\ mem = MemOf(mLSRotInfo)
            /\ dst = Previous
            /\ content[Previous] = <<mLSRotInfo, src>>
  /\ phase = "commit" =>
       shown = Previous /\ mLSRotInfo = mRotInfo /\ src = layer
=============================================================================
