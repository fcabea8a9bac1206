--------------------------- MODULE Rotator_proofs ---------------------------
(***************************************************************************)
(* Proofs about Rotator, for any configurations and input buffers.         *)
(***************************************************************************)
EXTENDS Rotator, TLAPS

\* The ring of two buffers: Advance and Previous are the other buffer.
LEMMA Ring ==
  /\ Buf = {0, 1} /\ NoBuf \notin Buf
  /\ \A i \in Buf : Advance(i) = 1 - i /\ (i + ROT_NUM_BUFS - 1) % ROT_NUM_BUFS = 1 - i
  BY DEF Buf, NoBuf, ROT_NUM_BUFS, Advance

\* Every buffer that Previous or mCurrIndex names is in the ring.
LEMMA PreviousIs == TypeOK => Previous = 1 - mCurrIndex /\ Previous \in Buf
  BY Ring DEF TypeOK, Previous

\* The rotated memory of a configuration is never closed memory.
LEMMA Memory ==
  \A conf \in Conf :
    /\ MemOf(conf).size = Size[conf] /\ MemOf(conf).secure = Secure[conf]
    /\ Size[conf] # 0 /\ MemOf(conf) # Closed
  BY RotatorAssumption DEF MemOf, Closed

----------------------------------------------------------------------------
(* Types.                                                                  *)

\* A session that is enabled has told the driver a configuration.
Configured ==
  /\ mEnabled => driver \in Conf
  /\ phase \in {"configured", "draw"} => mEnabled /\ mRotInfo \in Conf /\ layer \in Fd

Typed == TypeOK /\ Configured

\* What a session that was just reset holds.
LEMMA Fresh ==
  /\ [b \in Buf |-> Empty] \in [Buf -> (Conf \X Fd) \cup {Empty}]
  /\ [b \in Buf |-> 0] \in [Buf -> 0 .. MaxLate + 1]
  /\ [b \in Buf |-> 0] \in [Buf -> 0 .. MaxLate]
  /\ 0 \in Buf
  BY Ring DEF MaxLate

LEMMA TypedInit == Init => Typed
  BY Ring, Fresh DEF Init, Typed, TypeOK, Configured, MaxLate

LEMMA TypedStep == Typed /\ [Next]_vars => Typed'
<1> SUFFICES ASSUME Typed, [Next]_vars PROVE Typed'
  OBVIOUS
<1> USE Ring DEF Typed, TypeOK, Configured, MaxLate
<1>1. ASSUME NEW conf \in Conf, NEW fd \in Fd, Configure(conf, fd) PROVE Typed'
  BY <1>1 DEF Configure, Committed, ring
<1>2. ASSUME NEW conf \in Conf, ConfigureFails(conf) PROVE Typed'
  BY <1>2 DEF ConfigureFails, ring
<1>3. CASE Abandon
  BY <1>3 DEF Abandon, config, ring
<1>4. CASE Unused
  <2>1. late' \in 0 .. MaxLate
    BY <1>4 DEF Unused
  <2> QED
    BY <1>4, <2>1, Fresh DEF Unused, Reset
<1>5. CASE Cleared
  BY <1>5, Fresh DEF Cleared, Reset
<1>6. CASE HwcSync
  <2>1. mRelFence' \in [Buf -> 0 .. MaxLate + 1]
    BY <1>6, PreviousIs DEF HwcSync, setPrevBufReleaseFd, setCurrBufReleaseFd, now
  <2> QED
    BY <1>6, <2>1 DEF HwcSync, config, ring
<1>7. CASE DrawCached
  BY <1>7 DEF DrawCached, config, ring
<1>8. CASE RemapFails
  BY <1>8 DEF RemapFails, DrawFailed, config
<1>9. CASE PlayFails
  <2>1. mem' \in {MemOf(conf) : conf \in Conf} \cup {Closed}
    BY <1>9 DEF PlayFails, Remapped
  <2>2. content' \in [Buf -> (Conf \X Fd) \cup {Empty}]
    BY <1>9 DEF PlayFails, Remapped
  <2>3. last' \in [Buf -> 0 .. MaxLate]
    BY <1>9 DEF PlayFails, Remapped
  <2> QED
    BY <1>9, <2>1, <2>2, <2>3 DEF PlayFails, DrawFailed, config
<1>10. CASE Play
  <2>1. mem' \in {MemOf(conf) : conf \in Conf} \cup {Closed}
    BY <1>10 DEF Play, Remapped
  <2>2. content' \in [Buf -> (Conf \X Fd) \cup {Empty}]
    <3>1. <<driver, layer>> \in Conf \X Fd
      BY <1>10 DEF Play
    <3>2. PICK c \in {content, [b \in Buf |-> Empty]} :
            content' = [c EXCEPT ![mCurrIndex] = <<driver, layer>>]
      BY <1>10 DEF Play
    <3>3. c \in [Buf -> (Conf \X Fd) \cup {Empty}]
      OBVIOUS
    <3> QED
      BY <3>1, <3>2, <3>3
  <2>3. last' \in [Buf -> 0 .. MaxLate]
    BY <1>10 DEF Play, Remapped
  <2> QED
    BY <1>10, <2>1, <2>2, <2>3 DEF Play, config
<1>11. CASE Commit
  BY <1>11 DEF Commit, config, ring, now
<1>12. CASE Release
  <2>1. \A n \in 0 .. MaxLate + 1 : Remaining(n) \in 0 .. MaxLate
    BY DEF Remaining
  <2>2. late' \in 0 .. MaxLate
    BY <1>12 DEF Release
  <2>3. /\ mRelFence' \in [Buf -> 0 .. MaxLate + 1]
        /\ last' \in [Buf -> 0 .. MaxLate]
    BY <1>12, <2>1 DEF Release
  <2> QED
    BY <1>12, <2>2, <2>3 DEF Release, config, ring
<1>13. CASE UNCHANGED vars
  BY <1>13 DEF vars, config, ring
<1> QED
  BY <1>1, <1>2, <1>3, <1>4, <1>5, <1>6, <1>7, <1>8, <1>9, <1>10, <1>11, <1>12,
     <1>13 DEF Next

\* Every variable keeps its shape, for any hardware and any failures.
THEOREM Types == Spec => []TypeOK
<1>1. Init => Typed
  BY TypedInit
<1>2. Typed /\ [Next]_vars => Typed'
  BY TypedStep
<1>3. Typed => TypeOK
  BY DEF Typed
<1> QED
  BY <1>1, <1>2, <1>3, PTL DEF Spec

----------------------------------------------------------------------------
(* Fences.                                                                 *)

\* The conjuncts of FenceInv.
Covered == \A b \in Buf : last[b] <= mRelFence[b] /\ last[b] <= late
NextFree == phase # "commit" => last[mCurrIndex] = 0 \/ last[mCurrIndex] < late
DstBehind == mem # Closed => dst # mCurrIndex
DrawFenced ==
  phase = "draw" =>
    IF isRotCached
      THEN mem # Closed => mRelFence[Previous] = now
      ELSE mRelFence[mCurrIndex] = now /\ last[mCurrIndex] = 0
ShownFenced ==
  phase = "commit" /\ shown # NoBuf /\ mem # Closed =>
    shown = dst /\ mRelFence[shown] = now

LEMMA FenceParts ==
  FenceInv <=> Plays => Covered /\ NextFree /\ DstBehind /\ DrawFenced /\ ShownFenced
  BY DEF FenceInv, Covered, NextFree, DstBehind, DrawFenced, ShownFenced

LEMMA FenceInit == Init => FenceInv
  BY Ring DEF Init, FenceInv

\* A wait that ends leaves no reader, even one that times out: the frame on
\* the screen does not read the buffer that is written next.
LEMMA WaitEnds ==
  Typed /\ Covered /\ NextFree /\ phase = "configured" /\ WaitOver(mCurrIndex)
    => last[mCurrIndex] = 0
<1> SUFFICES ASSUME Typed, Covered, NextFree, phase = "configured",
                    WaitOver(mCurrIndex)
             PROVE  last[mCurrIndex] = 0
  OBVIOUS
<1>1. /\ last[mCurrIndex] \in 0 .. MaxLate /\ mRelFence[mCurrIndex] \in 0 .. MaxLate + 1
      /\ late \in 0 .. MaxLate /\ mCurrIndex \in Buf
  BY DEF Typed, TypeOK
<1>2. last[mCurrIndex] <= mRelFence[mCurrIndex]
  BY <1>1 DEF Covered
<1> QED
  BY <1>1, <1>2 DEF NextFree, WaitOver, MaxLate

\* No step changes the target.
LEMMA TargetStays == [Next]_vars => target' = target
  BY DEF Next, vars, Configure, ConfigureFails, Abandon, Unused, Cleared, HwcSync,
         DrawCached, RemapFails, PlayFails, DrawFailed, Play, Commit, Release

LEMMA FenceStep == Typed /\ FenceInv /\ [Next]_vars => FenceInv'
<1> SUFFICES ASSUME Typed, FenceInv, [Next]_vars, Plays PROVE FenceInv'
  BY TargetStays DEF FenceInv, Plays
<1>0. /\ mCurrIndex \in Buf /\ dst \in Buf /\ Previous \in Buf
      /\ mCurrIndex \in {0, 1} /\ Previous = 1 - mCurrIndex
      /\ late \in 0 .. MaxLate
      /\ last \in [Buf -> 0 .. MaxLate] /\ mRelFence \in [Buf -> 0 .. MaxLate + 1]
      /\ Buf = {0, 1}
  BY Ring, PreviousIs DEF Typed, TypeOK
<1>p. Covered /\ NextFree /\ DstBehind /\ DrawFenced /\ ShownFenced
  BY FenceParts
<1>q. SUFFICES Covered' /\ NextFree' /\ DstBehind' /\ DrawFenced' /\ ShownFenced'
  BY FenceParts DEF FenceInv, Covered, NextFree, DstBehind, DrawFenced, ShownFenced
<1> USE <1>0, <1>p DEF MaxLate, now
<1>1. ASSUME NEW conf \in Conf, NEW fd \in Fd, Configure(conf, fd)
      PROVE Covered' /\ NextFree' /\ DstBehind' /\ DrawFenced' /\ ShownFenced'
  BY <1>1 DEF Configure, ring, Covered, NextFree, DstBehind, DrawFenced, ShownFenced
<1>2. ASSUME NEW conf \in Conf, ConfigureFails(conf)
      PROVE Covered' /\ NextFree' /\ DstBehind' /\ DrawFenced' /\ ShownFenced'
  BY <1>2 DEF ConfigureFails, ring, Covered, NextFree, DstBehind, DrawFenced, ShownFenced
<1>3. CASE Abandon
  BY <1>3 DEF Abandon, ring, Covered, NextFree, DstBehind, DrawFenced, ShownFenced
<1>4. CASE Unused
  BY <1>4 DEF Unused, Reset, Covered, NextFree, DstBehind, DrawFenced, ShownFenced
<1>5. CASE Cleared
  BY <1>5 DEF Cleared, Reset, Covered, NextFree, DstBehind, DrawFenced, ShownFenced
<1>6. CASE HwcSync
  <2>0. /\ isRotCached' <=> isRotCached
        /\ Previous' = Previous
    BY <1>6 DEF HwcSync, config, ring, isRotCached, rotConfChanged, rotDataChanged, Previous
  <2>1. \E b \in Buf : mRelFence' = [mRelFence EXCEPT ![b] = late + 1]
    BY <1>6 DEF HwcSync, setPrevBufReleaseFd, setCurrBufReleaseFd
  <2>2. Covered'
    BY <1>6, <2>1 DEF HwcSync, Covered
  <2>3. DrawFenced'
    <3>1. CASE isRotCached
      <4>1. mem # Closed => mRelFence'[Previous] = late + 1
        BY <1>6, <3>1 DEF HwcSync, setPrevBufReleaseFd, setCurrBufReleaseFd
      <4> QED
        BY <1>6, <2>0, <3>1, <4>1 DEF HwcSync, ring, DrawFenced
    <3>2. CASE ~isRotCached
      <4>1. mRelFence'[mCurrIndex] = late + 1 /\ WaitOver(mCurrIndex)
        BY <1>6, <3>2 DEF HwcSync, setPrevBufReleaseFd, setCurrBufReleaseFd
      <4>2. last[mCurrIndex] = 0
        BY <1>6, <4>1, WaitEnds DEF HwcSync
      <4> QED
        BY <1>6, <2>0, <3>2, <4>1, <4>2 DEF HwcSync, ring, DrawFenced
    <3> QED
      BY <3>1, <3>2
  <2> QED
    BY <1>6, <2>2, <2>3 DEF HwcSync, ring, NextFree, DstBehind, ShownFenced
<1>7. CASE DrawCached
  <2>1. mem # Closed => mRelFence[dst] = late + 1
    BY <1>7 DEF DrawCached, DrawFenced, DstBehind
  <2> QED
    BY <1>7, <2>1 DEF DrawCached, config, ring, Covered, NextFree, DstBehind, DrawFenced, ShownFenced
<1>8. CASE RemapFails
  <2>1. Covered' /\ DstBehind'
    BY <1>8 DEF RemapFails, DrawFailed, Plays, Covered, DstBehind
  <2> QED
    BY <1>8, <2>1 DEF RemapFails, DrawFailed, Plays, NextFree, DrawFenced, ShownFenced
<1>9. CASE PlayFails
  BY <1>9 DEF PlayFails, Plays
<1>10. CASE Play
  <2>1. /\ mCurrIndex' = 1 - mCurrIndex /\ dst' = mCurrIndex /\ shown' = mCurrIndex
        /\ mRelFence' = mRelFence /\ late' = late /\ phase' = "commit"
    BY <1>10, Ring DEF Play
  <2>2. \A b \in Buf : last'[b] \in {0, last[b]}
    BY <1>10 DEF Play, Remapped
  <2>3. mRelFence[mCurrIndex] = late + 1
    BY <1>10 DEF Play, DrawFenced
  <2> QED
    BY <2>1, <2>2, <2>3 DEF Covered, NextFree, DstBehind, DrawFenced, ShownFenced
<1>11. CASE Commit
  <2>1. /\ late' = late + 1 /\ phase' = "prepare" /\ mRelFence' = mRelFence
        /\ mem' = mem /\ dst' = dst /\ mCurrIndex' = mCurrIndex
    BY <1>11 DEF Commit, ring
  <2>2. \A b \in Buf : last'[b] = IF b = shown /\ mem # Closed THEN late + 1 ELSE last[b]
    BY <1>11 DEF Commit
  <2>3. shown \in Buf /\ mem # Closed => shown = dst /\ mRelFence[shown] = late + 1 /\ shown # mCurrIndex
    BY <1>11, Ring DEF Commit, ShownFenced, DstBehind
  <2>4. Covered'
    BY <2>1, <2>2, <2>3 DEF Covered
  <2>5. NextFree'
    BY <2>1, <2>2, <2>3 DEF NextFree, Covered
  <2> QED
    BY <2>1, <2>4, <2>5 DEF DstBehind, DrawFenced, ShownFenced
<1>12. CASE Release
  <2>1. /\ late' = late - 1 /\ late > 1 /\ phase' = phase /\ mem' = mem /\ dst' = dst
        /\ mCurrIndex' = mCurrIndex /\ shown' = shown /\ Previous' = Previous
        /\ isRotCached' <=> isRotCached
    BY <1>12 DEF Release, config, ring, Previous, isRotCached, rotConfChanged, rotDataChanged
  <2>2. \A b \in Buf : /\ last'[b] = IF last[b] = 0 THEN 0 ELSE last[b] - 1
                       /\ mRelFence'[b] = IF mRelFence[b] = 0 THEN 0 ELSE mRelFence[b] - 1
    BY <1>12 DEF Release, Remaining
  <2>3. Covered' /\ NextFree'
    BY <2>1, <2>2 DEF Covered, NextFree
  <2>4. DrawFenced'
    BY <2>1, <2>2 DEF DrawFenced
  <2>5. ShownFenced'
    BY <2>1, <2>2 DEF ShownFenced
  <2> QED
    BY <2>1, <2>3, <2>4, <2>5 DEF DstBehind
<1>13. CASE UNCHANGED vars
  BY <1>13 DEF vars, config, ring, Previous, isRotCached, rotConfChanged, rotDataChanged,
     Covered, NextFree, DstBehind, DrawFenced, ShownFenced
<1> QED
  BY <1>1, <1>2, <1>3, <1>4, <1>5, <1>6, <1>7, <1>8, <1>9, <1>10, <1>11, <1>12,
     <1>13 DEF Next

\* On hardware whose rotation does not fail once its memory is there, and with
\* a caller that heeds the result, the rotator never writes a buffer that a
\* frame on its way to the screen reads.
THEOREM Fences == Spec => NoOverwrite
<1>1. Init => Typed /\ FenceInv
  BY TypedInit, FenceInit
<1>2. Typed /\ FenceInv /\ [Next]_vars => Typed' /\ FenceInv'
  BY TypedStep, FenceStep
<1>3. Typed /\ FenceInv /\ [Next]_vars => [Plays /\ Play => last'[mCurrIndex] = 0]_vars
  <2> SUFFICES ASSUME Typed, FenceInv, Plays, Play PROVE last'[mCurrIndex] = 0
    OBVIOUS
  <2>1. mCurrIndex \in Buf
    BY DEF Typed, TypeOK
  <2>2. last[mCurrIndex] = 0
    BY DEF Play, FenceInv
  <2> QED
    BY <2>1, <2>2 DEF Play, Remapped
<1> QED
  BY <1>1, <1>2, <1>3, PTL DEF Spec, NoOverwrite

----------------------------------------------------------------------------
(* What is shown.                                                          *)

LEMMA RotationInit == Init => RotationInv
  BY DEF Init, RotationInv

LEMMA RotationStep == Typed /\ RotationInv /\ [Next]_vars => RotationInv'
<1> SUFFICES ASSUME Typed, RotationInv, [Next]_vars, Reliable PROVE RotationInv'
  BY TargetStays DEF RotationInv, Reliable
<1>0. /\ mCurrIndex \in Buf /\ Previous = 1 - mCurrIndex /\ Previous \in Buf
      /\ mRotInfo \in Conf \cup {NoConf} /\ mLSRotInfo \in Conf \cup {NoConf}
      /\ content \in [Buf -> (Conf \X Fd) \cup {Empty}]
  BY PreviousIs DEF Typed, TypeOK
<1> USE <1>0, RotatorAssumption
<1>1. ASSUME NEW conf \in Conf, NEW fd \in Fd, Configure(conf, fd) PROVE RotationInv'
  <2>1. driver' = conf /\ mRotInfo' = conf /\ layer' = fd /\ phase' = "configured"
    BY <1>1 DEF Configure, Committed, Reliable
  <2>2. mRotInfo # NoConf => Secure[mRotInfo] = Secure[conf]
    BY <1>1 DEF Configure, isRotBufReusable, Reliable
  <2> QED
    BY <1>1, <2>1, <2>2 DEF Configure, ring, RotationInv, Previous
<1>2. ASSUME NEW conf \in Conf, ConfigureFails(conf) PROVE RotationInv'
  BY <1>2 DEF ConfigureFails, isRotBufReusable, Reliable, ring, RotationInv, Previous
<1>3. CASE Abandon
  BY <1>3 DEF Abandon, config, ring, RotationInv, Previous
<1>4. CASE Unused
  BY <1>4 DEF Unused, Reset, RotationInv
<1>5. CASE Cleared
  BY <1>5 DEF Cleared, Reset, RotationInv
<1>6. CASE HwcSync
  BY <1>6 DEF HwcSync, config, ring, RotationInv, Previous
<1>7. CASE DrawCached
  <2>1. mLSRotInfo = mRotInfo /\ src = layer /\ mLSRotInfo # NoConf
    BY <1>7 DEF DrawCached, isRotCached, rotConfChanged, rotDataChanged, RotationInv
  <2> QED
    BY <1>7, <2>1 DEF DrawCached, config, ring, RotationInv, Previous
<1>8. CASE RemapFails
  BY <1>8 DEF RemapFails, Reliable
<1>9. CASE PlayFails
  BY <1>9 DEF PlayFails, Reliable
<1>10. CASE Play
  <2>1. /\ mRotInfo \in Conf /\ driver = mRotInfo /\ layer \in Fd
        /\ mLSRotInfo' = mRotInfo /\ mRotInfo' = mRotInfo /\ driver' = driver
        /\ src' = layer /\ layer' = layer /\ dst' = mCurrIndex
        /\ shown' = mCurrIndex /\ mCurrIndex' = Advance(mCurrIndex)
    BY <1>10 DEF Play, config, RotationInv
  <2>2. Previous' = mCurrIndex
    <3>1. mCurrIndex' = 1 - mCurrIndex /\ mCurrIndex' \in Buf /\ mCurrIndex \in {0, 1}
      BY <2>1, Ring
    <3>2. Previous' = 1 - mCurrIndex'
      BY <3>1, Ring DEF Previous
    <3> QED
      BY <3>1, <3>2
  <2>3. mem' = MemOf(mRotInfo)
    <3>1. mLSRotInfo = NoConf => mem.size = 0
      BY DEF RotationInv, Closed
    <3>2. mLSRotInfo # NoConf =>
            mem = MemOf(mLSRotInfo) /\ Secure[mLSRotInfo] = Secure[mRotInfo]
      BY DEF RotationInv
    <3>3. CASE Size[mRotInfo] = mem.size
      <4>1. mLSRotInfo \in Conf
        BY <2>1, <3>1, <3>3, Memory
      <4>2. Size[mLSRotInfo] = Size[mRotInfo]
        BY <3>2, <3>3, <4>1, Memory
      <4>3. mem = MemOf(mRotInfo)
        BY <3>2, <4>1, <4>2 DEF MemOf
      <4> QED
        BY <1>10, <3>3, <4>3 DEF Play, Remapped
    <3>4. CASE Size[mRotInfo] # mem.size
      BY <1>10, <3>4 DEF Play, Remapped
    <3> QED
      BY <3>3, <3>4
  <2>4. content'[mCurrIndex] = <<mRotInfo, layer>>
    <3>1. PICK c \in {content, [b \in Buf |-> Empty]} :
            content' = [c EXCEPT ![mCurrIndex] = <<driver, layer>>]
      BY <1>10 DEF Play
    <3>2. DOMAIN c = Buf
      OBVIOUS
    <3> QED
      BY <2>1, <3>1, <3>2
  <2> QED
    BY <1>10, <2>1, <2>2, <2>3, <2>4 DEF RotationInv
<1>11. CASE Commit
  BY <1>11 DEF Commit, config, ring, RotationInv, Previous
<1>12. CASE Release
  BY <1>12 DEF Release, config, ring, RotationInv, Previous
<1>13. CASE UNCHANGED vars
  BY <1>13 DEF vars, config, ring, RotationInv, Previous
<1> QED
  BY <1>1, <1>2, <1>3, <1>4, <1>5, <1>6, <1>7, <1>8, <1>9, <1>10, <1>11, <1>12,
     <1>13 DEF Next

\* The buffer queued is in line with the rotator's and the layer's
\* configuration, for memory and content alike.
LEMMA Consistency ==
  Spec => [](Typed /\ RotationInv)
<1>1. Init => Typed /\ RotationInv
  BY TypedInit, RotationInit
<1>2. Typed /\ RotationInv /\ [Next]_vars => Typed' /\ RotationInv'
  BY TypedStep, RotationStep
<1> QED
  BY <1>1, <1>2, PTL DEF Spec

LEMMA OfLayer ==
  ASSUME Typed, RotationInv, Reliable, phase = "commit", shown # NoBuf
  PROVE  mem # Closed /\ content[shown] = <<mRotInfo, layer>> /\ mem = MemOf(mRotInfo)
<1>1. mRotInfo \in Conf /\ mLSRotInfo = mRotInfo /\ mLSRotInfo # NoConf
  BY RotatorAssumption DEF RotationInv
<1> QED
  BY <1>1, Memory DEF RotationInv

\* On MDSS hardware whose rotations do not fail, the buffer queued on the pipe
\* is the layer's buffer rotated as it is configured now.
THEOREM Shown == Spec => []ShowsCurrent
<1>1. Typed /\ RotationInv => ShowsCurrent
  BY OfLayer DEF ShowsCurrent, ShowsLayer
<1> QED
  BY <1>1, Consistency, PTL

\* Its memory is of the size and the security that this configuration asks for,
\* although a rotator keeps the memory of the configurations before it.
THEOREM Fits == Spec => []BufferFits
<1>1. Typed /\ RotationInv => BufferFits
  BY OfLayer DEF BufferFits
<1> QED
  BY <1>1, Consistency, PTL

=============================================================================
