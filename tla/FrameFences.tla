---------------------------- MODULE FrameFences ----------------------------
(***************************************************************************)
(* The fences of a display's frames (hwc_sync and its callers in hwc.cpp,  *)
(* hwc_virtual.cpp and hwc_copybit.cpp).                                   *)
(*                                                                         *)
(* Producers hand over buffers they are still writing, with a fence that   *)
(* signals when they have written.  hwc_set passes the fences on to those  *)
(* who read -- the rotator, the blitter, the display -- and hands back     *)
(* fences that signal when the reading is over.  A fence is the event it   *)
(* signals with; a descriptor is one reference to a fence, and whoever     *)
(* holds it has to close it or to give it away.                            *)
(***************************************************************************)
EXTENDS Integers, Sequences, FiniteSets, Bags, FiniteSetsExt, SequencesExt

CONSTANTS
  Layers,     \* the application's layers
  Top,        \* the layer whose pixels the blitter draws in a PTOR frame
  Kinds,      \* the frames a display may get, see Kind
  None,       \* no fence: a descriptor of -1
  NUM_RENDER_BUFFERS,
  Depth,      \* how many commits the driver holds before it blocks the next
  Buffers,    \* how many buffers a producer cycles through
  Faults,     \* per frame, ioctls that may fail and waits that may time out
  MaxFrame    \* bound: frames of a behaviour

Display == {"primary", "external", "virtual"}
Slot == Layers \cup {"fbt", "outbuf"}
Frame == 1 .. MaxFrame

\* A frame: where it goes; how each layer is composed; whether MDPComp chose
\* PTOR, or advanced the ring for it and then gave it up; the dimensions of the
\* render buffer; whether hwc_set leaves the display alone; whether the list
\* has the framebuffer target only; whether it is an animation of the screen;
\* whether the target goes through the rotator.
Kind == [dpy : Display, mdss : BOOLEAN,
         comp : [Layers -> {"overlay", "rotator", "cached", "gpu", "blit"}],
         ptor : {"no", "tried", "yes"}, size : Nat,
         handled : BOOLEAN, empty : BOOLEAN, animating : BOOLEAN, turned : BOOLEAN]

\* Events.
Written(n, s) == <<"written", n, s>>
Rotated(n, l) == <<"rotated", n, l>>
Blitted(n) == <<"blitted", n>>
Released(n) == <<"released", n>>
Retired(n) == <<"retired", n>>

ASSUME FencesAssumption ==
  /\ IsFiniteSet(Layers) /\ Layers \cap {"fbt", "outbuf"} = {}
  /\ \A n \in Frame, s \in Slot :
       None \notin {Written(n, s), Rotated(n, s), Blitted(n), Released(n), Retired(n)}
  /\ Kinds \subseteq Kind /\ Top \in Layers /\ Depth \in Nat \ {0}
  /\ NUM_RENDER_BUFFERS \in Nat \ {0} /\ Buffers \in Nat \ {0} /\ MaxFrame \in Nat
  /\ Faults \in [Frame -> SUBSET {"sync", "rotSync", "timeout", "secure"}]
  /\ \A k \in Kinds :
       /\ ~k.handled \/ k.empty => \A l \in Layers : k.comp[l] = "gpu"
       /\ k.ptor # "no" => k.dpy = "primary" /\ k.mdss /\ k.handled
       /\ k.ptor = "yes" => \A l \in Layers : k.comp[l] = "overlay"
       /\ k.animating => k.dpy # "primary" /\ \A l \in Layers : k.comp[l] = "gpu"
       /\ k.turned => /\ k.dpy # "primary" /\ k.handled /\ ~k.empty
                      /\ \E l \in Layers : k.comp[l] = "gpu"
       /\ (\E l \in Layers : k.comp[l] = "blit") =>
            k.dpy = "primary" /\ ~k.mdss /\ \A l \in Layers : k.comp[l] = "blit"

VARIABLES
  kinds,          \* the frames so far
  step,           \* where hwc_set is in the last of them
  acquireFenceFd, \* of the last frame, per slot
  releaseFenceFd, \* of the last frame, per layer and of the target
  retireFenceFd,
  fd,             \* the blitter's fence
  mRelFd,         \* per render buffer
  mCurRenderBufferIndex,
  ring,           \* the render buffers' size, and how often they were allocated
  renders,        \* which render buffer each frame uses
  syncs,          \* per frame, the fences given to MSMFB_BUFFER_SYNC
  jobs,           \* what the rotator and the blitter have still to do
  commits,        \* frames the driver has still to show, oldest first
  screen,         \* the frame being scanned out
  given,          \* per frame, the fences handed back to SurfaceFlinger
  open,           \* the descriptors hwc_set has to close: a bag
  done,           \* the events that have happened
  faulty,         \* frames in which a call has failed
  insecure        \* frames whose output could not be made secure, or insecure

composer == <<kinds, step, acquireFenceFd, releaseFenceFd, retireFenceFd, fd, mRelFd,
              mCurRenderBufferIndex, ring, renders, syncs, given, open, faulty, insecure>>
vars == <<composer, jobs, commits, screen, done>>

-----------------------------------------------------------------------------
Now == Len(kinds)
This == kinds[Now]
CopyBit(k) == k.dpy = "primary"
Blits(k) == k.ptor = "yes" \/ \A l \in Layers : k.comp[l] = "blit"
Synced(k) == k.handled /\ (k.empty => k.dpy = "virtual")

Signalled(f) == f = None \/ f \in done

\* The frame whose buffer a layer still shows: a cached rotation is of it.
Source(n, l) ==
  IF l \in Layers THEN Max({m \in 1 .. n : m = 1 \/ kinds[m].comp[l] # "cached"}) ELSE n

\* The target is on the screen when the GPU or the blitter has drawn into it.
UsesFb(k) == ~k.empty /\ \E l \in Layers : k.comp[l] \in {"gpu", "blit"}
UsesOutbuf(k) == k.dpy = "virtual"

Fd(f) == IF f = None THEN EmptyBag ELSE SetToBag({f})
FdsOf(F) == LET held == {F[s] : s \in DOMAIN F} \ {None}
            IN  [f \in held |-> Cardinality({s \in DOMAIN F : F[s] = f})]

NoFences == [s \in Slot |-> None]
Returned(n) == n < Now \/ (n = Now /\ step = "idle")

-----------------------------------------------------------------------------
(***************************************************************************)
(* SurfaceFlinger's frame, and what hwc_prepare makes of it.               *)
(***************************************************************************)
\* Fences come with the buffers that somebody else reads than the GPU.
Fenced(k) ==
  {l \in Layers : k.comp[l] # "gpu" /\ ~k.empty} \cup (IF UsesFb(k) THEN {"fbt"} ELSE {})
    \cup (IF UsesOutbuf(k) THEN {"outbuf"} ELSE {})

\* prepareOverlap: other dimensions free the ring and its fences; the next
\* buffer of the ring is taken.
Refit(k) == ring.size # k.size
FreeRenderBuffers == [i \in DOMAIN mRelFd |-> None]
\* Mutant of NextIndex: a ring of two buffers.
NextIndexOfTwo == (mCurRenderBufferIndex + 1) % 2
NextIndex == (mCurRenderBufferIndex + 1) % NUM_RENDER_BUFFERS
PrepareOverlap(k) ==
  LET freed == Refit(k) /\ ring.times > 0
      kept == IF freed THEN FreeRenderBuffers ELSE mRelFd
      times == IF Refit(k) THEN ring.times + 1 ELSE ring.times
  IN  /\ ring' = [size |-> k.size, times |-> times]
      /\ mRelFd' = kept
      /\ mCurRenderBufferIndex' = NextIndex
      /\ renders' = Append(renders, IF k.ptor = "yes" THEN <<times, NextIndex>> ELSE <<>>)
      /\ open' = (IF freed THEN open (-) FdsOf(mRelFd) ELSE open)
                   (+) FdsOf(acquireFenceFd')

\* A cached rotation is of the frame before, which went to the rotator.
Follows(k) ==
  /\ Now > 0 => k.dpy = This.dpy /\ k.mdss = This.mdss
  /\ \A l \in Layers : k.comp[l] = "cached" =>
       /\ Now > 0 /\ This.handled /\ ~This.empty
       /\ This.comp[l] = "cached" \/ (This.comp[l] = "rotator" /\ Now \notin insecure)

Prepare(k) ==
  /\ step = "idle" /\ Now < MaxFrame /\ Follows(k)
  /\ kinds' = Append(kinds, k)
  /\ LET fence(s) == Written(IF s \in Layers /\ k.comp[s] = "cached"
                             THEN Source(Now, s) ELSE Now + 1, s)
     IN  acquireFenceFd' = [s \in Slot |->
           IF s \in Fenced(k) /\ fence(s) \notin done THEN fence(s) ELSE None]
  /\ step' = IF ~k.handled THEN "close" ELSE IF ~Synced(k) THEN "commit"
             ELSE IF Blits(k) THEN "draw" ELSE "sync"
  /\ \/ k.ptor # "no" /\ PrepareOverlap(k)
     \/ /\ k.ptor = "no"
        /\ renders' = Append(renders, <<>>)
        /\ open' = open (+) FdsOf(acquireFenceFd')
        /\ UNCHANGED <<ring, mRelFd, mCurRenderBufferIndex>>
  /\ syncs' = Append(syncs, {})
  /\ given' = Append(given, NoFences)
  /\ UNCHANGED <<releaseFenceFd, retireFenceFd, fd, jobs, commits, screen, done, faulty,
                 insecure>>

-----------------------------------------------------------------------------
(***************************************************************************)
(* hwc_set: the blitter draws.                                             *)
(***************************************************************************)
\* A call of this frame fails.
Fails(what) == what \in Faults[Now]
Faulty == faulty' = faulty \cup {Now}
Waits(fences) == \A f \in fences : Signalled(f)

\* drawOverlap: the thread itself waits for the layers, and closes their fences.
DrawOverlap ==
  LET overlapped == {acquireFenceFd[l] : l \in Layers}
  IN  /\ This.ptor = "yes"
      /\ \/ Waits(overlapped) /\ UNCHANGED faulty
         \/ Fails("timeout") /\ ~Waits(overlapped) /\ Faulty
      /\ acquireFenceFd' = [s \in Slot |-> IF s \in Layers THEN None ELSE acquireFenceFd[s]]
      /\ fd' = Blitted(Now)
      /\ jobs' = jobs \cup {[does |-> Blitted(Now), waits |-> {}]}
      /\ open' = (open (-) FdsOf([l \in Layers |-> acquireFenceFd[l]])) (+) Fd(fd')

\* draw: before MDSS, the blitter waits for the layers, and for the target it
\* draws into.
DrawCopybit ==
  /\ \A l \in Layers : This.comp[l] = "blit"
  /\ fd' = Blitted(Now)
  /\ jobs' = jobs \cup {[does |-> Blitted(Now),
                         waits |-> {acquireFenceFd[s] : s \in Slot} \ {None}]}
  /\ acquireFenceFd' = [acquireFenceFd EXCEPT !["fbt"] = None]
  /\ open' = (open (-) Fd(acquireFenceFd["fbt"])) (+) Fd(fd')
  /\ UNCHANGED faulty

Draw ==
  /\ step = "draw"
  /\ DrawOverlap \/ DrawCopybit
  /\ step' = "sync"
  /\ UNCHANGED <<kinds, releaseFenceFd, retireFenceFd, mRelFd, mCurRenderBufferIndex, ring,
                 renders, syncs, commits, screen, given, done, insecure>>

-----------------------------------------------------------------------------
(***************************************************************************)
(* hwc_sync.                                                               *)
(***************************************************************************)
\* The sessions of LayerRotMap, those that will rotate, and the fences the
\* rotator gives for them: none when its ioctl failed.  The target has a session
\* of its own when an external display is turned.
Target(k) == IF k.turned THEN {"fbt"} ELSE {}
Sessions ==
  {l \in Layers : ~This.empty /\ This.comp[l] \in {"rotator", "cached"}} \cup Target(This)
Rotates == {s \in Sessions : s \in Layers => This.comp[s] = "rotator"}
RotFence(l, failed) == IF l \in Rotates /\ ~failed THEN Rotated(Now, l) ELSE None
Replaced(failed) == IF failed THEN Sessions \ Rotates ELSE Sessions

\* Mutant of AcquireFds: a virtual display is written when its layers are ready.
AcquireFdsOfLayers(acq) ==
  {acq[l] : l \in {l \in Layers : This.comp[l] \in {"overlay", "rotator", "cached"}}}
    \cup (IF fd # None THEN {fd} ELSE {acq["fbt"]})

\* What the display will wait for.
AcquireFds(acq) ==
  {acq["outbuf"]}
    \cup {acq[l] : l \in {l \in Layers : This.comp[l] \in {"overlay", "rotator", "cached"}}}
    \cup (IF fd # None THEN {fd} ELSE {acq["fbt"]})

\* The fence of a layer's buffer, or of the target: what the rotator gave, the
\* blitter's, or the display's; none at all during an animation.
LayerRelease(s, given_, release) ==
  IF This.animating THEN None
  ELSE CASE given_ # None -> given_
         [] s # "fbt" /\ This.comp[s] = "blit" -> fd
         [] OTHER -> release

HasRelease(s) == s = "fbt" \/ (s \in Layers /\ ~This.empty /\ This.comp[s] # "gpu")

\* Mutant of ReleaseOf: the wait is for the fence just stored.
ReleaseOfNew(release) == <<release, release>>

\* setReleaseFdSync waits for the buffer's old fence, setReleaseFd only closes
\* it: <<what is waited for, what is stored>>.
ReleaseOf(release) ==
  <<IF This.ptor = "yes" THEN mRelFd[mCurRenderBufferIndex] ELSE None, release>>

Sync(failed, rotFailed) ==
  LET rot(l) == RotFence(l, rotFailed)
      acq == [s \in Slot |-> IF s \in Replaced(rotFailed) THEN rot(s) ELSE acquireFenceFd[s]]
      fromRot == [s \in Slot |-> IF s \in Rotates THEN rot(s) ELSE None]
      release == IF failed THEN None ELSE Released(Now)
      stored == ReleaseOf(release)
      cur == mCurRenderBufferIndex
  IN  /\ step = "sync"
      /\ failed => Fails("sync")
      /\ rotFailed => Fails("rotSync") /\ Rotates # {}
      /\ faulty' = IF failed \/ rotFailed THEN faulty \cup {Now} ELSE faulty
      /\ acquireFenceFd' = acq
      /\ syncs' = [syncs EXCEPT ![Now] = IF failed THEN {} ELSE AcquireFds(acq) \ {None}]
      /\ releaseFenceFd' = [s \in Slot |->
           IF HasRelease(s) THEN LayerRelease(s, fromRot[s], release) ELSE None]
      /\ retireFenceFd' = IF failed THEN None ELSE Retired(Now)
      /\ fd' = None
      /\ \/ /\ CopyBit(This)
            /\ Signalled(stored[1])
            /\ mRelFd' = [mRelFd EXCEPT ![cur] = stored[2]]
         \/ ~CopyBit(This) /\ UNCHANGED mRelFd
      /\ LET closed == FdsOf([l \in Replaced(rotFailed) |-> acquireFenceFd[l]]) (+) Fd(fd)
                         (+) Fd(release)
                         (+) (IF CopyBit(This) THEN Fd(mRelFd[cur]) ELSE EmptyBag)
             dups == [s \in {s \in Slot : HasRelease(s) /\ ~This.animating /\ fromRot[s] = None}
                        |-> releaseFenceFd'[s]]
             made == FdsOf(fromRot) (+) FdsOf([l \in Replaced(rotFailed) |-> rot(l)])
                       (+) Fd(release) (+) Fd(retireFenceFd') (+) FdsOf(dups)
                       (+) (IF CopyBit(This) THEN Fd(release) ELSE EmptyBag)
         IN  open' = (open (+) made) (-) closed
      /\ jobs' = jobs \cup {[does |-> Rotated(Now, l),
                             waits |-> IF rotFailed THEN {} ELSE {acquireFenceFd[l]} \ {None}]
                             : l \in Rotates}
      /\ step' = "commit"
      /\ UNCHANGED <<kinds, mCurRenderBufferIndex, ring, renders, commits, screen, given, done,
                     insecure>>

-----------------------------------------------------------------------------
(***************************************************************************)
(* The end of hwc_set.                                                     *)
(***************************************************************************)
\* Mutant of CloseAcquireFds: the loop over the layers is all.
CloseAcquireFdsOfLayers == [acquireFenceFd EXCEPT !["outbuf"] = None]

\* closeAcquireFds: those it closes.
CloseAcquireFds == acquireFenceFd

\* HWCVirtualVDS::set: a frame it does not handle is retired by the output
\* buffer's own fence.
RetireFd ==
  IF ~This.handled /\ UsesOutbuf(This) THEN acquireFenceFd["outbuf"] ELSE retireFenceFd

\* hwc_set returns, and SurfaceFlinger owns the fences in the list.
Close ==
  /\ acquireFenceFd' = NoFences
  /\ releaseFenceFd' = NoFences
  /\ retireFenceFd' = None
  /\ given' = [given EXCEPT ![Now] = [releaseFenceFd EXCEPT !["outbuf"] = RetireFd]]
  /\ open' = open (-) FdsOf(CloseAcquireFds) (-) FdsOf(releaseFenceFd) (-) Fd(retireFenceFd)
  /\ step' = "idle"
  /\ UNCHANGED <<kinds, fd, mRelFd, mCurRenderBufferIndex, ring, renders, syncs, faulty,
                 insecure, jobs, screen, done>>

\* Overlay::displayCommit: the driver takes the frame when it has room.
Commit ==
  /\ step = "commit" /\ Len(commits) < Depth
  /\ commits' = Append(commits, Now)
  /\ Close

Skip ==
  /\ step = "close"
  /\ Close
  /\ UNCHANGED commits

\* HWCVirtualVDS::set returns when the writeback cannot be made secure, or
\* insecure, for the output buffer: nothing is synchronised, drawn or committed,
\* and the acquire fences go with the list, open.
SecureFails ==
  /\ step = "sync" /\ This.dpy = "virtual" /\ Fails("secure")
  /\ insecure' = insecure \cup {Now}
  /\ Faulty
  /\ acquireFenceFd' = NoFences
  /\ step' = "idle"
  /\ UNCHANGED <<kinds, releaseFenceFd, retireFenceFd, fd, mRelFd, mCurRenderBufferIndex, ring,
                 renders, syncs, given, open, jobs, commits, screen, done>>

-----------------------------------------------------------------------------
(***************************************************************************)
(* The producers, the engines and the display driver.                      *)
(***************************************************************************)
\* The frames that brought a new buffer for a slot; and whether the fences of
\* all frames that showed it say that its buffer is free.
Brought(s) == {n \in 1 .. Now : s \in Fenced(kinds[n]) /\ Source(n, s) = n}
Free(n, s) ==
  \A m \in n .. Now : Source(m, s) = n => Returned(m) /\ Signalled(given[m][s])

\* A producer has a few buffers, and writes into one that is free.
Produce(n, s) ==
  /\ n \in Brought(s) /\ Written(n, s) \notin done
  /\ \A m \in Brought(s) : Cardinality({k \in Brought(s) : m < k /\ k <= n}) = Buffers => Free(m, s)
  /\ done' = done \cup {Written(n, s)}
  /\ UNCHANGED <<composer, jobs, commits, screen>>

Work(j) ==
  /\ j.waits \subseteq done
  /\ done' = done \cup {j.does}
  /\ jobs' = jobs \ {j}
  /\ UNCHANGED <<composer, commits, screen>>

\* A frame reaches the panel and the one before it leaves; what is written back
\* is over at once.
Show ==
  /\ commits # <<>> /\ syncs[Head(commits)] \subseteq done
  /\ LET n == Head(commits)
         over == IF kinds[n].dpy = "virtual" THEN {n} ELSE {screen} \ {0}
     IN  /\ done' = done \cup {Released(m) : m \in over} \cup {Retired(m) : m \in over}
         /\ screen' = IF kinds[n].dpy = "virtual" THEN 0 ELSE n
  /\ commits' = Tail(commits)
  /\ UNCHANGED <<composer, jobs>>

Init ==
  /\ kinds = <<>> /\ step = "idle"
  /\ acquireFenceFd = NoFences /\ releaseFenceFd = NoFences /\ retireFenceFd = None
  /\ fd = None
  /\ mRelFd = [i \in 0 .. NUM_RENDER_BUFFERS - 1 |-> None]
  /\ mCurRenderBufferIndex = 0
  /\ ring = [size |-> 0, times |-> 0] /\ renders = <<>>
  /\ syncs = <<>> /\ jobs = {} /\ commits = <<>> /\ screen = 0 /\ given = <<>>
  /\ open = EmptyBag /\ done = {} /\ faulty = {} /\ insecure = {}

HwcSet == Draw \/ (\E f, r \in BOOLEAN : Sync(f, r)) \/ SecureFails \/ Commit \/ Skip
NewFrame == \E k \in Kinds : Prepare(k)
Produces == \E n \in 1 .. Now, s \in Slot : Produce(n, s)
Works == \E j \in jobs : Work(j)

Next == NewFrame \/ HwcSet \/ Produces \/ Works \/ Show

\* Producers write what they promised, the engines and the driver do what is
\* queued on them, and the composer's thread goes on when it is not blocked.
\* SurfaceFlinger need not compose again.
Fairness ==
  WF_vars(HwcSet) /\ WF_vars(Produces) /\ WF_vars(Works) /\ WF_vars(Show)

Spec == Init /\ [][Next]_vars /\ Fairness

-----------------------------------------------------------------------------
(***************************************************************************)
(* Properties.                                                             *)
(***************************************************************************)
\* Every place that holds a descriptor -- the list's fences, the blitter's, the
\* render buffers' -- holds an open one of its own, so that none is closed twice;
\* and the descriptors open beyond those are of the fences that two paths of the
\* code lose, and of no other: all acquire fences of a frame whose output buffer
\* cannot be made secure (hwc_virtual.cpp:156-161 returns before
\* closeAcquireFds), and the rotator's fence for the turned target of an
\* animation (hwc_utils.cpp:1747 writes -1 over it).
InPlaces ==
  FdsOf(acquireFenceFd) (+) FdsOf(releaseFenceFd) (+) Fd(retireFenceFd)
    (+) Fd(fd) (+) FdsOf(mRelFd)
Lost ==
  (UNION {{Written(Source(n, s), s) : s \in Fenced(kinds[n])} : n \in insecure})
    \cup {Rotated(n, "fbt") : n \in {n \in 1 .. Now : kinds[n].animating /\ kinds[n].turned}}
DescriptorsKept == InPlaces \sqsubseteq open /\ BagToSet(open (-) InPlaces) \subseteq Lost

\* What an engine or the display reads in a frame, and what has to be written first.
DisplayReads(n) ==
  LET k == kinds[n]
  IN  {<<l, n>> : l \in {l \in Layers : /\ ~k.empty /\ k.comp[l] = "overlay"
                                       /\ (k.ptor = "yes" => l # Top)}}
        \cup (IF UsesFb(k) /\ ~k.turned THEN {<<"fbt", n>>} ELSE {})
DisplayNeeds(n) ==
  LET k == kinds[n]
  IN  {Written(r[2], r[1]) : r \in DisplayReads(n)}
        \cup {Rotated(Source(n, s), s) :
                 s \in {l \in Layers : ~k.empty /\ k.comp[l] \in {"rotator", "cached"}}
                          \cup Target(k)}
        \cup (IF \E l \in Layers : k.comp[l] = "blit" THEN {Blitted(n)} ELSE {})
        \cup (IF k.ptor = "yes" THEN {Blitted(n)} ELSE {})
        \cup (IF UsesOutbuf(k) THEN {Written(n, "outbuf")} ELSE {})
JobReads(j) == IF j.does[1] = "rotated" THEN {<<j.does[3], j.does[2]>>}
               ELSE {<<l, j.does[2]>> : l \in Layers}
JobNeeds(j) ==
  {Written(r[2], r[1]) : r \in JobReads(j)}
    \cup (IF j.does[1] = "blitted" /\ UsesFb(kinds[j.does[2]])
          THEN {Written(j.does[2], "fbt")} ELSE {})
Sound(n) == n \notin faulty /\ \A l \in Layers : Source(n, l) \notin faulty

\* When the fences that the rotator, the blitter or the display was given have
\* signalled, whatever it reads or writes over has been written: hwc_sync
\* leaves no fence out on the way from the producers to the readers.
WaitsForWriters ==
  /\ \A j \in jobs : j.waits \subseteq done /\ Sound(j.does[2]) => JobNeeds(j) \subseteq done
  /\ commits # <<>> =>
       LET n == Head(commits)
       IN  syncs[n] \subseteq done /\ Sound(n) => DisplayNeeds(n) \subseteq done

\* Once the fences handed back for a buffer have all signalled, nothing reads it
\* any more -- not the panel, a frame the driver holds, or an engine's queue --
\* and the blitter draws into a render buffer that no such frame shows.  (An
\* animation's target is let go at once, which the code means to do.)
Displayed == ToSet(commits) \cup ({screen} \ {0})
BuffersFree ==
  /\ \A s \in Slot \ {"outbuf"} : \A n \in Brought(s) :
       /\ Free(n, s)
       /\ \A m \in n .. Now : Source(m, s) = n => m \notin faulty /\ kinds[m].handled /\ ~kinds[m].animating
       => /\ \A m \in Displayed : <<s, n>> \notin DisplayReads(m)
          /\ \A j \in jobs : <<s, n>> \notin JobReads(j)
  /\ \A j \in jobs : j.does[1] = "blitted" /\ j.does[2] \notin faulty =>
       LET n == j.does[2]
       IN  renders[n] # <<>> => \A m \in Displayed \ {n} : renders[m] # renders[n]

\* When SurfaceFlinger has nothing to compose for a while, hwc_set has returned,
\* whatever it waited for, and every fence handed back has signalled whose frame
\* was followed by another.
Followed(n) == \E m \in n + 1 .. Now : Returned(m) /\ kinds[m].handled
AllSignalled(n) == \A s \in Slot : Signalled(given[n][s])
Settled == step = "idle" /\ \A n \in 1 .. Now : Followed(n) => AllSignalled(n)
FencesSignal == ~Settled ~> Settled
=============================================================================
