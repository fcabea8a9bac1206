# The display HAL of the Casio DT-X400: a TLA+ development

`src/` is an Android device tree. Its program logic is the legacy Qualcomm display
HAL under `src/hardware/display` (about 30k lines of C++): the hardware composer,
the overlay library, the rotator, gralloc, HDMI and their helpers. The rest of the tree
(init scripts, manifests, resource overlays, shims, prebuilts) configures or
forwards and keeps no state of its own.

This directory models the HAL in TLA+, checks the models with TLC and proves the
properties that matter most with TLAPS. `PROJECT.json` maps every definition to the
lines it stands for, lists the runs, the mutants (a plausible bug per property, which
the run must catch), the hazards of the code and the disagreements found.

## 1. Inventory

| Component | State | Operations | Talks to |
|---|---|---|---|
| **Pipe book** (`liboverlay/overlay.cpp`, `overlayMdp.cpp`) | per pipe: display, mixer, format, session, allocated and in-use bits, what the driver has SET | `configBegin`, `getPipe`, `commit`, `validateAndSet`, `clear`, `configDone` | MDPComp, FBUpdate, the MDSS driver |
| **Rotator** (`overlayRotator.cpp`, `overlayMdssRot.cpp`, `overlayMdpRot.cpp`) | per session: configuration, that of the last rotation, two buffers, their fences | `configRotator`, `setReleaseFd`, `queueBuffer`; `RotMgr::getNext/configDone/clear` | MDPComp, FBUpdate, `hwc_sync`, the driver |
| **Composer** (`hwc.cpp`, `hwc_utils.cpp`, `hwc_virtual.cpp`) | `dpyAttr` per display, `mDrawLock` | `hwc_prepare`, `hwc_set`, `hwc_setPowerMode`, `hwc_blank` | everything |
| **uevent thread** (`hwc_uevents.cpp`) | `dpyAttr`, `connected`, `isConfiguring` | hotplug on/off, handshake with WFD teardown | the composer, HDMI |
| **QClient** (`hwc_qclient.cpp`) | `isPause`, `isConfiguring` | `setSecondaryDisplayStatus` and single settings | the composer, on binder threads |
| **MDPComp** (`hwc_mdpcomp.cpp`) | the current and the cached frame, region of interest, idle flags | strategies tried in turn: full, PTOR, cache and load based, video and secure layers only; `draw` | pipe book, rotator, FBUpdate, SurfaceFlinger |
| **FBUpdate** (`hwc_fbupdate.cpp`) | destination pipe, rotator | `prepare`, `draw` | pipe book, rotator |
| **CopyBit** (`hwc_copybit.cpp`, `libcopybit`) | render buffers and their fences, C2D surfaces | `prepare`, `draw`, `drawOverlap` | gralloc, C2D |
| **Fences** (`hwc_sync` in `hwc_utils.cpp`) | acquire, release, retire descriptors | `hwc_sync`, `closeAcquireFds` | the driver, SurfaceFlinger |
| **Rectangles** (`hwc_utils.cpp`, `overlayUtils.cpp`) | regions of interest, crops and destinations of layers and pipes | `setListStats`, `generateROI`, `configure*` | MDPComp, pipes, rotator |
| **VSYNC thread** (`hwc_vsync.cpp`) | `vstate`, `isActive` | poll, emulate | SurfaceFlinger, power |
| **Panel reset** (`reset_panel` in `hwc.cpp`) | `mPanelResetStatus` | off, on, vsync on | uevent thread, vsync thread |
| **Assertive display, writeback** (`hwc_ad.cpp`, `overlayWriteback.cpp`) | a Writeback object, secure mode, buffers | `markDoable`, `draw`, `configDone` | pipe book, HDMI |
| **HDMI** (`hdmi.cpp`) | modes, framebuffer descriptor | `configure`, `teardown` | uevent thread |
| **gralloc** (`libgralloc`) | buffer handles | allocate, register, map, lock, free | all producers |
| **lights** (`lights.c`) | the lights asked for, the levels of the LED's colours | six `set_light_*` | framework services |
| **memtrack, qservice, qdutils** | counters; version tables; idle timer | | |

What is hard about it: three kinds of threads share `dpyAttr` and often test it before
they take the lock; the condition variables have no predicate; every frame is
a sequence of strategies that may each fail half way and must leave no trace; hardware
resources (pipes, rotator sessions, the mixers, DMA) pass from one owner to another
between frames; work is skipped when it looks the same as in the last frame; buffers are
protected by fences placed before the work is done. `PROJECT.json` lists these hazards
at their lines.

What makes each component correct:

* pipe book: the driver and the book agree; no pipe has two owners; nothing is leaked;
* displays and threads: what `hwc_prepare` decided still holds in `hwc_set`; objects are
  made and destroyed once; who waits is woken;
* rotator: what is shown is the current input in the current configuration; what is on
  its way to the screen is not overwritten; a session serves one layer, and lives as long as it does;
* strategies: the panel shows every layer once, in order and with its last content, whichever
  strategy won and whatever was tried before; what is kept of the framebuffer is current;
* fences: no descriptor is closed twice, none is lost but on two paths, and every buffer is
  released by one fence;
* rectangles: each pixel of the screen shows the pixel of the buffer the list asks for, whatever
  cuts, turns and halves lie between; the region sent to the panel covers the damage;
* blits: the frame is drawn from the right pixels, whatever failed before it; no surface is
  unmapped before it was drawn;
* vsync and power: what was enabled stays enabled over a reset; `isActive` follows the panel; HDMI
  follows the cable; a dead panel is reset;
* gralloc: CPU and devices see each other's writes; no descriptor or mapping is given back twice, and
  none outlives its handle but after the failures the code does not clean up; the planes
  reported lie in the memory allocated;
* lights: the light in front is shown, with nothing left of an earlier one.

## 2. Modules

| Module | Models | Proofs |
|---|---|---|
| `PipeOwnership` | abstract: an overlay has an owner, or none; a new owner only after none | refined by `PipeBook` (checked and proved) |
| `PipeBook` | the pipe book through the rounds of the composer | `PipeBook_proofs` |
| `DrawLock` | secondary displays and the threads that change them | `DrawLock_proofs` |
| `Rotator` | one rotator session, from `configRotator` to the release of the frame | `Rotator_proofs` |
| `RotMgr` | the rotator sessions and the DMA mode that the displays share | `RotMgr_proofs` |
| `FrameInfo` | MDPComp's division of a list of layers, as operators | `MDPComp_proofs` |
| `MDPComp` | the frames of one display: strategies, framebuffer, cache, partial update, idle fallback | `MDPComp_proofs` |
| `FrameFences` | descriptors and fences of the frames of a display, the ring of render buffers | `FrameFences_proofs` |
| `C2D` | the C2D copybit device: mappings, templates, the list of blits, its clean-up thread | |
| `Rects`, `Geometry` | from a list's rectangles to those of the pipes | |
| `Layout`, `Gralloc` | sizes and planes of buffers; their life in several processes, caches | `Gralloc_proofs` |
| `Hdmi`, `Power` | choice of mode and size; power, vsync, panel reset and hotplug with their threads | `Power_proofs` |
| `Lights` | the six lights over the LED nodes | `Power_proofs` (last part) |
| `MC*` | the constants' values for TLC | |

### PipeBook

A round is `hwc_prepare` (`ConfigBegin`, then for every display any number of
strategies: `GetPipe`, `Commit`, `ValidateAndSet`, and `Clear` if one fails;
`ConfigDone`) and `hwc_set` (`DrawDone`). `GetPipe` is `Overlay::getPipe` with the type
order of each target (`TypeOrder`) and `nextPipe`'s test of display, mixer and format
(`Compatible`, `CanServe`). `kernel` is what the driver has SET: it is changed only
by `validateAndSet` and by the UNSET of a destroyed pipe. Order of displays, failures and
power changes are free.

### DrawLock

`drawing` says that `hwc_prepare` returned and `hwc_set` did not, which is exactly while
SurfaceFlinger's thread holds `mDrawLock`. Every other critical section is one action
guarded by `Free`; what a thread reads outside of the lock is a step of its own. A condition
wait is a label; `Set` wakes one of the waiters.

### Rotator

`phase` follows one round: `configRotator`, perhaps abandoned with its strategy;
`hwc_sync`, which puts the round's release fence on the buffer the round will show;
`queueBuffer`, which skips, rotates or fails; `displayCommit`. Fences are counted in
releases to go, so the state is finite without bounding the number of frames. `target` is
chosen once: `MdssRot` or `MdpRot`, which steps of `queueBuffer` its driver and memory may
refuse, and whether the caller looks at the result (three do not).

### RotMgr

A round goes over the displays from the highest down. `Begin` is `setDMAState`, `reset` and
`configBegin`; a display then tries strategies (`BeginStrategy` with `resourceCheck`, `PrepareFB` if some
layers stay with the framebuffer, `ConfigureLayer` per rotated layer, `Validated` or
`StrategyFails`) and may end with the framebuffer alone (`BeginFallback`). What a display holds is kept
three times in the code, and so here: the count of `RotMgr` (`mUseCount`), the map for the fences
(`mLayerRotMap`), and the pointers that are drawn with (`mdpToLayer`, `mFBUpdate`). A `Rotator` is its
address, which may be allocated again after it was deleted. `UINT` stands for 2^32, which TLC cannot
count to.

### FrameInfo, MDPComp

`FrameInfo` holds `FrameInfo`'s flags as two sets, `fb` (`isFBComposed`) and `drop`, with the
counts the code keeps beside them, and translates `generateROI`, `updateLayerCache`,
`updateYUV`, `updateSecureRGB`, `getBatch` (as a recursive function, one layer at a time) and
`markLayersForCaching`. The counts are kept separate from the sets because the code does:
where they part, a strategy is judged by the wrong number.

`MDPComp` puts the operators into rounds. `Begin` takes a list, its damage and the geometry
flag from SurfaceFlinger, resets the objects of the display (`ResetRound`) and runs
`MDPComp::prepare` as far as the strategies: too many layers (`Unsupported`), nothing to
do (`AvoidNew`), or the region of interest and the strategies to try (`Divide`). Each
strategy is an action that succeeds, fails and resets what `reset(ctx)` resets, or does not
apply (`Skip` before it touches the frame, `GiveUp` after). `Fallback` gives the framebuffer the lowest stage when none is left. `Compose` is
SurfaceFlinger drawing the layers that are not marked `HWC_OVERLAY`; `Draw` is `hwc_set`.
`timeout_handler` is the idle timer and `Paused` a round of a display that is paused.

Five variables are not the code's. `refused` are the frames that failed in this round: pipes are
allocated anew for each strategy and the driver keeps nothing of an attempt, so what was refused is refused again. The others
say what the user sees; the code only has flags that stand for it: `target[c]` are the layers drawn at cell `c` of the
framebuffer, `old` those updated since, `wrong` the cells of the panel that do not show the
current layers, and `setup` is the kind of display.

### FrameFences

A fence is the event that signals it, and a descriptor one reference to a fence: `DescriptorsKept`
counts them in a bag. `Prepare` takes the next frame of SurfaceFlinger as `hwc_prepare` leaves it: of
what display, how each layer is composed, whether PTOR was chosen or given up after the ring
advanced. `Draw` is `CopyBit::draw` or `drawOverlap`; `Sync` is `hwc_sync` as one step with
the sync ioctl at its end; `Commit` is the commit with `closeAcquireFds` and the retire fence, and `Skip` the same without a
commit. `SecureFails` is the early return of `HWCVirtualVDS::set`: `insecure` are the frames it gave up,
whose acquire fences stay open. The target of a turned external display is a session of the
rotator (`Target`), and an animation writes -1 over the fence it was given. `Lost` names the fences of these two
paths, and `DescriptorsKept` allows those and no other to stay open.
`Produce`, `Work` and `Show` are the producers, rotator and blitter, and the display, which do
their work as soon as their fences have signalled, in any order.

### C2D

Every call of `hwc_copybit.cpp` holds `wait_cleanup_lock` from end to end and is one step; the
thread that cleans up after the hardware is another. `content` says to which memory and mapping each
C2D surface was last updated, `slots` is `mapped_gpu_addr`, `list` the blits not drawn yet. The rows
of an RGB image are taken to be usable by C2D as they are, as `need_temp_buffer` takes them to be
(an assumption of the module); only YUV images may go through a copy.

### Rects, Geometry

`Rects` holds the functions on rectangles (`getIntersection`, `getUnion`, `deductRect`,
`getSanitizeROI`, `calculate_crop_rects`, ...). `Geometry` is a frame in three steps: `setListStats`
trims and hides, `generateROI` chooses the region and drops layers, `configure*` sets the pipes of one
mixer, of two, or of two pipes on one stage. Layers that are turned, and videos at least twice as large as
their destination, go through the rotator (`getRotDownscale`), whose buffer `Rotated` describes:
the area turned, and divided by `down`. The properties compare the result pixel by pixel with
a definition of their own (`Sample`) of what the list asks for.

### Layout, Gralloc

`Layout` computes size, stride and planes by format and usage, the vendor's alignments from how
they are called. In `Gralloc`, `buffer[b]` is what all copies of a handle say, `view[p][b]` what is
private to the copy of process `p`, `account[p][b]` the kernel's count of descriptors and
mappings, and `struck[p][b]` which of the calls failed after which the code keeps something. `line`, `cpu` and `dev` are one cache line of the buffer, the version of the data each side
holds, and which side is at work.

### Hdmi, Power

`Hdmi` translates the choice of a mode and of the size composed for it. `Power` has a step for
each ioctl and each assignment of `hwc_setPowerMode`, `reset_panel`, `hwc_eventControl` and the vsync
thread, because only the first of them holds `mDrawLock`. The uevent thread's connection is as in
`DrawLock`, here with the mode list of the sink, which is read in the middle of it.

### Lights

Each `set_light_*` holds `g_lock` throughout and is one action. `led` is what is written to the nodes
of each colour.

## 3. What the runs check

No run has a state constraint. The type invariants are proved (section 4), not repeated in
the runs; what a theorem assumes of the constants beyond the modules' own `ASSUME`s, the `MC*` modules assume
too, so that TLC evaluates it on the run's values.

* `pipes` (one VG, RGB, DMA pipe, two displays, split mixer): `DriverAgrees`,
  `DrawReady`, `Reclaimed`, `DmaReleased`, `EachRequestNew`, and the refinement `Implements`.
  One pipe of each type is enough for every comparison `nextPipe` makes and for running out of
  pipes; two displays for a hand-over.
* `threads`: both secondary displays, the uevent thread and a binder thread:
  `OneSetOfResources`, `DrawsWhatIsPrepared`, `MixerFree`, and `WaitersWake` under the fairness
  below. The target has fewer than 8 pipes; on others `MixerFree` claims nothing. With the uevent
  thread, one client is enough for two threads to wait for the same composition; the first three are proved for any number of clients.
* `rotation`: MDSS with every subset of failures (`remap`, `play`) and MDP without:
  `ShowsCurrent`, `BufferFits`, `NoOverwrite`. Four configurations (two
  alike, one larger, one secure) and two input buffers are enough to leave a configuration or a
  buffer and to come back to it. `MaxLate` = 3 frames may be unreleased (shown, queued, being
  drawn).
* `sessions` (three displays, two sessions, lists that need none to three): `ServesOne`,
  `FencesReach`, `LineModeIdle`, `DmaChangesHands`. Two sessions can be shared by two displays, by
  two layers, or be too few; three displays let one fail between two that hold sessions. The
  addresses of rotators are symmetric. Orientations change between rounds only (`MidRound`).
* `frames`: ten lists of one to five layers in six displays (primary with and without
  partial update, external, paused) on a screen of three cells, with three stages and
  one VG pipe: `RightPicture`, `FBIsOfFrame`, `PresentInFB`, `WithinStages`. Three cells give
  disjoint, nested and overlapping rectangles and a region that is not the whole screen; three
  stages make lists of three layers fit or not, by the framebuffer's stage; `MaxLayers` = 4 sends the list of
  five down the path of too many layers.

* `fences`: four frames of every kind on the primary, an external and a
  virtual display; three buffers per producer, a ring of three render buffers, a driver
  that holds one commit; rotator sync ioctl, one-second waits and `setSecure` may fail in the third frame, the display's
  sync in the fourth: `DescriptorsKept`, `WaitsForWriters`, `BuffersFree`, `FencesSignal`. Four frames
  bring the ring round once and let a buffer come back while its fence is pending.
* `blits`: frames of up to three blits, with two templates, a list of three and four slots, so that
  each is full before the others in some frame: `FrameDrawn`, `MappingsOwned`.
* `pixels`: seven displays of 8 by 4 pixels and about 1,700 lists of one or two layers, scaled by
  pipes or by the rotator, turned, mirrored, partly off the screen: `PictureKept`, `RoiCoversDamage`, `RegionsFitPanel`,
  `PipesFit`. The screens are the smallest with unequal halves, a region of interest that is neither all nor
  nothing, and crops of odd and even sizes; one splits whatever is wider than its half (`primarySplitAlways`); four
  have a rotator that scales down, by two and by four.
* `buffers`: every format with every usage that changes its layout, the planar ones at odd and even
  sizes, one buffer in two processes, three framebuffer slots, and every call of the kernel failing at
  every place: `Coherent`, `ResourcesOwned`, `PlanesFit`. One client and one buffer are enough
  because handles share nothing but what the kernel counts per process.
* `power`: two changes of power and of the cable and one death of the panel: `VsyncKept`, `FitsSink`,
  `ActiveInStep`, `HdmiInStep`, and `PanelRecovers` under fairness. Two changes are enough for every
  pair of events to overtake each other once (unplugged and plugged during a connection).
* `lights`: every sequence of calls with seven states: `FrontShown`.

One run expects a violation of what a comment says. In `teardown`, the WFD teardown is
signalled ("signal synclock to indicate successful wfd teardown") between the uevent thread's
test of the virtual display and its wait, and HDMI is never connected.

### Other departures

Modelling showed these places too, where the code does not do what it says. They have no run of
their own:

* `hwc.cpp:790` signals one waiter of `mDrawLock`, while `hwc_uevents.cpp:158` and
  `hwc_utils.cpp:2811` both "Wait for 1 composition": of a pause and a connection waiting together, one
  waits longer.
* `hwc_ad.cpp:130` looks at `isSecondaryConnected` only: on targets with eight pipes or more,
  where `isFrameDoable` does not stop video, the composition that HDMI waits for ("will force
  composition to close fb2", `hwc_uevents.cpp`) keeps fb2 open. `MixerFree` says so: without its
  `FewPipes`, TLC finds it violated on such a target.
* gralloc leaks after some failures, and `ResourcesOwned` names each (`Keeps`): `ionalloc.cpp:115` keeps
  the descriptor when `mmap` fails, also that of the metadata, which `gpu.cpp:88` only logs;
  `mapper.cpp:97` the mapping of the data when that of the metadata fails; a failing `munmap` leaves
  its mapping (`mapper.cpp:123`, `:136`) and, in `free_impl` (`gpu.cpp:354`), the metadata too.
* `hwc_virtual.cpp:101` caches the Writeback's descriptor in `dpyAttr`, against
  `overlayWriteback.h:86`; it can outlive the object.
* `hwc_fbupdate.cpp:97` sets `mRot` for a quarter turn and does not unset it otherwise, although `:200`
  says "use rotator if there is a rotation value set". `setExtOrientation` (`hwc_qclient.cpp:113`) is
  not under `mDrawLock`: if it takes the turn back after a strategy that prepared the framebuffer
  failed and returned its session, the framebuffer is drawn through a rotator that `configDone`
  deleted (with `MidRound` = TRUE, TLC finds `ServesOne` violated).
* `overlayMdssRot.cpp:205` notes the new input before `remap` and does not restore it when that fails:
  `isRotCached` then holds for memory that is gone, and `% numBufs()` divides by zero.
* `overlayMdpRot.cpp:154` leaves the configuration of an abandoned strategy in the driver, and the next
  layer is rotated with it.
* `hwc_mdpcomp.cpp:1627` restarts a batch without taking back `droppedLayerCt`: in lists of seven layers
  with dropped ones, a layer is shown above framebuffer layers that are in front of it. With
  six layers this cannot happen (`PanelRight`).

### Where the frames leave their properties

`frames` composes only displays on which its properties hold. Five things that the model
showed are outside of them, and the comments of the properties say so:

* `updateSecureRGB` does not skip dropped layers as `updateYUV` does: with partial update,
  a secure layer that is dropped is subtracted from `fbCount` a second time, `fbCount` reaches 0 with
  a layer left to the framebuffer, and the framebuffer has no stage (`RightPicture`);
* `updateLayerCache` gives an updating layer that is dropped, because opaque layers hide it, a
  pipe that `mdpCount` does not count (`WithinStages`);
* on a panel with partial update, a list of videos only, one of them secure, may be shown with a
  framebuffer pipe that a failed strategy configured: the first strategy with a region of interest is
  refused, `mdpSecure` leaves a video to the framebuffer and is refused too, and `video` then succeeds on the whole
  panel with no framebuffer, whose pipe nothing takes back (`FBIsOfFrame`; `hwc_mdpcomp.cpp:199` resets the
  frame and not `mFBUpdate`);
* the external display's layers are not drawn while it is paused, but the flags of the last frame stay
  cached: the framebuffer kept at the resumption may hold old content (`PresentInFB`);
* a paused primary's layers are all drawn into the framebuffer, those of the pipes too: the
  framebuffer kept at the resumption shows them twice (`RightPicture`).

Likewise the rotator's runs leave out the callers that ignore `queueBuffer`'s result (the split
draws at `hwc_mdpcomp.cpp:2326`, `:2589`, `:2638`), with which a refused rotation is shown.

### What the other runs leave out

The models showed these too; they are outside of the runs, which state what holds without them.

* Fences: the run has two paths that lose descriptors, which `DescriptorsKept` names: the early return of
  `HWCVirtualVDS::set` when `setSecure` fails (`hwc_virtual.cpp:156` to `:161`) leaves every acquire fence open, and
  an external animation with a turned target loses the rotator's fence (`hwc_utils.cpp:1747`). Outside of it:
  when the sync ioctl fails, buffers are handed back at once; `swapzero`, a debug property, skips the syncs. `drawOverlap` does not wait for
  the render buffer's own fence: safe with a ring of three and a driver that holds one commit.
* Sessions: `resourceCheck` counts neither layers that are only scaled by the rotator nor the turned
  framebuffer of a secondary display, so that a strategy it admits may still be refused by `getNext`
  (the next strategy is then tried). The rotation of the framebuffer does not wait for
  `isDMAStateChanging` (`DmaChangesHands` speaks of layers), and an orientation set after `setDMAState` rotates in
  line mode.
* Blits: a failing `finish` does not reset the counts; a failed allocation of a temporary buffer keeps
  its new size; regions of several rectangles with a full list draw some of them only; a draw or
  flush that fails keeps the list for the next frame; a plane alpha of zero is drawn opaque
  (`copybit_c2d.cpp:1383`); only the first rectangle of a wormhole is cleared.
* Rectangles: `calc_cut` and `preRotateSource` disagree on one flip with a quarter turn (not in the
  lists); `needsScalingWithSplit` and `needsScaling` misreport at unequal halves and turned layers;
  even crops of YUV read one column outside of the crop; `normalizeCrop` underflows for crops of one
  pixel. Two cases of the rotator's downscale break `PictureKept` and are not in the lists. `getDownscaleFactor`
  lets "only 1 line or pixel to be chopped off" (`overlayMdssRot.cpp:408`), but asks as if the crop began at 0: a
  video of 32 columns from an odd one on, divided by 4, keeps 24 of them, stretched. And before MDSS
  (from 4.2 on) `updateSource` turns the crop but does not divide it, so that the pipe reads past the picture the rotator scaled.
* gralloc: `bufferMask` is cleared without the lock that protects it (`gpu.cpp:347`) and with the slot's
  size not rounded; `lock` overwrites the error of `gralloc_map` (`mapper.cpp:223`); `framebuffer.cpp`
  leaves `fbFd` 0 after `fb_close`. A `YCrCb_420_SP_ADRENO` of 65 by 256 gets 32768 bytes, but the planes
  reported end at 36864: `alloc_controller.cpp:446` rounds half the width, 32, and `getYUVPlaneInfo`
  takes the whole of it, rounded to 96, for the chroma's stride too.
* Power: a panel that dies between the unblanking of a reset and the clearing of
  `mPanelResetStatus` (`hwc.cpp:585` to `:592`) is forgotten, and so is one reported while the vsync
  thread still has to say that the display is on (`PanelDies` is `Quiet`: the driver looks every few
  seconds). A reset enables vsync also for a client that had disabled it. A blank that fails within the
  reset, and a failing `openFrameBuffer`, are ignored by the code. `hwc_set_primary` reads `isActive`
  again, which the vsync thread may have changed since `hwc_prepare`.
* HDMI: the switch for downscaling is read after it was used (`hdmi.cpp:118`) and its member is
  uninitialised at the first connection: `Init` chooses either value. A size fitted to the sink's
  shape may be smaller than the sink's own. As the primary display (`hwc_uevents.cpp:139`,
  `hwc.cpp:321`), HDMI may be set up twice, and torn down while `hwc_prepare` goes on to use
  `mMDPComp`.
* Lights: the colours of an earlier light stay lit when a light that blinks in other colours follows:
  `FrontShown` states the rest.

### Fairness

`threads`, `teardown`, `fences` and `power` use it. In the first two, SurfaceFlinger answers `invalidate()` with a
composition and ends a composition it began (it is one loop in one thread, which the HAL
cannot stop). A thread in the middle of an operation gets the mutex infinitely often free and
eventually takes it (strong fairness: the mutex is free between rounds only). Among
the waiters of a condition variable none is passed over for ever. The WFD stack removes its
display while HDMI waits for it. Nothing is assumed of hotplug events, clients or new displays.
In `fences`, `hwc_set` runs on, and producers, rotator, blitter and driver end what they have begun;
SurfaceFlinger need not bring another frame. In `power`, the vsync thread runs on; SurfaceFlinger's
thread composes when it was asked to and ends what it has begun, and as it sleeps between frames the
uevent thread gets `mDrawLock` (strong fairness).

## 4. What is proved

For every value of the constants (any pipes, displays, clients, configurations, lists of layers):

* `PipeBook_proofs`: types, `DriverAgrees`, `DrawReady`, `Reclaimed`, `DmaReleased`,
  `EachRequestNew`, and `Implements` (refinement of `PipeOwnership`, step by step). The invariant
  adds to the properties where a round is: a booked pipe is open, a pipe in use is allocated,
  and the plan of a display is settled when its turn is over.
* `DrawLock_proofs`: types, `OneSetOfResources`, `DrawsWhatIsPrepared`, and `MixerFree`
  (which speaks of targets with fewer than 8 pipes). The uevent thread tests `connected` without the lock; the
  invariant (`UeventKnows`) says why that is safe: it is the only one to change EXTERNAL's.
* `Rotator_proofs`: types for any hardware; `NoOverwrite` for targets that refuse no rotation and
  whose caller looks at the result of a reallocation; `ShowsCurrent` and `BufferFits` on MDSS (the conditions `Plays` and
  `Reliable` of the module). `FenceInv` says that a buffer's fence is at or after its last reader
  and that the newest frame never reads the buffer written next, so that even a wait that times
  out is safe.
* `MDPComp_proofs`: types, and `PresentInFB` for displays that are never paused
  (`NeverPaused`; a pause breaks it, see above). The framebuffer is kept because two frames look
  alike, so the invariant `Holding` must say what the *cached* flags stand for: every layer that
  the last frame left to the framebuffer is in it, and current unless it updated since
  (`CacheHolds`); a list nothing is known of counts as all its layers (`CacheIsAll`); in a
  round, the frame's own flags are those to be cached (`CacheIsOfFrame`, `FrameHolds`). The proof
  reads nothing of the batches but that they take layers out of the framebuffer: it
  holds of any strategy that divides the list.

  The other three need the numbers. A division is well counted when
  `fbCount` and `mdpCount` are what the sets say (`Counted`), and each strategy's operators keep it so (`MoveFields`,
  `YuvFields`, `RGBFields`, `MarkedFields`). `getBatch` is a recursive
  function on the states of a scan, and a batch may restart at an earlier layer. No induction rule is
  used for it: `TailRecursion` shows that a function with such an equation exists, as the least set of pairs
  closed under it, and `ScanInduction` that what the steps keep holds at the end, by the smallest
  counterexample (each step raises the batch's start, or keeps it and takes the scan one layer on). The result (`BatchOfFrame`) is a
  batch that counts what it holds and has a stage whenever nothing is dropped and a layer is left.

  `FBIsOfFrame` depends on the whole sequence of a round, because `mFBUpdate` survives a failed strategy: the
  invariant `Pending` says, for each list of strategies still to try, that if a framebuffer pipe is
  configured then every strategy left leaves layers to the framebuffer or was refused
  before (`Left`, `Whole`, `VideosTried`). It assumes `SomeLayerDrawn`: a list for a panel with partial update has a
  layer that is not a video (see above). `WithinStages` adds `StageInv`: a frame that passed
  `resourceCheck` has no more pipes than it counts. That fails where dropped layers get pipes, hence `PlainOnPartial`: on
  panels with partial update, no opaque layer lies above another and no secure layer of an application is
  there. `SeenBehind` then shows that a layer that updates is not dropped. The lists of
  `frames` satisfy both.

  `PanelRight` (`RightPicture`) rests on what a batch's one stage does to the order. A scan keeps a layer `q`,
  that at which the batch was last moved, such that the stage is the number of pipes below `q` and
  every pipe that overlaps a layer of the batch is on the same side of `q` as of that layer
  (`ScanPlaced`, `Sorted`); `canPushBatchToTop` and `intersectingUpdatingLayers` are the tests that keep it so. A scan that
  returns to an earlier layer keeps its count of dropped layers, so the stage of the next batch may be wrong; with
  up to six layers that batch is never the largest (`Spent`), with seven it may be. Hence in every frame
  a strategy offers, pipes and framebuffer layers that overlap have stages in the order of the list
  (`InOrder`); with a layer that covers what is below it, the picture of a cell is that of the layers seen there, in
  their order (`Stacked`, `TopmostSeen`). The invariant `PictureInv` adds what the framebuffer holds
  (`Contents`: only layers of this list, where they are seen), that the region of interest has all
  damage and needs no layer that was dropped (`Region`), and that the frame to be composed is one of
  those offered, with its own framebuffer stage (`Configured`).
  It assumes `NeverPaused` and `PlainLists`: `SomeLayerDrawn`; on panels with partial update at most six layers, none of
  them an application's secure layer; and `OpaqueVideos`: `videoOnlyComp` puts the framebuffer above all pipes
  (`hwc_mdpcomp.cpp:1400`), which is right because no YUV format has alpha and `isYUVDoable` refuses a plane alpha
  (`:1505`). `SomeLayerDrawn` is there for `FBIsOfFrame`, on which the proof builds; without any of the others TLC finds
  the property violated. Unlike `WithinStages`, it does not need that nothing is hidden.
* `Power_proofs`: `VsyncKept`, `ActiveInStep` and `HdmiInStep`, for any sinks and modes and any
  limit on how often power and cable change. A reset takes the interrupt away and gives it
  back, so the invariant says at which steps of it the panel has power (`ResetKnows`) and which
  request counts while `hwc_eventControl` is between ioctl and assignment (`Asked`, in `VsyncInv`).
  `ActiveInv` says why the vsync thread may assign without a lock: if nothing was notified since its
  read, what it read is still so. For the cable, the reports not read yet take turns (`Turns`): they lead from
  what `connected` will be when the thread is done with the one it has read (`Expected`) to
  what the cable is, and one that would change nothing has its opposite before it. So an event that
  `handle_uevent` drops was answered by an earlier one, and with the queue empty the two ends
  meet; `Chosen` keeps the mode one of this sink's list, whenever the list was read.
  `FitsSink` needs the arithmetic of the sizes (`SizeFits`): nothing that is aligned down, fitted to
  the sink's shape or halved per side exceeds `maxMDPDownscale` times the area of the mode. It assumes a
  table in the order of merit with the interlaced modes first (`Ordered`), that a mode the user asks for is
  in the table (`KnownModes`; the code divides by its frame rate) and `FourTimes`: for a larger
  `maxMDPDownscale` the factor per side is too large.
* `RotMgr_proofs`: `ServesOne`, `FencesReach`, `LineModeIdle` and `DmaChangesHands`, for any displays,
  lists and number of sessions, if the orientation changes between rounds only (`Orderly`; the case
  it excludes is under "Other departures"). The manager is a stack: a display's sessions lie on those of
  the displays before it, and a failed strategy takes off what it put on. The code counts the
  height (`mUseCount`), the display's share (the size of its map) and the pointers separately, so the
  invariant says that the three agree at each step of a display's turn, also between a failed strategy
  and the next, when the framebuffer's session is gone and its `mRot` is not.
* `Gralloc_proofs`: `Coherent`, `ResourcesOwned` and `PlanesFit`, for any processes, buffers, slots and requests. `Coherent` rests on
  which handles are flagged: a buffer whose line may differ between cache and memory has a CPU
  holder or the flag that makes the next `lock` or `unlock` clean or invalidate it (`CacheInv`). It assumes
  `RendersToFb`: where the framebuffer is one buffer, `HW_FB` is taken out of the usage, and what is
  left must say that the GPU renders, or the buffer would not be flagged. `ResourcesOwned` relates the
  kernel's accounts to the copies of handles, and offsets in the framebuffer to slots of the
  mask, one to one (`Slot`, `Counted`). Every call may fail: counts `Over` what is owed
  have their cause in `struck`, and `Remainder` says that taking a handle apart keeps it so. It
  assumes that the panel is larger than the rounding of a slot adds (`Panels`). `PlanesFit` follows from `LayInv`: a buffer keeps the
  rounding and at least the size its request asks, and a geometry is one its producer may leave.
  The lemmas below it are arithmetic: rounding is monotone for any alignment (`AlignedUp`), and
  each format's size has room for the chroma of any image no larger than asked (`TwoPlanes`,
  `ThreePlanes`). It assumes `Requests`: producers leave no more than they asked for, gralloc's own callers
  ask for sizes it has, and no `YCrCb_420_SP_ADRENO` is 64 k + 1 wide (same section).
* `FrameFences_proofs`: `DescriptorsKept`, for any layers, kinds of frames, ring of render buffers and failing
  ioctls. Bags are compared by how often a descriptor occurs in them (`Copies`): what a step closes was open,
  and what it opens is what the places hold more of. The invariant adds which places may hold something at
  which step of a frame (`Empties`); `hwc_sync` is taken place by place (`AcquireCopies`, `ReleaseCopies`,
  `RingCopies`). Of each descriptor there are open as many copies as the places hold and some more (`Extra`), and
  more only where `Lost` has it (`Counted`); a lost fence stays in `Lost` (`LostGrows`). No assumption keeps
  either of the two paths out.
  `WaitsForWriters`: the invariant (`WaitInv`) says what each stage of a frame still waits for: the acquire
  fences before the sync (`AcquireInv`), the blits and rotations queued or done (`JobInv`, `BlitInv`), the fences
  of the sync (`SyncInv`), which have all signalled once the frame is shown (`CommitInv`). A cached rotation waits
  for nothing of its own: it was rotated for an earlier frame of the display, and that one is shown before
  (`SourceKept`). It holds of frames in which no call failed, as the property does.
  `BuffersFree`, under `Depth + 2 <= NUM_RENDER_BUFFERS`: a ring has a buffer for each commit that the driver
  may hold, for the frame on the panel and for the one being drawn (3 with one commit, as in the code; two
  are too few, as the mutant shows). The invariant (`FreeInv`) adds which fence each buffer is given back with
  (`GivenInv`), that a job is queued once and what it does is done when it has left (`EventInv`), that a frame
  released is neither on the panel nor committed (`PanelInv`), and how far the ring has turned
  since each frame displayed (`RingInv`, `Turns`): frames with the same render buffer are a whole ring
  apart, and those displayed are not. It needs that a frame that advanced the ring is committed
  (`FencesAssumption`): `hwc_prepare_primary` and `hwc_set_primary` ask the same of the display (`hwc.cpp:294`, `:635`).
* `Power_proofs`, last part: `FrontShown` of `Lights` (an instance of it), for any light states and any LED.

Assumptions are the named `ASSUME`s of the modules, which TLC evaluates in every run.

Only model-checked: `WaitersWake`, `FencesSignal`, `PanelRecovers` and the violated `TeardownHeard` (liveness under
fairness is beyond TLAPS), and the properties of `C2D` and of `Geometry`.

## 5. Abstractions

* A file descriptor of an input buffer stands for its content: a producer that keeps its
  descriptor keeps its content from one frame to the next.
* Outside of `FrameFences`, `MSMFB_BUFFER_SYNC` succeeds; a fence signals when the display turns to a newer frame.
* Geometry, formats and colours are members of small sets; wording and logging are left out.
* `connected` etc. are sequentially consistent: single words read and written whole.
* The screen of `MDPComp` is a row of cells, rectangles are intervals. A layer's attributes are
  those after `trimList` and `optimizeLayerRects`, and whether a strategy may take it
  (`isSupportedForMDPComp`, `isYUVDoable`, `isSecureRGBDoable`) is an attribute too.
  `hwLimitationsCheck`, the pipes, the rotator and the driver may refuse any division
  (`PostFails`).
* `MDPComp` leaves out PTOR, split displays and 4k videos (`sEnableYUVsplit`), the animation
  and AIV modes (`QTI_BSP`), the simulation flags, the refresh rate set by the idle timer, a failing
  fallback, custom framebuffer sizes and mirroring.

* External code is modelled from its use: a blanked panel drops its vsync interrupt and refuses the
  vsync ioctl; SurfaceFlinger disables vsync before it takes the power away; a power cycle heals a
  panel; writing a level to an LED ends its blinking; C2D draws what it was given when it is told
  to finish; a client locks a buffer within its usage, and devices that write it say so in
  theirs. Sizes stay below 2^31.
* A mode outside of `gEDIDData` that a user asks for is excluded (the code divides by its frame rate
  of zero), and `maxMDPDownscale` is at most 4, as on these targets (the code halves it once per side).

* `RotMgr`: SurfaceFlinger passes the same number of displays each time; targets that multiplex the DMA
  (`canUseRotator` is true of all others); `mExtOrientation` stands for `getExtOrientation`, the buffer's
  mirror mode included; a strategy tried after one with the framebuffer has it too, because
  later ones leave it more layers.

## 6. Plan

The modules above were written in the order pipe book, threads, rotator, strategies, blits,
rectangles, gralloc, fences, power, lights, rotator sessions. Left, in order:

1. Proofs: `MappingsOwned`.
2. HDMI as the primary display; the writeback's secure mode (`overlayWriteback.cpp:40`); dynamic
   refresh rates (`hwc_utils.cpp:554`).

## 7. Not modelled

* The MDP3 blitter (`copybit.cpp`), pixel conversion and colour, and which layers copybit takes.
* Split displays and PTOR in `MDPComp` (their rectangles are in `Geometry`, the fences of PTOR in
  `FrameFences`), animations, AIV, ABC, `QTI_BSP` code.
* `fb_post` and the swap interval; emulated vsync; the thermal event; action safe areas and the
  external display's positions; underscan information and the source product information.
* The idle invalidator's thread, profiler, version tables, metadata and display configuration,
  memtrack, debug dumps, QDCM, the shims, and the tree's boot configuration: they read or forward
  values and keep no state that a property of the composition is about.
