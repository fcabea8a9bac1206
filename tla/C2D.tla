-------------------------------- MODULE C2D --------------------------------
(***************************************************************************)
(* The C2D 2.0 copybit device (libcopybit/copybit_c2d.cpp): blits are      *)
(* gathered call by call in a list, drawn by finish or flush, and cleaned  *)
(* up after the hardware by a thread of its own.                           *)
(*                                                                         *)
(* The caller is the composer's thread (hwc_copybit.cpp): for a frame it   *)
(* clears the render buffer, sets the parameters of each layer, stretches  *)
(* the layer, and flushes.  Every call it makes holds wait_cleanup_lock    *)
(* from end to end and is one step; the thread runs between any two.       *)
(***************************************************************************)
EXTENDS Integers, Sequences, FiniteSets, SequencesExt

CONSTANTS
  Layers,       \* what is blitted: [img, kind, aligned, size, rot, opaque]
  Targets,      \* render buffers: [img, kind, aligned, size]
  Rotations,    \* the transforms of layers
  MaxTemplates, \* [Kind -> Nat]: MAX_RGB_SURFACES, MAX_YUV_2_PLANE_SURFACES
  MaxBlits,     \* MAX_BLIT_OBJECT_COUNT
  MaxSurfaces,  \* MAX_SURFACES
  Clips,        \* how many rectangles the region of a layer may have
  Faults,       \* the steps that may fail, in the C2D library and elsewhere
  Overrides,    \* the driver takes a rotation per object, or one per draw
  MaxFrame      \* bound: layers of a frame

\* YV12, the only format with three planes, is not a supported one.
Kind == {"rgb", "yuv"}
Side == {"src", "dst"}
Slot == 1 .. MaxSurfaces

ASSUME C2DAssumption ==
  /\ MaxTemplates \in [Kind -> Nat \ {0}]
  /\ MaxBlits \in Nat \ {0} /\ MaxSurfaces \in Nat /\ MaxFrame \in Nat
  /\ Clips \subseteq Nat /\ Overrides \in BOOLEAN
  /\ \A b \in Layers \cup Targets :
       b.kind \in Kind /\ b.aligned \in BOOLEAN /\ (b.kind = "rgb" => b.aligned)
  /\ \A l \in Layers : l.rot \in Rotations /\ l.opaque \in BOOLEAN

\* The surfaces made at open: one destination of each type, and the templates.
Dst(k) == <<"dst", k, 0>>
Template(k, i) == <<"src", k, i>>
Templates(k) == {Template(k, i) : i \in 1 .. MaxTemplates[k]}
Surface == {Dst(k) : k \in Kind} \cup UNION {Templates(k) : k \in Kind}

\* What an image's memory is; rows that C2D cannot use go through a copy.
TempOf(side) == "temp " \o side
Memory(b, side) == IF b.aligned THEN b.img ELSE TempOf(side)
Memories == {b.img : b \in Layers \cup Targets} \cup {TempOf(s) : s \in Side}
NoMemory == "none"

VARIABLES
  phase,    \* what the composer's thread is doing
  surfaces, \* the C2D surfaces that exist
  content,  \* what each surface was last updated to: memory, and its mapping
  slots,    \* mapped_gpu_addr
  count,    \* blit_rgb_count, blit_yuv_2_plane_count
  list,     \* blit_list
  dst,      \* dst_surface_type, dst_surface_mapped, dst_surface_base
  temp,     \* temp_src_buffer, temp_dst_buffer, and whose pixels they hold
  drawn,    \* what c2dDraw was told to draw since the frame began, while clean
  params,   \* config_mask since the last stretch, trg_transform
  waiting,  \* wait_timestamp
  layer,    \* the layer whose parameters are set
  target,   \* the render buffer of the frame
  blits,    \* how many layers the frame has stretched
  asked,    \* what they asked for
  clean     \* the frame began on an idle engine, and nothing failed in it

engine == <<content, slots, count, list, dst, temp, drawn>>
vars == <<phase, surfaces, engine, params, waiting, layer, target, blits, asked, clean>>

NoParams == [rot |-> {}, opaque |-> FALSE, target |-> "none"]
NoTarget == [img |-> NoMemory, kind |-> "rgb", aligned |-> TRUE, size |-> 0]
NoLayer == [img |-> NoMemory]
Fault == Faults \cup {"none"}

-----------------------------------------------------------------------------
(***************************************************************************)
(* The engine while a call runs, as a record.  A call is a chain of steps; *)
(* ok turns false at the first that fails, mine is the slot in which this  *)
(* call has mapped the destination (mapped_dst_idx).                       *)
(***************************************************************************)
Engine == [content |-> content, slots |-> slots, count |-> count, list |-> list,
           dst |-> dst, temp |-> temp, drawn |-> drawn,
           ok |-> TRUE, mine |-> 0, crashed |-> FALSE]

\* c: the frame is still clean; what it asked for and got is not kept if not.
Becomes(e, c) ==
  /\ content' = e.content /\ slots' = e.slots /\ count' = e.count
  /\ list' = e.list /\ dst' = e.dst /\ temp' = e.temp
  /\ clean' = c /\ drawn' = IF c THEN e.drawn ELSE <<>>

Unmap(e, i) == IF i = 0 THEN e ELSE [e EXCEPT !.slots[i] = NoMemory]

\* An error path: unmap what the call mapped, keep everything else.
Fail(e) == [Unmap(e, e.mine) EXCEPT !.ok = FALSE]

FreeSlots(e) == {i \in Slot : e.slots[i] = NoMemory}

\* set_image: the first free slot takes the mapping, the surface the image.
CanMap(e) == FreeSlots(e) # {}
Map(e, s, m) ==
  LET i == CHOOSE j \in FreeSlots(e) : \A k \in FreeSlots(e) : j <= k
  IN  [e EXCEPT !.slots[i] = m, !.content[s] = [memory |-> m, slot |-> i]]

Mapped(e, s) == LET c == e.content[s] IN c.slot # 0 /\ e.slots[c.slot] = c.memory

\* What the hardware finds in a surface when it reads it.
Pixels(e, s) == IF e.content[s].memory = TempOf("src") THEN e.temp["src"].of
                ELSE e.content[s].memory

\* msm_copybit: the list goes to c2dDraw, with the surfaces as they are now.
DrawList(e) ==
  LET to == Dst(e.dst.type)
      draw(o) == [img |-> Pixels(e, o.surface), to |-> e.content[to].memory,
                  rot |-> IF Overrides THEN o.rot ELSE params.target,
                  opaque |-> o.opaque,
                  mapped |-> Mapped(e, o.surface) /\ Mapped(e, to)]
  IN  [e EXCEPT !.drawn = @ \o [i \in 1 .. Len(e.list) |-> draw(e.list[i])]]

\* Mutants of Cleaned, below: the list, or the mappings, outlive the drawing.
CleanedKeepsList(e) == [e EXCEPT !.slots = [i \in Slot |-> NoMemory],
                                 !.count = [k \in Kind |-> 0],
                                 !.dst.mapped = FALSE, !.dst.base = NoMemory]
CleanedKeepsSlots(e) == [e EXCEPT !.count = [k \in Kind |-> 0], !.list = <<>>,
                                  !.dst.mapped = FALSE, !.dst.base = NoMemory]

Cleaned(e) == [e EXCEPT !.slots = [i \in Slot |-> NoMemory],
                        !.count = [k \in Kind |-> 0],
                        !.list = <<>>,
                        !.dst.mapped = FALSE, !.dst.base = NoMemory]

\* finish_copybit: its result is never looked at.
Finish(e, f) == IF f = "finish" THEN DrawList(e) ELSE Cleaned(DrawList(e))

(***************************************************************************)
(* The steps of stretch_copybit_internal.                                  *)
(***************************************************************************)
\* The templates or the list are full, or the destination changes its type.
Full(e, t) == \/ \E k \in Kind : e.count[k] = MaxTemplates[k]
              \/ Len(e.list) = MaxBlits
              \/ e.dst.type # t.kind
MakeRoom(e, t, f) ==
  [(IF Full(e, t) THEN Finish(e, f) ELSE e) EXCEPT !.dst.type = t.kind]

\* The copy is replaced when its size differs from the last one asked for,
\* which is kept also when there was no memory of that size.
TempBuffer(e, side, b, f) ==
  IF ~e.ok \/ b.aligned \/ e.temp[side].size = b.size THEN e
  ELSE LET a == [e EXCEPT !.temp[side] = [size |-> b.size, of |-> NoMemory,
                                          held |-> f # "alloc"]]
       IN  IF f = "alloc" THEN Fail(a) ELSE a

\* The destination is mapped by the first call; a later call for another
\* destination is logged and drawn into the first one.
MapDst(e, t, f) ==
  IF ~e.ok \/ e.dst.mapped THEN e
  ELSE IF f = "dstImage" \/ ~CanMap(e) \/ (~t.aligned /\ ~e.temp["dst"].held) THEN Fail(e)
  ELSE LET m == [Map(e, Dst(t.kind), Memory(t, "dst"))
                   EXCEPT !.dst.mapped = TRUE, !.dst.base = t.img]
       IN  [m EXCEPT !.mine = m.content[Dst(t.kind)].slot]

\* The pixels of a layer are copied; to address 0 if there is no memory.
CopySrc(e, l, f) ==
  IF ~e.ok \/ l.aligned THEN e
  ELSE IF ~e.temp["src"].held THEN [e EXCEPT !.ok = FALSE, !.crashed = TRUE]
  ELSE IF f = "srcCopy" THEN Fail(e)
  ELSE [e EXCEPT !.temp["src"].of = l.img]

NextTemplate(e, l) == Template(l.kind, e.count[l.kind] + 1)

\* One object for each rectangle of the region; a full list is drawn first,
\* and the layer's own mapping goes with it.
AddObjects(e, o, n, f) ==
  LET add(a, i) == LET r == IF Len(a.list) = MaxBlits THEN Finish(a, f) ELSE a
                   IN  [r EXCEPT !.list = Append(@, o)]
  IN  FoldLeft(add, e, [i \in 1 .. n |-> i])

MapSrc(e, l, n, f) ==
  IF ~e.ok THEN e
  ELSE IF f = "srcImage" \/ ~CanMap(e) THEN Fail(e)
  ELSE LET s == NextTemplate(e, l)
           m == [Map(e, s, Memory(l, "src")) EXCEPT !.count[l.kind] = @ + 1]
       IN  AddObjects(m, [surface |-> s, rot |-> params.rot, opaque |-> params.opaque],
                      n, f)

\* Copies, and destinations that are not RGB, are drawn at once.
NeedToExecuteDraw(t, l) == ~t.aligned \/ ~l.aligned \/ t.kind # "rgb"
DrawNow(e, t, l, f) == IF e.ok /\ NeedToExecuteDraw(t, l) THEN Finish(e, f) ELSE e

CopyDst(e, t, f) ==
  IF e.ok /\ ~t.aligned /\ f = "dstCopy" THEN [e EXCEPT !.ok = FALSE] ELSE e

Stretched(t, l, n, f) ==
  LET room == MakeRoom(Engine, t, f)
      to   == MapDst(TempBuffer(room, "dst", t, f), t, f)
      from == CopySrc(TempBuffer(to, "src", l, f), l, f)
      put  == MapSrc(from, l, n, f)
  IN  CopyDst(DrawNow(put, t, l, f), t, f)

-----------------------------------------------------------------------------
\* The context as open_copybit clears it.
Fresh == [content |-> [s \in Surface |-> [memory |-> NoMemory, slot |-> 0]],
          slots |-> [i \in Slot |-> NoMemory],
          count |-> [k \in Kind |-> 0], list |-> <<>>,
          dst |-> [type |-> "rgb", mapped |-> FALSE, base |-> NoMemory],
          temp |-> [s \in Side |-> [size |-> 0, of |-> NoMemory, held |-> FALSE]],
          drawn |-> <<>>]

Init ==
  /\ phase = "closed" /\ surfaces = {}
  /\ content = Fresh.content /\ slots = Fresh.slots /\ count = Fresh.count
  /\ list = Fresh.list /\ dst = Fresh.dst /\ temp = Fresh.temp /\ drawn = Fresh.drawn
  /\ params = NoParams /\ waiting = FALSE
  /\ layer = NoLayer /\ target = NoTarget /\ blits = 0 /\ asked = <<>> /\ clean = TRUE

\* clean_up destroys the surfaces whose id is set.
CleanUp(made) == made \ Surface

\* open_copybit makes a destination and its templates at a time; one that
\* cannot be made ends it, and clean_up destroys what has an id.
Stages == <<{Dst("rgb")}, Templates("rgb"), {Dst("yuv")}, Templates("yuv")>>
MadeBy(n) == UNION {Stages[i] : i \in 1 .. n}
Open ==
  /\ phase = "closed"
  /\ \/ phase' = "idle" /\ surfaces' = MadeBy(4)
     \/ "open" \in Faults /\ phase' = "closed" /\ \E n \in 0 .. 4 : surfaces' = CleanUp(MadeBy(n))
  /\ Becomes(Fresh, TRUE)
  /\ params' = NoParams /\ waiting' = FALSE
  /\ layer' = NoLayer /\ target' = NoTarget /\ blits' = 0 /\ asked' = <<>>

\* close_copybit, with nothing drawn: the thread cleans up if it is to.
Close ==
  /\ phase \in {"idle", "flushed"}
  /\ phase' = "closed"
  /\ surfaces' = CleanUp(surfaces)
  /\ LET e == IF waiting THEN Cleaned(Engine) ELSE Engine
     IN  Becomes([e EXCEPT !.temp = [s \in Side |-> [@[s] EXCEPT !.held = FALSE]]], clean)
  /\ waiting' = FALSE
  /\ UNCHANGED <<params, layer, target, blits, asked>>

\* c2d_wait_loop: the thread got the lock; it holds it while the hardware draws.
WaitLoop ==
  /\ waiting
  /\ waiting' = FALSE
  /\ Becomes(Cleaned(Engine), clean)
  /\ UNCHANGED <<phase, surfaces, params, layer, target, blits, asked>>

-----------------------------------------------------------------------------
(***************************************************************************)
(* The composer's thread.                                                  *)
(***************************************************************************)
Idle(e) == e.list = <<>> /\ ~e.dst.mapped /\ ~waiting /\ params.rot = {} /\ ~params.opaque

\* A frame begins.  clear_copybit fills the buffer if no destination is
\* mapped yet; nothing is cleared if the layers cover the buffer.
BeginFrame(t) ==
  /\ phase \in {"idle", "flushed"}
  /\ phase' = "frame"
  /\ target' = t /\ blits' = 0 /\ asked' = <<>> /\ layer' = NoLayer
  /\ LET e == [Engine EXCEPT !.drawn = <<>>] IN
     \/ Becomes(e, Idle(e))
     \/ /\ t.kind = "rgb" /\ ~dst.mapped /\ CanMap(e)
        /\ Becomes([Map(e, Dst("rgb"), t.img) EXCEPT !.dst.mapped = TRUE, !.dst.base = t.img], Idle(e))
  /\ UNCHANGED <<surfaces, params, waiting>>

\* set_parameter_copybit for the next layer: its transform, alpha, blending.
\* A driver that rotates whole draws has everything so far drawn first.
SetParameters(l) ==
  /\ phase = "frame" /\ blits < MaxFrame
  /\ phase' = "set" /\ layer' = l
  /\ \E f \in Fault \cap {"none", "finish"} :
       Becomes(IF Overrides THEN Engine ELSE Finish(Engine, f),
               clean /\ ~waiting /\ (Overrides \/ f = "none"))
  /\ params' = [rot |-> IF Overrides THEN params.rot \cup {l.rot} ELSE {},
                opaque |-> params.opaque \/ l.opaque, target |-> IF Overrides THEN "none" ELSE l.rot]
  /\ UNCHANGED <<surfaces, waiting, target, blits, asked>>

Blit(l, t) == [img |-> l.img, to |-> Memory(t, "dst"),
               rot |-> IF Overrides THEN {l.rot} ELSE l.rot,
               opaque |-> l.opaque, mapped |-> TRUE]

\* stretch_copybit.  The parameters are reset only if it succeeds.
Stretch ==
  /\ phase = "set"
  /\ \E n \in Clips, f \in Fault \ {"open", "draw", "flush", "fence"} :
       LET e == Stretched(target, layer, n, f) IN
       /\ Becomes(e, clean /\ f = "none" /\ e.ok)
       /\ phase' = IF e.crashed THEN "crashed" ELSE "frame"
       /\ params' = IF e.ok THEN [params EXCEPT !.rot = {}, !.opaque = FALSE] ELSE params
       /\ asked' = IF clean' THEN asked \o [i \in 1 .. n |-> Blit(layer, target)] ELSE <<>>
  /\ blits' = blits + 1
  /\ layer' = NoLayer
  /\ UNCHANGED <<surfaces, waiting, target>>

\* flush_get_fence_copybit: the thread is told to clean up only if all of
\* draw, flush and fence succeed.
Flush ==
  /\ phase = "frame" /\ blits > 0
  /\ \E f \in Fault \cap {"none", "draw", "flush", "fence"} :
       /\ Becomes(IF f = "draw" THEN Engine ELSE DrawList(Engine), clean /\ f = "none")
       /\ waiting' = (waiting \/ f = "none")
  /\ phase' = "flushed"
  /\ UNCHANGED <<surfaces, params, layer, target, blits, asked>>

\* drawOverlap does not flush after a layer that could not be drawn, draw
\* does not flush when every layer was dropped.
Leave ==
  /\ phase = "frame" /\ (blits = 0 \/ ~clean)
  /\ phase' = "idle"
  /\ UNCHANGED <<surfaces, engine, params, waiting, layer, target, blits, asked, clean>>

Next ==
  \/ Open \/ Close \/ WaitLoop
  \/ \E t \in Targets : BeginFrame(t)
  \/ \E l \in Layers : SetParameters(l)
  \/ Stretch \/ Flush \/ Leave

Spec == Init /\ [][Next]_vars

-----------------------------------------------------------------------------
Objects == [surface : Surface, rot : SUBSET Rotations, opaque : BOOLEAN]

TypeOK ==
  /\ phase \in {"closed", "idle", "frame", "set", "flushed", "crashed"}
  /\ surfaces \subseteq Surface
  /\ content \in [Surface -> [memory : Memories \cup {NoMemory}, slot : Slot \cup {0}]]
  /\ slots \in [Slot -> Memories \cup {NoMemory}]
  /\ \A k \in Kind : count[k] \in 0 .. MaxTemplates[k]
  /\ list \in Seq(Objects) /\ Len(list) <= MaxBlits
  /\ dst.type \in Kind /\ dst.mapped \in BOOLEAN
  /\ params.rot \subseteq Rotations /\ waiting \in BOOLEAN /\ clean \in BOOLEAN

(***************************************************************************)
(* A frame that began on an idle engine and in which nothing failed is     *)
(* drawn as it was asked for: each blit once, in order, from the pixels of *)
(* its own layer, with its own rotation and blending, into the render      *)
(* buffer of the frame, all of it mapped at the time - however often the   *)
(* templates, the list or a copy have made the engine draw on the way.     *)
(***************************************************************************)
FrameDrawn == phase = "flushed" /\ clean => drawn = asked

(***************************************************************************)
(* Every mapping is the destination's or that of one template in use, so   *)
(* none is left behind by an error path, and the slots suffice.            *)
(***************************************************************************)
Owner(s) == IF s \in {Dst(k) : k \in Kind} THEN dst.mapped
            ELSE s[3] <= count[s[2]]
MappingsOwned ==
  phase # "closed" =>
    \A i \in Slot : slots[i] # NoMemory =>
      Cardinality({s \in Surface : Owner(s) /\ content[s].slot = i
                                      /\ content[s].memory = slots[i]}) = 1
=============================================================================
