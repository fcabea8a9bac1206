------------------------------ MODULE FrameInfo ------------------------------
(***************************************************************************)
(* MDPComp's division of the layers of a frame between the pipes of the    *)
(* mixer (MDP) and the framebuffer the GPU draws (FB), as operators on a   *)
(* list of layers and a frame:                                             *)
(*                                                                         *)
(*   fb      isFBComposed      drop    layers left out of the composition  *)
(*   fbCount, mdpCount         the counts the code keeps beside the flags  *)
(*   fbZ     the stage of the framebuffer, -1 when it is not shown         *)
(*   redraw  needsRedraw                                                   *)
(*                                                                         *)
(* Layers are numbered from 1, from the bottom to the top.  The screen is  *)
(* a row of cells and a rectangle an interval of them.                     *)
(***************************************************************************)
EXTENDS Integers, Sequences, FiniteSets

CONSTANTS
  Cells,       \* the screen: an interval of integers
  MaxPipes,    \* sMaxPipesPerMixer
  VGPipes      \* getVGPipes()

ASSUME FrameAssumption ==
  /\ Cells \subseteq Int /\ IsFiniteSet(Cells)
  /\ MaxPipes \in Nat /\ VGPipes \in Nat

\* What the strategies look at in a layer: its rectangle, the kind of its
\* buffer, whether it needs blending or scaling, whether any strategy
\* (isSupportedForMDPComp) or the video and secure ones (isYUVDoable,
\* isSecureRGBDoable) may give it a pipe, and whether it must be skipped.
Layer == [frame : SUBSET Cells, kind : {"rgb", "yuv", "secureRgb", "secureYuv"},
          opaque : BOOLEAN, scaled : BOOLEAN,
          supported : BOOLEAN, doable : BOOLEAN, skip : BOOLEAN]

Frame == [fb : SUBSET Nat, drop : SUBSET Nat, fbCount : Int, mdpCount : Int,
          fbZ : Int, redraw : BOOLEAN]

Indices(list)   == DOMAIN list
isYuv(layer)    == layer.kind \in {"yuv", "secureYuv"}
isSecure(layer) == layer.kind \in {"secureRgb", "secureYuv"}
isYuvPresent(list)    == \E i \in Indices(list) : isYuv(list[i])
isSecurePresent(list) == \E i \in Indices(list) : isSecure(list[i])
isSecureRGBPresent(list) == \E i \in Indices(list) : list[i].kind = "secureRgb"
isSkipPresent(list)   == \E i \in Indices(list) : list[i].skip

\* reset(numLayers) keeps drop and dropCount.
Reset(list, drop) ==
  [fb |-> Indices(list), drop |-> drop, fbCount |-> Len(list), mdpCount |-> 0,
   fbZ |-> -1, redraw |-> TRUE]

dropCount(f) == Cardinality(f.drop)
Rest(list, f, fbCount) == Len(list) - fbCount - dropCount(f)

----------------------------------------------------------------------------
(* Partial update: the region of interest and the layers outside of it.    *)

Hull(cells) ==
  {c \in Cells : \E a, b \in cells : a <= c /\ c <= b}

\* A rectangle minus another, when what remains is one.
deductRect(rect, other) ==
  IF Hull(rect \ other) = rect \ other THEN rect \ other ELSE rect

\* visible[i]: what of the region can be seen of layer i and those below.
Visible(list, roi) ==
  LET visible[i \in 0 .. Len(list)] ==
        IF i = Len(list) THEN roi
        ELSE IF list[i + 1].opaque
             THEN deductRect(visible[i + 1], visible[i + 1] \cap list[i + 1].frame)
             ELSE visible[i + 1]
  IN  visible

validateAndApplyROI(list, roi) ==
  LET visible == Visible(list, roi)
      hidden  == {i \in Indices(list) : visible[i] \cap list[i].frame = {}}
  IN  IF \E i \in Indices(list) \ hidden :
           list[i].scaled /\ visible[i] \cap list[i].frame # list[i].frame
      THEN [roi |-> Cells, drop |-> {}]
      ELSE [roi |-> roi, drop |-> hidden]

\* The dirty cells of every layer; an updating layer that is scaled, and a
\* video, count whole.
DirtyRect(layer, damage) ==
  IF isYuv(layer) \/ (layer.scaled /\ damage # {}) THEN layer.frame ELSE damage

generateROI(list, damage) ==
  LET roi == Hull(UNION {DirtyRect(list[i], damage[i]) : i \in Indices(list)})
  IN  IF roi = {} THEN [roi |-> Cells, drop |-> {}]
                  ELSE validateAndApplyROI(list, roi)

----------------------------------------------------------------------------
(* Which layers go where.                                                  *)

fullMDP(list, f) ==
  [f EXCEPT !.fb = f.drop, !.fbCount = 0, !.mdpCount = Rest(list, f, 0)]

updateLayerCache(list, f, updating) ==
  LET cached  == Indices(list) \ updating
      fbCount == Cardinality(cached \ f.drop)
  IN  [f EXCEPT !.fb = cached, !.fbCount = fbCount,
                !.mdpCount = Rest(list, f, fbCount)]

\* Layers that move to the framebuffer, and layers that leave it.
Move(list, f, in, out) ==
  LET fbCount == f.fbCount + Cardinality(in) - Cardinality(out)
  IN  [f EXCEPT !.fb = (@ \cup in) \ out, !.fbCount = fbCount,
                !.mdpCount = Rest(list, f, fbCount)]

\* The first VGPipes videos of the list, but those dropped.
updateYUV(list, f, secureOnly) ==
  LET Below(i) == {j \in Indices(list) : j < i /\ isYuv(list[j])}
      videos   == {i \in Indices(list) \ f.drop :
                     isYuv(list[i]) /\ Cardinality(Below(i)) < VGPipes}
  IN  Move(list, f,
           {i \in videos \ f.fb : ~list[i].doable},
           {i \in videos \cap f.fb :
              list[i].doable /\ (secureOnly => isSecure(list[i]))})

updateSecureRGB(list, f) ==
  LET secure == {i \in Indices(list) : list[i].kind = "secureRgb"}
  IN  Move(list, f, {i \in secure \ f.fb : ~list[i].doable},
                    {i \in secure \cap f.fb : list[i].doable})

----------------------------------------------------------------------------
(* getBatch: the largest batch of layers that one framebuffer can hold.    *)

intersectingUpdatingLayers(list, f, from, to, target) ==
  \E i \in from .. to :
    i \notin f.fb /\ list[i].frame \cap list[target].frame # {}

canPushBatchToTop(list, f, from, to) ==
  \A i \in from .. to - 1 :
    i \in f.fb \ f.drop => ~intersectingUpdatingLayers(list, f, i + 1, to, i)

NoBatch == [count |-> 0, start |-> 0, end |-> 0, z |-> -1]

\* A scan starts a batch at layer i; above counts the MDP layers met since
\* the batch was last moved, first is the layer that first moved it.
Start(i, dropped, best) ==
  [i |-> i, start |-> i, end |-> i, count |-> 0, z |-> i - 1 - dropped,
   first |-> 0, above |-> 0, dropped |-> dropped, best |-> best]

Close(s, i) ==
  Start(i, s.dropped,
        IF s.count > s.best.count
        THEN [count |-> s.count, start |-> s.start, end |-> s.end, z |-> s.z]
        ELSE s.best)

Take(s) == [s EXCEPT !.count = @ + 1, !.end = s.i, !.i = @ + 1]

\* The batch goes over the MDP layers met so far.
Push(s) == [Take(s) EXCEPT !.z = @ + s.above, !.above = 0,
                           !.first = IF @ = 0 THEN s.i ELSE @]

\* Mutant: a layer joins the batch whatever lies between.
TakeAlways(list, f, s) ==
  IF s.i \notin f.fb
  THEN IF s.count = 0 THEN Close(s, s.i + 1)
                      ELSE [s EXCEPT !.i = @ + 1, !.above = @ + 1]
  ELSE IF s.i \in f.drop THEN [s EXCEPT !.i = @ + 1, !.dropped = @ + 1]
  ELSE Take(s)

ScanLayer(list, f, s) ==
  CASE s.i \notin f.fb /\ s.count = 0 -> Close(s, s.i + 1)
    [] s.i \notin f.fb /\ s.count > 0 -> [s EXCEPT !.i = @ + 1, !.above = @ + 1]
    [] s.i \in f.fb \cap f.drop -> [s EXCEPT !.i = @ + 1, !.dropped = @ + 1]
    [] OTHER ->
         IF \/ s.above = 0
            \/ ~intersectingUpdatingLayers(list, f, s.start, s.i - 1, s.i)
         THEN Take(s)
         ELSE IF canPushBatchToTop(list, f, s.start, s.i) THEN Push(s)
         ELSE Close(s, IF s.first > 0 THEN s.first ELSE s.i)

Scans == [i : Nat, start : Nat, end : Nat, count : Nat, z : Int, first : Nat,
          above : Nat, dropped : Nat,
          best : [count : Nat, start : Nat, end : Nat, z : Int]]

\* The best batch of the scans from s on.
Scan(list, f) ==
  LET scan[s \in Scans] ==
        IF s.i <= Len(list) THEN scan[ScanLayer(list, f, s)]
                            ELSE Close(s, s.i).best
  IN  scan

getBatch(list, f) == Scan(list, f)[Start(1, 0, NoBatch)]

----------------------------------------------------------------------------
(* markLayersForCaching: what is outside of the batch gets a pipe.         *)

Pulled(list, f) ==
  LET batch == getBatch(list, f)
  IN  {i \in f.fb \ f.drop : i < batch.start \/ i > batch.end}

CanMark(list, f) ==
  f.fbCount # 0 => /\ f.mdpCount # 0
                   /\ \A i \in Pulled(list, f) : list[i].supported

Marked(list, f) ==
  LET batch == getBatch(list, f)
  IN  IF f.fbCount = 0 THEN f
      ELSE [f EXCEPT !.fb = @ \ Pulled(list, f), !.fbZ = batch.z,
                     !.fbCount = batch.count,
                     !.mdpCount = Rest(list, f, batch.count)]

----------------------------------------------------------------------------
(* What a frame puts on the screen.                                        *)

\* mdpNextZOrder: pipes take the stages in the order of their layers and
\* leave out that of the framebuffer.
zOrder(f, i) ==
  LET below == Cardinality({j \in 1 .. i - 1 : j \notin f.fb})
  IN  IF f.fbZ >= 0 /\ below >= f.fbZ THEN below + 1 ELSE below

\* Mutant: the framebuffer takes no stage.
LayersFit(f) == f.mdpCount <= MaxPipes

resourceCheck(f) ==
  f.mdpCount <= MaxPipes - (IF f.fbCount # 0 THEN 1 ELSE 0)

getUpdatingFBRect(list, f, roi) ==
  Hull(UNION {list[i].frame : i \in f.fb \ f.drop}) \cap roi
=============================================================================
