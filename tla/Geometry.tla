----------------------------- MODULE Geometry -----------------------------
(***************************************************************************)
(* From the layers of a frame to the rectangles of the pipes: lists are    *)
(* trimmed and hidden parts cut away (setListStats), the region to update  *)
(* is chosen and layers outside of it are dropped (generateROI), and what  *)
(* is left is configured on the pipes of one mixer, of two, or of two      *)
(* pipes side by side on one stage (configureNonSplit, configureSplit,     *)
(* configureSourceSplit, MDPCompSrcSplit::configure), with or without the  *)
(* rotator; some layers go to the framebuffer instead.                     *)
(*                                                                         *)
(* A layer is what SurfaceFlinger gives: crop of a buffer [bw, bh], frame  *)
(* on the screen, transform, opaque, yuv, wide (a 4k video), damage (NoRect *)
(* none, Full, or a rectangle of the buffer).                              *)
(***************************************************************************)
EXTENDS Rects, Functions

CONSTANTS
  Displays, \* [w, h, kind, lSplit, family, maxMixer, partial, merge, panel, external,
            \*  splitAlways, rotDownscale]: kind is "one" mixer, "two", or "srcSplit"
  Lists     \* sequences of layers

VARIABLES
  display,
  stage,  \* how far the frame is
  given,  \* the layers as SurfaceFlinger gave them
  list,   \* the layers as setListStats leaves them
  lRoi, rRoi,
  drop,   \* mCurrentFrame.drop
  fb,     \* mCurrentFrame.isFBComposed, for layers that are not dropped
  pipes   \* what the pipes are set to

vars == <<display, stage, given, list, lRoi, rRoi, drop, fb, pipes>>

Screen == Rect(0, 0, display.w, display.h)
lSplit == display.lSplit
LeftFrame == Rect(0, 0, lSplit, display.h)
RightFrame == Rect(lSplit, 0, display.w, display.h)
isDisplaySplit == display.kind = "two"

needsScaling(l) == W(l.crop) # W(l.dst) \/ H(l.crop) # H(l.dst)

-----------------------------------------------------------------------------
(***************************************************************************)
(* setListStats.                                                           *)
(***************************************************************************)
Cut(l, sci, tr) ==
  LET c == calculate_crop_rects(l.crop, l.dst, sci, tr)
  IN  [l EXCEPT !.crop = c.crop, !.dst = c.dst]

trimLayer(l, tr) == IF Inside(l.dst, Screen) THEN l ELSE Cut(l, Screen, tr)

\* The part of a lower layer that an opaque one hides is cut off, if that
\* leaves a rectangle.
CutUnder(low, top) ==
  LET i == getIntersection(low.dst, top.dst)
  IN  IF ~needsScaling(low) /\ isValidRect(i)
      THEN Cut(low, deductRect(low.dst, i), low.tr) ELSE low

\* From the top down, each opaque layer cuts all those below it.
optimizeLayerRects(ls) ==
  LET under[i \in 0 .. Len(ls)] ==
        IF i = 0 THEN ls
        ELSE LET top == Len(ls) + 1 - i
                 cur == under[i - 1]
             IN  IF ~cur[top].opaque THEN cur
                 ELSE [j \in DOMAIN ls |-> IF j < top THEN CutUnder(cur[j], cur[top]) ELSE cur[j]]
  IN  under[Len(ls)]

FullRoi == IF isDisplaySplit THEN <<LeftFrame, RightFrame>> ELSE <<Screen, NoRect>>

setListStats ==
  /\ stage = "list"
  /\ stage' = "stats"
  /\ list' = optimizeLayerRects([i \in DOMAIN given |-> trimLayer(given[i], given[i].tr)])
  /\ lRoi' = FullRoi[1] /\ rRoi' = FullRoi[2]
  /\ drop' = {} /\ fb' = {} /\ pipes' = {}
  /\ UNCHANGED <<display, given>>

-----------------------------------------------------------------------------
(***************************************************************************)
(* generateROI and validateAndApplyROI, of one mixer and of two.           *)
(***************************************************************************)
Full == Rect(-1, -1, -1, -1)
layerUpdating(l) == l.damage # NoRect

calculateDirtyRect(l, sci) ==
  IF l.damage = Full THEN getIntersection(l.dst, sci)
  ELSE getIntersection(moveRect(l.damage, l.dst.l - l.crop.l, l.dst.t - l.crop.t), sci)

\* Mutant: the damage of a flipped layer is taken as it is.
DirtyFlipped(l, frame) ==
  IF ~needsScaling(l) /\ (isDisplaySplit \/ ~l.yuv)
  THEN calculateDirtyRect(l, frame) ELSE getIntersection(l.dst, frame)

\* One mixer takes a video to update all of its frame.
Dirty(l, frame) ==
  IF ~needsScaling(l) /\ l.tr = {} /\ (isDisplaySplit \/ ~l.yuv)
  THEN calculateDirtyRect(l, frame) ELSE getIntersection(l.dst, frame)

DirtyOf(frame) ==
  LET dirty == {i \in DOMAIN list : layerUpdating(list[i]) \/ list[i].yuv}
      Join(u, i) == IF i \in dirty THEN getUnion(u, Dirty(list[i], frame)) ELSE u
      join[i \in 0 .. Len(list)] == IF i = 0 THEN NoRect ELSE Join(join[i - 1], i)
  IN  join[Len(list)]

\* A panel that takes one region gets the hull of both, cut at the split.
Merged(l, r) ==
  IF display.merge
  THEN <<getIntersection(getUnion(l, r), LeftFrame), getIntersection(getUnion(l, r), RightFrame)>>
  ELSE <<l, r>>

Rois ==
  IF isDisplaySplit
  THEN LET m == Merged(DirtyOf(LeftFrame), DirtyOf(RightFrame))
       IN  <<getSanitizeROI(m[1], LeftFrame, display.panel), getSanitizeROI(m[2], RightFrame, display.panel)>>
  ELSE <<getSanitizeROI(DirtyOf(Screen), Screen, display.panel), NoRect>>

\* Layers from the top down: seen are the parts of the regions not covered.
Applied(rois) ==
  LET down[i \in 0 .. Len(list)] ==
        IF i = 0 THEN [seen |-> rois, drop |-> {}, ok |-> TRUE]
        ELSE LET s == down[i - 1]
                 k == Len(list) + 1 - i
                 l == list[k]
                 part(side) == getIntersection(s.seen[side], l.dst)
                 valid == {side \in {1, 2} : isValidRect(part(side))}
             IN  IF valid = {} THEN [s EXCEPT !.drop = @ \cup {k}]
                 ELSE IF getUnion(part(1), part(2)) # l.dst /\ needsScaling(l)
                 THEN [s EXCEPT !.ok = FALSE]
                 ELSE IF l.opaque
                 THEN [s EXCEPT !.seen = [side \in {1, 2} |-> deductRect(s.seen[side], part(side))]]
                 ELSE s
  IN  down[Len(list)]

canPartialUpdate == display.partial /\ ~display.external

\* A skipped layer, a changed geometry or secure UI: the whole frame.
generateROI ==
  /\ stage = "stats"
  /\ stage' = "roi"
  /\ LET r == Rois  a == Applied(r) IN
     \/ /\ canPartialUpdate
        /\ isValidRect(r[1]) \/ isValidRect(r[2])
        /\ a.ok
        /\ lRoi' = r[1] /\ rRoi' = r[2] /\ drop' = a.drop
     \/ UNCHANGED <<lRoi, rRoi, drop>>
  /\ UNCHANGED <<display, given, list, fb, pipes>>

-----------------------------------------------------------------------------
(***************************************************************************)
(* Configuring the pipes.  A pipe shows crop at dst, dst being relative to *)
(* its mixer at x = at, mirrored by the flips it is set to.  The crop is   *)
(* of the layer's buffer, or of the rotator's, which holds the area turned *)
(* by turn and divided by down.  Layer 0 is the framebuffer, whose pixels  *)
(* are the screen's.                                                       *)
(***************************************************************************)
Pipe(source, at, crop, dst, scales) ==
  [layer |-> source.layer, at |-> at, crop |-> crop, dst |-> moveRect(dst, -at, 0), flips |-> source.flips,
   turn |-> source.turn, down |-> source.down, area |-> source.area, scales |-> scales]

\* normalizeCrop: an odd start moves up, the length stays even and inside.
Normal(lo, hi) ==
  LET s == lo + (lo % 2)
  IN  <<s, s + even_floor(hi - lo) - (IF lo % 2 = 1 /\ (hi - lo) % 2 = 0 THEN 2 ELSE 0)>>
normalizeCrop(l, c) ==
  LET x == Normal(c.l, c.r)  y == Normal(c.t, c.b)
  IN  IF l.yuv THEN Rect(x[1], y[1], x[2], y[2]) ELSE c

\* Two mixers split a 4k video only if it lies on one.
SplitsSource(l) ==
  /\ display.kind # "srcSplit" /\ l.wide /\ display.family = "mdss"
  /\ isDisplaySplit => l.dst.l > lSplit \/ l.dst.r < lSplit

\* getDownscaleFactor, 1 for none.  MDSS: the greatest power of two in both
\* quotients; from four on only if it cuts no line off.  MDP: the areas'.
MdpFactors(w, h, dst) == {d \in {2, 4, 8} : d * d * W(dst) * H(dst) <= w * h}
MdssFactors(w, h, dst) ==
  {d \in {2, 4, 8, 16, 32} :
     /\ d * W(dst) <= w /\ d * H(dst) <= h /\ w >= 4 /\ h >= 4
     /\ w < 64 * W(dst) \/ h < 64 * H(dst)
     /\ d = 2 \/ (w % (2 * d) = 0 /\ h % (2 * d) = 0)}

\* The rotator scales videos down, but not those split at their source.
getRotDownscale(l) ==
  LET w == W(l.crop)  h == H(l.crop)
      factors ==
        IF ~display.rotDownscale \/ ~l.yuv \/ SplitsSource(l) THEN {}
        ELSE IF display.family = "mdp" THEN MdpFactors(w, h, l.dst)
        ELSE IF rot90(l.tr) THEN MdssFactors(even_floor(h), even_floor(w), l.dst)
        ELSE MdssFactors(even_floor(w), even_floor(h), l.dst)
  IN  Max({1} \cup factors)

\* setMdpFlags: without the rotator the pipe does the flips.
flipsOf(l, ds) == IF rot90(l.tr) \/ ds > 1 THEN {} ELSE l.tr

\* What the pipes read: the layer's buffer, mirrored by flips, or the rotator's.
\* MDSS rotates the crop, less what does not divide (configRotator), and MDP the
\* buffer, whose crop is not divided (updateSource).
Rotated(i) ==
  LET l == list[i]
      ds == getRotDownscale(l)
      a == normalizeCrop(l, l.crop)
      aligned(x) == IF ds = 1 THEN x ELSE x - (x % (2 * ds))
      w == aligned(W(a))  h == aligned(H(a))
      of(crop, turn, area) ==
        [layer |-> i, crop |-> crop, flips |-> flipsOf(l, ds), turn |-> turn, down |-> ds,
         area |-> area]
  IN  IF ~rot90(l.tr) /\ ds = 1 THEN of(l.crop, {}, NoRect)
      ELSE IF display.family = "mdss"
      THEN of(IF rot90(l.tr) THEN Rect(0, 0, h \div ds, w \div ds) ELSE Rect(0, 0, w \div ds, h \div ds),
              l.tr, Rect(a.l, a.t, a.l + w, a.t + h))
      ELSE of(preRotateSource(l.tr, l.bw, l.bh, l.crop), l.tr,
              Rect(0, 0, l.bw, IF ds = 8 THEN l.bh - (l.bh % 16) ELSE l.bh))

\* MdpCtrl::set: sizes of a video are even, and its position's too before MDSS.
LayerPipe(source, at, crop, dst, scales) ==
  LET l == list[source.layer]
      d == IF l.yuv /\ display.family = "mdp"
           THEN [dst EXCEPT !.r = dst.l + even_floor(W(dst)), !.b = dst.t + even_floor(H(dst))] ELSE dst
  IN  Pipe(source, at, normalizeCrop(l, crop), d, scales)

None == [crop |-> NoRect, dst |-> NoRect]

\* Mutant: the crops change places also when the layer is in one half.
HalvesSwapAlways(l, source, sciL, sciR, useL, useR) ==
  LET left == IF useL THEN calculate_crop_rects(source.crop, l.dst, sciL, {}) ELSE None
      right == IF useR THEN calculate_crop_rects(source.crop, l.dst, sciR, {}) ELSE None
      met == sanitizeSourceCrop(left.crop, right.crop, l.yuv)
      wR == W(met.r)
  IN  IF "H" \in source.flips
      THEN [L |-> [crop |-> [met.l EXCEPT !.l = met.l.l + wR, !.r = met.r.r], dst |-> left.dst],
            R |-> [crop |-> [met.r EXCEPT !.l = met.l.l, !.r = met.l.l + wR], dst |-> right.dst]]
      ELSE [L |-> [crop |-> met.l, dst |-> left.dst], R |-> [crop |-> met.r, dst |-> right.dst]]

\* The parts of a layer in two scissors.  The crops meet, and change places
\* if the layer is in both and the pipes mirror.
Halves(l, source, sciL, sciR, useL, useR) ==
  LET left == IF useL THEN calculate_crop_rects(source.crop, l.dst, sciL, {}) ELSE None
      right == IF useR THEN calculate_crop_rects(source.crop, l.dst, sciR, {}) ELSE None
      met == sanitizeSourceCrop(left.crop, right.crop, l.yuv)
      wR == W(met.r)
  IN  IF useL /\ useR /\ "H" \in source.flips
      THEN [L |-> [crop |-> [met.l EXCEPT !.l = met.l.l + wR, !.r = met.r.r], dst |-> left.dst],
            R |-> [crop |-> [met.r EXCEPT !.l = met.l.l, !.r = met.l.l + wR], dst |-> right.dst]]
      ELSE [L |-> [crop |-> met.l, dst |-> left.dst], R |-> [crop |-> met.r, dst |-> right.dst]]

configureNonSplit(source) ==
  LET l == list[source.layer]
  IN  {LayerPipe(source, 0, source.crop, l.dst, needsScaling(l))}

\* The two halves as if the layer were in both.
needsScalingWithSplit(l) ==
  LET left == calculate_crop_rects(l.crop, l.dst, LeftFrame, {})
      right == calculate_crop_rects(l.crop, l.dst, RightFrame, {})
      met == sanitizeSourceCrop(left.crop, right.crop, l.yuv)
  IN  \/ W(met.l) # W(left.dst) \/ H(met.l) # H(left.dst)
      \/ W(met.r) # W(right.dst) \/ H(met.r) # H(right.dst)

\* acquireMDPPipes: a half gets a pipe if the layer touches its region.
MixerPipes(l) ==
  {m \in {"L", "R"} : IF m = "L" THEN l.dst.l < lSplit /\ isValidRect(getIntersection(l.dst, lRoi))
                                 ELSE l.dst.r > lSplit /\ isValidRect(getIntersection(l.dst, rRoi))}
At == [L |-> 0, R |-> lSplit]

configureSplit(source) ==
  LET l == list[source.layer]
      h == Halves(l, source, LeftFrame, RightFrame, l.dst.l < lSplit, l.dst.r > lSplit)
  IN  {LayerPipe(source, At[m], h[m].crop, h[m].dst, needsScalingWithSplit(l)) :
         m \in MixerPipes(l)}

\* Two pipes of one mixer, on two stages, for a 4k video.
configureSourceSplit(source) ==
  LET l == list[source.layer]
      mid == l.dst.l + W(l.dst) \div 2
      h == Halves(l, source, [l.dst EXCEPT !.r = mid], [l.dst EXCEPT !.l = mid], TRUE, TRUE)
  IN  {LayerPipe(source, 0, h[m].crop, h[m].dst, TRUE) : m \in {"L", "R"}}

\* Mutant: without the correction for mirrored layers.
MeetAtHalf(l, source) == (l.dst.l + l.dst.r) \div 2

\* The x at which two pipes of one stage meet on the screen: of a mirrored layer
\* the wider half of an odd crop is on the left.
MeetAt(l, source) == (l.dst.l + l.dst.r + (IF "H" \in source.flips THEN 1 ELSE 0)) \div 2

primarySplitAlways == ~display.external /\ display.splitAlways

\* MDPCompSrcSplit::acquireMDPPipes: a wide layer takes two pipes, on some
\* primary displays if it is wider than the half.
TooWide(l) ==
  LET cropWidth == IF rot90(l.tr) THEN H(l.crop) ELSE W(l.crop)
  IN  \/ W(l.dst) > display.maxMixer \/ cropWidth > display.maxMixer
      \/ primarySplitAlways /\ cropWidth > lSplit

\* The two pipes are on one stage.
configureSrcSplit(source) ==
  LET l == list[source.layer]
      crop == source.crop
      cropSwap == "H" \in source.flips
      mid == (crop.l + crop.r) \div 2
      met == sanitizeSourceCrop([crop EXCEPT !.r = mid], [crop EXCEPT !.l = mid], l.yuv)
      at == MeetAt(l, source)
      half(c, dst) == LayerPipe(source, 0, c, dst, needsScaling(l))
  IN  IF ~TooWide(l) THEN configureNonSplit(source)
      ELSE {half(IF cropSwap THEN met.r ELSE met.l, [l.dst EXCEPT !.r = at]),
            half(IF cropSwap THEN met.l ELSE met.r, [l.dst EXCEPT !.l = at])}

\* configure, and configure4k2kYuv for 4k videos.
configureLayer(source) ==
  IF display.kind = "srcSplit" THEN configureSrcSplit(source)
  ELSE IF SplitsSource(list[source.layer]) THEN configureSourceSplit(source)
  ELSE IF isDisplaySplit THEN configureSplit(source) ELSE configureNonSplit(source)

-----------------------------------------------------------------------------
(***************************************************************************)
(* The framebuffer's pipes.                                                *)
(***************************************************************************)
Hull(rects) == FoldSet(getUnion, NoRect, rects)

\* getUpdatingFBRect and trimAgainstROI.
getUpdatingFBRect(layers) ==
  LET all == Hull({list[i].dst : i \in layers})
  IN  IF isDisplaySplit THEN getUnion(getIntersection(all, lRoi), getIntersection(all, rRoi))
      ELSE getIntersection(all, lRoi)

getNonWormholeRegion == getIntersection(Hull({list[i].dst : i \in DOMAIN list}), Screen)

FBPipe(at, r) ==
  Pipe([layer |-> 0, flips |-> {}, turn |-> {}, down |-> 1, area |-> NoRect], at, r, r, FALSE)

FBUpdateSplit(r) ==
  LET mixers == {m \in {"L", "R"} : IF m = "L" THEN r.l < lSplit ELSE r.r > lSplit}
      half == [L |-> LeftFrame, R |-> RightFrame]
  IN  {FBPipe(At[m], getIntersection(r, half[m])) : m \in mixers}

FBSrcSplit(r) ==
  LET mid == (r.l + r.r) \div 2
  IN  IF W(r) > display.maxMixer \/ (primarySplitAlways /\ W(r) > lSplit)
      THEN {FBPipe(0, [r EXCEPT !.r = mid]), FBPipe(0, [r EXCEPT !.l = mid])}
      ELSE {FBPipe(0, r)}

FBUpdateNonSplit(r) == {FBPipe(0, r)}

\* IFBUpdate::prepare: an external display takes the hull of all layers.
FBPipes(updating) ==
  LET r == IF display.external THEN getNonWormholeRegion ELSE updating
  IN  CASE display.kind = "two" -> FBUpdateSplit(r)
        [] display.kind = "srcSplit" -> FBSrcSplit(r)
        [] OTHER -> FBUpdateNonSplit(r)

-----------------------------------------------------------------------------
Init ==
  /\ display \in Displays /\ given \in Lists
  /\ stage = "list" /\ list = given
  /\ lRoi = NoRect /\ rRoi = NoRect
  /\ drop = {} /\ fb = {} /\ pipes = {}

Accepted(ps) == \A p \in ps : isValidRect(p.crop) /\ isValidRect(p.dst)

\* postHeuristicsHandling: some layers on the framebuffer, the others on pipes.
\* The driver refuses a pipe of no size.
configure ==
  /\ stage = "roi"
  /\ stage' = "shown"
  /\ \E f \in SUBSET (DOMAIN list \ drop) :
       LET ps == UNION {configureLayer(source) : source \in {Rotated(i) : i \in DOMAIN list \ (drop \cup f)}}
                 \cup (IF f = {} THEN {} ELSE FBPipes(getUpdatingFBRect(f)))
       IN  fb' = f /\ Accepted(ps) /\ pipes' = ps
  /\ UNCHANGED <<display, given, list, lRoi, rRoi, drop>>

\* No strategy works: the framebuffer shows all of the screen.
fallBack ==
  /\ stage = "roi"
  /\ stage' = "shown"
  /\ lRoi' = FullRoi[1] /\ rRoi' = FullRoi[2]
  /\ drop' = {} /\ fb' = DOMAIN list
  /\ pipes' = FBPipes(Screen)
  /\ UNCHANGED <<display, given, list>>

\* The same geometry again: the list is as the composer left it.
nextFrame ==
  /\ stage = "shown"
  /\ stage' = "list"
  /\ UNCHANGED <<display, given, list, lRoi, rRoi, drop, fb, pipes>>

Next == setListStats \/ generateROI \/ configure \/ fallBack \/ nextFrame
Spec == Init /\ [][Next]_vars

-----------------------------------------------------------------------------
(***************************************************************************)
(* What a pixel of the screen shows.  A position in a buffer is a pair of  *)
(* fractions.                                                              *)
(***************************************************************************)
Unturn(q, tr, w, h) ==
  LET minus(a, x) == <<a * x[2] - x[1], x[2]>>
      u == IF rot90(tr) THEN [x |-> q.y, y |-> minus(h, q.x)] ELSE q
  IN  [x |-> IF "H" \in tr THEN minus(w, u.x) ELSE u.x,
       y |-> IF "V" \in tr THEN minus(h, u.y) ELSE u.y]

Shift(q, r) == [x |-> <<q.x[1] + r.l * q.x[2], q.x[2]>>, y |-> <<q.y[1] + r.t * q.y[2], q.y[2]>>]

\* The point of crop that the centre of pixel p of dst shows.
Sample(crop, dst, tr, p) ==
  LET w == IF rot90(tr) THEN H(crop) ELSE W(crop)
      h == IF rot90(tr) THEN W(crop) ELSE H(crop)
      q == [x |-> <<(2 * (p[1] - dst.l) + 1) * w, 2 * W(dst)>>,
            y |-> <<(2 * (p[2] - dst.t) + 1) * h, 2 * H(dst)>>]
  IN  Shift(Unturn(q, tr, W(crop), H(crop)), crop)

OnScreen(pipe) == moveRect(pipe.dst, pipe.at, 0)
PipeSample(pipe, p) ==
  LET q == Sample(pipe.crop, OnScreen(pipe), pipe.flips, p)
      times(x) == <<x[1] * pipe.down, x[2]>>
  IN  IF pipe.area = NoRect THEN q
      ELSE Shift(Unturn([x |-> times(q.x), y |-> times(q.y)], pipe.turn, W(pipe.area), H(pipe.area)),
                 pipe.area)

Near(a, b, tol) == LET d == a[1] * b[2] - b[1] * a[2]  most == tol * a[2] * b[2]
                   IN  -most <= d /\ d <= most

\* Halves of a scaled layer are rounded to pixels of the screen and of the
\* buffer, those of a video to even ones of the buffer or of the rotator's, down
\* times as large; the whole of a video may lose two pixels, and two more to the
\* rotator's first halving.
Tolerance(l, down) ==
  LET w == IF rot90(l.tr) THEN H(l.crop) ELSE W(l.crop)
      h == IF rot90(l.tr) THEN W(l.crop) ELSE H(l.crop)
      halfPixel == (w + 2 * W(l.dst) - 1) \div (2 * W(l.dst))
  IN  (IF w = W(l.dst) /\ h = H(l.dst) THEN 0 ELSE halfPixel) + (IF l.yuv THEN 2 * down ELSE 0)

Covering(i, p) == {q \in pipes : q.layer = i /\ p \in Points(OnScreen(q))}
Visible(i, p) == /\ p \in Points(given[i].dst)
                 /\ \A j \in i + 1 .. Len(given) : given[j].opaque => p \notin Points(given[j].dst)

ShowsLayer(i, p) ==
  IF i \in fb THEN Cardinality(Covering(0, p)) = 1
  ELSE /\ Cardinality(Covering(i, p)) = 1
       /\ LET want == Sample(given[i].crop, given[i].dst, given[i].tr, p) IN
          \A q \in Covering(i, p) :
            LET got == PipeSample(q, p)
                halved == \E r \in pipes \ {q} : r.layer = i
                tol == Tolerance(given[i], IF halved THEN q.down ELSE Smaller(2, q.down))
            IN  Near(want.x, got.x, tol) /\ Near(want.y, got.y, tol)

RoiPixels == Points(lRoi) \cup Points(rRoi)

-----------------------------------------------------------------------------
TypeOK ==
  /\ display \in Displays /\ given \in Lists
  /\ stage \in {"list", "stats", "roi", "shown"}
  /\ DOMAIN list = DOMAIN given
  /\ drop \subseteq DOMAIN list /\ fb \subseteq DOMAIN list \ drop
  /\ \A q \in pipes : q.layer \in {0} \cup (DOMAIN list \ (drop \cup fb))

\* In the part of the screen that is updated, every layer is seen wherever
\* SurfaceFlinger's list says so and at the right place of its buffer, on one
\* pipe or through the framebuffer; and its pipes stay in its frame.
PictureKept ==
  stage = "shown" =>
    /\ \A p \in RoiPixels, i \in DOMAIN given : Visible(i, p) => ShowsLayer(i, p)
    /\ \A q \in pipes : q.layer # 0 => Inside(OnScreen(q), given[q.layer].dst)

\* A pixel whose content changed is in the region that the panel is sent.
RoiCoversDamage ==
  stage \in {"roi", "shown"} =>
    \A i \in DOMAIN given : \A p \in Points(getIntersection(given[i].dst, Screen)) :
      LET s == Sample(given[i].crop, given[i].dst, given[i].tr, p)
          d == given[i].damage
          in(x, lo, hi) == lo * x[2] < x[1] /\ x[1] < hi * x[2]
          damaged == IF d = Full THEN TRUE ELSE in(s.x, d.l, d.r) /\ in(s.y, d.t, d.b)
      IN  Visible(i, p) /\ damaged => p \in RoiPixels

\* Each region is one the panel takes, inside its half of the screen.
RegionsFitPanel ==
  stage \in {"roi", "shown"} =>
    LET fits(roi, frame) ==
          isValidRect(roi) =>
            /\ Inside(roi, frame)
            /\ roi.l % Larger(1, display.panel.left) = 0
            /\ roi.t % Larger(1, display.panel.top) = 0
            /\ W(roi) % Larger(1, display.panel.width) = 0
            /\ H(roi) % Larger(1, display.panel.height) = 0
            /\ W(roi) >= display.panel.minWidth /\ H(roi) >= display.panel.minHeight
    IN  fits(lRoi, IF isDisplaySplit THEN LeftFrame ELSE Screen) /\ fits(rRoi, RightFrame)

\* A pipe reads inside its buffer and writes inside its mixer, and if it has to
\* scale it was asked for as one that can (a DMA pipe cannot).  The last is not
\* said of layers that the rotator turns, where needsScaling compares the crop
\* before the turn and asks for scaling in vain or not at all, nor of videos,
\* whose crops are evened after it was asked.
PipesFit ==
  \A q \in pipes :
    LET buffer == IF q.layer = 0 THEN Screen
                  ELSE IF rot90(q.turn) THEN Rect(0, 0, H(q.area) \div q.down, W(q.area) \div q.down)
                  ELSE IF q.area # NoRect THEN Rect(0, 0, W(q.area) \div q.down, H(q.area) \div q.down)
                  ELSE IF list[q.layer].yuv THEN Rect(0, 0, list[q.layer].bw, list[q.layer].bh)
                  ELSE given[q.layer].crop
    IN  /\ Inside(q.crop, buffer)
        /\ Inside(OnScreen(q), IF ~isDisplaySplit \/ (q.layer # 0 /\ list[q.layer].wide) THEN Screen
                               ELSE IF q.at = 0 THEN LeftFrame ELSE RightFrame)
        /\ q.layer # 0 /\ ~list[q.layer].yuv /\ q.turn = {} =>
             q.scales \/ (W(q.crop) = W(q.dst) /\ H(q.crop) = H(q.dst))
=============================================================================
