---------------------------- MODULE MCGeometry ----------------------------
(***************************************************************************)
(* Screens of 8 by 4 pixels: one mixer, two mixers of equal and of unequal *)
(* width, one that stages two pipes side by side, an external one.         *)
(***************************************************************************)
EXTENDS Geometry

NoPanel == [left |-> 0, top |-> 0, width |-> 0, height |-> 0, minWidth |-> 0, minHeight |-> 0]
Command == [left |-> 2, top |-> 2, width |-> 4, height |-> 2, minWidth |-> 3, minHeight |-> 2]
Narrow  == [left |-> 1, top |-> 1, width |-> 1, height |-> 2, minWidth |-> 2, minHeight |-> 2]

Display(kind, split, family, max, panel, merge, external) ==
  [w |-> 8, h |-> 4, kind |-> kind, lSplit |-> split, family |-> family, maxMixer |-> max,
   partial |-> panel # NoPanel, merge |-> merge, panel |-> panel, external |-> external,
   splitAlways |-> FALSE, rotDownscale |-> FALSE]
Scaling(d) == [d EXCEPT !.rotDownscale = TRUE]

\* MDP's rotator scales down from version 4.2 on, and its crop is not divided.
MCDisplays ==
  {Scaling(Display("one", 4, "mdss", 0, Command, FALSE, FALSE)),
   Display("one", 4, "mdp", 0, NoPanel, FALSE, TRUE),
   Scaling(Display("two", 4, "mdss", 0, Command, TRUE, FALSE)),
   Display("two", 3, "mdss", 0, Narrow, FALSE, FALSE),
   Scaling(Display("two", 3, "mdss", 0, NoPanel, FALSE, TRUE)),
   Display("srcSplit", 4, "mdss", 4, NoPanel, FALSE, FALSE),
   [Scaling(Display("srcSplit", 4, "mdss", 16, NoPanel, FALSE, FALSE)) EXCEPT !.splitAlways = TRUE]}

\* calc_cut and preRotateSource turn one flip with a quarter turn differently.
Transforms == {{}, {"H"}, {"V"}, {"H", "V"}, {"90"}, {"H", "V", "90"}}

\* A layer whose crop is at (x, y) of a larger buffer; scale 0 is unscaled.
Sized(w, h, dst, tr, x, y, opaque, yuv, wide, damage) ==
  LET crop == IF rot90(tr) THEN Rect(x, y, x + h, y + w) ELSE Rect(x, y, x + w, y + h)
  IN  [crop |-> crop, dst |-> dst, tr |-> tr, opaque |-> opaque, yuv |-> yuv, wide |-> wide,
       bw |-> crop.r + 1, bh |-> crop.b + 2,
       damage |-> CASE damage = "full" -> Full
                    [] damage = "none" -> NoRect
                    [] OTHER -> Rect(x + 1, y, x + 2, y + 1)]
Layer(dst, tr, scale, x, y, opaque, yuv, wide, damage) ==
  Sized(IF scale = 0 THEN W(dst) ELSE scale, IF scale = 0 THEN H(dst) ELSE 4,
        dst, tr, x, y, opaque, yuv, wide, damage)

Frames == {Rect(0, 0, 8, 4), Rect(0, 1, 3, 3), Rect(2, 0, 7, 3), Rect(1, 0, 8, 4), Rect(5, 1, 7, 4),
           Rect(-1, 0, 5, 4), Rect(3, -2, 10, 4)}

OneLayer ==
  {<<Layer(d, tr, scale, 1, 0, TRUE, FALSE, FALSE, damage)>> :
     d \in Frames, tr \in Transforms, scale \in {0, 5, 12}, damage \in {"full", "some"}}

OneVideo ==
  {<<Layer(d, tr, scale, x, 0, TRUE, TRUE, wide, "full")>> :
     d \in {Rect(0, 0, 8, 4), Rect(2, 0, 6, 4), Rect(4, 0, 8, 4), Rect(0, 0, 2, 4)},
     tr \in Transforms, scale \in {0, 12}, x \in {0, 1}, wide \in BOOLEAN}

TwoLayers ==
  {<<Layer(d, tr, s, 0, 1, o, FALSE, FALSE, a), Layer(e, {}, 0, 0, 0, p, FALSE, FALSE, b)>> :
     d \in {Rect(0, 0, 8, 4), Rect(2, 0, 7, 3), Rect(5, 1, 7, 4)}, tr \in {{}, {"H"}, {"90"}},
     s \in {0, 12}, o \in {TRUE}, a \in {"none", "some"},
     e \in {Rect(0, 0, 8, 2), Rect(2, 0, 5, 3), Rect(0, 0, 3, 4), Rect(5, 1, 8, 4)},
     p \in BOOLEAN, b \in {"none", "some", "full"}}

\* Videos for the rotator to scale down, some not by the whole factor.  From an
\* odd column on, those it divides by four may lose more than a pixel or two.
BigVideo ==
  {<<Sized(k * W(d) + e, k * H(d) + e, d, tr, x, 0, TRUE, TRUE, wide, "full")>> :
     d \in {Rect(0, 0, 8, 4), Rect(2, 0, 6, 4), Rect(4, 0, 8, 4), Rect(-2, 0, 4, 4)},
     tr \in Transforms, <<k, x>> \in {<<2, 0>>, <<2, 1>>, <<4, 0>>}, e \in {0, 1, 2}, wide \in BOOLEAN}

MCLists == OneLayer \cup OneVideo \cup BigVideo \cup TwoLayers
=============================================================================
