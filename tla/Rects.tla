------------------------------- MODULE Rects -------------------------------
(***************************************************************************)
(* The composer's arithmetic of rectangles and crops (hwc_utils.cpp and    *)
(* overlayUtils.cpp).  A rectangle is half open: [l, r) by [t, b).         *)
(***************************************************************************)
EXTENDS Integers, Sequences, FiniteSets, FiniteSetsExt

Rect(l, t, r, b) == [l |-> l, t |-> t, r |-> r, b |-> b]
NoRect == Rect(0, 0, 0, 0)
isValidRect(a) == a.b > a.t /\ a.r > a.l
W(a) == a.r - a.l
H(a) == a.b - a.t
Points(a) == (a.l .. a.r - 1) \X (a.t .. a.b - 1)
Inside(a, b) == b.l <= a.l /\ b.t <= a.t /\ a.r <= b.r /\ a.b <= b.b

Larger(x, y) == Max({x, y})
Smaller(x, y) == Min({x, y})

getIntersection(a, c) ==
  LET i == Rect(Larger(a.l, c.l), Larger(a.t, c.t), Smaller(a.r, c.r), Smaller(a.b, c.b))
  IN  IF isValidRect(a) /\ isValidRect(c) /\ isValidRect(i) THEN i ELSE NoRect

getUnion(a, c) ==
  IF ~isValidRect(a) THEN c
  ELSE IF ~isValidRect(c) THEN a
  ELSE Rect(Smaller(a.l, c.l), Smaller(a.t, c.t), Larger(a.r, c.r), Larger(a.b, c.b))

moveRect(a, x, y) ==
  IF isValidRect(a) THEN Rect(a.l + x, a.t + y, a.r + x, a.b + y) ELSE NoRect

\* a without c, if that is one rectangle.
deductRect(a, c) ==
  IF a.l = c.l /\ a.r = c.r
  THEN IF a.t = c.t /\ c.b <= a.b THEN [a EXCEPT !.t = c.b]
       ELSE IF a.b = c.b /\ c.t >= a.t THEN [a EXCEPT !.b = c.t] ELSE a
  ELSE IF a.t = c.t /\ a.b = c.b
  THEN IF a.l = c.l /\ c.r <= a.r THEN [a EXCEPT !.l = c.r]
       ELSE IF a.r = c.r /\ c.l >= a.l THEN [a EXCEPT !.r = c.l] ELSE a
  ELSE a

-----------------------------------------------------------------------------
(***************************************************************************)
(* Transforms: flips of the source first, then a clockwise quarter turn.   *)
(***************************************************************************)
Transform == SUBSET {"H", "V", "90"}
rot90(tr) == "90" \in tr

\* The cuts of a destination as the cuts of its source.
calc_cut(cut, tr) ==
  LET h == IF "H" \in tr THEN [cut EXCEPT !.l = cut.r, !.r = cut.l] ELSE cut
      v == IF "V" \in tr THEN [h EXCEPT !.t = h.b, !.b = h.t] ELSE h
  IN  IF rot90(tr) THEN [l |-> v.t, t |-> v.r, r |-> v.b, b |-> v.l] ELSE v

\* round(size * cut.n / cut.d), cuts being n parts of d.
Part(size, cut) == (2 * size * cut.n + cut.d) \div (2 * cut.d)

\* dst is cut to the scissor and crop by the same share on the side it is from.
calculate_crop_rects(crop, dst, sci, tr) ==
  LET w == W(dst)  h == H(dst)
      cut == calc_cut([l |-> [n |-> Larger(0, sci.l - dst.l), d |-> w],
                       t |-> [n |-> Larger(0, sci.t - dst.t), d |-> h],
                       r |-> [n |-> Larger(0, dst.r - sci.r), d |-> w],
                       b |-> [n |-> Larger(0, dst.b - sci.b), d |-> h]], tr)
  IN  [crop |-> Rect(crop.l + Part(W(crop), cut.l), crop.t + Part(H(crop), cut.t),
                     crop.r - Part(W(crop), cut.r), crop.b - Part(H(crop), cut.b)),
       dst |-> Rect(Larger(dst.l, sci.l), Larger(dst.t, sci.t),
                    Smaller(dst.r, sci.r), Smaller(dst.b, sci.b))]

\* The same crop in a buffer of size w by h after the transform.
preRotateSource(tr, w, h, crop) ==
  LET x == IF "H" \in tr THEN w - crop.r ELSE crop.l
      y == IF "V" \in tr THEN h - crop.b ELSE crop.t
  IN  IF rot90(tr) THEN Rect(h - y - H(crop), x, h - y, x + W(crop))
      ELSE Rect(x, y, x + W(crop), y + H(crop))

even_floor(x) == x - (x % 2)

\* The crops of two halves meet, and are even in a YUV buffer.
sanitizeSourceCrop(cl, cr, yuv) ==
  LET even(c) == IF yuv /\ W(c) # 0 THEN [c EXCEPT !.l = even_floor(@), !.r = even_floor(@)] ELSE c
      l == even(cl)
      r == even(IF W(cl) # 0 /\ W(cr) # 0 THEN [cr EXCEPT !.l = l.r] ELSE cr)
  IN  [l |-> l, r |-> r]

-----------------------------------------------------------------------------
(***************************************************************************)
(* getSanitizeROI, for one axis: lo and hi of the region, the end of the   *)
(* boundary, the panel's alignments (0: none) and least size.              *)
(***************************************************************************)
Widened(lo, hi, end, min) ==
  IF hi - lo >= min THEN <<lo, hi>>
  ELSE IF lo + min > end THEN <<hi - min, hi>> ELSE <<lo, lo + min>>

Aligned(x, align) == IF align = 0 THEN x ELSE x - (x % align)

\* Mutant: the end of the boundary is not looked at again.
AlignedAxisPast(lo, hi, end, align, size) ==
  LET l == Aligned(lo, align)
  IN  <<l, IF size = 0 THEN hi ELSE l + size * ((hi - l + size - 1) \div size)>>

AlignedAxis(lo, hi, end, align, size) ==
  LET l == Aligned(lo, align)
      s == IF size = 0 THEN hi - l ELSE size * ((hi - l + size - 1) \div size)
  IN  IF size # 0 /\ l + s > end THEN <<Aligned(end - s, align), end>> ELSE <<l, l + s>>

getSanitizeROI(roi, boundary, panel) ==
  LET w == Widened(roi.l, roi.r, boundary.r, panel.minWidth)
      h == Widened(roi.t, roi.b, boundary.b, panel.minHeight)
      x == AlignedAxis(w[1], w[2], boundary.r, panel.left, panel.width)
      y == AlignedAxis(h[1], h[2], boundary.b, panel.top, panel.height)
  IN  IF isValidRect(roi) THEN Rect(x[1], y[1], x[2], y[2]) ELSE roi
=============================================================================
