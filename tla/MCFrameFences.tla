--------------------------- MODULE MCFrameFences ---------------------------
(* Small instances of FrameFences for TLC. *)
EXTENDS FrameFences

frame(d, c1, c2) ==
  [dpy |-> d, mdss |-> TRUE, comp |-> [l \in Layers |-> IF l = Top THEN c2 ELSE c1], ptor |-> "no",
   size |-> 0, handled |-> TRUE, empty |-> FALSE, animating |-> FALSE, turned |-> FALSE]
Ptor(size) == [frame("primary", "overlay", "overlay") EXCEPT !.ptor = "yes", !.size = size]

MCKinds ==
  {frame("primary", "rotator", "overlay"), frame("primary", "cached", "gpu"), Ptor(1),
   [frame("primary", "gpu", "gpu") EXCEPT !.ptor = "tried", !.size = 2],
   [frame("primary", "blit", "blit") EXCEPT !.mdss = FALSE],
   frame("external", "overlay", "gpu"),
   [frame("external", "gpu", "gpu") EXCEPT !.empty = TRUE],
   [frame("external", "rotator", "gpu") EXCEPT !.turned = TRUE],
   [frame("external", "gpu", "gpu") EXCEPT !.animating = TRUE],
   [frame("external", "gpu", "gpu") EXCEPT !.animating = TRUE, !.turned = TRUE],
   frame("virtual", "overlay", "gpu"),
   [frame("virtual", "gpu", "gpu") EXCEPT !.handled = FALSE]}

\* Failures come late, so that the frames before them are the ordinary ones.
MCFaults == [n \in Frame |-> CASE n = 3 -> {"rotSync", "timeout", "secure"} [] n = 4 -> {"sync"} [] OTHER -> {}]
=============================================================================
