------------------------------ MODULE MCMDPComp ------------------------------
(* Lists of layers on a screen of three cells for TLC.                      *)
EXTENDS MDPComp

\* Layers with the buffer of an application, blended or opaque.
blended(frame) ==
  [frame |-> frame, kind |-> "rgb", opaque |-> FALSE, scaled |-> FALSE,
   supported |-> TRUE, doable |-> TRUE, skip |-> FALSE]
opaque(frame)  == [blended(frame) EXCEPT !.opaque = TRUE]
gpu(frame)     == [blended(frame) EXCEPT !.supported = FALSE]
skipped(frame) == [opaque(frame) EXCEPT !.skip = TRUE, !.supported = FALSE]
scaled(frame)  == [opaque(frame) EXCEPT !.scaled = TRUE]
video(frame, secure) ==
  [opaque(frame) EXCEPT !.kind = IF secure THEN "secureYuv" ELSE "yuv"]
keypad(frame, fits) ==
  [opaque(frame) EXCEPT !.kind = "secureRgb", !.doable = fits]

Screen == 1 .. 3

\* On a panel with partial update: lists where nothing opaque is above.
Windows ==
  {<<opaque(Screen), blended({1}), gpu({2, 3})>>,
   <<scaled({1, 2}), blended({2}), blended({2}), blended({3})>>,
   <<blended({1}), blended({2}), blended({2}), blended({1}), blended({1})>>}
Players ==
  {<<opaque(Screen), video({2}, FALSE), gpu({2, 3})>>,
   <<opaque(Screen), skipped({1}), blended({2})>>,
   <<blended({1}), blended({2}), blended({3})>>}
Secured ==
  {<<opaque({1, 2}), keypad({2}, TRUE), blended({1})>>,
   <<opaque({1, 2}), keypad({2}, FALSE), video({1}, TRUE), gpu({1})>>}

Display(external, partial, pauses, lists) ==
  {[external |-> external, partial |-> partial, pauses |-> pauses, lists |-> lists]}

\* Lists of one layer may be paused; see RightPicture.
Displays ==
  Display(FALSE, TRUE, FALSE, Windows) \cup Display(FALSE, FALSE, FALSE, Secured)
    \cup Display(FALSE, FALSE, FALSE, Players)
    \cup Display(TRUE, FALSE, FALSE, {<<video({1}, FALSE), gpu({2})>>, <<blended({1})>>})
    \cup Display(TRUE, FALSE, TRUE, {<<blended({1})>>})
    \cup Display(FALSE, TRUE, TRUE, {<<blended({1})>>})
=============================================================================
