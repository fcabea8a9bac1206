------------------------------ MODULE MCRotMgr ------------------------------
(* An instance of RotMgr for TLC: two sessions for three displays.          *)
EXTENDS RotMgr, TLC

\* Lists of which a strategy takes layers that need no session, one, two (of
\* either kind), or three and so more than there are.
SomeLists ==
  {<<"plain">>, <<"turn", "scale">>, <<"turn", "turn", "turn">>}

Addresses == Permutations(Rots)
=============================================================================
