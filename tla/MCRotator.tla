------------------------------ MODULE MCRotator ------------------------------
(* Four configurations for TLC: two alike, one larger, one secure.          *)
EXTENDS Rotator

CONSTANTS portrait, landscape, large, secure

SizeOf   == [conf \in Conf |-> IF conf = large THEN 2 ELSE 1]
SecureOf == [conf \in Conf |-> conf = secure]

\* Every failure of MDSS, and MDP without those it shares with MDSS.
SomeTargets ==
  [type : {TYPE_MDSS}, refuses : SUBSET {"remap", "play"}, heeds : {TRUE}]
    \cup [type : {TYPE_MDP}, refuses : {{}}, heeds : {TRUE}]
=============================================================================
