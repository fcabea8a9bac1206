----------------------------- MODULE MCDrawLock -----------------------------
(* An instance of DrawLock for TLC: one binder thread.                      *)
EXTENDS DrawLock

CONSTANT c1

OneClient == {c1}
=============================================================================
