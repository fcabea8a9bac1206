------------------------------- MODULE MCC2D -------------------------------
(* Small instances of C2D for TLC. *)
EXTENDS C2D

MCRotations == {"0", "90"}
aLayer(i, k, a, r, o) == [img |-> i, kind |-> k, aligned |-> a, size |-> 1, rot |-> r, opaque |-> o]
MCLayers == {aLayer("A", "rgb", TRUE, "0", TRUE), aLayer("B", "rgb", TRUE, "90", FALSE),
             aLayer("V", "yuv", FALSE, "0", TRUE)}
aTarget(i, k, a) == [img |-> i, kind |-> k, aligned |-> a, size |-> 2]
MCTargets == {aTarget("R1", "rgb", TRUE), aTarget("R2", "rgb", TRUE), aTarget("W", "yuv", FALSE)}
MCTemplates == [k \in Kind |-> IF k = "rgb" THEN 2 ELSE 1]
=============================================================================
