------------------------------ MODULE MCGralloc ------------------------------
(***************************************************************************)
(* One client beside the allocating process.  The buffer "b1" is asked for *)
(* in every way; "f1" to "f3" only from the framebuffer, on the panels     *)
(* whose memory the property map_fb_memory gives to gralloc: "f1" alone    *)
(* where that is one buffer, of which nothing is carved.                   *)
(***************************************************************************)
EXTENDS Gralloc

Base == [mapFb |-> FALSE, adreno |-> TRUE, macroTile |-> TRUE, pixelAlign |-> 32,
         mdss |-> TRUE, mdpComposition |-> FALSE, xres |-> 540, yres |-> 960,
         lineLength |-> 2176, fbBuffers |-> 2]
MCPlatforms ==
    {Base,
     [Base EXCEPT !.adreno = FALSE, !.macroTile = FALSE, !.pixelAlign = 16,
                  !.mdss = FALSE, !.mdpComposition = TRUE],
     [Base EXCEPT !.mapFb = TRUE],
     [Base EXCEPT !.mapFb = TRUE, !.fbBuffers = 1],
     [Base EXCEPT !.mapFb = TRUE, !.fbBuffers = 3, !.lineLength = 2160]}

Request(w, h, format, usage) ==
    [w |-> w, h |-> h, format |-> format, usage |-> usage, internal |-> FALSE]

\* Every format at a size that no rounding leaves alone; those with planes at
\* more of them.
Sizes == {<<34, 18>>, <<100, 66>>, <<33, 17>>, <<2050, 1>>, <<16, 512>>}
Planar == CbCr \cup CrCb \cup {"YV12"}
Others == RgbFormats \cup {"RGBA_FP16", "RAW16", "YCbCr_420_SP_TILED", "YCbCr_422_I", "BLOB",
                          "ASTC", "R_8"}
Shapes == {Request(s[1], s[2], f, {"HW_RENDER"}) : s \in Sizes, f \in Planar}
            \cup {Request(33, 17, f, {"HW_RENDER"}) : f \in Others}

\* Every way the CPU and the devices may share an image.
Cpu == {{}, {"SW_READ_OFTEN"}, {"SW_WRITE_OFTEN"}, {"SW_READ_OFTEN", "SW_WRITE_OFTEN"},
        {"SW_READ_RARELY", "SW_WRITE_OFTEN"}, {"SW_READ_OFTEN", "SW_WRITE_RARELY"}}
Hw == {{}, {"HW_RENDER"}, {"HW_CAMERA_WRITE"}, {"HW_VIDEO_ENCODER"},
       {"HW_CAMERA_READ", "HW_CAMERA_WRITE"}}
Elsewhere == {{"SW_READ_OFTEN", "SW_WRITE_OFTEN"} \cup m : m \in {{"IOMMU_HEAP"}, {"UNCACHED"}}}
Shared420 == {Request(34, 18, "YCbCr_420_888", c \cup h) : c \in Cpu \cup Elsewhere, h \in Hw}
Flexible == {Request(64, 64, "IMPLEMENTATION_DEFINED", u) :
               u \in Hw \cup {{"HW_COMPOSER"}, {"EXTERNAL_ONLY"}, {"HW_FB", "HW_RENDER"}}}
Protected == {Request(64, 64, "NV12_ENCODEABLE", {"PROTECTED"} \cup u) :
                u \in {{}, {"MM_HEAP"}}}
Internal == {[Request(34, 18, "YCrCb_420_SP", {"IOMMU_HEAP"} \cup u) EXCEPT !.internal = TRUE] :
               u \in {{}, {"PROTECTED", "MM_HEAP"}}}

Framebuffer == {Request(540, 960, "RGBA_8888", {"HW_FB", "HW_RENDER", "HW_COMPOSER"}),
                Request(540, 960, "RGBA_8888", {"HW_FB", "UI_CONTIG_HEAP"})}

MCAsked(p, b) ==
    CASE b = "b1" /\ ~p.mapFb -> Shapes \cup Shared420 \cup Flexible \cup Protected \cup Internal
      [] b = "f1" /\ p.mapFb -> Framebuffer
      [] b \in {"f2", "f3"} /\ p.mapFb /\ p.fbBuffers > 1 -> Framebuffer
      [] OTHER -> {}

\* A producer may use less of an image than it asked for.
MCSlices(r) ==
    IF HasPlanes(r.format) /\ r.w = 100 /\ r.h = 66 THEN {<<50, 34>>, <<98, 66>>} ELSE {}

\* What the theorems of Gralloc_proofs assume holds of this instance.
ASSUME MCGrallocAssumption == RendersToFb /\ Panels /\ Requests
=============================================================================
