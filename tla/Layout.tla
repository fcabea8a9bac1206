------------------------------- MODULE Layout -------------------------------
(***************************************************************************)
(* The layout gralloc gives a buffer: the stride and the rows it rounds an *)
(* image to, the bytes it allocates for it, and the place of each plane    *)
(* that it reports to a client who locks the buffer                        *)
(* (libgralloc/alloc_controller.cpp, format choice of gpu.cpp).            *)
(*                                                                         *)
(* A format is its name; the ASTC formats, which the code treats alike,    *)
(* are the one name "ASTC".  A request is [w, h, format, usage] with usage *)
(* a set of flag names.  Sizes are assumed to stay below 2^31.             *)
(***************************************************************************)
EXTENDS Integers, Sequences

Page == 4096

AlignUp(x, a) == ((x + a - 1) \div a) * a

RgbFormats == {"RGBA_8888", "RGBX_8888", "RGB_888", "RGB_565", "BGRA_8888"}

BytesPerPixel(format) ==
    CASE format = "RGBA_FP16" -> 8
      [] format \in {"RGBA_8888", "RGBX_8888", "BGRA_8888", "RGBA_1010102"} -> 4
      [] format = "RGB_888" -> 3
      [] format \in {"RGB_565", "RAW16"} -> 2

SwRead == {"SW_READ_RARELY", "SW_READ_OFTEN"}
SwWrite == {"SW_WRITE_RARELY", "SW_WRITE_OFTEN"}

-----------------------------------------------------------------------------
(* The vendor's libraries: the paddings of libadreno_utils and the strides *)
(* of msm_media_info.h.                                                    *)
-----------------------------------------------------------------------------
AdrenoAligned(w, h, tiled) ==
    <<AlignUp(w, 32), IF tiled THEN AlignUp(h, 64) ELSE AlignUp(h, 32)>>
AstcBlocks(w, h) == <<(w + 3) \div 4, (h + 3) \div 4>>
VenusStride(w) == AlignUp(w, 128)
VenusScanlines(h) == AlignUp(h, 32)
VenusSize(w, h) ==
    AlignUp(VenusStride(w) * VenusScanlines(h)
              + VenusStride(w) * AlignUp((h + 1) \div 2, 16), Page)

-----------------------------------------------------------------------------
(* The format a flexible request ends up with.                             *)
(* isMacroTileEnabled refuses the CPU's buffers.                           *)
-----------------------------------------------------------------------------
GrallocFormat(format, usage) ==
    IF format \notin {"IMPLEMENTATION_DEFINED", "YCbCr_420_888"} THEN format
    ELSE CASE "HW_VIDEO_ENCODER" \in usage -> "NV12_ENCODEABLE"
           [] "HW_VIDEO_ENCODER" \notin usage
                /\ {"HW_CAMERA_READ", "HW_CAMERA_WRITE"} \subseteq usage -> "NV21_ZSL"
           [] "HW_VIDEO_ENCODER" \notin usage
                /\ ("HW_CAMERA_READ" \in usage) # ("HW_CAMERA_WRITE" \in usage)
                -> "YCrCb_420_SP"
           [] OTHER -> IF "HW_COMPOSER" \in usage THEN "RGBA_8888"
                       ELSE IF format = "YCbCr_420_888" THEN "YCrCb_420_SP"
                       ELSE format

MacroTiled(platform, format, usage) ==
    /\ platform.macroTile
    /\ format \in RgbFormats \ {"RGB_888"}
    /\ usage \cap (SwRead \cup SwWrite) = {}

-----------------------------------------------------------------------------
(* getAlignedWidthAndHeight and getSize.  A size of 0 refuses the request. *)
-----------------------------------------------------------------------------
Aligned(platform, w, h, format, tiled) ==
    CASE format \in RgbFormats ->
           IF platform.mapFb \/ ~platform.adreno
             THEN <<AlignUp(w, 32), AlignUp(h, 32)>>
             ELSE AdrenoAligned(w, h, tiled)
      [] format \in {"YCrCb_420_SP", "YCbCr_420_SP"} ->
           <<AlignUp(w, platform.pixelAlign), h>>
      [] format = "YCrCb_420_SP_ADRENO" -> <<AlignUp(w, 32), h>>
      [] format = "YCbCr_420_SP_TILED" -> <<AlignUp(w, 128), h>>
      [] format \in {"YV12", "YCbCr_422_SP", "YCrCb_422_SP",
                     "YCbCr_422_I", "YCrCb_422_I"} -> <<AlignUp(w, 16), h>>
      [] format \in {"YCbCr_420_SP_VENUS", "NV12_ENCODEABLE"} ->
           <<VenusStride(w), VenusScanlines(h)>>
      [] format = "NV21_ZSL" -> <<AlignUp(w, 64), AlignUp(h, 64)>>
      [] format = "ASTC" -> IF platform.adreno THEN AstcBlocks(w, h) ELSE <<w, h>>
      [] OTHER -> <<w, h>>

\* A bug the runs must catch: the rounding of YV12's chroma rows forgotten.
SizeOfTight(format, w, h, aw, ah) ==
    CASE format = "YV12" -> aw * ah + (aw * ah) \div 2
      [] format = "YCbCr_422_SP" -> AlignUp(aw * ah * 2, Page)
      [] format = "BLOB" -> w
      [] OTHER -> AlignUp(aw * ah * 4, Page)

SizeOf(format, w, h, aw, ah) ==
    CASE format \in RgbFormats \cup {"RGBA_FP16", "RGBA_1010102", "RAW16"} ->
           aw * ah * BytesPerPixel(format)
      [] format = "YCrCb_420_SP_ADRENO" ->
           AlignUp(aw * ah, Page)
             + AlignUp(2 * AlignUp(w \div 2, 32) * AlignUp(h \div 2, 32), Page)
      [] format = "YCbCr_420_SP_TILED" ->
           AlignUp(aw * ah, 2 * Page) + AlignUp(aw * AlignUp(h \div 2, 32), 2 * Page)
      [] format = "YV12" ->
           IF w % 2 = 1 \/ h % 2 = 1 THEN 0
           ELSE AlignUp(aw * ah + AlignUp(aw \div 2, 16) * (ah \div 2) * 2, Page)
      [] format \in {"YCbCr_420_SP", "YCrCb_420_SP"} ->
           AlignUp(aw * ah + (aw * ah) \div 2 + 1, Page)
      [] format \in {"YCbCr_422_SP", "YCrCb_422_SP", "YCbCr_422_I", "YCrCb_422_I"} ->
           IF w % 2 = 1 THEN 0 ELSE AlignUp(aw * ah * 2, Page)
      [] format \in {"YCbCr_420_SP_VENUS", "NV12_ENCODEABLE"} -> VenusSize(w, h)
      [] format \in {"BLOB", "RAW_OPAQUE"} -> IF h # 1 THEN 0 ELSE w
      [] format = "NV21_ZSL" -> AlignUp(aw * ah + (aw * ah) \div 2, Page)
      [] format = "ASTC" -> aw * ah * 16
      [] OTHER -> 0

\* getBufferSizeAndDimensions for a request, in the format it ends up with.
Dimensions(platform, r) ==
    LET format == GrallocFormat(r.format, r.usage)
        a == Aligned(platform, r.w, r.h, format, MacroTiled(platform, format, r.usage))
    IN  [format |-> format, w |-> a[1], h |-> a[2],
         size |-> SizeOf(format, r.w, r.h, a[1], a[2])]

-----------------------------------------------------------------------------
(* getYUVPlaneInfo: where a client finds the planes.  The image is wide as *)
(* the handle says, or as the geometry a producer left in the metadata     *)
(* (<<>> when none did) rounds to.                                         *)
-----------------------------------------------------------------------------
CbCr == {"YCbCr_420_SP", "YCbCr_422_SP", "YCbCr_420_SP_VENUS", "NV12_ENCODEABLE"}
CrCb == {"YCrCb_420_SP", "YCrCb_422_SP", "YCrCb_420_SP_ADRENO", "NV21_ZSL"}
HasPlanes(format) == format \in CbCr \cup CrCb \cup {"YV12"}

Shape(platform, format, w, h, geometry) ==
    IF geometry = <<>> THEN <<w, h>>
    ELSE Aligned(platform, geometry[1], geometry[2], format, FALSE)

Planes(platform, format, w, h, geometry) ==
    LET s == Shape(platform, format, w, h, geometry)
        chroma == s[1] * s[2]
        cstride == IF format = "YV12" THEN AlignUp(s[1] \div 2, 16) ELSE s[1]
        next == IF format = "YV12" THEN (cstride * s[2]) \div 2 ELSE 1
    IN  [rows |-> s[2], ystride |-> s[1], cstride |-> cstride,
         cb |-> IF format \in CbCr THEN chroma ELSE chroma + next,
         cr |-> IF format \in CbCr THEN chroma + next ELSE chroma,
         step |-> IF format = "YV12" THEN 1 ELSE 2]
=============================================================================
