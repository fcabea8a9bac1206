-------------------------------- MODULE Hdmi --------------------------------
(***************************************************************************)
(* How HDMIDisplay (libhdmi) chooses the mode of a sink and the resolution *)
(* the external display is composed in.  A mode of the table gEDIDData is  *)
(* named by its order there; any other natural number is a mode the table  *)
(* does not know.  Sizes are pairs <<width, height>>.                      *)
(***************************************************************************)
EXTENDS Integers, Sequences, FiniteSetsExt, Functions

CONSTANTS
  gEDIDData,        \* sequence of [size, interlaced], in the order of merit
  VGA,              \* the mode 640x480
  maxMDPDownscale,  \* how far the MDP shrinks a source, as an area
  SrcSplit,         \* one layer may use two pipes of a mixer
  UIScaling         \* Overlay::isUIScalingOnExternalSupported

ASSUME HdmiAssumption ==
  /\ VGA \in DOMAIN gEDIDData
  /\ maxMDPDownscale \in Nat \ {0}
  /\ SrcSplit \in BOOLEAN /\ UIScaling \in BOOLEAN

NoMode == -1

SUPPORTED_DOWNSCALE_AREA == 1920 * 1080

Area(size) == size[1] * size[2]

isInterlacedMode(mode) ==
  mode \in DOMAIN gEDIDData /\ gEDIDData[mode].interlaced

isValidMode(mode, edid) == mode \in Range(edid)

\* The mode asked for by a system property, if the sink has it.
getUserMode(user, edid) ==
  IF isValidMode(user, edid) /\ ~isInterlacedMode(user) THEN user ELSE NoMode

\* The mode of the sink that comes last in the table; 640x480 if the table
\* knows none of them.
getBestMode(edid) ==
  LET known == Range(edid) \cap DOMAIN gEDIDData
  IN  IF known = {} THEN VGA ELSE Max(known)

ChosenMode(user, edid) ==
  LET asked == getUserMode(user, edid)
  IN  IF asked = NoMode THEN getBestMode(edid) ELSE asked

----------------------------------------------------------------------------
Landscape(size) == IF size[2] > size[1] THEN <<size[2], size[1]>> ELSE size

\* The largest size inside dest with the shape of src.
getAspectRatioPosition(dest, src) ==
  CASE src[1] * dest[2] > dest[1] * src[2]
         -> <<dest[1], (dest[1] * src[2]) \div src[1]>>
    [] src[1] * dest[2] < dest[1] * src[2]
         -> <<(dest[2] * src[1]) \div src[2], dest[2]>>
    [] OTHER -> dest

aligndown(n) == n - (n % 4)

\* What is composed for a mode of size hdmi when the primary is larger.
\* Mutant: the limit of the MDP is forgotten.
UnlimitedSize(hdmi, primary) ==
  LET size == getAspectRatioPosition(Landscape(primary), hdmi)
  IN  <<aligndown(size[1]), aligndown(size[2])>>

ScaledSize(hdmi, primary) ==
  LET shape   == getAspectRatioPosition(Landscape(primary), hdmi)
      limited == IF Area(hdmi) * maxMDPDownscale < Area(shape)
                   THEN <<(hdmi[1] * maxMDPDownscale) \div 2,
                          (hdmi[2] * maxMDPDownscale) \div 2>>
                   ELSE shape
  IN  <<aligndown(limited[1]), aligndown(limited[2])>>

Downscales(hdmi, primary, enabled) ==
  /\ UIScaling /\ enabled
  /\ Area(primary) > Area(hdmi)
  /\ Area(primary) <= SUPPORTED_DOWNSCALE_AREA \/ SrcSplit

\* The attributes of the display in a mode of the table.
setAttributes(mode, primary, enabled) ==
  LET hdmi == gEDIDData[mode].size
  IN  IF Downscales(hdmi, primary, enabled)
        THEN [size |-> ScaledSize(hdmi, primary), scaling |-> TRUE]
        ELSE [size |-> hdmi, scaling |-> FALSE]
=============================================================================
