SPECIFICATION Spec
CONSTANTS
  Layers <- MCLayers
  Targets <- MCTargets
  Rotations <- MCRotations
  MaxTemplates <- MCTemplates
  MaxBlits = 3
  MaxSurfaces = 4
  Clips = {1}
  Faults = {"open", "dstImage", "srcImage", "dstCopy", "draw", "flush"}
  Overrides = TRUE
  MaxFrame = 3
INVARIANTS FrameDrawn MappingsOwned
