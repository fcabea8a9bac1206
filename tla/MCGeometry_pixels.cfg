SPECIFICATION Spec
CONSTANTS
  Displays <- MCDisplays
  Lists <- MCLists
INVARIANTS
  PictureKept
  RoiCoversDamage
  RegionsFitPanel
  PipesFit
