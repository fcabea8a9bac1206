SPECIFICATION Spec
CONSTANTS
  Cells <- Screen
  MaxPipes = 3
  VGPipes = 1
  MaxLayers = 4
  Setups <- Displays
INVARIANTS RightPicture FBIsOfFrame PresentInFB WithinStages
