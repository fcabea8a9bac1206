CONSTANTS
  None = None
  gEDIDData <- Table
  VGA = 3
  maxMDPDownscale = 4
  SrcSplit = TRUE
  UIScaling = TRUE
  Sinks <- MCSinks
  Switches = {TRUE}
  UserModes <- MCUserModes
  PrimarySize <- Panel
SPECIFICATION FairSpec
INVARIANTS VsyncKept FitsSink ActiveInStep HdmiInStep
PROPERTIES PanelRecovers
