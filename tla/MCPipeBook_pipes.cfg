CONSTANTS
  NumPipes = 3
  PipeType <- TypeOfPipe
  NumDpys = 2
  Mixer = {left, right}
  Target = "default"
  Nothing = Nothing
SPECIFICATION Spec
INVARIANTS DriverAgrees DrawReady Reclaimed DmaReleased EachRequestNew
PROPERTIES Implements
