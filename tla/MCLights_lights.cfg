CONSTANTS
  BlinkNodes = {"red", "green"}
  States <- MCStates
SPECIFICATION Spec
INVARIANTS FrontShown
