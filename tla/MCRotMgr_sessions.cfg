CONSTANTS
  MAX_ROT_SESS = 2
  UINT = 8
  NumDpys = 3
  Lists <- SomeLists
  Rots = {r1, r2, r3}
  NULL = NULL
  MidRound = FALSE
SPECIFICATION Spec
SYMMETRY Addresses
INVARIANTS ServesOne FencesReach LineModeIdle DmaChangesHands
