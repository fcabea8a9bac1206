CONSTANTS
  c1 = c1
  Client <- OneClient
  FewPipes = TRUE
SPECIFICATION FairSpec
INVARIANTS OneSetOfResources DrawsWhatIsPrepared MixerFree
PROPERTIES WaitersWake
