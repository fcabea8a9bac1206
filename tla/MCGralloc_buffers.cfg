SPECIFICATION Spec
CONSTANTS
  None = None
  Client = {"c1"}
  Buffer = {"b1", "f1", "f2", "f3"}
  Platforms <- MCPlatforms
  Asked <- MCAsked
  Slices <- MCSlices
  Faults = {"heap", "memory", "share", "mmap", "mmapSystem", "edata", "emmap",
            "mapData", "mapMeta", "munmap", "munmapMeta", "invalidate", "clean"}
INVARIANTS
  Coherent
  ResourcesOwned
  PlanesFit
CHECK_DEADLOCK FALSE
