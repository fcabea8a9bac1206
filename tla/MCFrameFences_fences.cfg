SPECIFICATION Spec
CONSTANTS
  Layers = {"a", "b"}
  Top = "b"
  Kinds <- MCKinds
  None = None
  NUM_RENDER_BUFFERS = 3
  Depth = 1
  Buffers = 3
  Faults <- MCFaults
  MaxFrame = 4
CHECK_DEADLOCK FALSE
INVARIANTS DescriptorsKept WaitsForWriters BuffersFree
PROPERTY FencesSignal
