SPECIFICATION Spec
CONSTANTS
  Writes = {w1, w2}
  NoWrite = NoWrite
  Settings = {TRUE}
INVARIANT ManualIsolated
