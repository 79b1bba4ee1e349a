SPECIFICATION Spec
SYMMETRY Interchangeable
CONSTANTS
  Writes = {w1, w2, w3}
  NoWrite = NoWrite
  Settings = {FALSE}
INVARIANT ManualIsolated
PROPERTY Atomic
