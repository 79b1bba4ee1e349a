SPECIFICATION FairSpec
CONSTANTS
  Writes = {w1, w2}
  NoWrite = NoWrite
  Settings = {TRUE, FALSE}
INVARIANT TypeOK BegunIsolated OnePlace
PROPERTY CommitWhole CallReturns
