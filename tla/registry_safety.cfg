SPECIFICATION Spec
CONSTANTS
  Names = {a, b}
  Sqls = {q, r}
  None = None
  Settings = {TRUE, FALSE}
  MaxSession = 3
INVARIANT TypeOK OwnRun StaleCauses
PROPERTY DeadForGood
