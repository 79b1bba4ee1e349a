CONSTANTS
  s1 = s1
  s2 = s2
  Stmts = {s1, s2}
  Kind <- QueryAndQuery
  NoStmt = NoStmt
  MaxRows = 2
  MaxN = 1
  MultiResults = FALSE
SPECIFICATION FairSpec
PROPERTY CallReturns
