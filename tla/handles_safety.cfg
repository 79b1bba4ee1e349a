CONSTANTS
  c1 = c1
  c2 = c2
  h1 = h1
  h2 = h2
  h3 = h3
  s1 = s1
  s2 = s2
  s3 = s3
  n1 = n1
  n2 = n2
  Conns = {c1, c2}
  Handles = {h1, h2, h3}
  Stmts = {s1, s2, s3}
  Names = {n1, n2}
  NoHandle = NoHandle
  NoStmt = NoStmt
SPECIFICATION Spec
SYMMETRY Symmetry
CHECK_DEADLOCK FALSE
INVARIANTS TypeOK OwnedOnce ListExact UsableStmts FreedIsFirst
