CONSTANTS
  c1 = c1
  h1 = h1
  h2 = h2
  s1 = s1
  s2 = s2
  n1 = n1
  Conns = {c1}
  Handles = {h1, h2}
  Stmts = {s1, s2}
  Names = {n1}
  NoHandle = NoHandle
  NoStmt = NoStmt
SPECIFICATION Spec
CHECK_DEADLOCK FALSE
INVARIANT FreedIsUnlinked
