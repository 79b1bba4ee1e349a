CONSTANTS
  s1 = s1
  s2 = s2
  Stmts = {s1, s2}
  Kind <- QueryAndCall
  NoStmt = NoStmt
  MaxRows = 2
  MaxN = 1
  MultiResults = TRUE
SPECIFICATION Spec
INVARIANTS TypeOK StreamOwner NothingLeftOver RepliesMatch RefusedOnlyForOthers NoStall LostIsReady WholeOrNothing CrashCauses
PROPERTIES OnlyOwnerReads Advances
