CONSTANTS
  Names = {10, 20}
  NameLength <- MCNameLength
  LongestName = 1
  Numbers = {0, 1}
  Limit = 1
  NameOf <- MCNameOf
  NumberOf <- MCNumberOf
  Values = {"text"}
  TypeOf <- MCTypeOf
  Bytes <- MCBytes
  Byte = {"0", "cs", "x", "m"}
  Terminator = "0"
  HighBytes = {"high"}
  Absent = "absent"
  Garbage = "garbage"
  d1 = d1
  d2 = d2
  Objects = {d1, d2}
  Lost = Lost
  Storable <- Flat
  MaxGiven = 1
  MaxHeld = 2
  Wide = {}
  Huge = 1000
  NoFault = NoFault
SPECIFICATION Spec
SYMMETRY ObjectsAlike
CHECK_DEADLOCK FALSE
INVARIANTS BuffersHold FaultsNeedADuplicate
