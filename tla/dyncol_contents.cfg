CONSTANTS
  Names = {0, 10, 20, 30, 70}
  NameLength <- MCNameLength
  LongestName = 1
  Numbers = {0, 1, 2}
  Limit = 1
  NameOf <- MCNameOf
  NumberOf <- MCNumberOf
  Values = {"zero", "text", "nul", "empty"}
  TypeOf <- MCTypeOf
  Bytes <- MCBytes
  Byte = {"0", "cs", "x", "m"}
  Terminator = "0"
  HighBytes = {"high"}
  Absent = "absent"
  Garbage = "garbage"
  Objects = {"d1"}
  Lost = Lost
  Storable <- Stripped
  MaxGiven = 2
  MaxHeld = 3
  Wide = {2}
  Huge = 1000
  NoFault = NoFault
SPECIFICATION Spec
CHECK_DEADLOCK FALSE
INVARIANTS TypeOK ContentsKept LookupsAgree CheckVerdict
PROPERTY RefusedCalls
