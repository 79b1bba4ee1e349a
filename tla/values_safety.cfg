SPECIFICATION Spec
CONSTANTS
  Fixed = {i}
  Sized = {s}
  Void = {z}
  Numbers <- MCNumbers
  Short = {t}
  Long = {w}
  Empty = Empty
  Null = Null
  Stray = Stray
  Thrown = Thrown
  Half = 2
  HalfShort = 1
  HalfInt = 2
  MaxRows = 2
CHECK_DEADLOCK FALSE
INVARIANT TypeOK FieldsRead RoundTrip Converted FaultCauses
