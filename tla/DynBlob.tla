------------------------------ MODULE DynBlob ------------------------------
(***************************************************************************)
(* The blobs of dynamic columns, in the connector's two formats: "num", of  *)
(* numbered columns, and "named".  A header lists the columns in the order  *)
(* of their keys, each with the type and the place of its value, and the    *)
(* values follow one another.  "none" is the blob of length 0.              *)
(*                                                                         *)
(* Names are represented by their ranks in the order of the connector       *)
(* (shorter first, then byte by byte), so that < compares them; the bytes   *)
(* of a value are any tokens.  Data pools are below 31 bytes, where the     *)
(* offsets of both formats have their shortest form.                        *)
(***************************************************************************)
EXTENDS Integers, Sequences, FiniteSets, SequencesExt

CONSTANTS
  Names,        \* ranks of the names
  NameLength,   \* their lengths
  LongestName,  \* MAX_NAME_LENGTH
  Numbers,      \* the column numbers that calls are made with
  Limit,        \* UINT_MAX16
  NameOf,       \* a number, written in decimal
  NumberOf,     \* what strtoul() makes of the names that it reads to their end
  Byte, Terminator,        \* bytes, of which one is '\0'
  Values, TypeOf, Bytes,   \* values, their types and what is stored of them
  Absent, Garbage          \* of a lookup: no column; bytes that no value of Values has

Formats == {"num", "named"}
\* DYN_COL_INT, DYN_COL_STRING, DYN_COL_DYNCOL
IntType == 1
StrType == 4
MapType == 9

ASSUME BlobAssumption ==
  /\ Names \subseteq Nat /\ Numbers \subseteq Nat /\ Limit \in Nat
  /\ NameOf \in [Numbers -> Names]
  /\ DOMAIN NumberOf \subseteq Names /\ NumberOf \in [DOMAIN NumberOf -> Nat]
  /\ \A m, n \in Numbers : m < n => NameOf[m] < NameOf[n]
  /\ \A n \in Numbers : NameOf[n] \in DOMAIN NumberOf /\ NumberOf[NameOf[n]] = n
  /\ NameLength \in [Names -> Nat]
  /\ TypeOf \in [Values -> {IntType, StrType, MapType}]
  /\ Terminator \in Byte
  /\ DOMAIN Bytes = Values /\ \A v \in Values : Bytes[v] \in Seq(Byte)
  /\ Absent \notin Values /\ Garbage \notin Values

Keys(fmt) == IF fmt = "num" THEN Numbers ELSE Names
TooLarge(fmt, k) == IF fmt = "num" THEN k > Limit ELSE NameLength[k] > LongestName
\* The name of a column, as unpack() and str_keys() give it.
Name(fmt, k) == IF fmt = "num" THEN NameOf[k] ELSE k

-----------------------------------------------------------------------------
(* Writing.  Columns are sequences of keys with their types and bytes.     *)

Column(k, v) == [key |-> k, type |-> TypeOf[v], bytes |-> Bytes[v]]
\* The members of a finite set of numbers, in their order.
Ordered(K) ==
  [i \in 1..Cardinality(K) |-> CHOOSE k \in K : Cardinality({j \in K : j < k}) = i - 1]
InOrder(f) ==
  LET ks == Ordered(DOMAIN f) IN [i \in DOMAIN ks |-> Column(ks[i], f[ks[i]])]
\* The data after each column has been written.
Written(cols) ==
  LET data[i \in 0..Len(cols)] == IF i = 0 THEN <<>> ELSE data[i - 1] \o cols[i].bytes
  IN  data

\* Type and offset share one number.  The numeric format has 3 bits for the type less 1,
\* and the fourth bit that a nested map needs falls on the lowest bit of the offset.
Place(fmt, type, off) ==
  IF fmt = "num" /\ type > 8
  THEN [type |-> type - 8, off |-> off + 1 - (off % 2)]
  ELSE [type |-> type, off |-> off]

NoBlob == [fmt |-> "none", hdr |-> <<>>, data |-> <<>>]
Layout(fmt, cols) ==
  [fmt |-> fmt,
   hdr |-> [i \in DOMAIN cols |->
     LET p == Place(fmt, cols[i].type, Len(Written(cols)[i - 1]))
     IN  [key |-> cols[i].key, type |-> p.type, off |-> p.off]],
   data |-> Written(cols)[Len(cols)]]
\* What a create that refuses its keys leaves: zeros, of the fixed header's length.
Zeroed(fmt) == [NoBlob EXCEPT !.fmt = "num",
                              !.data = IF fmt = "num" THEN <<>> ELSE <<Terminator, Terminator>>]

FixedHeader(fmt) == IF fmt = "num" THEN 3 ELSE 5
Characters(b) == UNION {{i} \X (1..NameLength[b.hdr[i].key]) : i \in DOMAIN b.hdr}
Size(b) ==
  CASE b.fmt = "none" -> 0
    [] b.fmt = "num" -> FixedHeader("num") + Len(b.data) + 3 * Len(b.hdr)
    [] b.fmt = "named" ->
         FixedHeader("named") + Len(b.data) + 4 * Len(b.hdr) + Cardinality(Characters(b))

\* Strings and maps are stored with a '\0' behind them, which the next value overwrites.
Overhang(cols) ==
  IF \E i \in DOMAIN cols : cols[i].type \in {StrType, MapType}
                             /\ \A j \in i + 1..Len(cols) : cols[j].bytes = <<>>
  THEN 1 ELSE 0

-----------------------------------------------------------------------------
(* Reading.                                                                *)

Extent(b, i) == (IF i = Len(b.hdr) THEN Len(b.data) ELSE b.hdr[i + 1].off) - b.hdr[i].off
Cell(b, i) == SubSeq(b.data, b.hdr[i].off + 1, b.hdr[i].off + Extent(b, i))
Columns(b) ==
  [i \in DOMAIN b.hdr |-> [key |-> b.hdr[i].key, type |-> b.hdr[i].type, bytes |-> Cell(b, i)]]

\* The value of a type and bytes: a string gives up one '\0' at its end.  Its first byte
\* is the character set.
Decoded(type, bytes) ==
  LET kept == IF type = StrType /\ Len(bytes) > 1 /\ Last(bytes) = Terminator
              THEN Front(bytes) ELSE bytes
      fits == {v \in Values : TypeOf[v] = type /\ Bytes[v] = kept}
  IN  IF fits = {} THEN Garbage ELSE CHOOSE v \in fits : TRUE

\* Mutants, of Search and WellFormed below.
SearchStopsEarly(b, k) ==
  LET find[r \in (1..Len(b.hdr) + 1) \X (0..Len(b.hdr))] ==
        IF r[1] >= r[2] THEN 0
        ELSE LET mid == (r[1] + r[2]) \div 2
             IN  CASE b.hdr[mid].key < k -> find[<<mid + 1, r[2]>>]
                   [] b.hdr[mid].key > k -> find[<<r[1], mid - 1>>]
                   [] OTHER -> mid
  IN  find[<<1, Len(b.hdr)>>]
WellFormedTies(b) ==
  /\ \A i \in DOMAIN b.hdr : b.hdr[i].off <= Len(b.data)
  /\ \A i \in 2..Len(b.hdr) :
       b.hdr[i - 1].off <= b.hdr[i].off /\ b.hdr[i - 1].key < b.hdr[i].key

\* The binary searches: the position of a key in the header, or 0.  r is the range that is
\* left.
Search(b, k) ==
  LET find[r \in (1..Len(b.hdr) + 1) \X (0..Len(b.hdr))] ==
        IF r[1] > r[2] THEN 0
        ELSE LET mid == (r[1] + r[2]) \div 2
             IN  CASE b.hdr[mid].key < k -> find[<<mid + 1, r[2]>>]
                   [] b.hdr[mid].key > k -> find[<<r[1], mid - 1>>]
                   [] OTHER -> mid
  IN  find[<<1, Len(b.hdr)>>]

\* A number is searched by its lower 16 bits; a name in a numeric blob as the number it
\* reads as, and a number in a named one by its decimal name.
Find(b, by, k) ==
  IF b.fmt = "num"
  THEN IF by = "num" THEN Search(b, k % (Limit + 1))
       ELSE IF k \in DOMAIN NumberOf THEN Search(b, NumberOf[k] % (Limit + 1)) ELSE 0
  ELSE Search(b, Name(by, k))

Get(b, by, k) ==
  LET i == Find(b, by, k)
  IN  IF i = 0 THEN Absent ELSE Decoded(b.hdr[i].type, Cell(b, i))

Unpacked(b) ==
  [n \in {Name(b.fmt, b.hdr[i].key) : i \in DOMAIN b.hdr} |->
    LET i == CHOOSE i \in DOMAIN b.hdr : Name(b.fmt, b.hdr[i].key) = n
    IN  Decoded(b.hdr[i].type, Cell(b, i))]

\* mariadb_dyncol_check(): every value starts behind the start of the one before it.
WellFormed(b) ==
  /\ \A i \in DOMAIN b.hdr : b.hdr[i].off <= Len(b.data)
  /\ \A i \in 2..Len(b.hdr) :
       b.hdr[i - 1].off < b.hdr[i].off /\ b.hdr[i - 1].key < b.hdr[i].key

-----------------------------------------------------------------------------
(* Changing.                                                               *)

\* Numbers become names, column by column, in the order in which they are.
Converted(b, by) ==
  [i \in DOMAIN b.hdr |->
    [Columns(b)[i] EXCEPT !.key = IF by = "named" THEN Name(b.fmt, @) ELSE @]]
Put(cols, c) ==
  LET p == 1 + Cardinality({i \in DOMAIN cols : cols[i].key < c.key})
  IN  IF p <= Len(cols) /\ cols[p].key = c.key THEN ReplaceAt(cols, p, c)
      ELSE InsertAt(cols, p, c)
Merged(cols, f) ==
  LET new == InOrder(f)
      merge[i \in 0..Len(new)] == IF i = 0 THEN cols ELSE Put(merge[i - 1], new[i])
  IN  merge[Len(new)]
Without(cols, K) ==
  LET kept == Ordered({i \in DOMAIN cols : cols[i].key \notin K})
  IN  [j \in DOMAIN kept |-> cols[kept[j]]]
=============================================================================
