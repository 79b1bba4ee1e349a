---------------------------- MODULE ValuesProofs ----------------------------
(***************************************************************************)
(* Proofs about Values: for any columns, numbers and texts, any size of the *)
(* types and of the table, a result shows the rows of the table as          *)
(* FieldsRead says, and only there is foreign memory read.                  *)
(***************************************************************************)
EXTENDS Values, TLAPS, SequenceTheorems, FiniteSetTheorems

-----------------------------------------------------------------------------
(* Sizes, cells and buffers.                                               *)

\* A value is empty exactly if it has no bytes, and too long for a buffer exactly if
\* it is a long text.
LEMMA Sizes ==
  ASSUME NEW v \in Numbers \cup Texts
  PROVE  /\ Size(v) \in {0, 20, 65}
         /\ Size(v) = 0 <=> v = Empty
         /\ Size(v) > Room <=> v \in Long
BY ValuesAssumption DEF Size, Room, Texts

LEMMA Cells ==
  ASSUME table \in Seq(Rows), NEW c \in Columns, NEW k \in 1..Len(table)
  PROVE  /\ c \in Fixed => Cell(c, k) \in Numbers \cup {Null}
         /\ c \in Sized => Cell(c, k) \in Texts \cup {Null}
         /\ c \in Void => Cell(c, k) = Null
<1>1. table[k] \in Rows
  BY ElementOfSeq
<1> QED BY <1>1, ValuesAssumption DEF Cell, Rows, Columns, Stored

\* No row yet, one more that is NULL, one more that is not.
LEMMA LatestNone == \A c : Latest(c, 0) = Empty
BY DEF Latest

LEMMA LatestNext ==
  ASSUME NEW c, NEW k \in Nat
  PROVE  Latest(c, k + 1) = IF Cell(c, k + 1) # Null THEN Cell(c, k + 1) ELSE Latest(c, k)
<1> DEFINE Some(n) == {j \in 1..n : Cell(c, j) # Null}
<1>1. CASE Cell(c, k + 1) = Null
  <2>1. Some(k + 1) = Some(k)
    BY <1>1
  <2> QED BY <1>1, <2>1 DEF Latest
<1>2. CASE Cell(c, k + 1) # Null
  <2>1. k + 1 \in Some(k + 1) /\ \A j \in Some(k + 1) : j \in Nat /\ j <= k + 1
    BY <1>2
  <2>2. Max(Some(k + 1)) = k + 1
    BY <2>1 DEF Max
  <2>3. Latest(c, k + 1) = Cell(c, Max(Some(k + 1)))
    BY <2>1 DEF Latest
  <2> QED BY <1>2, <2>2, <2>3
<1> QED BY <1>1, <1>2

\* A row that has been fetched, over any earlier ones, keeps the type of a buffer.
BufferType == [bytes : Numbers \cup Texts, length : {0, 20, 65}]

LEMMA FetchedType ==
  ASSUME NEW c \in Columns, NEW b \in BufferType, NEW v \in Numbers \cup Texts \cup {Null}
  PROVE  Fetched(c, b, v) \in BufferType
<1>1. CASE v # Null
  <2>1. Size(v) \in {0, 20, 65}
    BY <1>1, Sizes
  <2> QED BY <1>1, <2>1 DEF Fetched, Buffer, BufferType
<1>2. CASE v = Null
  BY <1>2 DEF Fetched, Buffer, BufferType
<1> QED BY <1>1, <1>2

LEMMA FetchedRowType ==
  ASSUME table \in Seq(Rows), NEW cols \in SUBSET Columns, NEW bufs \in [cols -> BufferType],
         NEW k \in 1..Len(table)
  PROVE  FetchedRow(cols, bufs, k) \in [cols -> BufferType]
<1> SUFFICES ASSUME NEW c \in cols
             PROVE  Fetched(c, bufs[c], Cell(c, k)) \in BufferType
  BY DEF FetchedRow
<1>1. Cell(c, k) \in Numbers \cup Texts \cup {Null}
  BY Cells DEF Columns, Stored
<1> QED BY <1>1, FetchedType

LEMMA FreshType == Fresh \in BufferType
BY DEF Fresh, Buffer, BufferType, Texts

LEMMA RowType ==
  ASSUME NEW cols \in SUBSET Columns, NEW bufs \in [cols -> BufferType]
  PROVE  RowOf(bufs) \in [cols -> Fields]
BY DEF RowOf, FieldOf, Fields, BufferType, Texts

\* A sequence by its elements.
LEMMA MadeSeq ==
  ASSUME NEW S, NEW n \in Nat, NEW f \in [1..n -> S]
  PROVE  f \in Seq(S) /\ Len(f) = n
BY SeqDef

-----------------------------------------------------------------------------
(* Types.                                                                  *)

LEMMA CallTypes ==
  ASSUME NEW c \in Calls, NEW at \in 1..MaxRows
  PROVE  Call(c[1], c[2], at) \in {Call(d[1], d[2], k) : d \in Calls, k \in 1..MaxRows}
OBVIOUS

LEMMA TypeInit == Init => TypeOK
<1> SUFFICES ASSUME Init PROVE TypeOK
  OBVIOUS
<1>1. <<>> \in Seq(Rows) /\ <<>> \in Seq([{} -> Fields]) /\ Len(<<>>) = 0
  OBVIOUS
<1> QED BY <1>1, ValuesAssumption DEF Init, TypeOK, NoResult, Result

LEMMA TypeStep ==
  ASSUME TypeOK, [Next]_vars
  PROVE  TypeOK'
<1>1. ASSUME NEW p \in ParamRows, Insert(p)
      PROVE  TypeOK'
  <2>1. /\ table' \in Seq(Rows) /\ Len(table') <= MaxRows
    BY <1>1, ValuesAssumption DEF Insert, Idle, TypeOK
  <2> QED BY <1>1, <2>1 DEF Insert, TypeOK
<1>2. ASSUME NEW row \in Rows, InsertText(row)
      PROVE  TypeOK'
  <2>1. /\ table' \in Seq(Rows) /\ Len(table') <= MaxRows
    BY <1>2, ValuesAssumption DEF InsertText, Idle, TypeOK
  <2> QED BY <1>2, <2>1 DEF InsertText, TypeOK
<1>3. ASSUME NEW cols \in (SUBSET Columns) \ {{}}, Query(cols)
      PROVE  TypeOK'
  <2> DEFINE rows == [k \in DOMAIN table |-> [c \in cols |-> Cell(c, k)]]
  <2>1. Len(table) \in Nat /\ DOMAIN table = 1..Len(table) /\ table \in Seq(Rows)
    BY LenProperties DEF TypeOK
  <2>2. \A k \in 1..Len(table), c \in cols : Cell(c, k) \in Fields
    BY <2>1, Cells DEF Columns, Stored, Fields
  <2>3. rows \in [1..Len(table) -> [cols -> Fields]]
    BY <2>1, <2>2
  <2>4. rows \in Seq([cols -> Fields])
    <3> HIDE DEF rows
    <3> QED BY <2>1, <2>3, MadeSeq
  <2>5. result'.way = "text" /\ result'.cols = cols /\ result'.rows = rows
    BY <1>3 DEF Query, Result
  <2>6. call = NoCall
    BY <1>3 DEF Query, Idle
  <2>7. fault' \in {"none", "metadata"} /\ table' = table /\ call' = NoCall
    BY <1>3, <2>6 DEF Query
  <2>8. cols \subseteq Columns
    OBVIOUS
  <2> HIDE DEF rows
  <2>9. /\ result'.way \in {"none", "text", "prepared"} /\ result'.way # "none"
        /\ result'.rows \in Seq([result'.cols -> Fields]) /\ result'.cols \subseteq Columns
    BY <2>4, <2>5, <2>8
  <2> QED BY <2>7, <2>9 DEF TypeOK
<1>4. ASSUME NEW cols \in (SUBSET Columns) \ {{}}, NEW c \in Calls, Execute(c[1], c[2], cols)
      PROVE  TypeOK'
  <2>1. result'.way = "prepared" /\ result'.cols = cols /\ result'.rows = <<>>
    BY <1>4 DEF Execute, Result
  <2>2. buffers' \in [cols -> BufferType]
    <3> DEFINE fresh == [d \in cols |-> Fresh]
    <3>1. fresh \in [cols -> BufferType]
      BY FreshType
    <3>2. CASE table = <<>>
      BY <1>4, <3>1, <3>2 DEF Execute
    <3>3. CASE table # <<>>
      <4>1. 1 \in 1..Len(table)
        BY <3>3, EmptySeq DEF TypeOK
      <4>2. FetchedRow(cols, fresh, 1) \in [cols -> BufferType]
        <5>1. table \in Seq(Rows) /\ cols \in SUBSET Columns
          BY DEF TypeOK
        <5> HIDE DEF fresh
        <5> QED BY <3>1, <4>1, <5>1, FetchedRowType
      <4> QED BY <1>4, <3>3, <4>2 DEF Execute
    <3> QED BY <3>2, <3>3
  <2>3. call' \in {NoCall} \cup {Call(d[1], d[2], k) : d \in Calls, k \in 1..MaxRows}
    <3>1. 1 \in 1..MaxRows
      BY ValuesAssumption
    <3>2. call' \in {NoCall, Call(c[1], c[2], 1)}
      BY <1>4 DEF Execute
    <3> QED BY <3>1, <3>2, CallTypes
  <2>4. <<>> \in Seq([cols -> Fields])
    OBVIOUS
  <2>5. fault' = fault /\ table' = table
    BY <1>4 DEF Execute
  <2> QED BY <2>1, <2>2, <2>3, <2>4, <2>5 DEF TypeOK, BufferType
<1>5. ASSUME AppendRow
      PROVE  TypeOK'
  <2> DEFINE row == RowOf(buffers)
  <2>1. /\ call # NoCall /\ result.cols \in SUBSET Columns
        /\ buffers \in [result.cols -> BufferType]
    BY <1>5 DEF AppendRow, TypeOK, BufferType
  <2>2. row \in [result.cols -> Fields]
    BY <2>1, RowType
  <2>3. /\ result'.way = "prepared" /\ result'.cols = result.cols
        /\ result'.rows = Append(result.rows, row)
    BY <1>5 DEF AppendRow, Result
  <2>4. result'.rows \in Seq([result.cols -> Fields])
    <3> HIDE DEF row
    <3> QED BY <2>2, <2>3 DEF TypeOK
  <2>5. fault' \in {"none", "overread"} /\ table' = table
    BY <1>5 DEF AppendRow
  <2>6. CASE call' = NoCall
    BY <2>3, <2>4, <2>5, <2>6 DEF TypeOK
  <2>7. CASE call' # NoCall
    <3>1. /\ call.at < Len(table) /\ call' = Call(call.op, call.n, call.at + 1)
          /\ buffers' = FetchedRow(result.cols, buffers, call.at + 1)
      BY <1>5, <2>7 DEF AppendRow
    <3>2. PICK d \in Calls, k \in 1..MaxRows : call = Call(d[1], d[2], k)
      BY <2>1 DEF TypeOK
    <3>3. call.op = d[1] /\ call.n = d[2] /\ call.at = k
      BY <3>2 DEF Call
    <3>4. k + 1 \in 1..MaxRows /\ k + 1 \in 1..Len(table)
      BY <3>1, <3>3, ValuesAssumption DEF TypeOK
    <3>5. buffers' \in [result.cols -> BufferType]
      <4>1. call.at + 1 \in 1..Len(table) /\ table \in Seq(Rows)
        BY <3>3, <3>4 DEF TypeOK
      <4> QED BY <2>1, <3>1, <4>1, FetchedRowType
    <3>6. call' \in {Call(e[1], e[2], j) : e \in Calls, j \in 1..MaxRows}
      BY <3>1, <3>3, <3>4, CallTypes
    <3> QED BY <2>3, <2>4, <2>5, <3>5, <3>6 DEF TypeOK, BufferType
  <2> QED BY <2>6, <2>7
<1>6. ASSUME Release
      PROVE  TypeOK'
  <2>1. result'.way = "none" /\ result'.cols = {} /\ result'.rows = <<>>
    BY <1>6 DEF Release, NoResult, Result
  <2>2. <<>> \in Seq([{} -> Fields])
    OBVIOUS
  <2> QED BY <1>6, <2>1, <2>2 DEF Release, TypeOK
<1>7. ASSUME UNCHANGED vars
      PROVE  TypeOK'
  BY <1>7 DEF vars, TypeOK
<1> QED BY <1>1, <1>2, <1>3, <1>4, <1>5, <1>6, <1>7 DEF Next

-----------------------------------------------------------------------------
(* What a result shows.                                                    *)

\* The field that Row makes of a buffer is the one that FieldsRead tells of.
LEMMA FieldShows ==
  ASSUME table \in Seq(Rows), NEW c \in Columns, NEW b, NEW k \in Nat \ {0},
         IF table = <<>> THEN k = 1 ELSE k <= Len(table),
         Holds(c, b, IF table = <<>> THEN 0 ELSE k)
  PROVE  /\ FieldOf(c, b) = Shows(c, k)
         /\ c \notin Void => FieldOf(c, b) # Null
         /\ FieldOf(c, b) = Stray => c \in Sized /\ k <= Len(table) /\ Cell(c, k) \in Long
<1> DEFINE at == IF table = <<>> THEN 0 ELSE k
<1>1. \A v, n : Buffer(v, n).bytes = v /\ Buffer(v, n).length = n
  BY DEF Buffer
<1>2. Null # Stray /\ Stray \notin Numbers \cup Texts /\ Null \notin Numbers \cup Texts
  BY ValuesAssumption DEF Texts
<1>3. Len(table) \in Nat /\ (table = <<>> <=> Len(table) = 0)
  BY EmptySeq
<1>4. CASE c \in Void
  <2>1. c \notin Sized
    BY <1>4, ValuesAssumption DEF Stored
  <2> QED BY <1>2, <1>4, <2>1 DEF FieldOf, Shows
<1>5. CASE c \in Fixed
  <2>1. c \notin Void /\ c \notin Sized
    BY <1>5, ValuesAssumption DEF Stored
  <2> DEFINE v == Latest(c, at)
  <2>2. b = Buffer(v, Size(v)) /\ v \in Numbers \cup {Empty}
    BY <1>5 DEF Holds
  <2>3. b.bytes = v /\ b.length = Size(v)
    BY <1>1, <2>2
  <2>4. FieldOf(c, b) = v
    <3> HIDE DEF v
    <3>1. v \notin Long /\ v \in Numbers \cup Texts
      BY <2>2, ValuesAssumption DEF Texts
    <3>2. ~(Size(v) > Room) /\ (Size(v) = 0 <=> v = Empty)
      BY <3>1, Sizes
    <3> QED BY <2>1, <2>3, <3>2 DEF FieldOf
  <2>5. Shows(c, k) = v
    <3>1. CASE table = <<>>
      BY <1>3, <1>5, <2>1, <3>1, LatestNone DEF Shows
    <3>2. CASE table # <<>>
      BY <1>3, <1>5, <2>1, <3>2 DEF Shows
    <3> QED BY <3>1, <3>2
  <2>6. v # Stray /\ v # Null
    BY <1>2, <2>2 DEF Texts
  <2> HIDE DEF v
  <2> QED BY <2>4, <2>5, <2>6
<1>6. CASE c \in Sized
  <2>1. c \notin Void /\ c \notin Fixed
    BY <1>6, ValuesAssumption DEF Stored
  <2>2. CASE table = <<>>
    <3>1. b.length = 0
      BY <1>6, <2>2 DEF Holds
    <3> QED BY <1>2, <1>3, <2>1, <2>2, <3>1 DEF FieldOf, Shows, Texts
  <2>3. CASE table # <<>>
    <3>1. k \in 1..Len(table)
      BY <2>3
    <3> DEFINE v == Cell(c, k)
    <3>2. v \in Texts \cup {Null}
      BY <1>6, <3>1, Cells
    <3>3. CASE v = Null
      <4>1. b.length = 0
        BY <1>6, <2>3, <3>3 DEF Holds
      <4> QED BY <1>2, <2>1, <3>1, <3>3, <4>1 DEF FieldOf, Shows, Texts
    <3>4. CASE v # Null
      <4>1. b = Buffer(v, Size(v))
        BY <1>6, <2>3, <3>1, <3>4 DEF Holds
      <4>2. b.bytes = v /\ b.length = Size(v)
        BY <1>1, <4>1
      <4>3. Shows(c, k) = IF v \in Long THEN Stray ELSE v
        BY <2>1, <3>1, <3>4 DEF Shows
      <4> HIDE DEF v
      <4>4. v \in Texts /\ (Size(v) = 0 <=> v = Empty) /\ (Size(v) > Room <=> v \in Long)
        BY <3>2, <3>4, Sizes
      <4>5. v = Empty => v \notin Long
        BY ValuesAssumption
      <4>6. FieldOf(c, b) = IF v \in Long THEN Stray ELSE v
        BY <2>1, <4>2, <4>4, <4>5 DEF FieldOf
      <4>7. v # Stray /\ v # Null
        BY <1>2, <4>4
      <4> QED BY <1>2, <1>6, <3>1, <4>3, <4>6, <4>7 DEF v
    <3> QED BY <3>3, <3>4
  <2> QED BY <2>2, <2>3
<1> QED BY <1>4, <1>5, <1>6 DEF Columns

\* Fetching the next row over a buffer.
LEMMA FetchedHolds ==
  ASSUME table \in Seq(Rows), NEW c \in Columns, NEW b, NEW k \in 0..(Len(table) - 1),
         Holds(c, b, k)
  PROVE  Holds(c, Fetched(c, b, Cell(c, k + 1)), k + 1)
<1>1. k \in Nat /\ k + 1 \in 1..Len(table) /\ k + 1 # 0
  BY LenProperties
<1> DEFINE v == Cell(c, k + 1)
<1>2. c \in Fixed => v \in Numbers \cup {Null}
  BY <1>1, Cells
<1>3. Latest(c, k + 1) = IF v # Null THEN v ELSE Latest(c, k)
  BY <1>1, LatestNext
<1>4. c \in Fixed => c \notin Sized
  BY ValuesAssumption
<1>5. \A w, n : Buffer(w, n).length = n
  BY DEF Buffer
<1> HIDE DEF v
<1>6. CASE v # Null
  <2>1. Fetched(c, b, v) = Buffer(v, Size(v))
    BY <1>6 DEF Fetched
  <2> QED BY <1>1, <1>2, <1>3, <1>6, <2>1 DEF Holds, v
<1>7. CASE v = Null
  <2>1. CASE c \in Sized
    <3>1. Fetched(c, b, v).length = 0
      BY <1>5, <1>7, <2>1 DEF Fetched
    <3> QED BY <1>1, <1>4, <1>7, <2>1, <3>1 DEF Holds, v
  <2>2. CASE c \notin Sized
    <3>1. Fetched(c, b, v) = b
      BY <1>7, <2>2 DEF Fetched
    <3> QED BY <1>3, <1>7, <2>2, <3>1 DEF Holds, v
  <2> QED BY <2>1, <2>2
<1> QED BY <1>6, <1>7

\* What is shown depends on the table alone.
LEMMA SameTable ==
  ASSUME table' = table
  PROVE  /\ \A c, k : Cell(c, k)' = Cell(c, k)
         /\ \A c, k : Latest(c, k)' = Latest(c, k)
         /\ \A c, k : Shows(c, k)' = Shows(c, k)
         /\ \A c, b, k : Holds(c, b, k)' = Holds(c, b, k)
BY DEF Cell, Latest, Shows, Holds

-----------------------------------------------------------------------------
(* The invariant.                                                          *)

LEMMA NothingShown ==
  ASSUME result.rows = <<>>, fault = "none"
  PROVE  FieldsRead /\ FaultCauses /\ NeverNull
BY DEF FieldsRead, FaultCauses, NeverNull

LEMMA InvInit == Init => ValuesInv
<1> SUFFICES ASSUME Init PROVE ValuesInv
  OBVIOUS
<1>1. result.rows = <<>> /\ fault = "none"
  BY DEF Init, NoResult, Result
<1>2. Filled /\ Arrived
  BY DEF Init, Filled, Arrived
<1> QED BY <1>1, <1>2, NothingShown DEF ValuesInv

LEMMA InsertInv ==
  ASSUME TypeOK, ValuesInv, NEW p \in ParamRows, Insert(p)
  PROVE  ValuesInv'
<1>1. result = NoResult /\ result' = NoResult /\ fault' = "none" /\ call' = NoCall
  BY DEF Insert, Idle
<1>2. result'.rows = <<>>
  BY <1>1 DEF NoResult, Result
<1>3. FieldsRead' /\ FaultCauses' /\ NeverNull'
  BY <1>1, <1>2 DEF FieldsRead, FaultCauses, NeverNull
<1>4. Filled'
  BY <1>1 DEF Filled
<1>5. Arrived'
  <2>1. PICK row \in Rows :
          /\ \A c \in Stored : row[c] \in Received(p[c])
          /\ table' = Append(table, row)
    BY DEF Insert
  <2>2. table' # <<>> /\ table'[Len(table')] = row
    BY <2>1 DEF TypeOK
  <2>3. meant'[1] = p /\ \A c \in Stored : Supported(set_param(p[c]))
    BY DEF Insert
  <2> QED BY <2>1, <2>2, <2>3 DEF Arrived
<1> QED BY <1>3, <1>4, <1>5 DEF ValuesInv

LEMMA InsertTextInv ==
  ASSUME TypeOK, ValuesInv, NEW row \in Rows, InsertText(row)
  PROVE  ValuesInv'
<1>1. result' = NoResult /\ fault' = "none" /\ call' = NoCall /\ meant' = <<>>
  BY DEF InsertText, Idle
<1>2. result'.rows = <<>>
  BY <1>1 DEF NoResult, Result
<1> QED BY <1>1, <1>2 DEF ValuesInv, FieldsRead, FaultCauses, NeverNull, Filled, Arrived

LEMMA SameArrived == Arrived /\ table' = table /\ meant' = meant => Arrived'
BY DEF Arrived

LEMMA QueryInv ==
  ASSUME TypeOK, ValuesInv, NEW cols \in (SUBSET Columns) \ {{}}, Query(cols)
  PROVE  ValuesInv'
<1> DEFINE rows == [k \in DOMAIN table |-> [c \in cols |-> Cell(c, k)]]
<1>1. /\ table' = table /\ meant' = meant /\ call' = NoCall
      /\ result' = Result("text", cols, rows)
  BY DEF Query, Idle
<1>2. result'.way = "text" /\ result'.cols = cols /\ result'.rows = rows
  BY <1>1 DEF Result
<1>3. FieldsRead'
  <2>1. \A k \in DOMAIN rows : \A c \in cols : rows[k][c] = Cell(c, k)'
    BY <1>1, SameTable
  <2> HIDE DEF rows
  <2> QED BY <1>2, <2>1 DEF FieldsRead
<1>4. FaultCauses'
  <2>1. cols # {} /\ IsFiniteSet(cols)
    BY ValuesAssumption, FS_Subset
  <2>2. Cardinality(cols) \in Nat /\ Cardinality(cols) # 0
    BY <2>1, FS_CardinalityType, FS_EmptySet
  <2>3. fault' = IF Cardinality(cols) > 1 THEN "none" ELSE "metadata"
    BY DEF Query
  <2> HIDE DEF rows
  <2> QED BY <1>2, <2>2, <2>3 DEF FaultCauses
<1>5. Filled' /\ NeverNull'
  BY <1>1, <1>2 DEF Filled, NeverNull
<1>6. Arrived'
  BY <1>1, SameArrived DEF ValuesInv
<1> QED BY <1>3, <1>4, <1>5, <1>6 DEF ValuesInv

LEMMA ReleaseInv ==
  ASSUME TypeOK, ValuesInv, Release
  PROVE  ValuesInv'
<1>1. /\ result' = NoResult /\ fault' = "none" /\ call' = NoCall
      /\ table' = table /\ meant' = meant
  BY DEF Release
<1>2. result'.rows = <<>>
  BY <1>1 DEF NoResult, Result
<1>3. Arrived'
  BY <1>1, SameArrived DEF ValuesInv
<1> QED BY <1>1, <1>2, <1>3 DEF ValuesInv, FieldsRead, FaultCauses, NeverNull, Filled

LEMMA FilledNext ==
  ASSUME table' = table, result'.way = "prepared", Len(result'.rows) = call'.at - 1,
         IF table = <<>> THEN call'.at = 1 ELSE call'.at <= Len(table),
         \A c \in result'.cols : Holds(c, buffers'[c], IF table = <<>> THEN 0 ELSE call'.at)
  PROVE  Filled'
BY DEF Filled, Holds, Latest, Cell

LEMMA FreshHolds ==
  ASSUME NEW c
  PROVE  Holds(c, Fresh, 0)
<1>1. Fresh = Buffer(Empty, 0) /\ Fresh.length = 0 /\ Size(Empty) = 0
  BY DEF Fresh, Buffer, Size
<1> QED BY <1>1, LatestNone DEF Holds

LEMMA ExecuteInv ==
  ASSUME TypeOK, ValuesInv, NEW cols \in (SUBSET Columns) \ {{}}, NEW d \in Calls,
         Execute(d[1], d[2], cols)
  PROVE  ValuesInv'
<1> DEFINE fresh == [c \in cols |-> Fresh]
<1>1. /\ table' = table /\ meant' = meant /\ fault' = "none"
      /\ call' \in {NoCall, Call(d[1], d[2], 1)}
      /\ buffers' = IF table # <<>> THEN FetchedRow(cols, fresh, 1) ELSE fresh
      /\ result' = Result("prepared", cols, <<>>)
  BY DEF Execute, Idle
<1>2. result'.way = "prepared" /\ result'.cols = cols /\ result'.rows = <<>>
  BY <1>1 DEF Result
<1>3. Arrived'
  BY <1>1, SameArrived DEF ValuesInv
<1>4. ASSUME NEW c \in cols
      PROVE  Holds(c, buffers'[c], IF table = <<>> THEN 0 ELSE 1)
  <2>1. Holds(c, Fresh, 0)
    BY FreshHolds
  <2>2. CASE table = <<>>
    BY <1>1, <2>1, <2>2
  <2>3. CASE table # <<>>
    <3>1. 0 \in 0..(Len(table) - 1) /\ table \in Seq(Rows)
      BY <2>3, EmptySeq DEF TypeOK
    <3>2. Holds(c, Fetched(c, Fresh, Cell(c, 0 + 1)), 0 + 1)
      BY <2>1, <3>1, FetchedHolds
    <3>3. buffers'[c] = Fetched(c, Fresh, Cell(c, 1))
      BY <1>1, <2>3 DEF FetchedRow
    <3> QED BY <2>3, <3>2, <3>3
  <2> QED BY <2>2, <2>3
<1>5. Filled'
  <2>1. CASE call' = NoCall
    BY <2>1 DEF Filled
  <2>2. CASE call' # NoCall
    <3>1. call'.at = 1
      BY <1>1, <2>2 DEF Call
    <3>2. table # <<>> => 1 <= Len(table)
      BY EmptySeq DEF TypeOK
    <3>3. Len(result'.rows) = call'.at - 1
      BY <1>2, <3>1
    <3> QED BY <1>1, <1>2, <1>4, <3>1, <3>2, <3>3, FilledNext
  <2> QED BY <2>1, <2>2
<1> QED BY <1>1, <1>2, <1>3, <1>5 DEF ValuesInv, FieldsRead, FaultCauses, NeverNull

LEMMA AppendInv ==
  ASSUME TypeOK, ValuesInv, AppendRow
  PROVE  ValuesInv'
<1> DEFINE row == RowOf(buffers)
           at == call.at
           cols == result.cols
<1>1. /\ table' = table /\ meant' = meant /\ call # NoCall /\ fault = "none"
      /\ result' = Result("prepared", cols, Append(result.rows, row))
      /\ fault' = IF \E c \in DOMAIN row : row[c] = Stray THEN "overread" ELSE "none"
  BY DEF AppendRow
<1>2. /\ result'.way = "prepared" /\ result'.cols = cols
      /\ result'.rows = Append(result.rows, row)
  BY <1>1 DEF Result
<1>3. /\ result.way = "prepared" /\ Len(result.rows) = at - 1
      /\ IF table = <<>> THEN at = 1 ELSE at <= Len(table)
      /\ \A c \in cols : Holds(c, buffers[c], IF table = <<>> THEN 0 ELSE at)
  BY <1>1 DEF ValuesInv, Filled
<1>4. /\ at \in Nat \ {0} /\ cols \in SUBSET Columns /\ buffers \in [cols -> BufferType]
      /\ table \in Seq(Rows) /\ result.rows \in Seq([cols -> Fields])
  <2>1. PICK d \in Calls, k \in 1..MaxRows : call = Call(d[1], d[2], k)
    BY <1>1 DEF TypeOK
  <2>2. at = k
    BY <2>1 DEF Call
  <2> QED BY <1>1, <2>1, <2>2, ValuesAssumption DEF TypeOK, BufferType
<1>5. ASSUME NEW c \in cols
      PROVE  /\ row[c] = Shows(c, at)
             /\ c \notin Void => row[c] # Null
             /\ row[c] = Stray => c \in Sized /\ at <= Len(table) /\ Cell(c, at) \in Long
  <2>1. row[c] = FieldOf(c, buffers[c])
    BY <1>4 DEF RowOf
  <2>2. Holds(c, buffers[c], IF table = <<>> THEN 0 ELSE at) /\ c \in Columns
    BY <1>3, <1>4
  <2> QED BY <1>3, <1>4, <2>1, <2>2, FieldShows
<1>6. DOMAIN row = cols /\ row \in [cols -> Fields]
  <2>1. row \in [cols -> Fields]
    BY <1>4, RowType
  <2> QED BY <2>1
<1> HIDE DEF row, at, cols
<1>7. /\ Len(result'.rows) = at /\ DOMAIN result'.rows = 1..at
      /\ \A k \in 1..(at - 1) : result'.rows[k] = result.rows[k]
      /\ DOMAIN result.rows = 1..(at - 1)
      /\ result'.rows[at] = row
  BY <1>2, <1>3, <1>4, <1>6
<1>8. FieldsRead'
  <2> SUFFICES ASSUME NEW k \in 1..at, NEW c \in cols
               PROVE  result'.rows[k][c] = Shows(c, k)'
    BY <1>2, <1>7 DEF FieldsRead
  <2>1. Shows(c, k)' = Shows(c, k)
    BY <1>1, SameTable
  <2>2. CASE k = at
    BY <1>5, <1>7, <2>1, <2>2
  <2>3. CASE k # at
    <3>1. k \in 1..(at - 1)
      BY <1>4, <2>3
    <3>2. result.rows[k][c] = Shows(c, k)
      BY <1>3, <1>7, <3>1 DEF ValuesInv, FieldsRead, cols
    <3> QED BY <1>7, <2>1, <3>1, <3>2
  <2> QED BY <2>2, <2>3
<1>9. FaultCauses'
  <2> SUFFICES ASSUME fault' = "overread"
               PROVE  /\ result'.way = "prepared" /\ result'.rows # <<>>
                      /\ \E c \in result'.cols \cap Sized : table'[Len(result'.rows)][c] \in Long
    BY <1>1 DEF FaultCauses
  <2>1. PICK c \in cols : row[c] = Stray
    BY <1>1, <1>6
  <2>2. c \in Sized /\ Cell(c, at) \in Long
    BY <1>5, <2>1
  <2>3. Cell(c, at) = table[at][c]
    BY <2>2, ValuesAssumption DEF Cell, Stored
  <2>4. result'.rows # <<>>
    BY <1>4, <1>7
  <2> QED BY <1>1, <1>2, <1>7, <2>2, <2>3, <2>4
<1>10. NeverNull'
  <2> SUFFICES ASSUME NEW k \in 1..at, NEW c \in cols \ Void
               PROVE  result'.rows[k][c] # Null
    BY <1>2, <1>7 DEF NeverNull
  <2>1. CASE k = at
    BY <1>5, <1>7, <2>1
  <2>2. CASE k # at
    <3>1. k \in 1..(at - 1)
      BY <1>4, <2>2
    <3> QED BY <1>3, <1>7, <3>1 DEF ValuesInv, NeverNull, cols
  <2> QED BY <2>1, <2>2
<1>11. Arrived'
  BY <1>1, SameArrived DEF ValuesInv
<1>12. Filled'
  <2>1. CASE call' = NoCall
    BY <2>1 DEF Filled
  <2>2. CASE call' # NoCall
    <3>1. /\ at < Len(table) /\ call' = Call(call.op, call.n, at + 1)
          /\ buffers' = FetchedRow(cols, buffers, at + 1)
      BY <2>2 DEF AppendRow, at, cols
    <3>2. call'.at = at + 1
      BY <3>1 DEF Call
    <3>3. table # <<>> /\ at \in 0..(Len(table) - 1)
      BY <1>4, <3>1, LenProperties
    <3>4. ASSUME NEW c \in cols
          PROVE  Holds(c, buffers'[c], at + 1)
      <4>1. Holds(c, buffers[c], at) /\ c \in Columns
        BY <1>3, <1>4, <3>3
      <4>2. Holds(c, Fetched(c, buffers[c], Cell(c, at + 1)), at + 1)
        BY <1>4, <3>3, <4>1, FetchedHolds
      <4>3. buffers'[c] = Fetched(c, buffers[c], Cell(c, at + 1))
        BY <3>1 DEF FetchedRow
      <4> QED BY <4>2, <4>3
    <3>5. Len(result'.rows) = call'.at - 1 /\ call'.at <= Len(table)
      BY <1>4, <1>7, <3>1, <3>2, LenProperties
    <3> QED BY <1>1, <1>2, <3>2, <3>3, <3>4, <3>5, FilledNext
  <2> QED BY <2>1, <2>2
<1> QED BY <1>8, <1>9, <1>10, <1>11, <1>12 DEF ValuesInv

LEMMA InvStep ==
  ASSUME TypeOK, ValuesInv, [Next]_vars
  PROVE  ValuesInv'
<1>1. ASSUME UNCHANGED vars
      PROVE  ValuesInv'
  <2>1. /\ table' = table /\ meant' = meant /\ call' = call
        /\ buffers' = buffers /\ result' = result /\ fault' = fault
    BY <1>1 DEF vars
  <2>2. FieldsRead'
    BY <2>1, SameTable DEF ValuesInv, FieldsRead
  <2>3. FaultCauses' /\ NeverNull'
    BY <2>1 DEF ValuesInv, FaultCauses, NeverNull
  <2>4. Filled'
    <3>1. CASE call = NoCall
      BY <2>1, <3>1 DEF Filled
    <3>2. CASE call # NoCall
      BY <2>1, <3>2, FilledNext DEF ValuesInv, Filled
    <3> QED BY <3>1, <3>2
  <2>5. Arrived'
    BY <2>1, SameArrived DEF ValuesInv
  <2> QED BY <2>2, <2>3, <2>4, <2>5 DEF ValuesInv
<1>2. ASSUME Next
      PROVE  ValuesInv'
  BY <1>2, InsertInv, InsertTextInv, QueryInv, ExecuteInv, AppendInv, ReleaseInv DEF Next
<1> QED BY <1>1, <1>2

LEMMA SpecInv == Spec => [](TypeOK /\ ValuesInv)
<1>1. Init => TypeOK /\ ValuesInv
  BY TypeInit, InvInit
<1>2. (TypeOK /\ ValuesInv) /\ [Next]_vars => (TypeOK /\ ValuesInv)'
  BY TypeStep, InvStep
<1> QED BY <1>1, <1>2, PTL DEF Spec

\* Every variable keeps its type, and every row of a result has the columns of its
\* query, for any table, columns and values.
THEOREM ValueTypes == Spec => []TypeOK
BY SpecInv, PTL

\* The rows of a result are those of the table, in their order; what a prepared query
\* shows in place of a NULL or of a long text is what Shows says, and nothing else.
THEOREM ResultsRead == Spec => []FieldsRead
<1>1. ValuesInv => FieldsRead
  BY DEF ValuesInv
<1> QED BY <1>1, SpecInv, PTL

\* Foreign memory is read for the metadata of a single column and behind a buffer that
\* a long text has overflown, and nowhere else.
THEOREM FaultsOnlyThere == Spec => []FaultCauses
<1>1. ValuesInv => FaultCauses
  BY DEF ValuesInv
<1> QED BY <1>1, SpecInv, PTL

-----------------------------------------------------------------------------
(* Round trips.                                                            *)

\* What a number and a text given as parameters arrive as.
NumberArrives(p, v) ==
  /\ p.type \in {"null", "bool", "signed", "unsigned"}
  /\ p.type = "null" => p.value = Null /\ v = Null
  /\ p.type # "null" => p.value \in Int /\ v \in Numbers
  /\ p.type = "bool" => (v = p.value <=> p.value = 0)
  /\ p.type = "signed" => v = p.value
  /\ p.type = "unsigned" => (v = p.value <=> p.value < Half)
TextArrives(p, v) ==
  /\ p.type \in {"null", "char", "text", "blob"}
  /\ p.type = "null" => p.value = Null /\ v = Null
  /\ p.type = "char" => p.value \in Short /\ v = Empty
  /\ p.type = "text" => p.value \in Texts /\ v = p.value
  /\ p.type = "blob" => p.value \in Texts /\ v = IF p.value = Empty THEN Null ELSE p.value

LEMMA ParamFields == \A t, v : Param(t, v).type = t /\ Param(t, v).value = v
BY DEF Param

LEMMA BindFields ==
  \A t, n, b : Bind(t, n, b).type = t /\ Bind(t, n, b).length = n /\ Bind(t, n, b).buffer = b
BY DEF Bind

LEMMA NumberArrival ==
  ASSUME NEW p \in NumberParams, NEW v \in Received(p)
  PROVE  NumberArrives(p, v)
<1>1. CASE p = Param("null", Null)
  <2>1. p.type = "null" /\ p.value = Null
    BY <1>1, ParamFields
  <2>2. set_param(p) = Bind("NULL", 0, "none")
    BY <2>1 DEF set_param
  <2>3. v = Null
    BY <2>2, BindFields DEF Received
  <2> QED BY <2>1, <2>3 DEF NumberArrives
<1>2. ASSUME NEW b \in {0, 1}, p = Param("bool", b)
      PROVE  NumberArrives(p, v)
  <2>1. p.type = "bool" /\ p.value = b
    BY <1>2, ParamFields
  <2>2. set_param(p) = Bind("DECIMAL", 1, "own")
    BY <2>1 DEF set_param
  <2>3. v = 0
    BY <2>2, BindFields DEF Received
  <2> QED BY <2>1, <2>3, ValuesAssumption DEF NumberArrives
<1>3. ASSUME NEW n \in (-Half)..(Half - 1), p = Param("signed", n)
      PROVE  NumberArrives(p, v)
  <2>1. p.type = "signed" /\ p.value = n
    BY <1>3, ParamFields
  <2>2. set_param(p) = Bind("TINY", 1, "own")
    BY <2>1 DEF set_param
  <2>3. v = Signed(n)
    BY <2>1, <2>2, BindFields DEF Received
  <2>4. v = n /\ n \in Int /\ n \in Numbers
    BY <2>3, ValuesAssumption DEF Signed
  <2> QED BY <2>1, <2>4 DEF NumberArrives
<1>4. ASSUME NEW n \in 0..(2 * Half - 1), p = Param("unsigned", n)
      PROVE  NumberArrives(p, v)
  <2>1. p.type = "unsigned" /\ p.value = n
    BY <1>4, ParamFields
  <2>2. set_param(p) = Bind("TINY", 1, "own")
    BY <2>1 DEF set_param
  <2>3. v = Signed(n)
    BY <2>1, <2>2, BindFields DEF Received
  <2>4. n \in Int /\ v \in (-Half)..(Half - 1) /\ (v = n <=> n < Half)
    BY <2>3, ValuesAssumption DEF Signed
  <2> QED BY <2>1, <2>4, ValuesAssumption DEF NumberArrives
<1> QED BY <1>1, <1>2, <1>3, <1>4 DEF NumberParams

LEMMA TextArrival ==
  ASSUME NEW p \in TextParams, Supported(set_param(p)), p.type # "dyncol", NEW v \in Received(p)
  PROVE  TextArrives(p, v)
<1>1. CASE p = Param("null", Null)
  <2>1. p.type = "null" /\ p.value = Null
    BY <1>1, ParamFields
  <2>2. set_param(p) = Bind("NULL", 0, "none")
    BY <2>1 DEF set_param
  <2>3. v = Null
    BY <2>2, BindFields DEF Received
  <2> QED BY <2>1, <2>3 DEF TextArrives
<1>2. ASSUME NEW w \in Short, p = Param("char", w)
      PROVE  TextArrives(p, v)
  <2>1. p.type = "char" /\ p.value = w
    BY <1>2, ParamFields
  <2>2. set_param(p) = Bind("STRING", 0, "own")
    BY <2>1 DEF set_param
  <2>3. v = Empty
    BY <2>2, BindFields DEF Received
  <2> QED BY <2>1, <2>3 DEF TextArrives
<1>3. ASSUME NEW t \in {"text", "CHAR", "blob", "dyncol"}, NEW w \in Texts, p = Param(t, w)
      PROVE  TextArrives(p, v)
  <2>1. p.type = t /\ p.value = w
    BY <1>3, ParamFields
  <2>2. Size(w) = 0 <=> w = Empty
    BY Sizes
  <2>3. CASE t = "text"
    <3>1. set_param(p) = Bind("STRING", Size(w), "own")
      BY <2>1, <2>3 DEF set_param
    <3>2. v = w
      BY <2>1, <2>2, <3>1, BindFields DEF Received
    <3> QED BY <2>1, <2>3, <3>2 DEF TextArrives
  <2>4. CASE t = "CHAR"
    <3>1. set_param(p) = Bind("VARCHAR", Size(w), "own")
      BY <2>1, <2>4 DEF set_param
    <3> QED BY <3>1, BindFields DEF Supported
  <2>5. CASE t = "blob"
    <3>1. set_param(p) = Bind("BLOB", Size(w), IF w = Empty THEN "none" ELSE "own")
      BY <2>1, <2>5 DEF set_param, Bytes
    <3>2. v = IF w = Empty THEN Null ELSE w
      BY <2>1, <2>2, <3>1, BindFields DEF Received
    <3> QED BY <2>1, <2>5, <3>2 DEF TextArrives
  <2> QED BY <1>3, <2>1, <2>3, <2>4, <2>5
<1> QED BY <1>1, <1>2, <1>3 DEF TextParams

\* What comes back of them, from a query in text and from a prepared one.
LEMMA ComesBack ==
  ASSUME TypeOK, ValuesInv, NEW c \in Stored, meant # <<>>, meant[1][c].type # "dyncol"
  PROVE  LET p == meant[1][c]
         IN  /\ Cell(c, Len(table)) = p.value <=> Faithful(p)
             /\ Shows(c, Len(table)) \in Texts \cup Numbers \cup {Stray} =>
                  (Shows(c, Len(table)) = p.value <=>
                     p.value \notin {Null} \cup Long /\ (Faithful(p) \/ p.value = Empty))
<1> DEFINE p == meant[1][c]
           n == Len(table)
           v == table[n][c]
           f == Shows(c, n)
<1>1. /\ table # <<>> /\ meant[1] \in ParamRows
      /\ Supported(set_param(p)) /\ v \in Received(p)
  BY DEF ValuesInv, Arrived
<1>2. table \in Seq(Rows) /\ n \in Nat \ {0} /\ n \in 1..n
  BY <1>1, EmptySeq, LenProperties DEF TypeOK
<1>3. c \notin Void /\ Cell(c, n) = v
  BY ValuesAssumption DEF Cell, Stored
<1>4. \A w \in Texts \cup {Null, Stray} : w \notin Int
  BY ValuesAssumption
<1>5. Stray \notin Texts /\ Null \notin Texts /\ Long \subseteq Texts /\ Empty \notin Long
      /\ Short \subseteq Texts /\ Empty \notin Short /\ Empty \in Texts /\ Null # Stray
      /\ Short \cap Long = {} /\ Numbers \subseteq Int
  BY ValuesAssumption DEF Texts
<1>6. CASE c \in Fixed
  <2>1. p \in NumberParams
    BY <1>1, <1>6 DEF ParamRows
  <2>2. NumberArrives(p, v)
    BY <1>1, <2>1, NumberArrival
  <2>3. f = Latest(c, n)
    BY <1>2, <1>3, <1>6 DEF Shows
  <2>4. n - 1 \in Nat /\ (n - 1) + 1 = n
    BY <1>2
  <2>5. v # Null => f = v
    <3>1. Latest(c, (n - 1) + 1) = IF Cell(c, (n - 1) + 1) # Null THEN Cell(c, (n - 1) + 1)
                                   ELSE Latest(c, n - 1)
      BY <2>4, LatestNext
    <3> QED BY <1>3, <2>3, <2>4, <3>1
  <2> HIDE DEF p, n, v, f
  <2>6. CASE p.type = "null"
    BY <1>3, <1>4, <1>5, <2>2, <2>6 DEF NumberArrives, Faithful, p, n, v, f
  <2>7. CASE p.type # "null"
    <3>1. p.value \in Int /\ v \in Numbers /\ v # Null /\ f = v
      BY <1>4, <1>5, <2>2, <2>5, <2>7 DEF NumberArrives
    <3>2. p.value \notin {Null} \cup Long /\ p.value # Empty
      BY <1>4, <1>5, <3>1
    <3>3. v = p.value <=> Faithful(p)
      BY <2>2, <2>7 DEF NumberArrives, Faithful
    <3> QED BY <1>3, <3>1, <3>2, <3>3 DEF p, n, v, f
  <2> QED BY <2>6, <2>7
<1>7. CASE c \in Sized
  <2>1. p \in TextParams
    BY <1>1, <1>7 DEF ParamRows
  <2>2. TextArrives(p, v)
    BY <1>1, <2>1, TextArrival
  <2>3. c \notin Fixed
    BY <1>7, ValuesAssumption
  <2>4. f = IF v = Null THEN Empty ELSE IF v \in Long THEN Stray ELSE v
    BY <1>2, <1>3, <2>3 DEF Shows
  <2> HIDE DEF p, n, v, f
  <2>5. v = p.value <=> Faithful(p)
    BY <1>5, <2>2 DEF TextArrives, Faithful
  <2>6. f = p.value <=> p.value \notin {Null} \cup Long /\ (Faithful(p) \/ p.value = Empty)
    <3>1. CASE p.type = "null"
      BY <1>5, <2>2, <2>4, <3>1 DEF TextArrives
    <3>2. CASE p.type = "char"
      BY <1>5, <2>2, <2>4, <3>2 DEF TextArrives, Faithful
    <3>3. CASE p.type = "text"
      BY <1>5, <2>2, <2>4, <3>3 DEF TextArrives, Faithful
    <3>4. CASE p.type = "blob"
      BY <1>5, <2>2, <2>4, <3>4 DEF TextArrives, Faithful
    <3> QED BY <2>2, <3>1, <3>2, <3>3, <3>4 DEF TextArrives
  <2> QED BY <1>3, <2>5, <2>6 DEF p, n, v, f
<1> QED BY <1>6, <1>7 DEF Stored

LEMMA RoundTrips == TypeOK /\ ValuesInv => RoundTrip
<1> SUFFICES ASSUME TypeOK, ValuesInv, NEW k \in DOMAIN result.rows,
                    NEW c \in result.cols \cap Stored,
                    meant # <<>>, k = Len(table), meant[1][c].type # "dyncol"
             PROVE  LET p == meant[1][c]
                    IN  result.rows[k][c] = p.value <=>
                          IF result.way = "text" THEN Faithful(p)
                          ELSE p.value \notin {Null} \cup Long /\ (Faithful(p) \/ p.value = Empty)
  BY DEF RoundTrip
<1>1. result.rows[k][c] = IF result.way = "text" THEN Cell(c, k) ELSE Shows(c, k)
  BY DEF ValuesInv, FieldsRead
<1>2. result.rows[k][c] \in Fields
  <2>1. result.rows[k] \in [result.cols -> Fields]
    BY ElementOfSeq DEF TypeOK
  <2> QED BY <2>1
<1>3. CASE result.way = "text"
  BY <1>1, <1>3, ComesBack
<1>4. CASE result.way # "text"
  <2>1. result.way = "prepared" /\ c \notin Void
    <3>1. result.way = "prepared"
      BY <1>4 DEF TypeOK
    <3> QED BY <3>1, ValuesAssumption
  <2>2. result.rows[k][c] # Null
    BY <2>1 DEF ValuesInv, NeverNull
  <2>3. Shows(c, Len(table)) \in Texts \cup Numbers \cup {Stray}
    BY <1>1, <1>2, <1>4, <2>2 DEF Fields
  <2> QED BY <1>1, <1>4, <2>3, ComesBack
<1> QED BY <1>3, <1>4

\* A value that was given as a parameter is shown again as it was exactly where
\* RoundTrip says, for any width of the numbers and any texts.
THEOREM ValuesReturn == Spec => []RoundTrip
BY SpecInv, RoundTrips, PTL

-----------------------------------------------------------------------------
(* Conversions.                                                            *)

\* A cast to a type of 2 * half values keeps the numbers that it has, and no others.
LEMMA WrapKeeps ==
  ASSUME NEW half \in Nat \ {0}, NEW v \in Int
  PROVE  Wrap(v, half) \in Int /\ (Wrap(v, half) = v <=> v \in (-half)..(half - 1))
<1> DEFINE m == 2 * half
<1>1. m \in Nat \ {0} /\ v + half \in Int
  OBVIOUS
<1> HIDE DEF m
<1>2. (v + half) % m \in 0..(m - 1)
  BY <1>1
<1>3. v + half \in 0..(m - 1) => (v + half) % m = v + half
  BY <1>1
<1> QED BY <1>2, <1>3 DEF Wrap, m

\* What a field can be made of, of which nothing is NULL.
LEMMA Conversions ==
  ASSUME NEW v
  PROVE  /\ v = Null => Optional("int", v) = Null
         /\ v # Null => Optional("int", v) # Null
         /\ v = 0 => Optional("int", v) = 0 /\ Optional("bool", v) = 1
         /\ v \in Int /\ v \in Numbers /\ v \in (-HalfInt)..(HalfInt - 1) =>
              /\ Optional("int", v) = v
              /\ Optional("short", v) = v <=> v \in (-HalfShort)..(HalfShort - 1)
<1>1. /\ Null \notin Int /\ Empty \notin Int /\ Thrown # Null /\ 0 \in Numbers
      /\ HalfInt \in Nat \ {0} /\ HalfShort \in Nat \ {0}
  BY ValuesAssumption DEF Texts
<1>2. 0 \in (-HalfInt)..(HalfInt - 1)
  BY <1>1
<1>3. ASSUME v # Null PROVE Optional("int", v) # Null
  <2>1. Optional("int", v) \in {Thrown, v}
    BY <1>3 DEF Optional, As
  <2> QED BY <1>1, <1>3, <2>1
<1>4. ASSUME v = 0 PROVE Optional("int", v) = 0 /\ Optional("bool", v) = 1
  BY <1>1, <1>2, <1>4 DEF Optional, As
<1>5. ASSUME v \in Int, v \in Numbers, v \in (-HalfInt)..(HalfInt - 1)
      PROVE  /\ Optional("int", v) = v
             /\ Optional("short", v) = v <=> v \in (-HalfShort)..(HalfShort - 1)
  <2>1. Optional("int", v) = v /\ Optional("short", v) = Wrap(v, HalfShort)
    BY <1>1, <1>5 DEF Optional, As
  <2> QED BY <1>1, <1>5, <2>1, WrapKeeps
<1> QED BY <1>3, <1>4, <1>5 DEF Optional

\* The field of a number that was given as a parameter is that number, or nothing.
LEMMA NumberComesBack ==
  ASSUME TypeOK, ValuesInv, NEW k \in DOMAIN result.rows, NEW c \in result.cols \cap Fixed,
         meant # <<>>, k = Len(table)
  PROVE  LET p == meant[1][c]
             f == result.rows[k][c]
         IN  /\ p.type = "bool" => f = 0
             /\ p.type = "signed" => f = p.value /\ f \in Numbers
             /\ p.type = "null" => (f = Null <=> result.way = "text")
<1> DEFINE p == meant[1][c]
           v == table[k][c]
           f == result.rows[k][c]
<1>1. /\ table # <<>> /\ meant[1] \in ParamRows /\ v \in Received(p)
  BY DEF ValuesInv, Arrived, Stored
<1>2. p \in NumberParams
  BY <1>1 DEF ParamRows
<1>3. NumberArrives(p, v)
  BY <1>1, <1>2, NumberArrival
<1>4. k \in Nat \ {0} /\ k - 1 \in Nat /\ (k - 1) + 1 = k
  BY <1>1, EmptySeq, LenProperties DEF TypeOK
<1>5. c \notin Void /\ Cell(c, k) = v
  BY ValuesAssumption DEF Cell, Stored
<1>6. v # Null => Shows(c, k) = v
  <2>1. Latest(c, (k - 1) + 1) = IF Cell(c, (k - 1) + 1) # Null THEN Cell(c, (k - 1) + 1)
                                 ELSE Latest(c, k - 1)
    BY <1>4, LatestNext
  <2> QED BY <1>4, <1>5, <2>1 DEF Shows
<1>7. f = IF result.way = "text" THEN v ELSE Shows(c, k)
  BY <1>5 DEF ValuesInv, FieldsRead
<1>8. result.way # "text" => f # Null
  BY <1>5 DEF ValuesInv, NeverNull, TypeOK
<1>9. Null \notin Numbers /\ p.type # "null" => v \in Numbers
  BY <1>3 DEF NumberArrives
<1>10. Null \notin Numbers
  BY ValuesAssumption
<1>11. p.type = "bool" => v = 0
  <2>1. p.type = "bool" => set_param(p) = Bind("DECIMAL", 1, "own")
    BY DEF set_param
  <2> QED BY <1>1, <2>1, BindFields DEF Received
<1> QED BY <1>3, <1>6, <1>7, <1>8, <1>9, <1>10, <1>11 DEF NumberArrives

\* A member of as_tuple that is made from a number given as a parameter has its value
\* exactly where Converted says, for any widths of the types.
THEOREM ConversionsKnown == Spec => []Converted
<1>1. TypeOK /\ ValuesInv => Converted
  <2> SUFFICES ASSUME TypeOK, ValuesInv, NEW k \in DOMAIN result.rows,
                      NEW c \in result.cols \cap Fixed, meant # <<>>, k = Len(table)
               PROVE  LET p == meant[1][c]
                          f == result.rows[k][c]
                      IN  /\ p.type = "bool" => Optional("bool", f) = 1 /\ Optional("int", f) = 0
                          /\ p.type = "signed" /\ p.value \in (-HalfInt)..(HalfInt - 1) =>
                               /\ Optional("int", f) = p.value
                               /\ Optional("short", f) = p.value <=>
                                    p.value \in (-HalfShort)..(HalfShort - 1)
                          /\ p.type = "null" => (Optional("int", f) = Null <=> result.way = "text")
    BY DEF Converted
  <2>1. Numbers \subseteq Int
    BY ValuesAssumption
  <2> QED BY <2>1, NumberComesBack, Conversions
<1> QED BY <1>1, SpecInv, PTL
=============================================================================
