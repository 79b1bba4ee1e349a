------------------------------- MODULE Values -------------------------------
(***************************************************************************)
(* Values on their way into a table, as parameters of a prepared INSERT,    *)
(* and out of it, as the fields of a result: set_param and the connector's  *)
(* execute packet, the result buffers of init_rbstructs with the rows that  *)
(* are fetched into them, Row and Field, and the conversions of a field.    *)
(* The connection is not lost here (see Session).                          *)
(***************************************************************************)
EXTENDS Integers, Sequences, FiniteSets, FiniteSetsExt

CONSTANTS
  Fixed, Sized,   \* columns of numbers, and of strings and blobs
  Void,           \* columns of type NULL, which a query can have and a table not
  Numbers,        \* the numbers that a table may hold
  Short, Long,    \* texts that fit a result buffer, and that do not
  Empty,          \* the text of no bytes
  Null, Stray,    \* NULL; what lies behind a buffer
  Thrown,         \* an exception in place of a value
  Half,           \* a parameter's type has 2 * Half values
  HalfShort, HalfInt,  \* and so have short and int
  MaxRows         \* a bound: rows of the table

Columns == Fixed \cup Sized \cup Void
Stored == Fixed \cup Sized
Texts == Short \cup Long \cup {Empty}

ASSUME ValuesAssumption ==
  /\ Fixed \cap Sized = {} /\ Stored \cap Void = {} /\ IsFiniteSet(Columns)
  /\ Numbers \subseteq Int /\ 0 \in Numbers
  /\ Short \cap Long = {} /\ Empty \notin Short \cup Long
  /\ \A v \in Texts \cup {Null, Stray} : v \notin Int
  /\ {Null, Stray} \cap Texts = {} /\ Null # Stray /\ Null # Thrown
  /\ {Half, HalfShort, HalfInt, MaxRows} \subseteq Nat \ {0}
  /\ (-Half)..(Half - 1) \subseteq Numbers

\* The rows that fit the columns of the table.
Rows ==
  {row \in [Stored -> Numbers \cup Texts \cup {Null}] :
     /\ \A c \in Fixed : row[c] \in Numbers \cup {Null}
     /\ \A c \in Sized : row[c] \in Texts \cup {Null}}

VARIABLES
  table,    \* the rows the server holds, in the order of a query
  meant,    \* ghost: the parameters the last row was made from, if it was
  call,     \* the running query of a prepared statement
  buffers,  \* its result buffers
  result,   \* the rows it has appended, or those of the last query
  fault     \* memory that is not the caller's has been read

vars == <<table, meant, call, buffers, result, fault>>

-----------------------------------------------------------------------------
(* Parameters.                                                             *)

Param(type, value) == [type |-> type, value |-> value]

\* CHAR is sql_string_types::CHAR, "text" is VARCHAR and TEXT; "char" is a char or
\* u_char in an sqlstringT.
NumberParams ==
  {Param("null", Null)} \cup {Param("bool", b) : b \in {0, 1}}
    \cup {Param("signed", v) : v \in (-Half)..(Half - 1)}
    \cup {Param("unsigned", v) : v \in 0..(2 * Half - 1)}
TextParams ==
  {Param("null", Null)} \cup {Param("char", v) : v \in Short}
    \cup {Param(t, v) : t \in {"text", "CHAR", "blob", "dyncol"}, v \in Texts}
ParamRows ==
  {p \in [Stored -> NumberParams \cup TextParams] :
     /\ \A c \in Fixed : p[c] \in NumberParams
     /\ \A c \in Sized : p[c] \in TextParams}

\* Bytes of a text; max(max_length + 1, 64), where max_length is always 0.
Size(v) == IF v = Empty THEN 0 ELSE IF v \in Long THEN 65 ELSE 20
RoomBare == 1   \* a mutant: no minimum
Room == 64

\* A MYSQL_BIND: the buffer is that of the parameter, one that has been freed, or
\* none.  The vector of a DynamicColumn is a local of set_param.
Bind(type, length, buffer) == [type |-> type, length |-> length, buffer |-> buffer]
Bytes(v, buffer) == Bind("BLOB", Size(v), IF v = Empty THEN "none" ELSE buffer)

\* A mutant: every integral type is left to the branch of bool.
set_paramUntyped(p) ==
  IF p.type \in {"bool", "signed", "unsigned"} THEN Bind("DECIMAL", 1, "own")
  ELSE IF p.type = "null" THEN Bind("NULL", 0, "none")
  ELSE Bind("STRING", Size(p.value), "own")

set_param(p) ==
  CASE p.type = "null" -> Bind("NULL", 0, "none")
    [] p.type = "bool" -> Bind("DECIMAL", 1, "own")
    [] p.type \in {"signed", "unsigned"} -> Bind("TINY", 1, "own")
    [] p.type = "text" -> Bind("STRING", Size(p.value), "own")
    [] p.type = "CHAR" -> Bind("VARCHAR", Size(p.value), "own")
    [] p.type = "char" -> Bind("STRING", 0, "own")
    [] p.type = "blob" -> Bytes(p.value, "own")
    [] p.type = "dyncol" -> Bytes(p.value, "freed")

Supported(b) == b.type # "VARCHAR"

\* is_unsigned is never set.
Signed(v) == IF v >= Half THEN v - 2 * Half ELSE v

\* What arrives: the byte of a bool is no decimal, and freed memory may hold
\* anything.
Received(p) ==
  LET b == set_param(p)
  IN  CASE b.type = "NULL" \/ b.buffer = "none" -> {Null}
        [] b.type = "TINY" -> {Signed(p.value)}
        [] b.type = "DECIMAL" -> {0}
        [] OTHER -> IF b.buffer = "freed" THEN {t \in Texts : Size(t) = b.length}
                    ELSE IF b.length = 0 THEN {Empty} ELSE {p.value}

-----------------------------------------------------------------------------
(* Results.                                                                *)

\* A result buffer: the bytes last written to it, and *length.
Buffer(bytes, length) == [bytes |-> bytes, length |-> length]
Fresh == Buffer(Empty, 0)

Cell(c, k) == IF c \in Void THEN Null ELSE table[k][c]

\* A mutant: the length is left as it is.
FetchedKept(c, b, v) == IF v # Null THEN Buffer(v, Size(v)) ELSE b

\* mthd_stmt_fetch_to_bind: NULL is told by *is_null, and by the length where the
\* type has none of its own.
Fetched(c, b, v) ==
  IF v # Null THEN Buffer(v, Size(v))
  ELSE IF c \in Sized THEN Buffer(b.bytes, 0) ELSE b

FetchedRow(cols, bufs, k) == [c \in cols |-> Fetched(c, bufs[c], Cell(c, k))]

\* Row's constructor looks at buffer and length only; a column of type NULL has
\* no buffer.
FieldOf(c, b) ==
  IF c \in Void THEN Null
  ELSE IF b.length = 0 THEN Empty
  ELSE IF b.length > Room THEN Stray ELSE b.bytes

RowOfSome(bufs) == [c \in DOMAIN bufs \ Void |-> FieldOf(c, bufs[c])]  \* a mutant
RowOf(bufs) == [c \in DOMAIN bufs |-> FieldOf(c, bufs[c])]

Call(op, n, at) == [op |-> op, n |-> n, at |-> at]
NoCall == Call("none", 0, 0)
Result(way, cols, rows) == [way |-> way, cols |-> cols, rows |-> rows]
NoResult == Result("none", {}, <<>>)

\* A mutant: the bool is that of the number.
AsValue(type, f) ==
  IF f \notin Numbers THEN Thrown
  ELSE IF type = "bool" THEN IF f = 0 THEN 0 ELSE 1 ELSE f

\* std::sto* and the cast of their value: the conversion to short is that of int.
Wrap(v, half) == ((v + half) % (2 * half)) - half
As(type, f) ==
  IF f = Null THEN Thrown
  ELSE IF type = "bool" THEN IF f = Empty THEN 0 ELSE 1
  ELSE IF f \notin Numbers \/ f \notin (-HalfInt)..(HalfInt - 1) THEN Thrown
  ELSE IF type = "short" THEN Wrap(f, HalfShort) ELSE f

\* A member std::optional<type> of as_tuple: Null for nullopt.
Optional(type, f) == IF f = Null THEN Null ELSE As(type, f)

-----------------------------------------------------------------------------
Init ==
  /\ table = <<>> /\ meant = <<>>
  /\ call = NoCall /\ buffers = <<>> /\ result = NoResult /\ fault = "none"

\* Results are the caller's: one at a time is looked at here.
Idle == call = NoCall /\ result = NoResult /\ fault = "none"

\* The caller is done with a result.
Release ==
  /\ call = NoCall /\ result # NoResult /\ fault = "none"
  /\ result' = NoResult /\ buffers' = <<>>
  /\ UNCHANGED <<table, meant, call, fault>>

\* exec(prepped, params) of an INSERT: bind_param refuses some types, and the
\* server any row it does not like.
Insert(p) ==
  /\ Idle /\ Len(table) < MaxRows
  /\ \A c \in Stored : Supported(set_param(p[c]))
  /\ \E row \in Rows :
       /\ \A c \in Stored : row[c] \in Received(p[c])
       /\ table' = Append(table, row)
  /\ meant' = <<p>>
  /\ UNCHANGED <<call, buffers, result, fault>>

\* Rows that have come another way.
InsertText(row) ==
  /\ Idle /\ Len(table) < MaxRows
  /\ table' = Append(table, row)
  /\ meant' = <<>>
  /\ UNCHANGED <<call, buffers, result, fault>>

\* The rows of mysql_store_result.  The metadata asks for field 1, the second one.
Query(cols) ==
  /\ Idle
  /\ result' = Result("text", cols, [k \in DOMAIN table |-> [c \in cols |-> Cell(c, k)]])
  /\ fault' = IF Cardinality(cols) > 1 THEN "none" ELSE "metadata"
  /\ UNCHANGED <<table, meant, call, buffers>>

\* exec, exec1 and execn up to their first fetch.  execn does not look whether it
\* has found a row.
Execute(op, n, cols) ==
  /\ Idle
  /\ result' = Result("prepared", cols, <<>>)
  /\ LET fresh == [c \in cols |-> Fresh]
     IN  IF table # <<>>
         THEN buffers' = FetchedRow(cols, fresh, 1)
         ELSE buffers' = fresh
  /\ call' = IF (table = <<>> /\ op # "execn") \/ (op = "execn" /\ n = 0) THEN NoCall
             ELSE Call(op, n, 1)
  /\ UNCHANGED <<table, meant, fault>>

\* One round of their loop.
AppendRow ==
  /\ call # NoCall /\ fault = "none"
  /\ LET row == RowOf(buffers)
     IN  /\ result' = Result("prepared", result.cols, Append(result.rows, row))
         /\ fault' = IF \E c \in DOMAIN row : row[c] = Stray THEN "overread" ELSE "none"
  /\ IF call.op # "exec1" /\ call.at < Len(table)
     THEN /\ buffers' = FetchedRow(result.cols, buffers, call.at + 1)
          /\ call' = IF call.op = "execn" /\ call.at = call.n THEN NoCall
                     ELSE Call(call.op, call.n, call.at + 1)
     ELSE call' = NoCall /\ UNCHANGED buffers
  /\ UNCHANGED <<table, meant>>

\* Ways to ask for the rows; only execn is told how many.
Calls == ({"exec", "exec1"} \X {0}) \cup ({"execn"} \X (0..MaxRows))

Next ==
  \/ \E p \in ParamRows : Insert(p)
  \/ \E row \in Rows : InsertText(row)
  \/ \E cols \in (SUBSET Columns) \ {{}} :
       Query(cols) \/ \E c \in Calls : Execute(c[1], c[2], cols)
  \/ AppendRow \/ Release

Spec == Init /\ [][Next]_vars
-----------------------------------------------------------------------------
(* Properties.                                                             *)

Fields == Numbers \cup Texts \cup {Null, Stray}

\* Every variable keeps its type, and every row has the columns of its query.
TypeOK ==
  /\ table \in Seq(Rows) /\ Len(table) <= MaxRows
  /\ call \in {NoCall} \cup {Call(c[1], c[2], at) : c \in Calls, at \in 1..MaxRows}
  /\ call # NoCall => buffers \in [result.cols -> [bytes : Numbers \cup Texts, length : {0, 20, 65}]]
  /\ result.way \in {"none", "text", "prepared"} /\ result.cols \subseteq Columns
  /\ result.way = "none" => result.cols = {}
  /\ result.rows \in Seq([result.cols -> Fields])
  /\ fault \in {"none", "overread", "metadata"}

\* The last value of a column, up to row k, that was not NULL.
Latest(c, k) ==
  LET some == {j \in 1..k : Cell(c, j) # Null}
  IN  IF some = {} THEN Empty ELSE Cell(c, Max(some))

\* What a field of a prepared result shows: its own value; for NULL nothing, or in
\* a column of numbers what an earlier row has left in the buffer; and nothing in
\* the row that execn makes of an empty result.
Shows(c, k) ==
  IF c \in Void THEN Null
  ELSE IF k > Len(table) THEN Empty
  ELSE IF c \in Fixed THEN Latest(c, k)
  ELSE IF Cell(c, k) = Null THEN Empty
  ELSE IF Cell(c, k) \in Long THEN Stray ELSE Cell(c, k)

\* The rows of a result are those of the table, in their order: a query in text
\* shows what is there; a prepared one never shows the value of another column or
\* of a later row, and that of an earlier one only for a NULL number.
FieldsRead ==
  \A k \in DOMAIN result.rows : \A c \in result.cols :
    result.rows[k][c] = IF result.way = "text" THEN Cell(c, k) ELSE Shows(c, k)

\* The parameters that reach the table as they are: not an unsigned number in the
\* upper half of its range, nor true, nor an empty blob.
Faithful(p) ==
  \/ p.type \in {"null", "signed", "text"}
  \/ p.type = "unsigned" /\ p.value < Half
  \/ p.type = "bool" /\ p.value = 0
  \/ p.type = "blob" /\ p.value # Empty

\* A value comes back as the one that was given exactly if its parameter is such a
\* one and, from a prepared query, it is neither NULL nor longer than the buffer; and
\* an empty blob, of which the way in makes NULL and this way out nothing again.
\* What a blob of dynamic columns arrives as is anyone's guess.
RoundTrip ==
  \A k \in DOMAIN result.rows : \A c \in result.cols \cap Stored :
    meant # <<>> /\ k = Len(table) /\ meant[1][c].type # "dyncol" =>
      LET p == meant[1][c]
      IN  result.rows[k][c] = p.value <=>
            IF result.way = "text" THEN Faithful(p)
            ELSE p.value \notin {Null} \cup Long /\ (Faithful(p) \/ p.value = Empty)

\* What a member std::optional<T> of as_tuple is made from a number that was given
\* as a parameter.  A bool is true, and 0 as an int, whichever it was; a short is
\* the int where that fits; nothing, not even nullopt, is told from a NULL by the
\* fields of a prepared query.
Converted ==
  \A k \in DOMAIN result.rows : \A c \in result.cols \cap Fixed :
    meant # <<>> /\ k = Len(table) =>
      LET p == meant[1][c]
          f == result.rows[k][c]
      IN  /\ p.type = "bool" => Optional("bool", f) = 1 /\ Optional("int", f) = 0
          /\ p.type = "signed" /\ p.value \in (-HalfInt)..(HalfInt - 1) =>
               /\ Optional("int", f) = p.value
               /\ Optional("short", f) = p.value <=> p.value \in (-HalfShort)..(HalfShort - 1)
          /\ p.type = "null" => (Optional("int", f) = Null <=> result.way = "text")

\* Memory that is not the caller's is read for the metadata of a single column,
\* and for a prepared result with a text longer than the buffer, and nowhere else.
FaultCauses ==
  /\ fault = "metadata" => result.way = "text" /\ Cardinality(result.cols) = 1
  /\ fault = "overread" =>
       /\ result.way = "prepared" /\ result.rows # <<>>
       /\ \E c \in result.cols \cap Sized : table[Len(result.rows)][c] \in Long

\* The inductive form: while a query runs, its buffers hold row k of the table as it
\* has been fetched over the rows before it (none, if there is no row); and the last
\* row of the table is what has arrived of its parameters.  Only a column of type
\* NULL is ever null in a prepared result.
Holds(c, b, k) ==
  /\ c \in Fixed => /\ b = Buffer(Latest(c, k), Size(Latest(c, k)))
                   /\ Latest(c, k) \in Numbers \cup {Empty}
  /\ c \in Sized /\ (k = 0 \/ Cell(c, k) = Null) => b.length = 0
  /\ c \in Sized /\ k # 0 /\ Cell(c, k) # Null => b = Buffer(Cell(c, k), Size(Cell(c, k)))
Filled ==
  call # NoCall =>
    /\ result.way = "prepared" /\ Len(result.rows) = call.at - 1
    /\ IF table = <<>> THEN call.at = 1 ELSE call.at <= Len(table)
    /\ \A c \in result.cols : Holds(c, buffers[c], IF table = <<>> THEN 0 ELSE call.at)
Arrived ==
  meant # <<>> =>
    /\ table # <<>> /\ meant[1] \in ParamRows
    /\ \A c \in Stored : /\ Supported(set_param(meant[1][c]))
                        /\ table[Len(table)][c] \in Received(meant[1][c])
NeverNull ==
  result.way = "prepared" =>
    \A k \in DOMAIN result.rows : \A c \in result.cols \ Void : result.rows[k][c] # Null
ValuesInv == FieldsRead /\ FaultCauses /\ Filled /\ Arrived /\ NeverNull
=============================================================================
