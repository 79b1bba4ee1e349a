------------------------------ MODULE DynCol ------------------------------
(***************************************************************************)
(* mcxx::DynamicColumn: objects that hold a DYNAMIC_COLUMN each, a blob and  *)
(* the memory it is in.  A step is a call of a member function; next to the *)
(* blobs, columns follows what DynContract says the objects should hold.    *)
(*                                                                         *)
(* fault names the first call whose outcome the language or the format       *)
(* leaves open; nothing is modelled after it.                               *)
(***************************************************************************)
EXTENDS DynBlob

CONSTANTS
  Objects, Lost,
  Storable,       \* the values that calls put into blobs of each format
  MaxGiven,       \* bound: columns given to one call
  MaxHeld,        \* bound: columns held after an update
  Wide,           \* numbers of more than DYNCOL_NUM_CHAR digits
  HighBytes,      \* bytes that read as an invalid offset
  Huge,           \* max_size() of a std::string
  NoFault

ASSUME DynColAssumption ==
  /\ 0..Limit \subseteq Numbers /\ Wide \subseteq Numbers
  /\ Storable \in [Formats -> SUBSET Values] /\ Huge \in Nat
  /\ Lost \notin UNION {[N -> Values] : N \in SUBSET Names}

VARIABLES
  blob,      \* what dyncol.str and dyncol.length describe
  mem,       \* the rest of the struct, see Memory
  skewed,    \* ghost: the objects with a blob that NoBytesAhead has spoilt
  columns,   \* DynContract's
  ret,       \* the last call and the code of the connector's answer
  fault

vars == <<blob, mem, skewed, columns, ret, fault>>

Contract == INSTANCE DynContract

Reserve == 80     \* DYNCOL_SYZERESERVE
KeySets(by) == {K \in SUBSET Keys(by) : IsFiniteSet(K) /\ Cardinality(K) <= MaxGiven}
Given(by) == UNION {[K -> Storable[by]] : K \in KeySets(by)}
Named(by, f) ==
  [n \in {Name(by, k) : k \in DOMAIN f} |-> f[CHOOSE k \in DOMAIN f : Name(by, k) = n]]

-----------------------------------------------------------------------------
(* Memory.                                                                 *)

\* str is not NULL; max_length; alloc_increment; the bytes that str has room for; own: the
\* connector allocated the buffer for this object.
Memory == [str : BOOLEAN, cap : Nat, inc : {0, Reserve}, room : Nat, own : BOOLEAN]
NoMemory == [str |-> FALSE, cap |-> 0, inc |-> 0, room |-> 0, own |-> TRUE]

\* Mutants, of Allocated and Grown.
AllocatedExact(n) == [str |-> TRUE, cap |-> n, inc |-> n, room |-> n, own |-> TRUE]
GrownForgets(m, need) ==
  IF need <= m.cap THEN m
  ELSE [m EXCEPT !.room = ((need + m.inc - 1) \div m.inc) * m.inc, !.own = TRUE]

\* ma_init_dynamic_string()
Allocated(n) == [str |-> TRUE, cap |-> n, inc |-> Reserve, room |-> n, own |-> TRUE]

\* ma_dynstr_realloc() of an emptied string, for an increment other than 0
Grown(m, need) ==
  IF need <= m.cap THEN m
  ELSE LET n == ((need + m.inc - 1) \div m.inc) * m.inc
       IN  [m EXCEPT !.cap = n, !.room = n, !.own = TRUE]

\* malloc() of the length, with the other object's max_length and alloc_increment
Duplicate(b, cap, inc) == [str |-> TRUE, cap |-> cap, inc |-> inc, room |-> Size(b), own |-> FALSE]

Init ==
  /\ blob = [d \in Objects |-> NoBlob]
  /\ mem = [d \in Objects |-> NoMemory]
  /\ skewed = {}
  /\ Contract!Init
  /\ ret = [call |-> "none", code |-> "OK"]
  /\ fault = NoFault

Answer(call, code) == ret' = [call |-> call, code |-> code] /\ UNCHANGED fault
Unmoved(call, code) == Answer(call, code) /\ UNCHANGED <<blob, mem, skewed, columns>>
Fault(kind, d) ==
  /\ fault' = [kind |-> kind, own |-> mem[d].own]
  /\ UNCHANGED <<blob, mem, skewed, columns, ret>>
Becomes(d, b, spoilt) ==
  /\ blob' = [blob EXCEPT ![d] = b]
  /\ skewed' = IF spoilt THEN skewed \cup {d} ELSE skewed \ {d}
\* A length with a NULL str: reading the blob dereferences it.
Gone(d) == ~mem[d].str /\ blob[d].fmt # "none"

-----------------------------------------------------------------------------
(* Calls that write columns.                                               *)

\* dynamic_column_create_many_internal_fmt(): anew, or in the buffer that is there.
Create(d, by, f, new, call) ==
  LET cols == InOrder(f)
      b == Layout(by, cols)
      refused == \E k \in DOMAIN f : TooLarge(by, k)
      fresh == new \/ ~mem[d].str
      need == Size(b) + Reserve
      m == IF ~fresh THEN Grown(mem[d], need)
           ELSE IF cols = <<>> THEN NoMemory ELSE Allocated(need)
      written == CASE cols = <<>> -> 0
                   [] cols # <<>> /\ refused -> FixedHeader(by)
                   [] OTHER -> Size(b) + Overhang(cols)
  IN  IF ~fresh /\ need > mem[d].cap /\ mem[d].inc = 0 THEN Fault("divide", d)
      ELSE IF written > m.room THEN Fault("overrun", d)
      ELSE /\ mem' = [mem EXCEPT ![d] = m]
           /\ Becomes(d, IF cols = <<>> THEN NoBlob
                         ELSE IF refused THEN Zeroed(by) ELSE b, FALSE)
           /\ Contract!Store(d, IF refused THEN Contract!NoColumns ELSE Named(by, f))
           /\ Answer(call, IF refused THEN "DATA" ELSE "OK")

\* insert() replaces whatever the object holds.
Insert(d, by, f, rst) == Create(d, by, f, rst, "insert")

\* The way of an update or a removal of keys K, twice says that one is given twice.
Route(d, by, K, twice) ==
  IF K = {} THEN "nothing"
  ELSE IF \E k \in K : TooLarge(by, k) THEN "refused"
  ELSE IF blob[d].fmt = "none" THEN "create"
  ELSE IF Gone(d) THEN "null"
  ELSE IF blob[d].hdr = <<>> THEN "create"
  ELSE IF twice THEN "refused"
  ELSE IF by = "num" /\ blob[d].fmt = "named" THEN "garbled"
  ELSE IF d \in skewed THEN "skewed"
  ELSE "edit"

\* dynamic_column_update_copy(): a new buffer, in the format of the keys.
Rewrite(d, by, cols, call) ==
  LET b == Layout(by, cols)
  IN  /\ Becomes(d, b, FALSE)
      /\ mem' = [mem EXCEPT ![d] = Allocated(Size(b) + Reserve)]
      /\ Answer(call, "OK")

\* A mutant of Update: columns up to the refused one are written.
UpdateHalf(d, by, f) ==
  LET fits == [k \in {k \in DOMAIN f : ~TooLarge(by, k)} |-> f[k]]
      way == Route(d, by, DOMAIN fits, FALSE)
  IN  /\ fits # f /\ way = "edit"
      /\ Becomes(d, Layout(by, Merged(Converted(blob[d], by), fits)), FALSE)
      /\ Contract!Override(d, Named(by, fits))
      /\ Answer("update", "DATA") /\ UNCHANGED mem

Update(d, by, f) ==
  LET way == Route(d, by, DOMAIN f, FALSE)
  IN  \/ way = "nothing" /\ Unmoved("update", "OK")
      \/ way = "refused" /\ Unmoved("update", "DATA")
      \/ way = "create" /\ Create(d, by, f, FALSE, "update")
      \/ way \in {"null", "garbled", "skewed"} /\ Fault(way, d)
      \/ /\ way = "edit"
         /\ Rewrite(d, by, Merged(Converted(blob[d], by), f), "update")
         /\ Contract!Override(d, Named(by, f))

\* In the caller's terms: columns without bytes are removed before another one.
NoBytesAhead(d, K) ==
  LET gone == {NameOf[k] : k \in K} \cap DOMAIN columns[d]
  IN  /\ \A n \in gone : Bytes[columns[d][n]] = <<>>
      /\ \E n \in DOMAIN columns[d] : \A m \in gone : m < n

\* A mutant of MoveLeft: the entries behind stay where they are whatever is removed.
MoveLeftBlind(d, K) ==
  LET b == blob[d]
      closed == Layout("num", Without(Columns(b), K))
  IN  /\ Becomes(d, [closed EXCEPT !.hdr = SubSeq(b.hdr, 1, Len(@))], NoBytesAhead(d, K))
      /\ Answer("remove", "OK") /\ UNCHANGED mem

\* dynamic_column_update_move_left(): the values close up in place, and so do the entries of the
\* header.  But when all that is removed took no bytes, the entries behind the last of it are
\* stepped over and stay where they are: the header, now shorter, ends with the wrong ones.
MoveLeft(d, K) ==
  LET b == blob[d]
      gone == {i \in DOMAIN b.hdr : b.hdr[i].key \in K}
      before == {i \in DOMAIN b.hdr \ gone : \E j \in gone : i < j}
      closed == Layout("num", Without(Columns(b), K))
      left == [closed EXCEPT !.hdr =
                [i \in DOMAIN @ |-> IF i <= Cardinality(before) THEN @[i] ELSE b.hdr[i]]]
  IN  /\ Becomes(d, IF Len(closed.data) = Len(b.data) THEN left ELSE closed, NoBytesAhead(d, K))
      /\ Answer("remove", "OK") /\ UNCHANGED mem

\* After the last column, a further number of K has it read an entry behind the header.
StrayEntry(d, K) ==
  LET last == Last(blob[d].hdr).key IN last \in K /\ \E k \in K : k > last
\* The offset of that entry is the third byte of the data, or of what follows them.
StrayBytes(d) == IF Len(blob[d].data) >= 3 THEN {blob[d].data[3]} ELSE {Terminator} \cup HighBytes

RemoveKeys(d, by, K, twice) ==
  LET way == Route(d, by, K, twice)
      present == \E i \in DOMAIN blob[d].hdr : blob[d].hdr[i].key \in K
  IN  \/ way \in {"nothing", "create"} /\ Unmoved("remove", "OK")
      \/ way = "refused" /\ Unmoved("remove", "DATA")
      \/ way \in {"null", "garbled", "skewed"} /\ Fault(way, d)
      \/ /\ way = "edit"
         /\ by = "num" /\ present /\ StrayEntry(d, K) => StrayBytes(d) \ HighBytes # {}
         /\ IF by = "num" /\ present THEN MoveLeft(d, K)
            ELSE Rewrite(d, by, Without(Converted(blob[d], by), K), "remove")
         /\ Contract!Delete(d, {Name(by, k) : k \in K})
      \/ /\ way = "edit" /\ by = "num" /\ present /\ StrayEntry(d, K)
         /\ StrayBytes(d) \cap HighBytes # {}
         /\ Fault("torn", d)

-----------------------------------------------------------------------------
(* Calls that make objects.                                                *)

\* Mutants, of Default and Move: a length is forgotten.
DefaultKeepsLength(d) ==
  /\ mem' = [mem EXCEPT ![d] = NoMemory]
  /\ Contract!Store(d, Contract!NoColumns)
  /\ Answer("assign", "OK") /\ UNCHANGED <<blob, skewed>>
MoveKeepsLength(d, s) ==
  /\ d # s /\ ~Gone(s)
  /\ mem' = [mem EXCEPT ![d] = Duplicate(blob[s], mem[s].cap, mem[s].inc),
                        ![s].str = FALSE, ![s].room = 0, ![s].own = FALSE]
  /\ Contract!MovedFrom(d, s)
  /\ Answer("assign", "OK") /\ UNCHANGED <<blob, skewed>>

\* The destructor, and the default constructor of another object in its place.
Default(d) ==
  /\ Becomes(d, NoBlob, FALSE) /\ mem' = [mem EXCEPT ![d] = NoMemory]
  /\ Contract!Store(d, Contract!NoColumns)
  /\ Answer("assign", "OK")

Copy(d, s) ==
  /\ d # s
  /\ IF ~mem[s].str \/ blob[s].fmt = "none"
     THEN Becomes(d, NoBlob, FALSE) /\ mem' = [mem EXCEPT ![d] = NoMemory]
     ELSE /\ Becomes(d, blob[s], s \in skewed)
          /\ mem' = [mem EXCEPT ![d] = Duplicate(blob[s], mem[s].cap, mem[s].inc)]
  /\ Contract!CopyOf(d, s)
  /\ Answer("assign", "OK")

\* The source is freed, which leaves it its length, max_length and alloc_increment.
Move(d, s) ==
  /\ d # s
  /\ IF Gone(s) THEN Fault("null", s)
     ELSE /\ Becomes(d, blob[s], s \in skewed)
          /\ mem' = [mem EXCEPT ![d] = Duplicate(blob[s], mem[s].cap, mem[s].inc),
                                ![s].str = FALSE, ![s].room = 0, ![s].own = FALSE]
          /\ Contract!MovedFrom(d, s)
          /\ Answer("assign", "OK")

\* Field::as<DynamicColumn>() of a value of the server: a blob, or no bytes at all.
FromField(d, by, f) ==
  /\ \A k \in DOMAIN f : ~TooLarge(by, k)
  /\ \E b \in {Layout(by, InOrder(f))} \cup (IF DOMAIN f = {} THEN {NoBlob} ELSE {}) :
       /\ Becomes(d, b, FALSE)
       /\ mem' = [mem EXCEPT ![d] = Duplicate(b, Huge, 0)]
  /\ Contract!Store(d, Named(by, f))
  /\ Answer("assign", "OK")

\* Readers change nothing; these are the two that have no outcome.
ReadGone(d) == Gone(d) /\ Fault("null", d)
LookUpWide(d, n) ==
  /\ n \in Wide /\ mem[d].str /\ blob[d].fmt = "named" /\ blob[d].hdr # <<>>
  /\ Fault("buffer", d)

Fits(d, K) == Cardinality(K) + Len(blob[d].hdr) <= MaxHeld
Step(d) ==
  \/ \E by \in Formats :
       \/ \E f \in Given(by) :
            \/ \E rst \in BOOLEAN : Insert(d, by, f, rst)
            \/ Fits(d, DOMAIN f) /\ Update(d, by, f)
            \/ FromField(d, by, f)
       \/ \E K \in KeySets(by), twice \in BOOLEAN : RemoveKeys(d, by, K, twice)
  \/ Default(d)
  \/ \E s \in Objects : Copy(d, s) \/ Move(d, s)
  \/ ReadGone(d)
  \/ \E n \in Numbers : LookUpWide(d, n)

Next == fault = NoFault /\ \E d \in Objects : Step(d)
Spec == Init /\ [][Next]_vars

-----------------------------------------------------------------------------
(* Properties.                                                             *)

\* The types of the variables: headers with the keys of their format, values as they come
\* back, buffers as in Memory.
TypeOK ==
  /\ \A d \in Objects :
       /\ blob[d].fmt \in Formats \cup {"none"}
       /\ \A i \in DOMAIN blob[d].hdr :
            blob[d].hdr[i].key \in Keys(blob[d].fmt) /\ blob[d].hdr[i].off \in Nat
       /\ mem[d] \in Memory
       /\ columns[d] # Lost =>
            columns[d] \in UNION {[N -> Values] : N \in SUBSET Names}
  /\ skewed \subseteq Objects
  /\ ret \in [call : {"none", "insert", "update", "remove", "assign"}, code : {"OK", "DATA"}]
  /\ fault \in {NoFault} \cup
       [kind : {"null", "overrun", "divide", "garbled", "torn", "buffer", "skewed"}, own : BOOLEAN]

Known(d) == columns[d] # Lost /\ d \notin skewed
\* A value as it comes back.
Returned(v) == Decoded(TypeOf[v], Bytes[v])

\* Through any sequence of creates, updates in place or by copying, removals, conversions
\* from numbers to names, copies and moves, unpack() gives the columns the caller put in; but
\* not after a removal by number of nothing but columns without bytes that come before another.
ContentsKept ==
  \A d \in Objects : Known(d) =>
    Unpacked(blob[d]) = [n \in DOMAIN columns[d] |-> Returned(columns[d][n])]

\* The name of the column that a lookup is about: a numeric blob forgets the upper half of a
\* number and how a number was written.
Meant(b, by, k) ==
  IF b.fmt # "num" THEN Name(by, k)
  ELSE IF by = "num" THEN NameOf[k % (Limit + 1)]
  ELSE IF k \in DOMAIN NumberOf THEN NameOf[NumberOf[k] % (Limit + 1)] ELSE k

\* get() and exists(), which search the header by halves, find a column exactly when unpack()
\* shows it, by number or by name, whatever the format of the blob, with the same exception.
LookupsAgree ==
  \A d \in Objects : Known(d) =>
    \A by \in Formats : \A k \in Keys(by) :
      LET n == Meant(blob[d], by, k)
      IN  Get(blob[d], by, k) =
            IF n \in DOMAIN columns[d] THEN Returned(columns[d][n]) ELSE Absent

\* check_format() accepts a blob of ours exactly when no column but the last is of zero bytes
\* (the integer 0, an empty map), with the same exception.
CheckVerdict ==
  \A d \in Objects : Known(d) =>
    (WellFormed(blob[d]) <=>
      \A m, n \in DOMAIN columns[d] : m < n => Bytes[columns[d][m]] # <<>>)

\* A buffer has room for the blob in it, and max_length is the size of a buffer that the
\* connector allocated for the object: only duplicates have one that is larger.
BuffersHold ==
  \A d \in Objects :
    /\ mem[d].str => mem[d].room >= Size(blob[d])
    /\ mem[d].own => mem[d].cap = mem[d].room /\ (mem[d].str => mem[d].inc > 0)

\* Writing beyond a buffer, dividing by the increment and reading through NULL happen only to
\* objects that were copied, moved, moved from or made from a field, never to one that was
\* filled by insert() and update() alone.
FaultsNeedADuplicate ==
  fault # NoFault /\ fault.kind \in {"null", "overrun", "divide"} => ~fault.own

\* A call that the connector refuses changes neither blob nor memory, except that a refused
\* insert() leaves no columns at all: never a part of the old or of the new ones.
RefusedCalls ==
  [][ret'.code = "DATA" =>
      \/ UNCHANGED <<blob, mem>>
      \/ /\ ret'.call = "insert"
         /\ \A d \in Objects : blob[d] # blob'[d] => blob'[d].hdr = <<>>]_vars
=============================================================================
