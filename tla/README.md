# A verification project for mdbcxx

mdbcxx is a C++20 wrapper (namespace `mcxx`) around MariaDB Connector/C, which the
repository vendors.  Its own code is some 2400 lines: a `Connection` that owns a
`MYSQL*` and a registry of prepared statements, a `Transaction` through which SQL is
run, and value classes for parameters, rows and dynamic columns.  Little of what can
go wrong in it is visible in those lines alone.  A `Transaction` call is a sequence of
connector calls, each of which is allowed or refused, and reads packets or does not,
according to state that the connector keeps in `MYSQL` and `MYSQL_STMT` and that the
earlier calls have left there.  The modules therefore model the wrapper together with
the part of the connector that decides those things.

In the paths below, `lib/` is `vendor/mariadb-connector-c/libmariadb/`.

## Inventory

| component | state | operations | interacts with |
|---|---|---|---|
| Transaction calls (`src/transaction.cpp`) | none of its own: a reference to a `Connection` | `exec`, `exec0`, `exec1`, `execn`, each with SQL text or a prepared statement; `commit`, `rollback`, `toggle_autocommit` | calls the connector on the connection's handle and on registered statements |
| Connection session calls (`src/connection.cpp`) | `db_handle`, `conn_params` | `ping`, `svr_reload`, `reset`, `reconnect`, `abort`, `close`, `connect`, `is_connected` | as above; `reset` and `close` detach every statement |
| Handles (`src/connection.cpp`, `prepped.hpp`) | `db_handle`, `MYSQL.stmts`, the `shared_ptr<MYSQL_STMT>` of each statement | constructors, moves, destructor, `prepare` | `mysql_close` walks the list of statements |
| Statement registry | `prepped_statements`, the server's statement ids | `prepare`, `prepped` | invalidated by `reset`, `close`, a new session |
| Transactions and autocommit | the server's session: autocommit, open transaction | `commit`, `rollback`, `toggle_autocommit`, reconnection | lost with the session |
| Dynamic columns (`src/dyncol.cpp`, `lib/mariadb_dyncol.c`) | a `DYNAMIC_COLUMN`: a blob, and the size and increment of its buffer | constructors, assignments, insert, update, remove, get, exists, keys, unpack, check_format, JSON | a parameter type; made from fields |
| Parameters (`src/params.cpp`) | a vector of variants | append, prepend, `set_param` | become `MYSQL_BIND`s that point into the vector |
| Fields, rows, results (`src/field.cpp`, `row.cpp`, `result.cpp`, `*_metadata.cpp`) | text buffers | conversions, indexing | built from the bind buffers or a `MYSQL_RES` |
| Options (`extra_props.hpp`) | one process-wide map | `set_prop`, `set_props`, `set_extra_props` | applied at the next connect of any connection |
| Connector protocol state machine (`lib/mariadb_lib.c`, `mariadb_stmt.c`, `ma_net.c`) | `MYSQL.status`, `server_status`, `net.pvio`, `MYSQL_STMT.state` | send a command, read a packet, store, fetch, flush, reset | everything above |

What makes the behaviour hard:

* **Streams.** `exec1` and `execn` of a prepared query return with the rest of the rows
  still on the connection.  Whether the next call is refused, discards them, or reads
  them as its own reply depends on the agreement of two records of one fact: the
  status of the connection and the state of the statement, changed by different
  functions.
* **Loss.**  The connection can go between any two packets, in the middle of a send, of
  a flush or of a fetch, and each function cleans up in its own way.
* **Several results.**  `CLIENT_MULTI_STATEMENTS` and `CLIENT_MULTI_RESULTS` are always
  on, but only the first result of a reply is ever read.
* **Unchecked outcomes.**  The first fetch, `mysql_store_result` and
  `mysql_stmt_store_result` are not checked.
* There is no concurrency inside the library: a connection is used by one thread, and
  the connector says so.  The interleaving is that of one client thread with the server
  and the network.

What makes each component correct: a request is answered by its own reply and by
nothing else; a result is complete or an error is raised; a call returns; a lost
connection can be connected again; only documented calls fail (Session).  A
`MYSQL_STMT` is freed once and never while linked (Handles).  A name stands for the
last statement prepared under it, or is known to be dead (Registry).  What is committed
is what was executed in one transaction (TxnSession).  The blob denotes the map its
operations built (DynCol).  What a result shows is what was given (Values).

## The modules

| module | what it is |
|---|---|
| `Protocol` | the replies of a server, as sequences of packets |
| `Session` | a connection, its prepared statements and every call on them; the core |
| `MCSession` | which SQL the statements of TLC's instances hold |
| `SessionProofs` | who holds the connection of `Session`, for TLAPS |
| `WireProofs` | what is on the wire of `Session`, and what its calls return, for TLAPS |
| `Handles` | `Connection` objects, the `MYSQL` and `MYSQL_STMT` objects behind them, their ownership and lifetime |
| `MCHandles` | the symmetry of TLC's instance |
| `HandleProofs` | theorems about `Handles`, for TLAPS |
| `Sending` | how a command gets to the server over a connection that may have been lost |
| `SendingProofs` | what `Sending` can leave, for TLAPS |
| `Registry` | the statements a connection knows by name, and the numbers that sessions give them |
| `RegistryProofs` | theorems about `Registry`, for TLAPS |
| `SqlServer` | a session of the server: autocommit, the open transaction and its writes |
| `AtomicStore` | what a user may rely on without automatic reconnection: the abstract specification |
| `TxnSession` | transactions over a connection that is lost and made again, by the caller or behind his back |
| `MCTxnSession` | the symmetry of TLC's instance |
| `TxnProofs` | theorems about `TxnSession`, for TLAPS, the refinement of `AtomicStore` among them |
| `Values` | values as parameters and as fields |
| `MCValues` | the numbers of TLC's instance |
| `ValuesProofs` | theorems about `Values`, for TLAPS |
| `DynBlob` | the blobs of dynamic columns: how they are written, read and changed |
| `DynContract` | what a `DynamicColumn` promises: an object is a map from names to values |
| `DynCol` | `DynamicColumn` objects: their blobs, their memory, their member functions |
| `MCDynCol` | the names, numbers and values of TLC's instances |
| `DynColProofs` | theorems about `DynBlob` and `DynCol`, for TLAPS |

### Protocol

A packet has a kind (`OK`, `ERR`, `HDR`, `ROW`, `EOF`), the two bits of the status it
carries that the connector looks at, "more results" (`more`) and `SERVER_PS_OUT_PARAMS`
(`out`), and a ghost `fresh`, cleared when a later request goes out.  A reply is
a sequence of packets with a ghost: the rows of its first result set.  The server is not
in the repository, so these definitions are external: they are the replies that the
reading functions of the connector distinguish.  A query can fail after some of its rows
have been sent; a text can hold two statements; a procedure can send one or two result
sets before the result of the CALL.  The last of them may hold the OUT parameters
(`OutSet`).  The connector's comment at `lib/mariadb_stmt.c:2516` says that the server does
not announce with it the result of the CALL, which follows nevertheless;
`OutReplies` has both, with the announcement and without.

### Session

State and code:

| variable | code |
|---|---|
| `link` | `net.pvio` and its peer: `up`; `cut`, when the peer is gone and the client has not noticed; `down`, when `pvio` is NULL; `closed`, when `db_handle` is NULL |
| `ver` | `MYSQL.server_version` is set (what `mariadb_connection` looks at) |
| `status`, `more`, `out` | `MYSQL.status`; `SERVER_MORE_RESULTS_EXIST` and `SERVER_PS_OUT_PARAMS` in `server_status` |
| `wire` | packets sent and not read: socket and pvio cache |
| `st`, `fc`, `att` | per statement: `state`, `field_count > 0`, `stmt->mysql != NULL` |
| `pc`, `call` | where the running call is; its arguments and what it has read |
| `ret` | how the last call ended: `result`, `nullopt`, `row`, `done`, `true`, `false`, or by an exception (`throw` for `runtime_error`, `length` for `length_error`), or `crash` for a null dereference or an index past the end |
| `taint` | ghost, see below |

An action is one step of a call: the checks before a request and the sending of it
(`TextCall`, `ExecSend`, `PingCall`, `ResetSend`), or the reading of one packet and all
that is done before the next is read (`Header`, `Store`, `Flush`, `ExecHeader`,
`FirstFetch`, `NextFetch`, `StoreStmt`, `Drain`, `Ack`).  Each is the union of what the
`Transaction` call and the connector functions under it do there.  `Cut` may happen
between any two of them: the server goes away and some suffix of what it had sent is
lost.  `ReadFails` is the end of the stream or the read timeout (30 s in
`extra_props.hpp`); both end in `end_server`.  A write on a cut connection may fail or
appear to succeed.

`commit` stands for `rollback` and `toggle_autocommit` (all three send a text query and
look at the return value), `ping` for `svr_reload`.

Two ways to stop are modelled as stuttering states, so that deadlock is checked
everywhere else: `crashed` (undefined behaviour: the model says where, not what follows)
and `garbled`: a client that has taken a packet of another request's reply for the start
of its own.  What it makes of that packet depends on its bytes.  A ping or a reset
accepts any packet but an error as its answer (the sequence number is not checked,
`lib/ma_net.c:403`), and that is modelled.

`taint` marks the four uses of the interface after which the client's state no longer
describes the wire, whatever comes next: `reset()` while a result is open or announced;
`exec0` of a prepared query that fails while its rows are stored; an execution, refused, of
a statement whose rows an earlier `exec0` had stored; and `exec` or `execn` of a procedure
call that reads OUT parameters to their end when they do not announce the result of the
CALL (`Forgets`: `mysql_stmt_fetch` has neither the test of `mysql_stmt_more_results` nor
the workaround of `mysql_stmt_store_result`).  The behaviours after
them are in the model, but the
properties about owners and replies are stated for histories without them.  All other
calls, in every order, are covered: streams abandoned by `exec1` and `execn`, several
statements, texts with several results, procedures with OUT parameters, loss at every step,
`close`, `connect` again.

Left out of Session: `prepare` (the statements exist in Init; `Handles` and `Registry` have
it), automatic reconnection (`TxnSession` and `Registry` have it), `mysql_stmt_close` (the wrapper never
calls it: `Connection::prepare` builds its `shared_ptr` without the deleter), character
sets, field contents, parameters (a call with the wrong number of them is modelled),
allocation failure and truncation.

### Handles

State and code:

| variable | code |
|---|---|
| `alive`, `handle`, `reg` | the `Connection` objects in their lifetime, their `db_handle` and `prepared_statements` |
| `mem`, `smem` | the memory of each `MYSQL` and `MYSQL_STMT`: unused, in use, freed |
| `owner`, `list` | `stmt->mysql`; `mysql->stmts`, whose nodes are inside the statements |
| `kept` | the statements of which the caller holds a copy of the `shared_ptr` |
| `crashed` | memory that had been freed has been touched |

A step is a whole call: nothing here waits for another thread, and what the server
answers shows only in whether a `prepare`, a `reset` or a constructor succeeds.  The
actions are the constructors (`Construct`, `ConstructThrows`), the two moves, the
destructor, `close`, `reset`, `prepare`, what a reconnection does to the list
(`Reconnect`), and what the caller does with a copy of a statement (`Keep`, `Drop`).
Assigning a connection to itself is an action of its own, because the code has no test
for it and leaves the registry as the standard library's containers leave themselves:
unspecified, all or nothing.

The questions are about pointers.  An address is never used twice, so that a freed object
can be told from a new one; touching a freed object is where the model stops
(`crashed`).  A `shared_ptr` frees its statement when the last copy goes; the deleter is
the default one, so `mysql_stmt_close` is not called, the node stays in the list of the
handle, and what the statement owns (its extension, its memory pools, its twin in the
server) is not released.  Nothing more is said of those, nor of the mismatch between
`delete` and `calloc`.  The model is an over-approximation in one place: `Reset`,
`Reconnect` and `Prepare` may happen whether or not the handle is connected at the time.

### Sending and Registry

`Sending` is `mthd_my_send_cmd` with `mariadb_reconnect` under it, as a function from the
link, the option, `SERVER_STATUS_IN_TRANS` and `host_info` to what becomes of the command:
it reaches the session that is there, or a new one, or nobody, or the call fails.  The
peer that has hung up is noticed by `ma_pvio_is_alive` or by the write, or not at all.
`Registry` and `TxnSession` both send through it.

| variable of Registry | code |
|---|---|
| `reconnect`, `link`, `known`, `trans` | `options.reconnect`; `net.pvio` and its peer; `host_info` is set; `SERVER_STATUS_IN_TRANS` |
| `stmts` | `prepared_statements`: of each name its SQL, `stmt_id`, `state`, whether `stmt->mysql` is set, and (ghost) the session that gave it its number |
| `dangling` | a statement has been freed that is still in `mysql->stmts` |
| `call`, `reply` | the running call, and its answer on the way |
| `session`, `held` | the server's session, and the SQL under each of its statement numbers |
| `ran`, `seen` | ghosts: what the server has run last; which statements a `connect()` or a reconnection may have left executable |

A call is sent (`Prepare`, `Exec`, `Command`, `Retry`), run (`Serve`) and answered
(`Receive`, `ReadFails`) in separate steps.  Once a list holds freed memory, the calls that
go through it (`prepare`, `reset`, a reconnection) are not taken: `Handles` says what is
wrong there.  Replies are read to their end.

### SqlServer, AtomicStore and TxnSession

`SqlServer` is external: a session has autocommit, an open transaction or not, and the
writes in it, as the connector's pages on commit, autocommit and reset describe.
`AtomicStore` is the abstract specification: a call takes effect once, in the session of
the calls before it, or fails; when the session is gone every call fails until `connect()`
succeeds; a call that was given up may take effect later, as a whole or not at all.

| variable of TxnSession | code |
|---|---|
| `prop` | `extra_properties`, the option for the process |
| `reconnect`, `link`, `known`, `trans` | as in Registry |
| `call`, `reply`, `ret` | the running call, its answer, how the last one ended |
| `srv`, `store`, `late` | the server: the session of this connection, what is durable, and what a session the client has lost may still make durable |
| `issued`, `belief` | ghosts: the writes given to the library, and what a caller may conclude from the answers so far |

`Call` is any of `exec` of a write, `BEGIN`, `commit`, `rollback`, `toggle_autocommit`,
`ping` and `reset`.  `commit` and its like are text queries and are never sent again; a
`ping` or a `reset` that failed is, once.  A write is given to the library once, so that a
write that is run twice shows.  `Connect`, `Reconnect` and `SetProp` are the other calls;
`abort`, `close` and statements are in Session and Registry.

### Values

| variable | code |
|---|---|
| `table`, `meant` | the rows of the server, and (ghost) the parameters the last one was made from |
| `call`, `buffers` | the running query of a prepared statement, and the buffers of `init_rbstructs` |
| `result` | the rows it has appended, or those of the last query in text |
| `fault` | memory that is not the caller's has been read |

`Insert` is `exec(prepped, params)` from `set_param` to the row in the table: `Received`
is what the connector and the server make of the `MYSQL_BIND`.  `Execute` and `AppendRow`
are `exec`, `exec1` and `execn` of a prepared query with the fetch between two rows;
`Query` is a query in text.  `As` and `Optional` are the conversions of a `Field` to bool,
int and short and to an `std::optional` of them.  A number is a member of `Numbers` of
which only the range matters, a text a member of `Short` or `Long` or empty, and types are
those that the code treats in different ways.  A `DynamicColumn` given as a parameter is
bound by the buffer of a local vector, which is freed before it is used: any text of its
length may arrive.

Left out of Values: floating point, dates and times, the conversions to `long` and to
unsigned types, iterators, the names and types in the metadata (only the constructor's
reach into foreign memory is there), and the loss of the connection (Session).

### DynBlob, DynContract and DynCol

A `DynamicColumn` holds one `DYNAMIC_COLUMN`, a blob in one of two formats, columns with
numbers or columns with names, and nothing else.  `DynBlob` has the formats: the header
with its sorted keys, types and offsets, the data behind it (`Layout`), the binary
searches with what they do to a key of the other kind (`Search`, `Find`), `get`, `unpack`
and `check_format` (`Get`, `Unpacked`, `WellFormed`), and the merge of an update
(`Converted`, `Put`, `Merged`, `Without`).  These are functions of a blob; `DynCol` has the objects.

| variable | code |
|---|---|
| `blob` | what `dyncol.str` and `dyncol.length` describe; `NoBlob` for length 0 |
| `mem` | the rest: `str` is not NULL, `cap` (`max_length`), `inc` (`alloc_increment`), `room` (the bytes that the allocation really has), `own` (made by the connector for this object, not by a copy) |
| `skewed` | ghost: the objects whose blob a removal has spoilt, see below |
| `columns` | `DynContract`'s variable: what the calls made so far should have left |
| `ret` | the last call and the connector's answer, `OK` or `DATA` (which becomes an exception) |
| `fault` | the first call whose outcome the language or the format leaves open |

A step is a call.  `Insert` creates anew or in the buffer that is there; `Update` and
`RemoveKeys` take the way that `dynamic_column_update_many_fmt` takes (`Route`): nothing
to do, a key refused, creation, a rewritten copy (`Rewrite`), or the header and the data
closed up in place (`MoveLeft`).  `MoveLeft` does what the loop over the header does: when
all that is removed took no bytes (the integer 0, an empty map) the entries behind it are
stepped over and not moved (`lib/mariadb_dyncol.c:2971`), so that the shorter header ends
with the wrong ones.  `NoBytesAhead` says
in the caller's terms when that is, `skewed` remembers it, and the properties of contents
speak of the other objects.  `Copy`, `Move`, `Default` and `FromField` are the
constructors, the assignments and the value of a column of a result.  Each action also
takes the step of `DynContract` that its caller expects, with `Store`, `Override`,
`Delete`, `CopyOf` and `MovedFrom`, so that `ContentsKept` compares the two after any
sequence of calls.  Nothing promises what an object that was moved from holds, so its
contents are `Lost` there until it is filled again.

What is abstracted: names are ranks in the connector's order (shorter first), bytes are
tokens (`Byte`), and a value is its type and its bytes, chosen so that the cases that matter to the
format are there: values of no bytes, values that end in a zero byte, nested maps.  Data
pools are below 31 bytes, so that offsets have their shortest form.  That leaves out more
than a larger header: a removal that shrinks the pool below such a bound makes all offsets
shorter, in place for a numeric blob (`lib/mariadb_dyncol.c:3558`-`3588` choose `move_left`
for an update as well when the entries shrink), and these cases are not modelled.  `fault` ends a
behaviour: `null` is a read through a NULL `str`, `overrun` a write behind a buffer,
`divide` a division by an increment of 0, `garbled` an update by number of named columns,
`torn` a removal that stops with the header rewritten and the data not, `buffer` a number
too wide for the buffer it is printed in, `skewed` an update or a removal of keys of a blob
that is already spoilt (replacing it by `insert`, copying and moving it are modelled).  The
model says when these happen and not what
follows.

Left out: `json()`, the calendar conversions of dates and times, what is inside a nested
map, a nested map under a number (the instances and the theorems have none), a spoilt blob
that is stored in the server and read back (`FromField` gives whole ones), leaks (an object made from another's buffer, a create that is refused), longer
offsets, allocation failure.

## The runs

| run | what it asks | instance |
|---|---|---|
| `session_safety` | all safety properties and the action properties | a query and a procedure call, results of 0 to 2 rows, two results per reply and OUT parameters, `execn` of 0 or 1; 1.6 million states |
| `session_live` | every call returns | two queries, results of 0 to 2 rows, one result set per reply; 148,432 states |
| `handles_safety` | the properties of ownership | two objects, three handles, three statements, two names; 8046 states up to symmetry |
| `handles_unlinked` | is a freed statement in no list? | no (finding) |
| `registry_safety` | which SQL a name runs, and which statements outlive their session | two names, two texts, three sessions, reconnection on and off; 801,866 states |
| `registry_runs` | does a name always run its own SQL? | no (finding) |
| `txn_atomic` | without automatic reconnection, does `TxnSession` implement `AtomicStore`? | three writes; 25,243 states up to symmetry |
| `txn_reconnect` | what holds with automatic reconnection, and whether calls return | two writes, the option changing; 84,006 states |
| `txn_manual` | with it, is a transaction of `toggle_autocommit(false)` isolated? | no (finding) |
| `values_safety` | what comes back of what was given, and whose memory is read | a column of numbers, of texts and of type NULL, two rows, parameters of two bits; 266,818 states |
| `dyncol_contents` | contents, lookups, format check, refused calls | one object, numbers 0 to 2, five names, four values; 12,869 states |
| `dyncol_memory` | buffers and faults | two objects that are copied and moved, one value; 63,749 states up to symmetry |

The properties of Session:

* `StreamOwner`: between calls the connection is free (READY, no statement being read)
  or held by one statement.  The flush in `mysql_stmt_execute`, which goes by the state of
  the statement, and the test of `mthd_my_send_cmd`, which goes by the status of the
  connection, rely on it.
* `RefusedOnlyForOthers`: a statement is never refused because of its own unread rows.
* `NothingLeftOver`, `RepliesMatch`: a connection that would accept a request has
  nothing unread, and no call reads a packet of another's reply.  For OUT parameters both
  depend on the second half of `mysql_stmt_more_results` and on the workaround in
  `mysql_stmt_store_result`; where the code has neither, `taint` is set.
* `OnlyOwnerReads`: packets of an open statement result are taken by calls of that
  statement alone.
* `NoStall`: no call waits for a packet that will not come.
* `LostIsReady`: after a loss, whenever it happened, `connect` gives a usable connection.
* `WholeOrNothing`: a result has exactly the rows asked for, or is empty because the
  store failed, or is the one row that a failed first fetch leaves in the buffers.  The
  two exceptions are what the code does.
* `CrashCauses`: the calls that can hit undefined behaviour are these and no other.
* `Advances`: every step of a call takes it to a later phase or a packet off the wire, but
  for two loops that can go round with nothing to read (`Spins`): the flush of
  `mysql_stmt_execute` (for further results as for OUT parameters) and the `mysql_next_result` loop of `reset()`.
* `CallReturns`: every call returns.

The properties of Handles:

* `OwnedOnce`: a handle has at most one owner and is open while it has one, so that it is
  closed once and not used afterwards.
* `ListExact`: `stmt->mysql` and `mysql->stmts` agree, whatever has been freed.
* `UsableStmts`: a statement that can still be executed is in memory, in one registry,
  and points to no closed handle; so a copy that outlives its connection fails, and does
  no harm.
* `FreedIsFirst`: of the statements in a connection's list only the last added can have
  been freed.  It says exactly how far the defect of `prepare` (below) reaches.

The properties of Registry:

* `OwnRun`: in the session that has prepared it a statement runs its own SQL, through
  failed calls, resets, taken names and lost answers.
* `StaleCauses`: only `connect()`, and a reconnection in the middle of an execution, leave a
  statement of an old session executable.  With `OwnRun` it delimits the finding
  `RunsWhatWasPrepared`.
* `DeadForGood`: a statement that can no longer be executed is not brought back by any
  other call; in particular `prepare` under its name does not replace it.

The properties of TxnSession:

* `Atomic`: without automatic reconnection it implements `AtomicStore`.
* `CommitWhole`: a `commit()` that succeeds has made every write of the transaction durable;
  `SERVER_STATUS_IN_TRANS` keeps every silent reconnection out of a transaction with
  writes in it.
* `BegunIsolated`, `ManualIsolated`: nothing of a transaction is durable before `commit()`.
  The first, about `BEGIN`, always holds; the second, about `toggle_autocommit(false)`, only
  without automatic reconnection (`txn_atomic` checks it, `txn_manual` refutes it with).
* `OnePlace`: no write is run twice, by a retry or by two sessions.
* `CallReturns`: every call returns, one that is sent twice as well.

The properties of Values:

* `FieldsRead`: the rows of a result are those of the table in their order.  A prepared
  query shows the value of an earlier row only for a NULL number, and never that of
  another column or of a later row.
* `RoundTrip`: exactly which parameters come back as they were given.
* `Converted`: what a `bool`, an `int`, a `short` and a `std::optional` are made from a number
  that was given as a parameter.
* `FaultCauses`: where memory is read that is not the caller's, and that it is nowhere else.

The properties of DynCol:

* `ContentsKept`: `unpack` gives the columns that the calls have put in, whatever
  sequence of creates, merges, removals in place, conversions from numbers to names,
  copies and moves has made the blob.  This property and the next two leave out the
  objects in `skewed`, that is those with a blob from which nothing but columns without
  bytes have been removed by number, ahead of another.
* `LookupsAgree`: `get` and `exists`, which search by halves, find exactly the columns that
  `unpack` lists.  It fails as soon as a blob's header is not in order, in particular if
  the conversion of numbers to names, which does not sort, changed the order.
* `CheckVerdict`: which blobs `check_format` rejects, and that it accepts all others.
* `RefusedCalls`: a call that is refused has changed nothing, or emptied the object.
* `BuffersHold`: a buffer has room for the blob in it, and `max_length` is true of every
  buffer of the connector's own.
* `FaultsNeedADuplicate`: an object that was only filled by `insert` and `update` does not
  overrun its buffer, divide by zero or dereference NULL.

Bounds of Session.  Two statements suffice for every property that speaks of another statement's
rows (each speaks of at most two).  Results of two rows with `execn` of 0 and 1 give
shorter, equal and longer results; a stream can be abandoned with zero, one or more
packets left.  Two results per reply give a first, a last and, for a procedure, a middle
one.  `MaxRows`, `MaxN` and `MultiResults` are constants, and the theorems do not depend
on them.

Bounds of Handles.  Two objects are a move and its source, and a third handle is needed
for the one that the move constructor makes and loses.  Three statements give a list with
a middle, two names a name taken and a name free.  When the addresses are used up nothing
can be allocated any more, and after a crash nothing happens: the model has final states,
as the program may end at any time, and `CHECK_DEADLOCK` is off in these runs.  No fairness
is assumed, as no call waits.

Bounds of DynCol.  The largest number of the numeric format (`Limit`, 65535 in the code) is
1, so that numbers 0 and 1 are columns, and 2 is too large to be put and looks up number
0.  `Wide` numbers stand for those of more than six digits.  The names are the decimal
forms of the numbers, the empty name, and one longer than `LongestName`; the numeric form
of every number is a name, so that conversions are followed.  Two columns to a call
(`MaxGiven`) and three in a blob (`MaxHeld`) give a first, a middle and a last one, and an
update with a key before and one after an old column.  Where memory is the question,
one value and two keys of each kind are enough to make blobs of three sizes, and two
objects are a copy and its source; `Huge` is `max_size()` of a string, larger than
any blob, and only compared.  There is a final state after a fault, hence no deadlock check.
No fairness is assumed, as no call waits.

Bounds of Registry.  Two names and two texts are a statement and another, for the number
of which it can be mistaken; three sessions are the one that prepared it, one that takes
its place, and one more for what outlives two of them.  There is no bound on calls:
`MaxSession` ends the behaviours.

Bounds of TxnSession.  Each write is given once, so that two of them in two places can be
told; three are one before, one in and one after a transaction, and where automatic
reconnection is on (with two kinds of retry and a process-wide option that changes) two.
Nothing else is bounded: connections are lost and made as often as one likes.

Bounds of Values.  The widths are constants: a parameter has `2 * Half` values, an int
`2 * HalfInt`, a short `2 * HalfShort`; two bits, two bits and one are the least at which
they differ and have a sign.  One column of each kind, a text that fits a buffer, one
that does not and the empty one; two rows, so that the buffers of the second hold what
the first has left there.  The theorems do not depend on these.  No run of Registry,
TxnSession or Values says `CHECK_DEADLOCK FALSE` except that of Values, whose table
fills up and whose faults end the behaviour.

Fairness of TxnSession.  `FairSpec` adds `WF_vars(Continue)`, as below: a call that waits
for an answer gets one or the read times out, and one that is to be sent again is.
`CallReturns` then says that retries end.

Fairness of Session.  `FairSpec` adds `WF_vars(Continue)`: the thread that made a call goes on with
it.  Each read of the connector returns, with a packet or after the read timeout, so a
step of a running call is always enabled and is taken.  Nothing is assumed about `Begin`
(no call need be made) or `Cut` (no fault need happen).  `CallReturns` is checked with
one result set per reply, because with several it does not hold: `reset()` loops when
the next announced result is an error or cannot be read, and so does the flush of
`mysql_stmt_execute` when the connection is lost after a result that announced another or
held OUT parameters.
`Advances` holds with several results, and says that nothing else can make a call go on.

## What is proved

`HandleProofs` proves for any number of objects, handles, statements and names, assuming
only that NULL is not an address (`HandlesAssumption`):

| theorem | statement |
|---|---|
| `HandleTypes` | `Spec => []TypeOK` |
| `Ownership` | `Spec => []HandlesInv` |
| `HandlesOwnedOnce` | `Spec => []OwnedOnce` |
| `ListsExact` | `Spec => []ListExact` |
| `StmtsUsable` | `Spec => []UsableStmts` |
| `OnlyFirstFreed` | `Spec => []FreedIsFirst` |

The four properties support each other.  That a closed handle leaves no pointer behind
follows from the list being exact; that a list is not disturbed when another connection
releases its registry follows from a statement being registered once and from
`LinkedAreRegistered`: the statements that point to a connection's handle and are in
memory are in its own registry (that is what makes `FreedIsFirst` hold when a registry is
released: the freed ones then point to a handle that nobody owns).  `Blank` says that an
object outside its lifetime owns nothing and that an unused statement points nowhere,
which constructors and `prepare` need.

`SessionProofs` proves for any set of statements, whatever SQL they hold, and any bounds:

| theorem | statement |
|---|---|
| `TypeCorrect` | `Spec => []TypeOK` |
| `OneOwner` | `Spec => []StreamOwner` |
| `RefusedForOthers` | `Spec => []RefusedOnlyForOthers` |
| `LostRecovers` | `Spec => []LostIsReady` |
| `OwnerReads` | `Spec => OnlyOwnerReads` |
| `OnlyTwoLoops` | `Spec => Advances` |

from `ProtocolAssumption` and `SessionAssumption` (bounds are natural numbers, every
statement is of one of the three kinds, `NoStmt` is none of them).

`TypeOK` alone is not inductive: what a text call returns is defined by cases on its
name, so one has to know that only text calls are at the steps of a text call.  `CallInv`
says so, and that the statement of a running call stays attached.

`StreamOwner` speaks of the moments between calls; whether it holds again when a call
ends depends on who held the connection at each of its steps.  `StreamInv` says that: at
`flush` the connection is held by the call's own statement or its state is already
`DONE`; at `exechdr` nobody is being read, except that the statement executed may count
as being read because its stored rows have just been freed; at `first` and `next` the
connection is free or held by the call's statement.  `RefusedOnlyForOthers` is the
`execsend` part of it, and `OwnerReads` follows from it together with `LostInv`.

`LostIsReady` needs to know that the status is READY whenever a reply is awaited, that a
lost connection has nothing to read, and that during a flush the status may still be
STMT_RESULT (`LostInv`).

`WireProofs` goes on from there, from the same assumptions:

| theorem | statement |
|---|---|
| `NothingLeft` | `Spec => []NothingLeftOver` |
| `Matched` | `Spec => []RepliesMatch` |
| `NeverStalls` | `Spec => []NoStall` |
| `AllOrNothing` | `Spec => []WholeOrNothing` |
| `CrashesKnown` | `Spec => []CrashCauses` |

The first three share the invariant `WireInv`, which speaks of the wire at every step of a
call and of histories without one of the four uses that set `taint`.  It has a grammar: every packet on the wire
belongs to the request in progress, a row or an end follows a header or a row and
is of OUT parameters like it (`Formed`, `Follows`), a further result follows only what
announces it or OUT parameters, and these are not followed by an error (`Chain`); while the
link is up a reply does not stop in the middle (`Final`).  To it `WireShape` adds what each step of a call awaits, and
what the client's record of further results is worth: when it stands inside a result set,
the end of that set says of further ones what the record says (`Tells`), and the rows are
OUT parameters just when the client takes them for such (`Held`).  That is needed
because `mysql_stmt_fetch` does not take over the status at the end of the rows, so that the
connection goes on with what the header announced.  That every reply of `Protocol` obeys the
grammar is proved first.  The steps then use `StreamInv` and `LostInv` for who holds the
connection.

The other two need no such condition.  `CountInv` says of every step that the rows read and
the rows of the result set still on the wire make those that were sent (`Counts`), unless a
failed first fetch has left the row of empty buffers that the code returns.  It holds after
tainting calls too, because it says something only of a result whose header belongs to the
request.

`RegistryProofs` proves for any names, SQL texts and number of sessions, from
`RegistryAssumption`, and with what `SendingProofs` says of every way a command can be sent:

| theorem | statement |
|---|---|
| `RegistryTypes` | `Spec => []TypeOK` |
| `RegistryKept` | `Spec => []RegistryInv` |
| `OwnSqlRuns` | `Spec => []OwnRun` |
| `StaleOnlyThere` | `Spec => []StaleCauses` |
| `DeadStayDead` | `Spec => DeadForGood` |

`OwnRun` speaks of what has been run; that it stays true needs `HeldInv`: while the link is
up the session holds, under the number of every statement it has prepared, that
statement's SQL, and an answer to `prepare` on its way names a number that holds the SQL
of the call.  A reset that has been run and not been heard of is the exception.

`TxnProofs` proves for any set of writes, from `WritesAssumption` and `SettingsAssumption`:

| theorem | statement |
|---|---|
| `TypesKept` | `Spec => []TypeOK` |
| `TransactionsKept` | `Spec => []TxnInv` |
| `BegunKept` | `Spec => []BegunIsolated` |
| `NothingTwice` | `Spec => []OnePlace` |
| `CommitsAll` | `Spec => CommitWhole` |
| `RetriesAreBounded` | `Spec => [][Continue => Left(call') < Left(call)]_vars` (`RetriesEnd`) |
| `ManualKept` | if `Settings = {FALSE}`, `Spec => []ManualIsolated` |
| `Implements` | if `Settings = {FALSE}`, `Spec => Atomic` |

The invariant, `TxnInv`, follows a transaction through a call: between calls (`Secured`, `Pending`),
while the request is with the server, and while the answer is on its way.  What makes it
inductive is that the bit `SERVER_STATUS_IN_TRANS` of the client outlives the session
(`UnitInv`: either the writes are durable, or the bit is set and no reconnection happens),
and that no two holders of writes overlap (`PlaceInv`).

`ManualIsolated` is the property that the run `txn_manual` violates where automatic
reconnection may be on; `ManualKept` says that it holds where it is off.  Its invariant
`ManualInv` follows a caller who has switched autocommit off: between calls, while a
request is with the server and when the answer is on its way, the session at the other end
of the link has it off too, and the writes of the transaction are neither durable nor about
to become so (`Kept`).

For `Implements` every step of `TxnSession` is a step of `AtomicStore` or a stutter under
the refinement mapping `Doing`.

`ValuesProofs` proves for any columns, numbers, texts, widths and table size, from
`ValuesAssumption`:

| theorem | statement |
|---|---|
| `ValueTypes` | `Spec => []TypeOK` |
| `ResultsRead` | `Spec => []FieldsRead` |
| `FaultsOnlyThere` | `Spec => []FaultCauses` |
| `ValuesReturn` | `Spec => []RoundTrip` |
| `ConversionsKnown` | `Spec => []Converted` |

A result is built row by row while the buffers still hold what earlier rows left there, so
the invariant says what is in them: `Filled`, the buffer of a column of numbers holds its
latest value that was not NULL, that of a column of texts the value of this row.  `Arrived`
says that the last row is what its parameters arrive as, and `NeverNull` that a prepared
result shows no NULL but in a column of type NULL.  `Converted` follows from these and from
`Arrived`, by cases on the type of the parameter; `ValuesAssumption` says that the marks
`Null` and `Thrown` differ.

`DynColProofs` proves for any names, numbers, values and objects, from `BlobAssumption` and
`DynColAssumption`:

| theorem | statement |
|---|---|
| `ContentsSound` | `Spec => []IInv` |
| `Typed` | `Spec => []TypeOK` |
| `ContentsAreKept` | `Spec => []ContentsKept` |
| `LookupsFind` | `Spec => []LookupsAgree` |
| `VerdictKnown` | `Spec => []CheckVerdict` |
| `BuffersAreLargeEnough` | `Spec => []BuffersHold` |
| `OwnBuffersAreSafe` | `Spec => []FaultsNeedADuplicate` |
| `RefusalsChangeNothing` | `Spec => RefusedCalls` |

All but the last one assume `Flattened`: no value that calls put under a number is a nested
map.  The format does not keep such a column (see Findings), so that what is read back is not
what was written; a slice may even reach behind the data, and what is read there the model
does not say.  TLC's instances keep to it too, so that nothing is shown of such columns.  The offsets are those of the model, of
the shortest length; of blobs with longer ones, and of
removals that make them shorter, nothing is shown.

The invariant says what a blob is, whatever calls led to it: one that was left without
columns, or `Layout(fmt, InOrder(g))` for a map `g` from the keys of its format to values,
where `columns` is `g` with its keys written as names (`Laid`); or, of the objects in `skewed`, some header
of numbers that fits the buffer (`Bent`), of whose contents nothing is claimed, so that
`ContentsAreKept`, `LookupsFind` and `VerdictKnown` are about the other objects
(`Stands` joins the two); that contents are lost
exactly where a length has no buffer (`Told`); and that the buffer holds the blob and, when
the connector allocated it for the object, has the size that it remembers and an increment
to grow by (`Backed`).  From there the work is in the operators:

* `Ordered` lists a finite set of numbers in increasing order, and a sequence of columns in
  which every column of `g` appears once, in order, is `InOrder(g)` (`InOrderIs`).
* The data of a layout are the columns' bytes one after another, so the slice between two
  offsets is the bytes of the column (`Places`, `ColumnsBack`); this is where `Flattened`
  is needed.
* `Merged`, which puts the columns of an update into the old ones one by one, is the layout
  of the overriding map (`MergedIs`); `Without` that of the restricted map (`WithoutIs`);
  and numbers keep their order when they become names (`Renamed`).
* `Search` halves the range until it has found the key or nothing is left (`SearchFinds`,
  by the length of the range).
* The data of a removal in place are as long as before only if all that was removed took no
  bytes (`Shrinks`).  The header is then the right one unless a column comes behind the last that
  goes: `NoBytesAhead`, carried over from names to numbers (`AheadIs`), is that case
  (`LeftIs`).
* A removal in place needs no more room than before (`SizeShrinks`), a buffer that grows
  has the room that was asked for (`GrownIs`).

The library's induction theorems cannot be used here (they have operators as parameters).
Where a definition is recursive, the proof takes the least number for which the fact fails,
which exists because Nat is well-founded (`Least`, `UpTo`); that a recursive function is one
is proved the same way (`Recursion`).

Only model-checked: liveness (`CallReturns` of both modules), which the proof system does
not reach; of the argument for it, `OnlyTwoLoops` and `RetriesAreBounded` prove that the
steps of a call run out, and what is left to TLC is that fairness makes them happen (that
`Continue` is enabled as long as a call runs).  Every other property of a passing run is
stated by a theorem.

## Findings

* **A prepare() that fails, or whose name is taken, frees a linked statement**
  (`handles_unlinked`).  The `shared_ptr` is made without the deleter, so `delete` runs where
  `mysql_stmt_close` should, and the list keeps a node in freed memory.  The next `prepare`,
  `reset`, `close` or the destructor goes through it.
* **With automatic reconnection a transaction of toggle_autocommit(false) may be committed
  write by write** (`txn_manual`).  The bit by which a reconnection is refused is clear until
  the first write; a session that is replaced before has autocommit on, and no call fails.
* **After connect() a name may run another's SQL** (`registry_runs`).  The statements of the
  old session stay executable under their old numbers, which the new session gives again.

Also in the model, without a comment in the code that says otherwise:

* Calls: `exec0(sql)` dereferences NULL when it succeeds; `exec1(sql)` on an empty result
  indexes an empty vector; `exec1` of a prepared query returns the first of several rows,
  the other `exec1` refuses them; a first fetch that fails adds a row of empty buffers, and
  so does `execn` of a prepared query on an empty result; a store that fails gives an empty
  result; `exec1` and `execn` of prepared queries leave the rest of the rows on the wire.
* `reset()` over such rows takes one of them for its answer and returns true: all later
  replies are off by some packets.  Over further announced results it loops while
  `mysql_next_result` fails, that is for ever when the next result is an error or the
  connection is lost (the comment at `lib/mariadb_lib.c:4914` is "skip result sets").
* `reconnect()` returns true when it has failed; `abort()` returns false when it has
  succeeded, because `pvio_socket_shutdown` always returns -1.  `reconnect()` on a live
  connection in a transaction is refused and clears the bit that would keep the next
  reconnection out of it; so does a refused silent one, after which a `ping()` that succeeds
  has replaced the session, and `commit()` succeeds with nothing to commit.
* `connect()` on a connected handle throws, after it has applied the options; a `connect()`
  that fails loses `host_info`, so that automatic reconnection is off until another one.
  `set_prop` is for the process: it changes every connection at its next connect.
* A constructor that throws, a move construction and a move assignment each lose a `MYSQL`
  that `mysql_init` has made.
* Preparing a name again keeps the old statement, also a dead one.
* Parameters: a bool is sent as a byte of type DECIMAL and arrives as 0; an unsigned number
  of the upper half arrives negative (`is_unsigned` is never set); a char in an `sqlstringT`
  arrives empty; `sql_string_types::CHAR` is refused by `mysql_stmt_bind_param`; the bytes of
  a `DynamicColumn` are freed before they are sent (`src/params.cpp:99`); an empty blob
  becomes NULL.
* Results: a NULL number of a prepared query shows the value of an earlier row, or nothing;
  a text longer than 64 bytes is read from behind its buffer; the metadata of a result of
  one column is taken from field 1, the second, though the page `vendor/mariadb-connector-c/man/mysql_fetch_field_direct.3:19`
  wants a number "within the range from 0 to number of fields - 1".  `as<bool>` is true for
  "0", and `as<short>` is the low half of an int.
* A procedure with OUT parameters: `exec` and `execn` of a prepared CALL read the row of the
  parameters and its end, and leave the OK of the CALL on the wire, on a connection whose
  status is READY and whose `server_status` does not say `SERVER_MORE_RESULTS_EXIST`, which is
  all that the test at `lib/mariadb_lib.c:434` asks for: the next request takes that OK for its
  own answer.  It happens where the server does not set the bit for that result set, as the
  comment at `lib/mariadb_stmt.c:2516` says; the flush between two executions and `exec0` have
  workarounds (`Forgets` marks the case).  `exec1` leaves the end of the result set as well,
  and with it a connection that is busy until the statement is executed again.
* The flush of `mysql_stmt_execute` goes round for ever when the connection is lost after an
  announced result or inside OUT parameters: the status that the loop tests stays as it was.
* Removing by number the integer 0 or an empty map, and nothing with bytes, ahead of another
  column spoils the blob: the column removed is shown, with the bytes of what follows, and the
  as many of the last ones are gone (`skewed`).  The test for removal, `tests/dyncol.cpp:80` (a number is removed
  and `exists` is false), has no such value.
* Dynamic columns: `check_format` rejects good blobs, as it demands growing offsets and the
  integer 0 and an empty map take no bytes; a nested map under a number does not keep its
  type, which is 9 where the format has three bits for the type less 1;
  `get(65536 + n)` finds column n, as a number is cut to 16 bits before it is searched;
  `update` and `remove` by number of named columns go through to a part of the connector
  that only asserts that this does not happen; copies and moves of a `DynamicColumn`
  allocate its length but take over its `max_length`, and a moved-from object keeps a length
  without a buffer, which `FaultsNeedADuplicate` delimits.

## Not modelled, and why

* `json()` and the calendar conversions of `DynamicColumn`: pure formatting of a column
  that `Get` has found, with no state and no property beyond its text.
* Floating point, dates and times as parameters and fields: TLC has no such numbers, and
  the code passes them through unchanged.  `long` and `unsigned` conversions are those of
  `int` at another width.
* Options other than `MYSQL_OPT_RECONNECT`: they set limits, formats and the handshake, and
  change no order of calls.  `set_prop` of that one is in TxnSession.
* `Row::operator[]` and `Result::operator[]` accept an index one past the end: a single
  comparison (`src/row.cpp:65`), which a model would only repeat.
* `pvio_socket_is_alive` may take an unread byte for a dead peer: it is asked before a
  command is written, where the properties proved of Session say that nothing is unread.
* The parsing of packets, authentication, TLS, compression, bulk execution, cursors, the
  asynchronous interface, character sets: the connector's, and the wrapper uses none of
  them on its own account.  Allocation failure is left out everywhere.

## Order of the modules, and what a next step would be

`Protocol` and `Session` came first because every program depends on them; `Handles`,
`Registry` and `TxnSession` are about connections that do not live for ever; `DynCol` and
`Values` about values.  What is left: a composition of `Session` and `Registry`, in which a
stream that was abandoned meets a new session.
