------------------------------- MODULE Session -------------------------------
(***************************************************************************)
(* One connected mcxx::Connection, the prepared statements registered on   *)
(* it and the mcxx::Transaction calls made through it, down to the         *)
(* MYSQL / MYSQL_STMT state of the connector that decides what each call   *)
(* may send and which packets it reads.  A call is a sequence of steps     *)
(* (send the request, read a packet, ...); between two steps the server    *)
(* may drop the connection.  A connection is used by one thread, so one    *)
(* call runs at a time.                                                    *)
(*                                                                         *)
(* MYSQL_OPT_RECONNECT has its default (off, extra_props.hpp), and the     *)
(* statements have been prepared before Init.                              *)
(***************************************************************************)
EXTENDS Protocol, FiniteSets

CONSTANTS
  Stmts,      \* the statements in Connection::prepped_statements
  Kind,       \* what SQL each holds: "select", "dml" or "call"
  NoStmt,     \* no statement
  MaxN        \* bound: the argument n of execn

ASSUME SessionAssumption ==
  /\ Kind \in [Stmts -> {"select", "dml", "call"}]
  /\ NoStmt \notin Stmts
  /\ MaxN \in Nat

VARIABLES
  link,     \* MYSQL.net.pvio and its peer: "up"; "cut": the server has gone,
            \* unnoticed; "down": pvio is NULL; "closed": db_handle is NULL
  ver,      \* MYSQL.server_version is set
  status,   \* MYSQL.status
  more,     \* SERVER_MORE_RESULTS_EXIST in MYSQL.server_status
  out,      \* SERVER_PS_OUT_PARAMS in MYSQL.server_status
  wire,     \* packets sent by the server and not read yet
  st,       \* MYSQL_STMT.state of each statement
  fc,       \* MYSQL_STMT.field_count > 0
  att,      \* the statements whose MYSQL_STMT.mysql is not NULL
  pc,       \* what the running call does next; "idle" between calls
  call,     \* the running call
  ret,      \* between calls, the last call and how it ended
  taint     \* ghost: a call has left a statement or the wire out of step

conn   == <<link, ver, status, more, out, wire>>
stmts  == <<st, fc, att>>
vars   == <<link, ver, status, more, out, wire, st, fc, att, pc, call, ret, taint>>

-----------------------------------------------------------------------------
TextOps == {"exec", "exec0", "exec1", "execn", "commit"}  \* commit: also rollback, toggle_autocommit
StmtOps == {"exec", "exec0", "exec1", "execn"}
ConnOps == {"ping", "reset", "reconnect", "abort", "close", "connect"}  \* ping: also svr_reload

Call == [op   : TextOps \cup ConnOps \cup {"none"},
         s    : Stmts \cup {NoStmt},
         n    : 0..MaxN,       \* argument of execn
         got  : Nat,           \* rows appended after a successful fetch
         junk : Nat,           \* rows appended after a failed one
         sent : Nat]           \* ghost: rows in the reply's first result set

NewCall(o, s, n) == [op |-> o, s |-> s, n |-> n, got |-> 0, junk |-> 0, sent |-> 0]
NoCall == NewCall("none", NoStmt, 0)

RetKinds == {"none", "result", "nullopt", "row", "done", "throw", "length",
             "true", "false", "crash"}

Ret == [call : Call, kind : RetKinds]
NoRet == [call |-> NoCall, kind |-> "none"]

PCs == {"idle", "crashed", "garbled",
        "header", "store",                                        \* text queries
        "flush", "flushnext", "execsend", "exechdr",              \* mysql_stmt_execute
        "first", "next", "stmtstore",                             \* fetching
        "drain", "resetsend", "ack"}                              \* reset, ping

\* INITTED never occurs with reconnection off; BUFFERED is USE_OR_STORE_CALLED
\* with the rows in stmt->result, FETCHING the same state or USER_FETCHING
\* with the rows still on the wire.
States == {"PREPARED", "EXECUTED", "WAITING", "BUFFERED", "FETCHING", "DONE"}

TypeOK ==
  /\ link \in {"up", "cut", "down", "closed"}
  /\ ver \in BOOLEAN
  /\ status \in {"READY", "GET", "STMT"}
  /\ more \in BOOLEAN /\ out \in BOOLEAN
  /\ wire \in Seq(Packet)
  /\ st \in [Stmts -> States]
  /\ fc \in [Stmts -> BOOLEAN]
  /\ att \in SUBSET Stmts
  /\ pc \in PCs
  /\ call \in Call
  /\ ret \in Ret
  /\ taint \in BOOLEAN

Init ==
  /\ link = "up" /\ ver = TRUE /\ status = "READY" /\ more = FALSE /\ out = FALSE /\ wire = <<>>
  /\ st = [s \in Stmts |-> "PREPARED"]
  /\ fc = [s \in Stmts |-> Kind[s] = "select"]
  /\ att = Stmts
  /\ pc = "idle" /\ call = NoCall /\ ret = NoRet
  /\ taint = FALSE

-----------------------------------------------------------------------------
(* The ends of a call, and the two primitives of the connector.            *)

\* The call c ends: it returns, throws, or hits undefined behaviour.
Return(c, k) ==
  /\ pc' = IF k = "crash" THEN "crashed" ELSE "idle"
  /\ ret' = [call |-> c, kind |-> k]
  /\ call' = NoCall

\* The call goes on, as c, at p.
GotoWith(c, p) == pc' = p /\ call' = c /\ ret' = NoRet
Goto(p) == GotoWith(call, p)

Readable == link # "down" /\ wire # <<>>

\* ma_net_safe_read takes the next packet, of one of the kinds ks ...
Read(ks) == Readable /\ Head(wire).kind \in ks /\ wire' = Tail(wire) /\ link' = link

\* ... where the reply to the request just sent should start: what is left of
\* another request's reply is taken for it.  What the client then makes of it
\* is not modelled: pc = "garbled" ends the behaviour.
ReadHeader(ks) == Read(ks) /\ Head(wire).fresh
Misreads == Read(PacketKinds) /\ ~Head(wire).fresh /\ Goto("garbled")

\* ... or meets the end of the stream or MYSQL_OPT_READ_TIMEOUT: end_server.
ReadFails == ~Readable /\ link' = "down" /\ wire' = <<>>

\* The status bits come with a packet; an error packet clears the first only.
TakeStatusNever == UNCHANGED <<more, out>>    \* mutant: the bits are never looked at
TakeStatus == /\ more' = Head(wire).more
              /\ out' = IF Head(wire).kind = "ERR" THEN out ELSE Head(wire).out

\* mthd_my_send_cmd for the call c: refused on a dead link (reconnection is
\* off) or out of sync, lost with the link, or sent and answered.
SendCmd(c, busy, replies, next, failure) ==
  \/ /\ link = "down" \/ busy
     /\ Return(c, failure)
     /\ UNCHANGED <<link, wire>>
  \/ /\ link = "cut" /\ ~busy
     /\ \/ link' = "down" /\ wire' = <<>> /\ Return(c, failure)
        \/ link' = link /\ wire' = Stale(wire) /\ GotoWith(c, next)
  \/ /\ link = "up" /\ ~busy
     /\ \E r \in replies :
          /\ link' = link
          /\ wire' = Stale(wire) \o r.pkts
          /\ GotoWith([c EXCEPT !.sent = r.rows], next)

BusyMore == more                  \* mutant: an open result forgotten

Busy == status # "READY" \/ more

-----------------------------------------------------------------------------
(* Transaction calls with SQL text.                                        *)

\* exec(sql), exec0(sql), exec1(sql), execn(n, sql): the is_connected() check
\* and mysql_real_query.  is_connected() searches server_version, NULL after
\* a failed connect(); a commit on a closed connection passes a NULL handle.
TextCall(o, n) ==
  LET c == NewCall(o, NoStmt, n)
  IN  /\ pc = "idle"
      /\ n = 0 \/ o = "execn"
      /\ \/ /\ link = "closed"
            /\ Return(c, IF o = "commit" THEN "crash" ELSE "throw")
            /\ UNCHANGED <<link, wire>>
         \/ /\ link # "closed" /\ ~ver /\ o # "commit"
            /\ Return(c, "crash")
            /\ UNCHANGED <<link, wire>>
         \/ /\ link # "closed"
            /\ ver \/ o = "commit"
            /\ SendCmd(c, Busy, IF o = "commit" THEN AckReplies ELSE TextReplies,
                       "header", "throw")
      /\ UNCHANGED <<ver, status, more, out, stmts, taint>>

\* What a call makes of a statement without a result set.  exec0(sql) passes
\* the NULL of mysql_store_result to mysql_num_rows.
NoResultSetUnchecked(o) ==    \* mutant: exec without its field_count check
  CASE o \in {"exec", "exec0"} -> "crash"
    [] o = "execn"  -> "nullopt"
    [] o = "exec1"  -> "length"
    [] o = "commit" -> "done"

NoResultSet(o) ==
  CASE o \in {"exec", "execn"} -> "nullopt"
    [] o = "exec0"  -> "crash"
    [] o = "exec1"  -> "length"
    [] o = "commit" -> "done"

\* mysql_read_query_result: the header of the reply.
Header ==
  /\ pc = "header"
  /\ \/ ReadFails /\ Return(call, "throw") /\ UNCHANGED <<status, more, out>>
     \/ ReadHeader({"ERR"}) /\ TakeStatus /\ Return(call, "throw") /\ UNCHANGED status
     \/ ReadHeader({"OK"}) /\ TakeStatus /\ Return(call, NoResultSet(call.op)) /\ UNCHANGED status
     \/ ReadHeader({"HDR"}) /\ TakeStatus /\ status' = "GET" /\ Goto("store")
     \/ Misreads /\ UNCHANGED <<status, more, out>>
  /\ UNCHANGED <<ver, stmts, taint>>

\* mysql_store_result and the size checks after it; when the read fails it
\* returns NULL, which Result{} takes for an empty result.  exec1(sql) indexes
\* the first row of what may be an empty vector.
StoreFailed(o) == IF o \in {"exec", "execn"} THEN "result" ELSE "crash"

Stored(c) ==
  CASE c.op = "exec"  -> "result"
    [] c.op = "exec0" -> "length"
    [] c.op = "exec1" -> IF c.got = 0 THEN "crash" ELSE IF c.got = 1 THEN "row" ELSE "length"
    [] c.op = "execn" -> IF c.got > c.n THEN "length" ELSE "result"
    [] OTHER -> "done"

Store ==
  /\ pc = "store"
  /\ status' = "READY"
  /\ \/ /\ ReadFails
        /\ Return([call EXCEPT !.got = 0], StoreFailed(call.op))
        /\ UNCHANGED <<more, out>>
     \/ /\ Read({"ERR"}) /\ TakeStatus
        /\ Return([call EXCEPT !.got = 0], StoreFailed(call.op))
     \/ /\ Read({"EOF"}) /\ TakeStatus
        /\ Return(call, Stored(call))
     \/ /\ Read({"ROW"})
        /\ GotoWith([call EXCEPT !.got = @ + 1], "store")
        /\ UNCHANGED <<more, out>>
  /\ UNCHANGED <<ver, stmts, taint>>

-----------------------------------------------------------------------------
(* Transaction calls with a prepared statement: mysql_stmt_execute.        *)

\* The parameter check, mysql_stmt_bind_param, and the start of execute: a
\* statement that waits for its rows takes the open stream for its own, and
\* one that is being read is flushed first.
StmtCall(o, s, n) ==
  LET c == NewCall(o, s, n)
      adopted == IF st[s] = "WAITING" /\ status = "STMT" THEN "FETCHING" ELSE st[s]
  IN  /\ pc = "idle"
      /\ n = 0 \/ o = "execn"
      /\ \/ Return(c, "length") /\ UNCHANGED st         \* wrong number of parameters
         \/ s \notin att /\ Return(c, "throw") /\ UNCHANGED st
         \/ /\ s \in att
            /\ st' = [st EXCEPT ![s] = adopted]
            /\ GotoWith(c, IF adopted = "FETCHING" THEN "flush" ELSE "execsend")
      /\ UNCHANGED <<conn, fc, att, taint>>

\* mysql_stmt_more_results, of the status after the read.
MoreResultsOnly == more'           \* mutant: the OUT parameters forgotten
MoreResults == more' \/ out'

\* mthd_stmt_flush_unbuffered, repeated while mysql_stmt_more_results.  With
\* "flush" it is inside a result set, with "flushnext" before one; m is the
\* loop condition.
FlushStops(m, state, s) ==
  IF m
  THEN st' = [st EXCEPT ![call.s] = "DONE"] /\ Goto("flushnext") /\ UNCHANGED status
  ELSE st' = [st EXCEPT ![call.s] = state] /\ status' = s /\ Goto("execsend")

FlushInitted(m) == FlushStops(m, "INITTED", "READY")      \* mutant: unprepared
FlushBusy(m) == FlushStops(m, "PREPARED", status)         \* mutant: status kept
FlushInverted(m) == FlushStops(~m, "PREPARED", "READY")   \* mutant: loop condition inverted
FlushEnds(m) == FlushStops(m, "PREPARED", "READY")

Flush ==
  /\ pc \in {"flush", "flushnext"}
  /\ \/ ReadFails /\ UNCHANGED <<more, out>> /\ FlushEnds(MoreResults)
     \/ Read({"ERR"}) /\ TakeStatus /\ FlushEnds(MoreResults)
     \/ /\ pc = "flush"
        /\ \/ Read({"EOF"}) /\ TakeStatus /\ FlushEnds(MoreResults)
           \/ Read({"ROW"}) /\ Goto("flush") /\ UNCHANGED <<status, more, out, st>>
     \/ /\ pc = "flushnext"
        /\ \/ Read({"OK"}) /\ TakeStatus /\ FlushEnds(MoreResults)
           \/ Read({"HDR"}) /\ TakeStatus /\ Goto("flush") /\ UNCHANGED <<status, st>>
     \/ /\ Read(IF pc = "flush" THEN {"OK", "HDR"} ELSE {"ROW", "EOF"})    \* not such a reply
        /\ Goto("garbled") /\ UNCHANGED <<status, more, out, st>>
  /\ UNCHANGED <<ver, fc, att, taint>>

\* The request of mysql_stmt_execute.  Rows stored by an earlier call are freed
\* first, so if the request is refused the statement counts as being read.
ExecSend ==
  LET s == call.s
  IN  /\ pc = "execsend"
      /\ SendCmd(call, Busy, StmtReplies(Kind[s]), "exechdr", "throw")
      /\ st' = [st EXCEPT ![s] = IF @ = "BUFFERED" THEN "FETCHING" ELSE @]
      /\ taint' = (taint \/ (st[s] = "BUFFERED" /\ pc' = "idle"))
      /\ UNCHANGED <<ver, status, more, out, fc, att>>

\* mthd_stmt_read_execute_response, and what the call does without a result
\* set.  field_count keeps the value of an earlier execution.
NoStmtResult(o) ==
  CASE o \in {"exec", "execn"} -> "nullopt"
    [] o = "exec0" -> "done"
    [] o = "exec1" -> "length"

ExecHeader ==
  LET s == call.s
      state(x) == st' = [st EXCEPT ![s] = x]
  IN  /\ pc = "exechdr"
      /\ \/ ReadFails /\ state("PREPARED") /\ Return(call, "throw") /\ UNCHANGED <<status, more, out, fc>>
         \/ /\ ReadHeader({"ERR"}) /\ TakeStatus
            /\ state("PREPARED") /\ Return(call, "throw") /\ UNCHANGED <<status, fc>>
         \/ /\ ReadHeader({"OK"}) /\ TakeStatus
            /\ state("EXECUTED")
            /\ IF ~fc[s] THEN Return(call, NoStmtResult(call.op))
               ELSE IF call.op = "exec0" THEN Return(call, "length")
               ELSE Goto("first")
            /\ UNCHANGED <<status, fc>>
         \/ /\ ReadHeader({"HDR"}) /\ TakeStatus
            /\ state("WAITING")
            /\ status' = "STMT"
            /\ \/ /\ fc' = [fc EXCEPT ![s] = TRUE]
                  /\ Goto(IF call.op = "exec0" THEN "stmtstore" ELSE "first")
               \/ /\ fc[s] /\ ~Head(wire).more          \* table altered: CR_NEW_STMT_METADATA
                  /\ Return(call, "throw")
                  /\ UNCHANGED fc
         \/ Misreads /\ UNCHANGED <<status, more, out, st, fc>>
      /\ UNCHANGED <<ver, att, taint>>

-----------------------------------------------------------------------------
(* Reading the rows of a prepared statement.                               *)

\* mysql_stmt_fetch: rc is 0 ("ROW"), MYSQL_NO_DATA or an error.  The end of a result
\* set is read without its status: one of OUT parameters that does not announce the
\* result of the CALL leaves that result behind.
Forgets(rc) == rc = "NODATA" /\ st[call.s] # "DONE" /\ out /\ ~more

Fetch(rc) ==
  LET s == call.s
      ends == st' = [st EXCEPT ![s] = "DONE"] /\ status' = "READY"
  IN  /\ \/ /\ st[s] = "EXECUTED" /\ rc = "ERROR"
            /\ UNCHANGED <<link, wire, status, more, out, st>>
         \/ /\ st[s] = "DONE" /\ rc = "NODATA"
            /\ UNCHANGED <<link, wire, status, more, out, st>>
         \/ /\ st[s] \in {"WAITING", "FETCHING"}
            /\ \/ ReadFails /\ rc = "ERROR" /\ ends /\ UNCHANGED <<more, out>>
               \/ Read({"ERR"}) /\ TakeStatus /\ rc = "ERROR" /\ ends
               \/ Read({"EOF"}) /\ rc = "NODATA" /\ ends /\ UNCHANGED <<more, out>>
               \/ /\ Read({"ROW"}) /\ rc = "ROW"
                  /\ st' = [st EXCEPT ![s] = "FETCHING"]
                  /\ UNCHANGED <<status, more, out>>
      /\ taint' = (taint \/ Forgets(rc))

\* A Row is built from the bind buffers, whatever the fetch has put there.
Appended(rc) == IF rc = "ROW" THEN [call EXCEPT !.got = @ + 1]
                              ELSE [call EXCEPT !.junk = @ + 1]

\* The fetch before the loop, whose outcome exec compares with MYSQL_NO_DATA
\* only and execn not at all; exec1 fetches just once.
FirstFetch ==
  /\ pc = "first"
  /\ \E rc \in {"ROW", "NODATA", "ERROR"} :
       /\ Fetch(rc)
       /\ \/ /\ call.op = "exec"
             /\ IF rc = "NODATA" THEN Return(call, "result") ELSE GotoWith(Appended(rc), "next")
          \/ /\ call.op = "execn"
             /\ IF call.n = 0 THEN Return(call, "result") ELSE GotoWith(Appended(rc), "next")
          \/ /\ call.op = "exec1"
             /\ IF rc = "NODATA" THEN Return(call, "throw") ELSE Return(Appended(rc), "row")
  /\ UNCHANGED <<ver, fc, att>>

\* execn leaves the loop when the row after the n-th has been fetched.
EnoughLate(c) == c.op = "execn" /\ c.got + c.junk > c.n   \* mutant: off by one
Enough(c) == c.op = "execn" /\ c.got + c.junk = c.n

\* Mutant: the loop of exec looks for MYSQL_NO_DATA only, as the fetch before it does.
NextFetchBlind ==
  /\ pc = "next"
  /\ \E rc \in {"ROW", "NODATA", "ERROR"} :
       /\ Fetch(rc)
       /\ IF rc = "NODATA" \/ (rc = "ROW" /\ Enough(call))
          THEN Return(call, "result")
          ELSE GotoWith(Appended(rc), "next")
  /\ UNCHANGED <<ver, fc, att>>

\* The fetches of the loop.
NextFetch ==
  /\ pc = "next"
  /\ \E rc \in {"ROW", "NODATA", "ERROR"} :
       /\ Fetch(rc)
       /\ \/ rc = "NODATA" /\ Return(call, "result")
          \/ rc = "ERROR"  /\ Return(call, "throw")
          \/ /\ rc = "ROW"
             /\ IF Enough(call)
                THEN Return(call, "result")
                ELSE GotoWith(Appended(rc), "next")
  /\ UNCHANGED <<ver, fc, att>>

\* mysql_stmt_store_result of exec0, whose error is not looked at: the
\* statement then stays as execute left it, waiting for its rows.  After OUT
\* parameters the result of the CALL counts as announced.
StoreStmt ==
  LET s == call.s
  IN  /\ pc = "stmtstore"
      /\ \/ /\ \/ ReadFails /\ UNCHANGED <<more, out>>
               \/ Read({"ERR"}) /\ TakeStatus
            /\ status' = "READY" /\ taint' = TRUE
            /\ Return([call EXCEPT !.got = 0], "length")
            /\ UNCHANGED st
         \/ /\ Read({"EOF"})
            /\ more' = (Head(wire).more \/ out) /\ out' = Head(wire).out
            /\ status' = "READY"
            /\ st' = [st EXCEPT ![s] = IF call.got = 0 THEN "DONE" ELSE "BUFFERED"]
            /\ Return(call, "length")
            /\ UNCHANGED taint
         \/ /\ Read({"ROW"})
            /\ GotoWith([call EXCEPT !.got = @ + 1], "stmtstore")
            /\ UNCHANGED <<status, more, out, st, taint>>
      /\ UNCHANGED <<ver, fc, att>>

-----------------------------------------------------------------------------
(* Connection calls.                                                       *)

PingCall ==
  LET c == NewCall("ping", NoStmt, 0)
  IN  /\ pc = "idle"
      /\ \/ link = "closed" /\ Return(c, "false") /\ UNCHANGED <<link, wire>>
         \/ link # "closed" /\ SendCmd(c, Busy, AckReplies, "ack", "false")
      /\ UNCHANGED <<ver, status, more, out, stmts, taint>>

\* mysql_reset_connection: read on while more results are announced, then send
\* COM_RESET_CONNECTION.  It also skips a text result; a Transaction call never
\* leaves one unread, so that branch is never taken.
ResetCall ==
  LET c == NewCall("reset", NoStmt, 0)
  IN  /\ pc = "idle"
      /\ \/ link = "closed" /\ Return(c, "false") /\ UNCHANGED taint
         \/ /\ link # "closed"
            /\ GotoWith(c, IF more THEN "drain" ELSE "resetsend")
            /\ taint' = (taint \/ Busy)
      /\ UNCHANGED <<conn, stmts>>

\* while (mysql_next_result(mysql)): the loop ends when a further result has
\* been read, and goes round again when there is none, on an error, and when
\* the connection is busy with a statement's rows.
Drain ==
  /\ pc = "drain"
  /\ \/ /\ status = "READY" /\ more
        /\ \/ ReadFails /\ Goto("drain") /\ UNCHANGED <<more, out>>
           \/ Read({"ERR"}) /\ TakeStatus /\ Goto("drain")
           \/ Read({"OK", "HDR"}) /\ TakeStatus /\ Goto("resetsend")
           \/ Read({"ROW", "EOF"}) /\ Goto("garbled") /\ UNCHANGED <<more, out>>
     \/ (status # "READY" \/ ~more) /\ Goto("drain") /\ UNCHANGED <<link, wire, more, out>>
  /\ UNCHANGED <<ver, status, stmts, taint>>

ResetSend ==
  /\ pc = "resetsend"
  /\ status' = "READY"
  /\ SendCmd(call, more, AckReplies, "ack", "false")
  /\ UNCHANGED <<ver, more, out, stmts, taint>>

\* The answer to a ping or a reset: any packet but an error packet will do.
\* A reset detaches every statement (ma_invalidate_stmts).
Ack ==
  /\ pc = "ack"
  /\ \/ ReadFails /\ Return(call, "false") /\ UNCHANGED <<more, out, att>>
     \/ Read({"ERR"}) /\ TakeStatus /\ Return(call, "false") /\ UNCHANGED att
     \/ /\ Read({"OK", "HDR", "ROW", "EOF"})
        /\ Return(call, "true")
        /\ att' = IF call.op = "reset" THEN {} ELSE att
        /\ UNCHANGED <<more, out>>
  /\ UNCHANGED <<ver, status, st, fc, taint>>

\* The connection breaks; the client can still read what had arrived.
Breaks == /\ link' = "cut"
          /\ \E k \in 0..Len(wire) : wire' = SubSeq(wire, 1, k)

\* mariadb_cancel shuts the socket down; pvio_socket_shutdown says -1 for every
\* outcome, so abort() reports a failure also when it has succeeded.
AbortCall ==
  /\ pc = "idle"
  /\ Return(NewCall("abort", NoStmt, 0), "false")
  /\ IF link = "up" THEN Breaks ELSE UNCHANGED <<link, wire>>
  /\ UNCHANGED <<ver, status, more, out, stmts, taint>>

\* mysql_close detaches every statement; the registry keeps them.
CloseCall ==
  /\ pc = "idle"
  /\ Return(NewCall("close", NoStmt, 0), "done")
  /\ link' = "closed" /\ wire' = <<>>
  /\ status' = "READY" /\ more' = FALSE /\ out' = FALSE
  /\ att' = {}
  /\ UNCHANGED <<ver, st, fc, taint>>

\* connect() again on the same handle: refused while pvio is set.  A new
\* session leaves the statements as they are; a failure frees server_version.
ConnectCall ==
  LET c == NewCall("connect", NoStmt, 0)
  IN  /\ pc = "idle"
      /\ \/ link = "closed" /\ Return(c, "crash") /\ UNCHANGED <<link, ver, more, out>>
         \/ link \in {"up", "cut"} /\ Return(c, "throw") /\ UNCHANGED <<link, ver, more, out>>
         \/ /\ link = "down"
            /\ more' = FALSE /\ out' = FALSE
            /\ \/ link' = "up" /\ ver' = TRUE /\ Return(c, "done")
               \/ link' = link /\ ver' = FALSE /\ Return(c, "throw")
      /\ UNCHANGED <<status, wire, stmts, taint>>

\* mariadb_reconnect refuses while MYSQL_OPT_RECONNECT is off and returns 1,
\* which reconnect() hands on as true.
ReconnectCall ==
  /\ pc = "idle"
  /\ Return(NewCall("reconnect", NoStmt, 0), IF link = "closed" THEN "false" ELSE "true")
  /\ UNCHANGED <<conn, stmts, taint>>

-----------------------------------------------------------------------------
\* The server goes away, or stops answering, at any moment.
Cut ==
  /\ link = "up"
  /\ Breaks
  /\ UNCHANGED <<ver, status, more, out, stmts, pc, call, ret, taint>>

Begin ==
  \/ \E o \in TextOps, n \in 0..MaxN : TextCall(o, n)
  \/ \E o \in StmtOps, s \in Stmts, n \in 0..MaxN : StmtCall(o, s, n)
  \/ PingCall \/ ResetCall \/ ReconnectCall \/ AbortCall \/ CloseCall \/ ConnectCall

Continue ==
  \/ Header \/ Store
  \/ Flush \/ ExecSend \/ ExecHeader
  \/ FirstFetch \/ NextFetch \/ StoreStmt
  \/ Drain \/ ResetSend \/ Ack

\* The process is gone, or past what is modelled.
Halted == pc \in {"crashed", "garbled"} /\ UNCHANGED vars

Next == Begin \/ Continue \/ Cut \/ Halted

Spec == Init /\ [][Next]_vars

\* The thread that made a call goes on with it: the reads of the connector
\* return within MYSQL_OPT_READ_TIMEOUT.  Nothing obliges it to make a call,
\* and nothing makes the server fail.
FairSpec == Spec /\ WF_vars(Continue)

-----------------------------------------------------------------------------
(* Safety.  taint is set by the four uses of the interface after which     *)
(* the client state no longer describes the wire: a reset() while a result *)
(* is open, an exec0 of a prepared query that fails while its rows are     *)
(* read, a refused execution of a statement whose rows exec0 stored, and   *)
(* an exec or execn that reads the OUT parameters of a CALL to their end   *)
(* when they do not announce its result (Forgets).                         *)

\* The statements whose rows are on the wire, as mysql_stmt_execute and
\* mysql_stmt_fetch go by.
Streams == {s \in att : st[s] \in {"WAITING", "FETCHING"}}

Free == status = "READY" /\ Streams = {}
HeldBy(s) == status = "STMT" /\ Streams = {s}

\* Between calls the connection is free, or held by the one statement that is
\* still being read (what exec1 and execn leave behind): the connection's
\* status and the states of its statements agree: mysql_stmt_execute decides by
\* the statement's state whether to flush the stream, and mthd_my_send_cmd by
\* the connection's status whether the next request may go out.
StreamOwner ==
  ~taint /\ pc = "idle" => Free \/ \E s \in Stmts : HeldBy(s)

\* The inductive form of StreamOwner: which call is at which step, and who
\* holds the connection there.
StmtPCs == {"execsend", "flush", "flushnext", "exechdr", "first", "next", "stmtstore"}

CallInv ==
  /\ pc \in {"header", "store"} => call.op \in TextOps
  /\ pc \in StmtPCs => call.op \in StmtOps /\ call.s \in att

StreamShape ==
  /\ pc # "drain"
  /\ pc = "idle" => Free \/ \E s \in Stmts : HeldBy(s)
  /\ pc = "execsend" => Free \/ \E s \in Stmts \ {call.s} : HeldBy(s)
  /\ pc \in {"header", "resetsend", "ack"} => Free
  /\ pc = "store" => status # "STMT" /\ Streams = {}
  /\ pc \in {"flush", "flushnext"} => status = "STMT" /\ Streams \subseteq {call.s}
  /\ pc = "exechdr" => status = "READY" /\ Streams \subseteq {call.s}
  /\ pc \in {"first", "next"} => Free \/ HeldBy(call.s)
  /\ pc = "stmtstore" => HeldBy(call.s)

StreamInv == CallInv /\ (~taint => StreamShape)

\* Between calls nothing of an earlier reply is left on a connection that
\* would accept the next request, so the next answer read is the right one.
NothingLeftOver ==
  ~taint /\ pc = "idle" /\ ~Busy => wire = <<>>

\* No call takes part of another request's reply for its own.
RepliesMatch ==
  ~taint => /\ pc # "garbled"
            /\ pc # "idle" => \A i \in DOMAIN wire : wire[i].fresh

\* A statement cannot be executed again only because more results of the last
\* request are announced, or another statement is being read: its own unread
\* rows never stand in the way (tests/transaction.cpp runs one statement
\* through exec, exec1, exec0 and execn in turn).
RefusedOnlyForOthers ==
  ~taint /\ pc = "execsend" /\ Busy => more \/ \E t \in Stmts \ {call.s} : HeldBy(t)

\* No call waits for a packet the server has no reason to send (it would hang
\* for MYSQL_OPT_READ_TIMEOUT, then lose the connection).
NoStall ==
  /\ ~taint
  /\ link = "up"
  /\ \/ pc \in {"header", "store", "flush", "flushnext", "exechdr", "stmtstore", "ack"}
     \/ pc \in {"first", "next"} /\ call.s \in Streams
  => wire # <<>>

\* A lost connection is always one that connect() can take up again: with any
\* other status every later command would be refused as out of sync.  LostInv
\* is the inductive form.
LostInv ==
  /\ link = "down" => wire = <<>> /\ (status = "READY" \/ pc \in {"flush", "flushnext"})
  /\ link = "closed" => wire = <<>> /\ att = {} /\ pc \in {"idle", "crashed"}
  /\ pc \in {"header", "exechdr", "ack"} => status = "READY"
LostIsReady == link = "down" /\ pc = "idle" => status = "READY"

\* A result that is handed back is never a part of what was asked for: it has
\* all the rows (execn: the first n), or none because the store failed, or the
\* one row that a failed first fetch leaves in the buffers.
WholeOrNothing ==
  LET c == ret.call
      asked == IF c.op = "execn" /\ c.s # NoStmt /\ c.n < c.sent THEN c.n ELSE c.sent
  IN  /\ ret.kind = "result" =>
           \/ c.junk = 0 /\ c.got = asked
           \/ c.junk = 0 /\ c.got = 0 /\ c.s = NoStmt
           \/ c.junk = 1 /\ c.got = 0 /\ c.s # NoStmt
      /\ ret.kind = "row" => c.got + c.junk = 1 /\ (c.s = NoStmt => c.sent = 1)

\* The calls that dereference a null handle or index an empty vector, and no
\* other: exec0(sql) when it succeeds or cannot read its rows, exec1(sql)
\* without a row, commit() and connect() after close(), and a text call after
\* a failed connect().
CrashCauses ==
  pc = "crashed" =>
    LET c == ret.call
    IN  \/ c.op = "exec0" /\ c.s = NoStmt
        \/ c.op = "exec1" /\ c.s = NoStmt /\ c.got = 0
        \/ c.op \in {"commit", "connect"} /\ link = "closed"
        \/ c.op \in {"exec", "execn"} /\ ~ver

(* Action properties.                                                      *)

\* The rows of a statement are read by that statement's calls alone.
OnlyOwnerReads ==
  [][~taint /\ ~taint' /\ status = "STMT" /\ wire' # wire /\ link' = link
       => call.s \in Stmts /\ (st[call.s] \in {"WAITING", "FETCHING"} \/ pc \in {"flush", "flushnext"})]_vars

\* The phases of a call, counted from its end, and the two loops of the
\* connector that can go round without anything having come: the flush of
\* mysql_stmt_execute and mysql_next_result of reset(), where more results are
\* announced that cannot be read, or are not there to be read.
Phase(p) ==
  CASE p \in {"idle", "crashed", "garbled"}         -> 0
    [] p \in {"store", "next", "stmtstore", "ack"}  -> 1
    [] p \in {"header", "first", "resetsend"}       -> 2
    [] p \in {"exechdr", "drain"}                   -> 3
    [] p = "execsend"                               -> 4
    [] p \in {"flush", "flushnext"}                 -> 5

Spins ==
  \/ pc \in {"flush", "flushnext"} /\ (more \/ out) /\ ~Readable
  \/ pc = "drain" /\ more /\ ~Readable
  \/ pc = "drain" /\ (status # "READY" \/ ~more)

\* Nothing else repeats: every other step of a call takes it to a later phase or
\* takes a packet off the wire, so that a call ends after as many steps as there
\* are phases and packets, whatever the server sends and whenever it goes away.
Advances ==
  [][Continue /\ ~Spins => \/ Phase(pc') < Phase(pc)
                           \/ Phase(pc') = Phase(pc) /\ Len(wire') < Len(wire)]_vars

(* Liveness.                                                               *)

\* Every call returns.
CallReturns == pc \notin {"idle", "crashed", "garbled"} ~> pc \in {"idle", "crashed", "garbled"}

=============================================================================
