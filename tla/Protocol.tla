------------------------------ MODULE Protocol ------------------------------
(***************************************************************************)
(* The replies a MariaDB server sends to one request, as the client reads  *)
(* them: sequences of packets.  The server is not in the repository; the   *)
(* replies are those the reading functions of the connector distinguish    *)
(* (mthd_my_read_query_result, mthd_my_read_rows, stmt_unbuffered_fetch,   *)
(* mthd_stmt_flush_unbuffered).                                            *)
(*                                                                         *)
(*   OK    an OK packet (no result set)                                    *)
(*   ERR   an error packet; it ends the reply                              *)
(*   HDR   the header of a result set with its column definitions          *)
(*   ROW   one row                                                         *)
(*   EOF   the end of a result set                                         *)
(*                                                                         *)
(* "more" and "out" are the bits SERVER_MORE_RESULTS_EXIST and             *)
(* SERVER_PS_OUT_PARAMS of the status the packet carries (a row, which has *)
(* no status, shows the "out" of its result set).  "fresh" is a ghost: the *)
(* packet belongs to the reply to the last request sent.                   *)
(***************************************************************************)
EXTENDS Naturals, Sequences

CONSTANTS
  MaxRows,        \* bound: rows in one result set
  MultiResults    \* whether replies may hold several result sets
                  \* (CLIENT_MULTI_STATEMENTS, CLIENT_MULTI_RESULTS)

ASSUME ProtocolAssumption == MaxRows \in Nat /\ MultiResults \in BOOLEAN

PacketKinds == {"OK", "ERR", "HDR", "ROW", "EOF"}

Packet == [kind : PacketKinds, more : BOOLEAN, out : BOOLEAN, fresh : BOOLEAN]

Pkt(k, m)    == [kind |-> k, more |-> m, out |-> FALSE, fresh |-> TRUE]
OutPkt(k, m) == [kind |-> k, more |-> m, out |-> TRUE, fresh |-> TRUE]

ErrPkt == Pkt("ERR", FALSE)
RowPkt == Pkt("ROW", FALSE)
Rows(r) == [i \in 1..r |-> RowPkt]

\* What is left of earlier replies when a new request goes out.
Stale(w) == [i \in DOMAIN w |-> [w[i] EXCEPT !.fresh = FALSE]]

-----------------------------------------------------------------------------
(* A reply: its packets, and the rows of its first result set (a ghost).   *)

Reply == [pkts : Seq(Packet), rows : Nat]

OkReply(m)        == [pkts |-> <<Pkt("OK", m)>>, rows |-> 0]
ErrReply          == [pkts |-> <<ErrPkt>>, rows |-> 0]
ResultSet(r, m)   == [pkts |-> <<Pkt("HDR", m)>> \o Rows(r) \o <<Pkt("EOF", m)>>,
                      rows |-> r]
\* The statement fails on the server after some rows have been sent.
Broken(r, m)      == [pkts |-> <<Pkt("HDR", m)>> \o Rows(r) \o <<ErrPkt>>,
                      rows |-> r]
\* The values of the OUT parameters of a procedure, one row of them.
OutSet(m)         == [pkts |-> <<OutPkt("HDR", m), OutPkt("ROW", FALSE), OutPkt("EOF", m)>>,
                      rows |-> 1]
Followed(a, b)    == [pkts |-> a.pkts \o b.pkts, rows |-> a.rows]

Whole(m)  == {OkReply(m)} \cup {ResultSet(r, m) : r \in 0..MaxRows}
Failed(m) == {ErrReply} \cup {Broken(r, m) : r \in 0..MaxRows}

\* Replies to a text query of one or, with CLIENT_MULTI_STATEMENTS, two statements.
FirstReplies == Whole(TRUE)
LastReplies  == Whole(FALSE) \cup Failed(FALSE)
TwoReplies   == {Followed(a, b) : a \in FirstReplies, b \in LastReplies}
TextReplies  == LastReplies \cup (IF MultiResults THEN TwoReplies ELSE {})

\* Replies to a command that returns no rows (ping, reset, commit, SET autocommit).
AckReplies == {OkReply(FALSE), ErrReply}

\* Replies to COM_STMT_EXECUTE, by the kind of SQL the statement holds.  The one
\* or two result sets of a procedure are followed by the result of the CALL itself.
\* When the last of them has the OUT parameters, the CALL has succeeded, and the
\* server may or may not announce its result with "more".
QueryReplies == {ResultSet(r, FALSE) : r \in 0..MaxRows} \cup Failed(FALSE)
CallFailures == Failed(TRUE)
CallResults  == {ResultSet(r, TRUE) : r \in 0..MaxRows}
CallEnds     == AckReplies \cup {Followed(ResultSet(1, TRUE), a) : a \in AckReplies}
OutReplies   == {Followed(OutSet(m), OkReply(FALSE)) : m \in BOOLEAN}
CallReplies  == {Followed(a, b) : a \in CallResults, b \in CallEnds \cup OutReplies}
                  \cup OutReplies \cup CallFailures

StmtReplies(k) ==
  CASE k = "select" -> QueryReplies
    [] k = "dml"    -> AckReplies
    [] k = "call"   -> AckReplies \cup (IF MultiResults THEN CallReplies ELSE {})
=============================================================================
