----------------------------- MODULE TxnSession -----------------------------
(***************************************************************************)
(* Transactions over a connection that can be lost and, if an option says   *)
(* so, is made again behind the caller's back: what commit(), rollback()    *)
(* and toggle_autocommit() of mcxx::Transaction, and ping(), reset(),       *)
(* reconnect() and connect() of mcxx::Connection, do to work that is not    *)
(* committed.                                                              *)
(*                                                                         *)
(* A call is sent, run by the server, and answered, in separate steps; the  *)
(* connection may go between any two.  A request that was on its way then   *)
(* may still be run by the session that the client has lost (late).      *)
(***************************************************************************)
EXTENDS SqlServer, Sending

CONSTANT Settings     \* the values that set_prop may give MYSQL_OPT_RECONNECT

ASSUME SettingsAssumption == Settings \subseteq BOOLEAN

VARIABLES
  prop,       \* extra_properties[MYSQL_OPT_RECONNECT], one for the process
  reconnect,  \* options.reconnect of the handle
  link,       \* net.pvio, see Sending
  known,      \* host_info is not NULL
  trans,      \* SERVER_STATUS_IN_TRANS in server_status
  call,       \* the running call
  reply,      \* the answer on its way to the client
  ret,        \* how the call that ended last did
  srv,        \* the server's session of this connection
  late,    \* what requests that were given up may still make durable
  store,      \* the writes that are durable
  issued,     \* ghost: the writes that have been given to the library
  belief      \* ghost: what the caller may conclude from the answers so far

client == <<prop, reconnect, link, known, trans, call, reply, ret>>
server == <<srv, late, store>>
ghosts == <<issued, belief>>
vars == <<client, server, ghosts>>

-----------------------------------------------------------------------------
\* A call: sent for the first time or again; waiting for its answer, or about
\* to be sent again.
Request(op, w, try, at) == [op |-> op, w |-> w, try |-> try, at |-> at]
NoCall == Request("none", NoWrite, "first", "idle")

Reply(kind, bit) == [kind |-> kind, trans |-> bit]
NoReply == Reply("none", FALSE)
Answer(ok) == IF ok THEN "ok" ELSE "error"

Idle == call = NoCall
Waiting == call.at = "wait"

\* The request is with the session.
Running == link = "up" /\ Waiting /\ reply = NoReply

\* What the caller may conclude.  unit: the writes acknowledged since the last
\* end of a transaction, with no call failed since, and with nothing called that
\* may start a new session.  begun, manual: since BEGIN, or since autocommit was
\* switched off, all of that is so.
NoBelief == [unit |-> {}, begun |-> FALSE, manual |-> FALSE]

Init ==
  /\ prop = FALSE /\ reconnect \in Settings
  /\ link = "up" /\ known = TRUE /\ trans = FALSE
  /\ call = NoCall /\ reply = NoReply /\ ret = "none"
  /\ srv = NewSession /\ late = {} /\ store = {}
  /\ issued = {} /\ belief = NoBelief

-----------------------------------------------------------------------------
(* The beliefs of a caller.                                                *)

Learned(b, op, w) ==
  [unit |-> IF op = "write" THEN b.unit \cup {w} ELSE {},
   begun |-> op = "begin" \/ (op = "write" /\ b.begun),
   manual |-> op = "auto_off" \/ (op \in Texts \ {"auto_on"} /\ b.manual)]

Returns(c, ok) ==
  /\ call' = NoCall
  /\ ret' = Answer(ok)
  /\ belief' = IF ok THEN Learned(belief, c.op, c.w) ELSE NoBelief

-----------------------------------------------------------------------------
(* The server.                                                             *)

\* The session is lost: it is rolled back, but may run its request before that.
Lost ==
  /\ srv' = NewSession
  /\ late' = IF Running THEN late \cup ({Lands(srv, call.op, call.w)} \ {{}}) ELSE late

Serve ==
  /\ Running
  /\ \/ /\ store' = store \cup Lands(srv, call.op, call.w)
        /\ srv' = After(srv, call.op, call.w)
        /\ reply' = Reply("ok", srv'.open)
     \/ /\ srv' \in Failures(srv)
        /\ reply' = Reply("error", FALSE)
        /\ UNCHANGED store
  /\ UNCHANGED <<prop, reconnect, link, known, trans, call, ret, late, ghosts>>

\* A session without a client runs its request, or is rolled back.
Land(e) ==
  /\ store' = store \cup e /\ late' = late \ {e}
  /\ UNCHANGED <<client, srv, ghosts>>

Fade(e) ==
  /\ late' = late \ {e}
  /\ UNCHANGED <<client, srv, store, ghosts>>

\* The server goes away, shuts down an idle session, or the network does; an
\* answer that has arrived can still be read.
Cut ==
  /\ link = "up"
  /\ link' = "cut"
  /\ reply' \in {reply, NoReply}
  /\ Lost
  /\ UNCHANGED <<prop, reconnect, known, trans, call, ret, store, ghosts>>

-----------------------------------------------------------------------------
(* Calls.                                                                  *)

\* Mutants: whatever failed is sent again; it is, until it succeeds.
RetriesAll(c) == reconnect /\ c.try = "first"
RetriesEver(c) == c.op \in Commands /\ reconnect

\* ping() and reset() are sent once more when they failed.
Retries(c) == c.op \in Commands /\ reconnect /\ c.try = "first"

\* A mutant: the outcome of a call is not looked at.
FailsUnseen(c) == Returns(c, TRUE)

Fails(c) ==
  IF Retries(c)
  THEN call' = Request(c.op, c.w, "second", "retry") /\ UNCHANGED <<ret, belief>>
  ELSE Returns(c, FALSE)

\* ma_simple_command, to the point where it waits for the answer.
Send(c) ==
  /\ \E out \in SendCmd(link, reconnect, trans, known) :
       /\ link' = out.link /\ trans' = out.trans
       /\ srv' = IF out.how = "sent" THEN srv ELSE NewSession
       /\ IF out.how = "fails" THEN Fails(c)
          ELSE call' = Request(c.op, c.w, c.try, "wait") /\ UNCHANGED <<ret, belief>>
  /\ UNCHANGED <<prop, reconnect, known, reply, late, store>>

\* exec, commit, rollback, toggle_autocommit, ping and reset.
Call(op, w) ==
  /\ Idle
  /\ op = "write" <=> w \in Writes \ issued
  /\ w \in Writes => op = "write"
  /\ issued' = issued \cup ({w} \cap Writes)
  /\ Send(Request(op, w, "first", "wait"))

Retry ==
  /\ call.at = "retry"
  /\ Send(call)
  /\ UNCHANGED issued

\* A mutant: the status of an OK packet is not looked at.
StatusKept == trans

\* mthd_my_read_query_result takes the status of an OK packet; ping() and
\* reset() do not look into theirs.
Status == IF call.op \in Texts THEN reply.trans ELSE trans

Receive ==
  /\ Waiting /\ reply # NoReply
  /\ reply' = NoReply
  /\ \/ /\ reply.kind = "ok"
        /\ trans' = Status
        /\ Returns(call, TRUE)
     \/ /\ reply.kind = "error"
        /\ Fails(call)
        /\ UNCHANGED trans
  /\ UNCHANGED <<prop, reconnect, link, known, server, issued>>

\* The end of the stream, or MYSQL_OPT_READ_TIMEOUT: end_server leaves
\* server_status as it is.
ReadFails ==
  /\ Waiting /\ reply = NoReply
  /\ link' = "down"
  /\ Lost
  /\ Fails(call)
  /\ UNCHANGED <<prop, reconnect, known, trans, reply, store, issued>>

\* connect() applies the options first.  On a handle with a net.pvio it fails
\* at once; when the server cannot be reached host_info is lost, so that nothing
\* but another connect() will connect again.
Connect ==
  /\ Idle
  /\ reconnect' = prop
  /\ \/ /\ link # "down"
        /\ ret' = "error"
        /\ UNCHANGED <<link, known, trans>>
     \/ /\ link = "down"
        /\ \E ok \in BOOLEAN :
             /\ link' = IF ok THEN "up" ELSE "down"
             /\ known' = ok
             /\ ret' = Answer(ok)
        /\ trans' = FALSE
  /\ belief' = NoBelief
  /\ UNCHANGED <<prop, call, reply, server, issued>>

\* reconnect(): mariadb_reconnect, whether or not anything has been lost.  It
\* replaces the connection, or leaves it alone and clears the status.
Reconnect ==
  /\ Idle
  /\ \/ /\ ~Refused(reconnect, trans, known)
        /\ link' = "up" /\ srv' = NewSession
        /\ ret' = "ok"
     \/ /\ ret' = "error"
        /\ UNCHANGED <<link, srv>>
  /\ trans' = FALSE
  /\ belief' = NoBelief
  /\ UNCHANGED <<prop, reconnect, known, call, reply, late, store, issued>>

\* set_prop(): nothing changes for a handle before its next connect().
SetProp(b) ==
  /\ Idle
  /\ prop' = b
  /\ UNCHANGED <<reconnect, link, known, trans, call, reply, ret, server, ghosts>>

-----------------------------------------------------------------------------
Continue == Receive \/ ReadFails \/ Retry

Next ==
  \/ \E op \in Requests, w \in Writes \cup {NoWrite} : Call(op, w)
  \/ Continue \/ Serve \/ Cut \/ Connect \/ Reconnect
  \/ \E e \in late : Land(e) \/ Fade(e)
  \/ \E b \in Settings : SetProp(b)

Spec == Init /\ [][Next]_vars

\* The thread that made a call goes on with it.
FairSpec == Spec /\ WF_vars(Continue)
-----------------------------------------------------------------------------
(* Properties.                                                             *)

Calls ==
  {c \in [op : Requests, w : Writes \cup {NoWrite}, try : {"first", "second"}, at : {"wait", "retry"}] :
     /\ c.op = "write" <=> c.w \in Writes
     /\ c.try = "second" => c.op \in Commands
     /\ c.at = "retry" => c.try = "second"}

\* Every variable keeps its type; only ping() and reset() are sent again.
TypeOK ==
  /\ {prop, reconnect} \subseteq Settings \cup {FALSE} /\ known \in BOOLEAN
  /\ link \in Links /\ trans \in BOOLEAN
  /\ call \in Calls \cup {NoCall}
  /\ reply \in [kind : {"none", "ok", "error"}, trans : BOOLEAN]
  /\ ret \in {"none", "ok", "error"}
  /\ srv \in Sessions
  /\ late \subseteq (SUBSET Writes) \ {{}}
  /\ store \subseteq Writes /\ issued \subseteq Writes
  /\ belief \in [unit : SUBSET Writes, begun : BOOLEAN, manual : BOOLEAN]

\* A commit() that succeeds has made durable every write acknowledged since the
\* transaction began, unless a call has failed since or ping(), reset(),
\* connect() or reconnect() has been called: SERVER_STATUS_IN_TRANS must keep
\* every silent reconnection out of a transaction with writes in it.
CommitWhole ==
  [][call.op = "commit" /\ call' = NoCall /\ ret' = "ok" => belief.unit \subseteq store']_vars

\* The writes of a transaction begun with BEGIN are not durable before it is
\* committed, also when connections are lost and made again on the way.
BegunIsolated == Idle /\ belief.begun => belief.unit \cap store = {}

\* The same of a transaction that began because autocommit was switched off
\* (man/mysql_commit.3: statements after a commit are rolled back when the
\* connection is closed).  True only without automatic reconnection.
ManualIsolated == Idle /\ belief.manual => belief.unit \cap store = {}

\* A write is in one place: durable, in the work or the request of one session,
\* or nowhere.  No retry and no reconnection runs it again.
Places(w) ==
  {<<"late", e>> : e \in {f \in late : w \in f}}
    \cup (IF w \in store THEN {<<"store">>} ELSE {})
    \cup (IF w \in srv.work \/ (Running /\ call.w = w) THEN {<<"session">>} ELSE {})
OnePlace == \A w \in Writes : \A p, q \in Places(w) : p = q

\* The inductive forms of these.  Nothing is held twice, and a new write by
\* nobody:
Held == store \cup srv.work \cup UNION late
PlaceInv ==
  /\ Held \subseteq issued
  /\ srv.work \cap (store \cup UNION late) = {}
  /\ store \cap UNION late = {}
  /\ \A e, f \in late : e = f \/ e \cap f = {}
  /\ ~srv.open => srv.work = {}
  /\ Running => call.w \notin Held
  /\ call.w \in Writes => call.w \in issued

\* What an answer makes of the caller's transaction, and what is left of that
\* when the session is gone: the bit that forbids the next one.
Secured(unit, bit) ==
  \/ unit \subseteq store
  \/ bit /\ (link = "up" => unit \subseteq store \cup srv.work)
UnitInv ==
  /\ Idle => Secured(belief.unit, trans)
  /\ Running /\ call.op \in Texts => belief.unit \subseteq store \cup srv.work
  /\ Waiting /\ reply.kind = "ok" /\ call.op = "commit" => belief.unit \subseteq store
  /\ Waiting /\ reply.kind = "ok" /\ call.op = "write" =>
       Secured(belief.unit \cup {call.w}, reply.trans)

\* A transaction begun with BEGIN: its session knows it, the bit is set, and its
\* writes are in no other place.
Pending(unit, bit) ==
  /\ bit /\ (link = "up" => srv.open)
  /\ unit \cap (store \cup UNION late) = {}
BegunInv ==
  /\ Idle /\ belief.begun => Pending(belief.unit, trans)
  /\ Running /\ call.op \in Texts /\ belief.begun => Pending(belief.unit, TRUE)
  /\ Waiting /\ reply.kind = "ok" =>
       /\ call.op = "begin" => Pending({}, reply.trans)
       /\ call.op = "write" /\ belief.begun => Pending(belief.unit \cup {call.w}, reply.trans)

\* No answer is on its way without a call that waits for it.
ReplyInv == reply # NoReply => Waiting

TxnInv == ReplyInv /\ PlaceInv /\ UnitInv /\ BegunInv

\* Without automatic reconnection all of this implements AtomicStore: a call
\* has its effect once, in the session of the calls before it, or fails.
Doing ==
  IF Waiting
  THEN [op |-> call.op, w |-> call.w,
        answer |-> IF reply # NoReply THEN reply.kind
                   ELSE IF link = "up" THEN "none" ELSE "error"]
  ELSE [op |-> "none", w |-> NoWrite, answer |-> "none"]

Abstract == INSTANCE AtomicStore WITH
  alive <- link = "up", sess <- srv, call <- Doing

Atomic == Abstract!Spec

\* Every call returns, one that is sent twice as well.
CallReturns == ~Idle ~> Idle
=============================================================================
