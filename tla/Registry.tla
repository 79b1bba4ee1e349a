------------------------------ MODULE Registry ------------------------------
(***************************************************************************)
(* The prepared statements of a Connection: prepare() registers one under a *)
(* name, exec(prepped(name), ...) runs it by the number that the server's   *)
(* session gave it.  The session may be lost and replaced, by connect(), by *)
(* reconnect() or behind the caller's back, and the new one counts from 1   *)
(* again.  Replies are read to their end here; Session has what happens     *)
(* when they are not, Handles which memory the statements live in.          *)
(***************************************************************************)
EXTENDS Naturals, Sequences, Sending

CONSTANTS
  Names,        \* the names given to prepare()
  Sqls,         \* the SQL texts given to prepare()
  None,         \* no name, no SQL, no statement
  Settings,     \* the values MYSQL_OPT_RECONNECT may have
  MaxSession    \* a bound: how many sessions there may be, one after another

ASSUME RegistryAssumption ==
  None \notin Names \cup Sqls /\ Settings \subseteq BOOLEAN /\ MaxSession \in Nat \ {0}

VARIABLES
  reconnect, link, known, trans,  \* see TxnSession
  stmts,      \* prepared_statements: what each name stands for
  dangling,   \* a statement that has been freed is in the list of the handle
  call,       \* the running call
  reply,      \* its answer, on its way
  session,    \* the number of the server's session
  held,       \* the SQL that the session holds under each number so far
  ran,        \* ghost: what the server has run last, for which name and where
  seen        \* ghost: what may have outlived the last session: all statements
              \* after connect(), the one being executed after a reconnection

client == <<reconnect, link, known, trans, stmts, dangling, call, reply>>
vars == <<client, session, held, ran, seen>>

-----------------------------------------------------------------------------
(* Statements and calls.                                                   *)

\* id: stmt_id.  state: INITTED, or PREPARED and any that follows it.  mysql:
\* whether the statement has a handle, in whose list it is.  born is a ghost: the
\* session that gave it its number.
Stmt(sql, id, state, mysql, born) ==
  [sql |-> sql, id |-> id, state |-> state, mysql |-> mysql, born |-> born]
NoStmt == Stmt(None, 0, "none", "null", 1)

Request(op, name, sql, id, try, at) ==
  [op |-> op, name |-> name, sql |-> sql, id |-> id, try |-> try, at |-> at]
NoCall == Request("none", None, None, 0, "first", "idle")

Run(name, sql, in) == [name |-> name, sql |-> sql, in |-> in]

Reply(kind, id, bit) == [kind |-> kind, id |-> id, trans |-> bit]
NoReply == Reply("none", 0, FALSE)

Idle == call = NoCall
Waiting == call.at = "wait"
Running == link = "up" /\ Waiting /\ reply = NoReply

Init ==
  /\ reconnect \in Settings
  /\ link = "up" /\ known = TRUE /\ trans = FALSE
  /\ stmts = [n \in Names |-> NoStmt] /\ dangling = FALSE
  /\ call = NoCall /\ reply = NoReply
  /\ session = 1 /\ held = <<>>
  /\ ran = Run(None, None, 1) /\ seen = {}

\* Mutants: the loops stop at the statement at the front, or keep them all.
StaleOne(s) ==
  IF \E n \in Names : s[n] # NoStmt
  THEN [s EXCEPT ![CHOOSE n \in Names : s[n] # NoStmt].state = "initted"] ELSE s
DetachNone(s) == s

\* mariadb_reconnect: the statements in the list have to be prepared again.
Stale(s) == [n \in Names |->
  IF s[n].mysql = "handle"
  THEN Stmt(s[n].sql, s[n].id, "initted", "handle", s[n].born) ELSE s[n]]

\* ma_invalidate_stmts: they lose their handle.
Detach(s) == [n \in Names |->
  Stmt(s[n].sql, s[n].id, s[n].state, "null", s[n].born)]

\* bind_param and execute look at both.
Usable(s) == s.state = "prepared" /\ s.mysql = "handle"
Executable(n) == Usable(stmts[n])

-----------------------------------------------------------------------------
(* The server.                                                             *)

Opens == session < MaxSession /\ session' = session + 1 /\ held' = <<>>

\* A session numbers its statements from 1; it knows its own only.
Serve ==
  /\ Running
  /\ \/ /\ call.op = "prepare"
        /\ held' = Append(held, call.sql)
        /\ reply' = Reply("ok", Len(held'), FALSE)
        /\ UNCHANGED ran
     \/ /\ call.op = "exec" /\ call.id \in DOMAIN held /\ held[call.id] # None
        /\ ran' = Run(call.name, held[call.id], session)
        /\ \E bit \in BOOLEAN : reply' = Reply("ok", 0, bit)
        /\ UNCHANGED held
     \/ /\ call.op = "reset"
        /\ held' \in {<<>>, [i \in DOMAIN held |-> None]}
        /\ reply' = Reply("ok", 0, FALSE)
        /\ UNCHANGED ran
     \/ /\ call.op = "ping"
        /\ reply' = Reply("ok", 0, FALSE)
        /\ UNCHANGED <<held, ran>>
     \/ /\ reply' = Reply("error", 0, FALSE)
        /\ UNCHANGED <<held, ran>>
  /\ UNCHANGED <<reconnect, link, known, trans, stmts, dangling, call, session, seen>>

Cut ==
  /\ link = "up"
  /\ link' = "cut" /\ held' = <<>>
  /\ reply' \in {reply, NoReply}
  /\ UNCHANGED <<reconnect, known, trans, stmts, dangling, call, session, ran, seen>>

-----------------------------------------------------------------------------
(* Calls.                                                                  *)

\* A mutant: insert_or_assign.
Assigned(n, sql, id) ==
  stmts' = [stmts EXCEPT ![n] = Stmt(sql, id, "prepared", "handle", session)] /\ UNCHANGED dangling

\* The end of prepare(): a statement that is not registered is deleted, and stays
\* in the list of the handle.  insert does not replace.
Registered(n, sql, id) ==
  IF stmts[n].state = "none"
  THEN stmts' = [stmts EXCEPT ![n] = Stmt(sql, id, "prepared", "handle", session)] /\ UNCHANGED dangling
  ELSE dangling' = TRUE /\ UNCHANGED stmts

\* mthd_stmt_read_execute_response makes the statement PREPARED again, whatever
\* the state has become since the request was made.
Revived(n) ==
  [stmts EXCEPT ![n] = Stmt(stmts[n].sql, stmts[n].id, "prepared", stmts[n].mysql, stmts[n].born)]

\* A mutant: whatever has failed is sent again.
FailsAgain(c, left) ==
  /\ stmts' = left /\ UNCHANGED dangling
  /\ call' = IF reconnect /\ c.try = "first"
             THEN Request(c.op, None, None, 0, "second", "retry") ELSE NoCall

\* A call that has failed, and the statements as it leaves them.  A statement that
\* could not be prepared is deleted, and stays in the list of the handle.
Fails(c, left) ==
  /\ stmts' = left
  /\ dangling' = (dangling \/ c.op = "prepare")
  /\ call' = IF c.op \in {"ping", "reset"} /\ reconnect /\ c.try = "first"
             THEN Request(c.op, None, None, 0, "second", "retry") ELSE NoCall

FailsLate == Fails(call, IF call.op = "exec" THEN Revived(call.name) ELSE stmts)

Sends(c) == call' = Request(c.op, c.name, c.sql, c.id, c.try, "wait") /\ UNCHANGED dangling

\* A silent reconnection goes through the list of statements.  It may have
\* succeeded for nothing: the new peer is gone before the command is written.
Send(c) ==
  /\ \E out \in SendCmd(link, reconnect, trans, known) :
       /\ link' = out.link /\ trans' = out.trans
       /\ \/ /\ out.how \in {"sent", "void"}
             /\ Sends(c)
             /\ UNCHANGED <<stmts, session, held, seen>>
          \/ /\ out.how = "new" /\ ~dangling
             /\ Opens
             /\ seen' = IF c.op = "exec" THEN {c.name} ELSE {}
             /\ stmts' = Stale(stmts)
             /\ Sends(c)
          \/ /\ out.how = "fails" /\ out.link = "cut" /\ ~dangling
             /\ Fails(c, Stale(stmts))
             /\ UNCHANGED <<session, held, seen>>
          \/ /\ out.how = "fails" /\ out.link = "down"
             /\ Fails(c, stmts)
             /\ UNCHANGED <<session, held, seen>>
  /\ UNCHANGED <<reconnect, known, reply, ran>>

\* prepare() puts its statement at the front of the list first.
Prepare(n, q) == Idle /\ ~dangling /\ Send(Request("prepare", n, q, 0, "first", "wait"))

\* exec, exec0, exec1 and execn with a statement that can be executed.
Exec(n) ==
  Idle /\ Executable(n) /\ Send(Request("exec", n, None, stmts[n].id, "first", "wait"))

Command(op) ==
  /\ Idle /\ (op = "reset" => ~dangling)
  /\ Send(Request(op, None, None, 0, "first", "wait"))

Retry == call.at = "retry" /\ Send(call)

Succeeds ==
  /\ reply.kind = "ok"
  /\ call' = NoCall
  /\ trans' = IF call.op = "exec" THEN reply.trans ELSE trans
  /\ \/ call.op = "prepare" /\ Registered(call.name, call.sql, reply.id)
     \/ call.op = "exec" /\ stmts' = Revived(call.name) /\ UNCHANGED dangling
     \/ call.op = "reset" /\ stmts' = Detach(stmts) /\ UNCHANGED dangling
     \/ call.op = "ping" /\ UNCHANGED <<stmts, dangling>>

Receive ==
  /\ Waiting /\ reply # NoReply
  /\ reply' = NoReply
  /\ Succeeds \/ (reply.kind = "error" /\ FailsLate /\ UNCHANGED trans)
  /\ UNCHANGED <<reconnect, link, known, session, held, ran, seen>>

ReadFails ==
  /\ Waiting /\ reply = NoReply
  /\ link' = "down" /\ held' = <<>>
  /\ FailsLate
  /\ UNCHANGED <<reconnect, known, trans, reply, session, ran, seen>>

\* connect() leaves the statements of the handle as they are.
Connect ==
  /\ Idle /\ link = "down"
  /\ \/ link' = "up" /\ known' = TRUE /\ Opens /\ seen' = Names
     \/ link' = "down" /\ known' = FALSE /\ UNCHANGED <<session, held, seen>>
  /\ trans' = FALSE
  /\ UNCHANGED <<reconnect, stmts, dangling, call, reply, ran>>

Reconnect ==
  /\ Idle /\ ~dangling
  /\ \/ /\ ~Refused(reconnect, trans, known)
        /\ link' = "up" /\ Opens /\ stmts' = Stale(stmts) /\ seen' = {}
     \/ UNCHANGED <<link, session, held, stmts, seen>>
  /\ trans' = FALSE
  /\ UNCHANGED <<reconnect, known, dangling, call, reply, ran>>

-----------------------------------------------------------------------------
Next ==
  \/ \E n \in Names, q \in Sqls : Prepare(n, q)
  \/ \E n \in Names : Exec(n)
  \/ \E op \in {"ping", "reset"} : Command(op)
  \/ Retry \/ Receive \/ ReadFails \/ Serve \/ Cut \/ Connect \/ Reconnect

Spec == Init /\ [][Next]_vars
-----------------------------------------------------------------------------
(* Properties.                                                             *)

Statements ==
  {s \in [sql : Sqls \cup {None}, id : Nat, state : {"none", "initted", "prepared"},
           mysql : {"handle", "null"}, born : 1..MaxSession] :
     s.mysql = "handle" => s.state # "none"}
Ops == {"prepare", "exec", "ping", "reset"}
Calls ==
  {c \in [op : Ops, name : Names \cup {None}, sql : Sqls \cup {None}, id : Nat,
          try : {"first", "second"}, at : {"wait", "retry"}] :
     /\ c.op \in {"prepare", "exec"} <=> c.name \in Names
     /\ c.op = "prepare" <=> c.sql \in Sqls
     /\ c.at = "retry" => c.op \in {"ping", "reset"}}

\* Every variable keeps its type; a statement is executed by the number it has.
TypeOK ==
  /\ reconnect \in BOOLEAN /\ known \in BOOLEAN /\ trans \in BOOLEAN /\ dangling \in BOOLEAN
  /\ link \in Links
  /\ stmts \in [Names -> Statements]
  /\ call \in Calls \cup {NoCall}
  /\ reply \in [kind : {"none", "ok", "error"}, id : Nat, trans : BOOLEAN]
  /\ session \in 1..MaxSession
  /\ held \in Seq(Sqls \cup {None})
  /\ ran \in [name : Names \cup {None}, sql : Sqls \cup {None}, in : 1..MaxSession]
  /\ seen \subseteq Names
  /\ call.op = "exec" => stmts[call.name].id = call.id

\* In the session that has prepared it a statement runs its own SQL: through
\* failed calls, resets, taken names and lost answers its number is not another's.
OwnRun ==
  ran.name # None /\ stmts[ran.name].born = ran.in => ran.sql = stmts[ran.name].sql

\* A statement can be executed in a session that has not prepared it only when
\* connect() opened that session, or when it was being executed while the old
\* session was replaced: reconnections stop all others, wherever they happen.
StaleCauses == \A n \in Names : Executable(n) /\ stmts[n].born < session => n \in seen

\* A name whose statement cannot be executed any more stays so: no prepare(),
\* connect(), ping() or reset() brings it back.
Dead(n) == stmts[n].state # "none" /\ ~Executable(n)
DeadForGood ==
  [][\A n \in Names :
       Dead(n) /\ ~(call.op = "exec" /\ call.name = n) => Dead(n)']_vars

\* man/mysql_stmt_execute.3: what is executed is what was prepared.
RunsWhatWasPrepared == ran.name # None => ran.sql = stmts[ran.name].sql

\* The inductive form: the session holds what its statements stand for, and a
\* running call is about the statement it was made for.
Served(op) == Waiting /\ call.op = op /\ reply.kind = "ok"
HeldInv ==
  /\ reply # NoReply => Waiting
  /\ \A n \in Names : stmts[n].born <= session
  /\ link = "up" /\ ~Served("reset") =>
       \A n \in Names : stmts[n].mysql = "handle" /\ stmts[n].born = session =>
         stmts[n].id \in DOMAIN held /\ held[stmts[n].id] = stmts[n].sql
  /\ link = "up" /\ Served("prepare") =>
       reply.id \in DOMAIN held /\ held[reply.id] = call.sql
  /\ ran.name # None => stmts[ran.name].state # "none"
  /\ call.op = "exec" => /\ stmts[call.name].mysql = "handle"
                         /\ stmts[call.name].born < session => call.name \in seen
RegistryInv == OwnRun /\ StaleCauses /\ HeldInv
=============================================================================
