--------------------------- MODULE RegistryProofs ---------------------------
(***************************************************************************)
(* Theorems about Registry, for any names, SQL texts, settings of the       *)
(* reconnection option and number of sessions.                             *)
(***************************************************************************)
EXTENDS Registry, SendingProofs

-----------------------------------------------------------------------------
(* Statements, calls and answers.                                          *)

LEMMA StmtFacts ==
  ASSUME NEW sql \in Sqls \cup {None}, NEW id \in Nat,
         NEW state \in {"none", "initted", "prepared"}, NEW mysql \in {"handle", "null"},
         NEW born \in 1..MaxSession, mysql = "handle" => state # "none"
  PROVE  Stmt(sql, id, state, mysql, born) \in Statements
BY DEF Stmt, Statements

LEMMA FieldFacts ==
  ASSUME NEW s \in Statements
  PROVE  /\ s.sql \in Sqls \cup {None} /\ s.id \in Nat
         /\ s.state \in {"none", "initted", "prepared"} /\ s.mysql \in {"handle", "null"}
         /\ s.born \in 1..MaxSession
         /\ s.mysql = "handle" => s.state # "none"
BY DEF Statements

\* What no operation but prepare() changes.
SameSource(s, t) ==
  /\ t \in [Names -> Statements]
  /\ \A n \in Names : /\ t[n].sql = s[n].sql /\ t[n].id = s[n].id /\ t[n].born = s[n].born
                      /\ t[n].mysql = "handle" => s[n].mysql = "handle"
                      /\ s[n].state # "none" => t[n].state # "none"

LEMMA SameItself ==
  ASSUME NEW s \in [Names -> Statements]
  PROVE  SameSource(s, s)
BY DEF SameSource

LEMMA StaleFacts ==
  ASSUME NEW s \in [Names -> Statements]
  PROVE  /\ SameSource(s, Stale(s))
         /\ \A n \in Names : Stale(s)[n].mysql = s[n].mysql /\ ~Usable(Stale(s)[n])
<1>1. \A n \in Names :
        /\ Stmt(s[n].sql, s[n].id, "initted", "handle", s[n].born) \in Statements
        /\ s[n] \in Statements
  BY StmtFacts, FieldFacts
<1>2. Stale(s) \in [Names -> Statements]
  BY <1>1 DEF Stale
<1> QED BY <1>1, <1>2, FieldFacts DEF SameSource, Stale, Stmt, Usable

LEMMA DetachFacts ==
  ASSUME NEW s \in [Names -> Statements]
  PROVE  SameSource(s, Detach(s)) /\ \A n \in Names : Detach(s)[n].mysql = "null"
<1>1. \A n \in Names :
        Stmt(s[n].sql, s[n].id, s[n].state, "null", s[n].born) \in Statements
  BY StmtFacts, FieldFacts
<1>2. Detach(s) \in [Names -> Statements]
  BY <1>1 DEF Detach
<1> QED BY <1>2, FieldFacts DEF SameSource, Detach, Stmt

LEMMA RevivedFacts ==
  ASSUME stmts \in [Names -> Statements], NEW n \in Names
  PROVE  /\ SameSource(stmts, Revived(n))
         /\ \A m \in Names : Revived(n)[m].mysql = stmts[m].mysql
         /\ \A m \in Names \ {n} : Revived(n)[m] = stmts[m]
<1>1. Stmt(stmts[n].sql, stmts[n].id, "prepared", stmts[n].mysql, stmts[n].born) \in Statements
  BY StmtFacts, FieldFacts
<1>2. Revived(n) \in [Names -> Statements]
  BY <1>1 DEF Revived
<1> QED BY <1>2, FieldFacts DEF SameSource, Revived, Stmt

LEMMA CallFacts ==
  /\ NoCall \notin Calls /\ NoCall.op = "none" /\ NoCall.at = "idle"
  /\ \A c \in Calls : /\ c.op \in Ops /\ c.id \in Nat
                      /\ c.op \in {"prepare", "exec"} <=> c.name \in Names
                      /\ c.op = "prepare" <=> c.sql \in Sqls
                      /\ c.at = "retry" => c.op \in {"ping", "reset"}
BY DEF Calls, Ops, NoCall, Request

LEMMA WaitFacts ==
  ASSUME NEW c \in Calls
  PROVE  /\ Request(c.op, c.name, c.sql, c.id, c.try, "wait") \in Calls
         /\ Request(c.op, c.name, c.sql, c.id, c.try, "wait").op = c.op
         /\ Request(c.op, c.name, c.sql, c.id, c.try, "wait").name = c.name
         /\ Request(c.op, c.name, c.sql, c.id, c.try, "wait").id = c.id
         /\ Request(c.op, c.name, c.sql, c.id, c.try, "wait").at = "wait"
BY DEF Calls, Request

LEMMA ReplyFacts ==
  ASSUME NEW id \in Nat, NEW bit \in BOOLEAN, NEW kind \in {"none", "ok", "error"}
  PROVE  /\ Reply(kind, id, bit) \in [kind : {"none", "ok", "error"}, id : Nat, trans : BOOLEAN]
         /\ Reply(kind, id, bit).kind = kind /\ Reply(kind, id, bit).id = id
         /\ NoReply.kind = "none"
BY DEF Reply, NoReply

LEMMA NoReplyFacts ==
  /\ NoReply \in [kind : {"none", "ok", "error"}, id : Nat, trans : BOOLEAN]
  /\ NoReply.kind = "none"
BY DEF Reply, NoReply

-----------------------------------------------------------------------------
(* The invariant: one lemma per action.                                     *)

Inv == TypeOK /\ RegistryInv

LEMMA Types ==
  ASSUME TypeOK
  PROVE  /\ stmts \in [Names -> Statements] /\ \A n \in Names : stmts[n] \in Statements
         /\ session \in Nat /\ \A n \in Names : stmts[n].born \in Nat
         /\ Waiting => call \in Calls
         /\ ~Idle => call \in Calls
<1>1. stmts \in [Names -> Statements] /\ session \in 1..MaxSession /\ MaxSession \in Nat
  BY RegistryAssumption DEF TypeOK
<1>2. (Waiting => call \in Calls) /\ (~Idle => call \in Calls)
  BY CallFacts DEF TypeOK, Waiting, Idle
<1> QED BY <1>1, <1>2, FieldFacts

LEMMA HereSent ==
  ASSUME TypeOK, NEW out \in SendCmd(link, reconnect, trans, known)
  PROVE  /\ out.link \in Links /\ out.trans \in BOOLEAN
         /\ out.how \in {"sent", "new", "void", "fails"}
         /\ out.how = "sent" => link = "up" /\ out.link = "up"
         /\ out.how = "void" => link = "cut" /\ out.link = "cut"
         /\ out.how = "fails" => link # "up" /\ out.link # "up"
<1>1. Outcome(link, reconnect, trans, known, out)
  <2>1. link \in Links /\ trans \in BOOLEAN
    BY DEF TypeOK
  <2> QED BY <2>1, Sendings, Zenon
<1> QED BY <1>1 DEF Outcome

\* After a call has failed, what is left of the invariant is about the statements.
LEMMA FailStep ==
  ASSUME Inv, NEW c \in Calls, NEW left, Fails(c, left), SameSource(stmts, left),
         \A n \in Names : Usable(left[n]) => Usable(stmts[n]) \/ ~(left[n].born < session) \/ n \in seen,
         reply' = NoReply, UNCHANGED <<reconnect, known>>, link' \in Links,
         trans' \in BOOLEAN, UNCHANGED <<session, ran, seen>>,
         \/ link' = link /\ held' = held /\ ~Served("reset")
         \/ link' # "up" /\ held' \in {held, <<>>}
  PROVE  Inv'
<1>1. stmts' = left /\ stmts \in [Names -> Statements] /\ left \in [Names -> Statements]
  BY Types DEF Inv, Fails, SameSource
<1>2. call' \in Calls \cup {NoCall} /\ call'.op \notin {"prepare", "exec"} /\ call'.at # "wait"
  <2>1. CASE c.op \in {"ping", "reset"}
    <3>1. /\ Request(c.op, None, None, 0, "second", "retry") \in Calls
          /\ Request(c.op, None, None, 0, "second", "retry").op = c.op
          /\ Request(c.op, None, None, 0, "second", "retry").at = "retry"
      BY <2>1, RegistryAssumption DEF Request, Calls, Ops
    <3> QED BY <2>1, <3>1, CallFacts DEF Fails
  <2>2. CASE c.op \notin {"ping", "reset"}
    BY <2>2, CallFacts DEF Fails
  <2> QED BY <2>1, <2>2
<1>3. dangling' \in BOOLEAN
  BY DEF Fails, Inv, TypeOK
<1>4. held' \in Seq(Sqls \cup {None})
  <2>1. held \in Seq(Sqls \cup {None}) /\ <<>> \in Seq(Sqls \cup {None})
    BY DEF Inv, TypeOK
  <2> QED BY <2>1
<1>5. TypeOK'
  <2>1. /\ reconnect' \in BOOLEAN /\ known' \in BOOLEAN /\ trans' \in BOOLEAN
        /\ session' \in 1..MaxSession /\ seen' \subseteq Names
    BY DEF Inv, TypeOK
  <2>2. ran' \in [name : Names \cup {None}, sql : Sqls \cup {None}, in : 1..MaxSession]
    BY DEF Inv, TypeOK
  <2>3. reply' \in [kind : {"none", "ok", "error"}, id : Nat, trans : BOOLEAN]
    BY NoReplyFacts
  <2>4. call'.op = "exec" => stmts'[call'.name].id = call'.id
    BY <1>2
  <2> QED BY <1>1, <1>2, <1>3, <1>4, <2>1, <2>2, <2>3, <2>4 DEF TypeOK
<1>6. OwnRun'
  <2>1. ran.name \in Names \cup {None}
    BY DEF Inv, TypeOK
  <2> QED BY <1>1, <2>1 DEF Inv, RegistryInv, OwnRun, SameSource
<1>7. StaleCauses'
  BY <1>1 DEF Inv, RegistryInv, StaleCauses, SameSource, Executable
<1>8. HeldInv'
  <2>1. ~Waiting' /\ ~Served("reset")' /\ ~Served("prepare")'
    BY <1>2 DEF Waiting, Served
  <2>2. \A n \in Names : stmts'[n].born <= session'
    BY <1>1 DEF Inv, RegistryInv, HeldInv, SameSource
  <2>3. link' = "up" =>
          \A n \in Names : stmts'[n].mysql = "handle" /\ stmts'[n].born = session' =>
            stmts'[n].id \in DOMAIN held' /\ held'[stmts'[n].id] = stmts'[n].sql
    BY <1>1 DEF Inv, RegistryInv, HeldInv, SameSource
  <2>4. ran'.name # None => stmts'[ran'.name].state # "none"
    <3>1. ran.name \in Names \cup {None}
      BY DEF Inv, TypeOK
    <3> QED BY <1>1, <3>1 DEF Inv, RegistryInv, HeldInv, SameSource
  <2> QED BY <1>2, <2>1, <2>2, <2>3, <2>4 DEF HeldInv
<1> QED BY <1>5, <1>6, <1>7, <1>8 DEF Inv, RegistryInv

\* What is sent is sent while nothing else is on its way.
LEMMA SendStep ==
  ASSUME Inv, NEW c \in Calls, Send(c), ~Waiting,
         c.op = "exec" => Executable(c.name) /\ c.id = stmts[c.name].id
  PROVE  Inv'
<1>1. PICK out \in SendCmd(link, reconnect, trans, known) :
        /\ link' = out.link /\ trans' = out.trans
        /\ \/ /\ out.how \in {"sent", "void"}
              /\ Sends(c)
              /\ UNCHANGED <<stmts, session, held, seen>>
           \/ /\ out.how = "new" /\ ~dangling
              /\ Opens
              /\ seen' = IF c.op = "exec" THEN {c.name} ELSE {}
              /\ stmts' = Stale(stmts)
              /\ Sends(c)
           \/ /\ out.how = "fails" /\ out.link = "cut" /\ ~dangling
              /\ Fails(c, Stale(stmts))
              /\ UNCHANGED <<session, held, seen>>
           \/ /\ out.how = "fails" /\ out.link = "down"
              /\ Fails(c, stmts)
              /\ UNCHANGED <<session, held, seen>>
  BY DEF Send
<1>2. UNCHANGED <<reconnect, known, reply, ran>> /\ reply = NoReply
  BY DEF Send, Inv, RegistryInv, HeldInv
<1>3. /\ out.link \in Links /\ out.trans \in BOOLEAN
      /\ out.how = "sent" => link = "up" /\ out.link = "up"
      /\ out.how = "void" => link = "cut" /\ out.link = "cut"
      /\ out.how = "fails" => link # "up" /\ out.link # "up"
  BY HereSent DEF Inv
<1>4. stmts \in [Names -> Statements] /\ session \in Nat /\ \A n \in Names : stmts[n].born \in Nat
  BY Types DEF Inv
<1>5. ran.name \in Names \cup {None}
  BY DEF Inv, TypeOK
<1>6. c.op = "exec" => c.name \in Names
  BY CallFacts
<1>7. CASE out.how \in {"sent", "new", "void"}
  <2>1. Sends(c)
    BY <1>1, <1>7
  <2>2. /\ call' \in Calls /\ call'.op = c.op /\ call'.name = c.name /\ call'.id = c.id
        /\ call'.at = "wait" /\ dangling' = dangling
    BY <2>1, WaitFacts DEF Sends
  <2>3. Waiting' /\ ~Served("reset")' /\ ~Served("prepare")'
    BY <1>2, <2>2, NoReplyFacts DEF Waiting, Served
  <2>4. CASE out.how \in {"sent", "void"}
    <3>1. UNCHANGED <<stmts, session, held, seen>> /\ (link' = "up" => link = "up")
      BY <1>1, <1>3, <2>4
    <3>2. TypeOK'
      BY <1>1, <1>2, <1>3, <1>6, <2>2, <3>1 DEF Inv, TypeOK
    <3>3. OwnRun' /\ StaleCauses'
      BY <1>2, <3>1 DEF Inv, RegistryInv, OwnRun, StaleCauses, Executable
    <3>4. ~Served("reset") /\ ~Served("prepare")
      BY <1>2, NoReplyFacts DEF Served
    <3>5. HeldInv'
      BY <1>2, <1>4, <1>6, <2>2, <2>3, <3>1, <3>4
      DEF Inv, RegistryInv, HeldInv, Executable, Usable, StaleCauses
    <3> QED BY <3>2, <3>3, <3>5 DEF Inv, RegistryInv
  <2>5. CASE out.how = "new"
    <3>1. /\ session' = session + 1 /\ session < MaxSession /\ held' = <<>>
          /\ seen' = IF c.op = "exec" THEN {c.name} ELSE {}
          /\ stmts' = Stale(stmts)
      BY <1>1, <2>5 DEF Opens
    <3>2. SameSource(stmts, stmts') /\ \A n \in Names : stmts'[n].mysql = stmts[n].mysql /\ ~Usable(stmts'[n])
      BY <1>4, <3>1, StaleFacts
    <3>3. session' \in 1..MaxSession
      BY <1>4, <3>1, RegistryAssumption DEF Inv, TypeOK
    <3>4. TypeOK'
      <4>1. held' \in Seq(Sqls \cup {None})
        BY <3>1
      <4>2. call'.op = "exec" => stmts'[call'.name].id = call'.id
        BY <1>6, <2>2, <3>2 DEF SameSource
      <4>3. stmts' \in [Names -> Statements]
        BY <3>2 DEF SameSource
      <4>4. seen' \subseteq Names
        BY <1>6, <3>1
      <4> QED BY <1>1, <1>2, <1>3, <2>2, <3>3, <4>1, <4>2, <4>3, <4>4 DEF Inv, TypeOK
    <3>5. OwnRun'
      BY <1>2, <1>5, <3>2 DEF Inv, RegistryInv, OwnRun, SameSource
    <3>6. StaleCauses'
      BY <3>2 DEF StaleCauses, Executable
    <3>7. HeldInv'
      <4>1. \A n \in Names : stmts'[n].born < session'
        BY <1>4, <3>1, <3>2 DEF Inv, RegistryInv, HeldInv, SameSource
      <4>2. ran'.name # None => stmts'[ran'.name].state # "none"
        BY <1>2, <1>5, <3>2 DEF Inv, RegistryInv, HeldInv, SameSource
      <4>3. call'.op = "exec" => stmts'[call'.name].mysql = "handle" /\ call'.name \in seen'
        BY <1>6, <2>2, <3>1, <3>2 DEF Executable, Usable
      <4>4. \A n \in Names : stmts'[n].born \in Nat /\ session' \in Nat
        BY <1>4, <3>1, <3>2 DEF SameSource
      <4> QED BY <1>2, <2>3, <4>1, <4>2, <4>3, <4>4 DEF HeldInv
    <3> QED BY <3>4, <3>5, <3>6, <3>7 DEF Inv, RegistryInv
  <2> QED BY <1>7, <2>4, <2>5
<1>8. CASE out.how = "fails"
  <2>1. \/ Fails(c, Stale(stmts)) \/ Fails(c, stmts)
    BY <1>1, <1>8
  <2>2. SameSource(stmts, Stale(stmts)) /\ \A n \in Names : ~Usable(Stale(stmts)[n])
    BY <1>4, StaleFacts
  <2>3. SameSource(stmts, stmts)
    BY <1>4, SameItself
  <2>4. link' # "up" /\ link' \in Links /\ trans' \in BOOLEAN /\ UNCHANGED <<session, held, seen>>
    BY <1>1, <1>3, <1>8
  <2>5. CASE Fails(c, Stale(stmts))
    BY <1>2, <2>2, <2>4, <2>5, FailStep
  <2>6. CASE Fails(c, stmts)
    BY <1>2, <2>3, <2>4, <2>6, FailStep
  <2> QED BY <2>1, <2>5, <2>6
<1> QED BY <1>1, <1>7, <1>8

LEMMA CallStep ==
  ASSUME Inv, NEW op \in Ops, NEW n \in Names \cup {None}, NEW q \in Sqls \cup {None},
         NEW id \in Nat, Idle, Send(Request(op, n, q, id, "first", "wait")),
         op \in {"prepare", "exec"} <=> n \in Names, op = "prepare" <=> q \in Sqls,
         op = "exec" => Executable(n) /\ id = stmts[n].id
  PROVE  Inv'
<1> DEFINE c == Request(op, n, q, id, "first", "wait")
<1>1. c \in Calls /\ c.op = op /\ c.name = n /\ c.id = id
  BY DEF Request, Calls
<1>2. ~Waiting /\ Send(c)
  BY CallFacts DEF Idle, Waiting
<1> HIDE DEF c
<1> QED BY <1>1, <1>2, SendStep

LEMMA PrepareStep ==
  ASSUME Inv, NEW n \in Names, NEW q \in Sqls, Prepare(n, q)
  PROVE  Inv'
BY CallStep DEF Prepare, Ops

LEMMA ExecStep ==
  ASSUME Inv, NEW n \in Names, Exec(n)
  PROVE  Inv'
<1>1. stmts[n].id \in Nat
  BY Types, FieldFacts DEF Inv
<1> QED BY <1>1, CallStep, RegistryAssumption DEF Exec, Ops

LEMMA CommandStep ==
  ASSUME Inv, NEW op \in {"ping", "reset"}, Command(op)
  PROVE  Inv'
BY CallStep, RegistryAssumption DEF Command, Ops

LEMMA RetryStep ==
  ASSUME Inv, Retry
  PROVE  Inv'
<1>1. call \in Calls /\ ~Waiting /\ call.op # "exec"
  BY CallFacts DEF Inv, TypeOK, Retry, Waiting
<1> QED BY <1>1, SendStep DEF Retry

\* The invariant after a step of the calls that leaves the session and what the
\* server has run, and awaits nothing any more.
Quiet ==
  /\ call' = NoCall /\ reply' = NoReply
  /\ reconnect' \in BOOLEAN /\ known' \in BOOLEAN /\ trans' \in BOOLEAN /\ dangling' \in BOOLEAN
  /\ link' \in Links /\ UNCHANGED ran

LEMMA QuietTypes ==
  ASSUME TypeOK, Quiet, stmts' \in [Names -> Statements], session' \in 1..MaxSession,
         held' \in Seq(Sqls \cup {None}), seen' \subseteq Names
  PROVE  TypeOK'
<1>1. ran' \in [name : Names \cup {None}, sql : Sqls \cup {None}, in : 1..MaxSession]
  BY DEF Quiet, TypeOK
<1>2. call' \in Calls \cup {NoCall} /\ call'.op # "exec"
  BY CallFacts DEF Quiet
<1>3. reply' \in [kind : {"none", "ok", "error"}, id : Nat, trans : BOOLEAN]
  BY NoReplyFacts DEF Quiet
<1> QED BY <1>1, <1>2, <1>3 DEF Quiet, TypeOK

LEMMA QuietHeld ==
  ASSUME Quiet, \A n \in Names : stmts'[n].born <= session',
         link' = "up" =>
           \A n \in Names : stmts'[n].mysql = "handle" /\ stmts'[n].born = session' =>
             stmts'[n].id \in DOMAIN held' /\ held'[stmts'[n].id] = stmts'[n].sql,
         ran.name # None => stmts'[ran.name].state # "none"
  PROVE  HeldInv'
<1>1. ~Waiting' /\ ~Served("reset")' /\ ~Served("prepare")' /\ call'.op # "exec"
  BY CallFacts DEF Quiet, Waiting, Served
<1> QED BY <1>1 DEF Quiet, HeldInv

LEMMA SourcesRun ==
  ASSUME Inv, SameSource(stmts, stmts'), ran' = ran
  PROVE  /\ OwnRun'
         /\ ran.name # None => stmts'[ran.name].state # "none"
<1>1. ran.name \in Names \cup {None}
  BY DEF Inv, TypeOK
<1> QED BY <1>1 DEF Inv, RegistryInv, OwnRun, HeldInv, SameSource

LEMMA SourcesQuiet ==
  ASSUME Inv, Quiet, SameSource(stmts, stmts'), UNCHANGED <<session, held, seen>>,
         link' = "up" =>
           \/ link = "up" /\ ~Served("reset")
           \/ \A n \in Names : stmts'[n].mysql = "null",
         \A n \in Names : Usable(stmts'[n]) /\ stmts[n].born < session => n \in seen
  PROVE  Inv'
<1>1. TypeOK'
  <2>1. session' \in 1..MaxSession /\ seen' \subseteq Names
    BY DEF Inv, TypeOK
  <2>2. held' \in Seq(Sqls \cup {None})
    BY DEF Inv, TypeOK
  <2> QED BY <2>1, <2>2, QuietTypes DEF Inv, SameSource
<1>2. OwnRun' /\ (ran.name # None => stmts'[ran.name].state # "none")
  BY SourcesRun DEF Quiet
<1>3. StaleCauses'
  BY DEF StaleCauses, Executable, SameSource
<1>4. HeldInv'
  <2>1. \A n \in Names : stmts'[n].born <= session'
    BY DEF Inv, RegistryInv, HeldInv, SameSource
  <2>2. link' = "up" =>
          \A n \in Names : stmts'[n].mysql = "handle" /\ stmts'[n].born = session' =>
            stmts'[n].id \in DOMAIN held' /\ held'[stmts'[n].id] = stmts'[n].sql
    BY DEF Inv, RegistryInv, HeldInv, SameSource
  <2> QED BY <1>2, <2>1, <2>2, QuietHeld
<1> QED BY <1>1, <1>2, <1>3, <1>4 DEF Inv, RegistryInv

LEMMA RegisteredStep ==
  ASSUME Inv, Quiet, NEW n \in Names, NEW sql \in Sqls, NEW id \in Nat,
         Registered(n, sql, id), UNCHANGED <<session, held, seen>>, link' = link,
         link = "up" => id \in DOMAIN held /\ held[id] = sql, ~Served("reset")
  PROVE  Inv'
<1>1. stmts \in [Names -> Statements] /\ session \in 1..MaxSession
  BY DEF Inv, TypeOK
<1>2. CASE stmts[n].state = "none"
  <2> DEFINE new == Stmt(sql, id, "prepared", "handle", session)
  <2>1. stmts' = [stmts EXCEPT ![n] = new]
    BY <1>2 DEF Registered
  <2>2. /\ new \in Statements /\ new.born = session /\ new.id = id /\ new.sql = sql
        /\ new.state = "prepared"
    BY <1>1 DEF Stmt, Statements
  <2> HIDE DEF new
  <2>3. /\ stmts' \in [Names -> Statements] /\ stmts'[n] = new
        /\ \A m \in Names \ {n} : stmts'[m] = stmts[m]
    BY <1>1, <2>1, <2>2
  <2>4. TypeOK'
    <3>1. session' \in 1..MaxSession /\ seen' \subseteq Names
      BY DEF Inv, TypeOK
    <3>2. held' \in Seq(Sqls \cup {None})
      BY DEF Inv, TypeOK
    <3> QED BY <2>3, <3>1, <3>2, QuietTypes DEF Inv
  <2>5. ran.name # None => ran.name \in Names /\ ran.name # n
    BY <1>2 DEF Inv, TypeOK, RegistryInv, HeldInv
  <2>6. OwnRun'
    BY <2>3, <2>5 DEF Inv, RegistryInv, OwnRun, Quiet
  <2>7. StaleCauses'
    <3>1. session \in Nat
      BY <1>1, RegistryAssumption
    <3> QED BY <2>2, <2>3, <3>1 DEF Inv, RegistryInv, StaleCauses, Executable
  <2>8. HeldInv'
    <3>1. \A m \in Names : stmts'[m].born <= session'
      <4>1. session \in Nat
        BY <1>1, RegistryAssumption
      <4> QED BY <2>2, <2>3, <4>1 DEF Inv, RegistryInv, HeldInv
    <3>2. link' = "up" =>
            \A m \in Names : stmts'[m].mysql = "handle" /\ stmts'[m].born = session' =>
              stmts'[m].id \in DOMAIN held' /\ held'[stmts'[m].id] = stmts'[m].sql
      BY <2>2, <2>3 DEF Inv, RegistryInv, HeldInv
    <3>3. ran.name # None => stmts'[ran.name].state # "none"
      BY <2>3, <2>5 DEF Inv, RegistryInv, HeldInv
    <3> QED BY <3>1, <3>2, <3>3, QuietHeld
  <2> QED BY <2>4, <2>6, <2>7, <2>8 DEF Inv, RegistryInv
<1>3. CASE stmts[n].state # "none"
  <2>1. stmts' = stmts
    BY <1>3 DEF Registered
  <2> QED BY <1>1, <2>1, SameItself, SourcesQuiet DEF Inv, RegistryInv, StaleCauses, Executable
<1> QED BY <1>2, <1>3

LEMMA ReceiveStep ==
  ASSUME Inv, Receive
  PROVE  Inv'
<1>1. /\ Waiting /\ reply # NoReply /\ reply' = NoReply
      /\ UNCHANGED <<reconnect, link, known, session, held, ran, seen>>
      /\ Succeeds \/ (reply.kind = "error" /\ FailsLate /\ UNCHANGED trans)
  BY DEF Receive
<1>2. call \in Calls /\ stmts \in [Names -> Statements]
  BY <1>1, Types DEF Inv
<1>3. link \in Links /\ reply.id \in Nat /\ trans \in BOOLEAN
  BY DEF Inv, TypeOK
<1>4. call.op = "exec" => /\ call.name \in Names
                          /\ stmts[call.name].born < session => call.name \in seen
  BY <1>2, CallFacts DEF Inv, RegistryInv, HeldInv
<1>5. CASE Succeeds
  <2>1. Quiet
    <3>1. reconnect' \in BOOLEAN /\ known' \in BOOLEAN /\ dangling' \in BOOLEAN
      BY <1>1, <1>5 DEF Inv, TypeOK, Succeeds, Registered
    <3>2. trans' \in BOOLEAN
      <4>1. reply.trans \in BOOLEAN
        BY DEF Inv, TypeOK
      <4> QED BY <1>3, <1>5, <4>1 DEF Succeeds
    <3> QED BY <1>1, <1>3, <1>5, <3>1, <3>2 DEF Quiet, Succeeds
  <2>2. CASE call.op = "prepare"
    <3>1. Registered(call.name, call.sql, reply.id) /\ call.name \in Names /\ call.sql \in Sqls
      BY <1>2, <1>5, <2>2, CallFacts DEF Succeeds
    <3>2. link = "up" => reply.id \in DOMAIN held /\ held[reply.id] = call.sql
      BY <1>1, <1>5, <2>2 DEF Inv, RegistryInv, HeldInv, Served, Succeeds
    <3> QED BY <1>1, <1>3, <2>1, <2>2, <3>1, <3>2, RegisteredStep DEF Served
  <2>3. CASE call.op = "exec"
    <3>1. stmts' = Revived(call.name)
      BY <1>5, <2>3 DEF Succeeds
    <3>2. SameSource(stmts, stmts') /\ \A m \in Names \ {call.name} : stmts'[m] = stmts[m]
      BY <1>2, <1>4, <2>3, <3>1, RevivedFacts
    <3>3. \A m \in Names : Usable(stmts'[m]) /\ stmts[m].born < session => m \in seen
      BY <1>4, <2>3, <3>2 DEF Inv, RegistryInv, StaleCauses, Executable
    <3> QED BY <1>1, <2>1, <2>3, <3>2, <3>3, SourcesQuiet DEF Served
  <2>4. CASE call.op = "reset"
    <3>1. stmts' = Detach(stmts)
      BY <1>5, <2>4 DEF Succeeds
    <3> QED BY <1>1, <1>2, <2>1, <3>1, DetachFacts, SourcesQuiet DEF Usable
  <2>5. CASE call.op = "ping"
    <3>1. stmts' = stmts
      BY <1>5, <2>5 DEF Succeeds
    <3> QED BY <1>1, <1>2, <2>1, <2>5, <3>1, SameItself, SourcesQuiet
        DEF Served, Inv, RegistryInv, StaleCauses, Executable
  <2> QED BY <1>5, <2>2, <2>3, <2>4, <2>5 DEF Succeeds
<1>6. CASE reply.kind = "error" /\ FailsLate /\ UNCHANGED trans
  <2>1. ~Served("reset")
    BY <1>6 DEF Served
  <2>2. CASE call.op = "exec"
    <3>1. Fails(call, Revived(call.name))
      BY <1>6, <2>2 DEF FailsLate
    <3>2. /\ SameSource(stmts, Revived(call.name))
          /\ \A m \in Names \ {call.name} : Revived(call.name)[m] = stmts[m]
      BY <1>2, <1>4, <2>2, RevivedFacts
    <3>3. Revived(call.name)[call.name].born = stmts[call.name].born
      BY <1>4, <2>2, <3>2 DEF SameSource
    <3>4. \A n \in Names : Usable(Revived(call.name)[n]) =>
            Usable(stmts[n]) \/ ~(Revived(call.name)[n].born < session) \/ n \in seen
      BY <1>4, <2>2, <3>2, <3>3
    <3> QED BY <1>1, <1>2, <1>3, <1>6, <2>1, <3>1, <3>2, <3>4, FailStep
  <2>3. CASE call.op # "exec"
    <3>1. Fails(call, stmts) /\ SameSource(stmts, stmts)
      BY <1>2, <1>6, <2>3, SameItself DEF FailsLate
    <3> QED BY <1>1, <1>2, <1>3, <1>6, <2>1, <3>1, FailStep
  <2> QED BY <2>2, <2>3
<1> QED BY <1>1, <1>5, <1>6

LEMMA ReadFailsStep ==
  ASSUME Inv, ReadFails
  PROVE  Inv'
<1>1. /\ Waiting /\ reply' = NoReply /\ link' = "down" /\ held' = <<>> /\ FailsLate
      /\ UNCHANGED <<reconnect, known, trans, session, ran, seen>>
  BY DEF ReadFails
<1>2. call \in Calls /\ stmts \in [Names -> Statements]
  BY <1>1, Types DEF Inv
<1>3. link' \in Links /\ link' # "up" /\ trans' \in BOOLEAN
  BY <1>1 DEF Links, Inv, TypeOK
<1>4. call.op = "exec" => /\ call.name \in Names
                          /\ stmts[call.name].born < session => call.name \in seen
  BY <1>2, CallFacts DEF Inv, RegistryInv, HeldInv
<1>5. CASE call.op = "exec"
  <2>1. Fails(call, Revived(call.name))
    BY <1>1, <1>5 DEF FailsLate
  <2>2. /\ SameSource(stmts, Revived(call.name))
        /\ \A m \in Names \ {call.name} : Revived(call.name)[m] = stmts[m]
    BY <1>2, <1>4, <1>5, RevivedFacts
  <2>3. Revived(call.name)[call.name].born = stmts[call.name].born
    BY <1>4, <1>5, <2>2 DEF SameSource
  <2>4. \A n \in Names : Usable(Revived(call.name)[n]) =>
          Usable(stmts[n]) \/ ~(Revived(call.name)[n].born < session) \/ n \in seen
    BY <1>4, <1>5, <2>2, <2>3
  <2> QED BY <1>1, <1>2, <1>3, <2>1, <2>2, <2>4, FailStep
<1>6. CASE call.op # "exec"
  <2>1. Fails(call, stmts) /\ SameSource(stmts, stmts)
    BY <1>1, <1>2, <1>6, SameItself DEF FailsLate
  <2> QED BY <1>1, <1>2, <1>3, <2>1, FailStep
<1> QED BY <1>5, <1>6

\* The server answers; what it holds otherwise stays.
LEMMA ServeStep ==
  ASSUME Inv, Serve
  PROVE  Inv'
<1>1. /\ Waiting /\ link = "up" /\ reply = NoReply
      /\ UNCHANGED <<reconnect, link, known, trans, stmts, dangling, call, session, seen>>
  BY DEF Serve, Running
<1>2. call \in Calls /\ stmts \in [Names -> Statements] /\ session \in 1..MaxSession
  BY <1>1, Types DEF Inv, TypeOK
<1>3. held \in Seq(Sqls \cup {None}) /\ ran.name \in Names \cup {None}
  BY DEF Inv, TypeOK
<1>4. ~Served("reset") /\ ~Served("prepare")
  BY <1>1, NoReplyFacts DEF Served
<1>5. \A n \in Names : stmts[n].mysql = "handle" /\ stmts[n].born = session =>
        stmts[n].id \in DOMAIN held /\ held[stmts[n].id] = stmts[n].sql
  BY <1>1, <1>4 DEF Inv, RegistryInv, HeldInv
<1>6. StaleCauses'
  BY <1>1 DEF Inv, RegistryInv, StaleCauses, Executable
<1>7. ASSUME held' \in Seq(Sqls \cup {None}),
             reply' \in [kind : {"none", "ok", "error"}, id : Nat, trans : BOOLEAN],
             ran' \in [name : Names \cup {None}, sql : Sqls \cup {None}, in : 1..MaxSession]
      PROVE  TypeOK'
  BY <1>1, <1>7 DEF Inv, TypeOK
<1>8. ASSUME OwnRun', ran'.name # None => stmts[ran'.name].state # "none",
             ~Served("reset")' =>
               \A n \in Names : stmts[n].mysql = "handle" /\ stmts[n].born = session =>
                 stmts[n].id \in DOMAIN held' /\ held'[stmts[n].id] = stmts[n].sql,
             Served("prepare")' => reply'.id \in DOMAIN held' /\ held'[reply'.id] = call.sql
      PROVE  RegistryInv'
  BY <1>1, <1>6, <1>8 DEF Inv, RegistryInv, HeldInv, Waiting
<1>9. ran' = ran => /\ OwnRun' /\ (ran'.name # None => stmts[ran'.name].state # "none")
                    /\ ran' \in [name : Names \cup {None}, sql : Sqls \cup {None}, in : 1..MaxSession]
  <2>1. ran \in [name : Names \cup {None}, sql : Sqls \cup {None}, in : 1..MaxSession]
    BY DEF Inv, TypeOK
  <2> QED BY <1>1, <2>1 DEF Inv, RegistryInv, OwnRun, HeldInv
<1>10. CASE /\ call.op = "prepare" /\ held' = Append(held, call.sql)
            /\ reply' = Reply("ok", Len(held'), FALSE) /\ ran' = ran
  <2>1. call.sql \in Sqls
    BY <1>2, <1>10, CallFacts
  <2>2. /\ held' \in Seq(Sqls \cup {None}) /\ Len(held') = Len(held) + 1 /\ Len(held') \in Nat
        /\ Len(held') \in DOMAIN held' /\ held'[Len(held')] = call.sql
        /\ \A i \in DOMAIN held : i \in DOMAIN held' /\ held'[i] = held[i]
    BY <1>3, <1>10, <2>1
  <2>3. /\ reply' \in [kind : {"none", "ok", "error"}, id : Nat, trans : BOOLEAN]
        /\ reply'.id = Len(held')
    BY <1>10, <2>2, ReplyFacts
  <2>4. RegistryInv'
    BY <1>5, <1>8, <1>9, <1>10, <2>2, <2>3
  <2> QED BY <1>7, <1>9, <1>10, <2>2, <2>3, <2>4 DEF Inv
<1>11. CASE /\ call.op = "exec" /\ call.id \in DOMAIN held
            /\ ran' = Run(call.name, held[call.id], session)
            /\ \E bit \in BOOLEAN : reply' = Reply("ok", 0, bit)
            /\ held' = held
  <2>1. call.name \in Names
    BY <1>2, <1>11, CallFacts
  <2>2. /\ ran' \in [name : Names \cup {None}, sql : Sqls \cup {None}, in : 1..MaxSession]
        /\ ran'.name = call.name /\ ran'.sql = held[call.id] /\ ran'.in = session
    BY <1>2, <1>3, <1>11, <2>1 DEF Run
  <2>3. stmts[call.name].mysql = "handle" /\ stmts[call.name].id = call.id
    BY <1>11 DEF Inv, TypeOK, RegistryInv, HeldInv
  <2>4. stmts[call.name].state # "none"
    BY <1>2, <2>1, <2>3, FieldFacts
  <2>5. OwnRun'
    BY <1>1, <1>5, <2>1, <2>2, <2>3 DEF OwnRun
  <2>6. reply' \in [kind : {"none", "ok", "error"}, id : Nat, trans : BOOLEAN]
    <3>1. PICK bit \in BOOLEAN : reply' = Reply("ok", 0, bit)
      BY <1>11
    <3>2. Reply("ok", 0, bit) \in [kind : {"none", "ok", "error"}, id : Nat, trans : BOOLEAN]
      BY ReplyFacts
    <3> QED BY <3>1, <3>2
  <2>7. ~Served("prepare")' /\ ~Served("reset")'
    BY <1>1, <1>11 DEF Served
  <2>8. RegistryInv'
    BY <1>5, <1>8, <1>11, <2>2, <2>4, <2>5, <2>7
  <2> QED BY <1>3, <1>7, <1>11, <2>2, <2>6, <2>8 DEF Inv
<1>12. CASE /\ call.op = "reset" /\ held' \in {<<>>, [i \in DOMAIN held |-> None]}
            /\ reply' = Reply("ok", 0, FALSE) /\ ran' = ran
  <2>1. held' \in Seq(Sqls \cup {None})
    <3>1. DOMAIN held = 1..Len(held) /\ Len(held) \in Nat
      BY <1>3
    <3>2. [i \in 1..Len(held) |-> None] \in Seq(Sqls \cup {None})
      BY <3>1
    <3>3. <<>> \in Seq(Sqls \cup {None})
      OBVIOUS
    <3>4. [i \in DOMAIN held |-> None] = [i \in 1..Len(held) |-> None]
      BY <3>1, Zenon
    <3> QED BY <1>12, <3>2, <3>3, <3>4, Zenon
  <2>2. /\ reply' \in [kind : {"none", "ok", "error"}, id : Nat, trans : BOOLEAN]
        /\ reply'.kind = "ok"
    BY <1>12, ReplyFacts
  <2>3. Served("reset")' /\ ~Served("prepare")'
    BY <1>1, <1>12, <2>2 DEF Served, Waiting
  <2>4. RegistryInv'
    BY <1>8, <1>9, <1>12, <2>3
  <2> QED BY <1>7, <1>9, <1>12, <2>1, <2>2, <2>4 DEF Inv
<1>13. CASE /\ \/ call.op = "ping" /\ reply' = Reply("ok", 0, FALSE)
               \/ reply' = Reply("error", 0, FALSE)
            /\ held' = held /\ ran' = ran
  <2>1. reply' \in [kind : {"none", "ok", "error"}, id : Nat, trans : BOOLEAN]
    <3>1. \A kind \in {"ok", "error"} :
            Reply(kind, 0, FALSE) \in [kind : {"none", "ok", "error"}, id : Nat, trans : BOOLEAN]
      BY ReplyFacts
    <3> QED BY <1>13, <3>1
  <2>2. ~Served("prepare")' /\ ~Served("reset")'
    BY <1>1, <1>13, ReplyFacts DEF Served
  <2>3. RegistryInv'
    BY <1>5, <1>8, <1>9, <1>13, <2>2
  <2> QED BY <1>3, <1>7, <1>9, <1>13, <2>1, <2>3 DEF Inv
<1> QED BY <1>10, <1>11, <1>12, <1>13 DEF Serve

LEMMA CutStep ==
  ASSUME Inv, Cut
  PROVE  Inv'
<1>1. /\ link' = "cut" /\ held' = <<>> /\ reply' \in {reply, NoReply}
      /\ UNCHANGED <<reconnect, known, trans, stmts, dangling, call, session, ran, seen>>
  BY DEF Cut
<1>2. TypeOK'
  <2>1. reply' \in [kind : {"none", "ok", "error"}, id : Nat, trans : BOOLEAN]
    BY <1>1, NoReplyFacts DEF Inv, TypeOK
  <2>2. link' \in Links /\ held' \in Seq(Sqls \cup {None})
    BY <1>1 DEF Links
  <2> QED BY <1>1, <2>1, <2>2 DEF Inv, TypeOK
<1>3. OwnRun' /\ StaleCauses'
  BY <1>1 DEF Inv, RegistryInv, OwnRun, StaleCauses, Executable
<1>4. HeldInv'
  BY <1>1 DEF Inv, RegistryInv, HeldInv, Waiting
<1> QED BY <1>2, <1>3, <1>4 DEF Inv, RegistryInv

\* A new session holds nothing, and no statement is of it.
LEMMA OpenedStep ==
  ASSUME Inv, Quiet, Opens, SameSource(stmts, stmts'), seen' \subseteq Names,
         \A n \in Names : Usable(stmts'[n]) => n \in seen'
  PROVE  Inv'
<1>1. session' = session + 1 /\ session < MaxSession /\ held' = <<>>
  BY DEF Opens
<1>2. session \in Nat /\ \A n \in Names : stmts[n].born \in Nat
  BY Types DEF Inv
<1>3. session' \in 1..MaxSession
  BY <1>1, <1>2, RegistryAssumption DEF Inv, TypeOK
<1>4. TypeOK'
  <2>1. held' \in Seq(Sqls \cup {None}) /\ stmts' \in [Names -> Statements]
    BY <1>1 DEF SameSource
  <2> QED BY <1>3, <2>1, QuietTypes DEF Inv
<1>5. OwnRun' /\ (ran.name # None => stmts'[ran.name].state # "none")
  BY SourcesRun DEF Quiet
<1>6. StaleCauses'
  BY DEF StaleCauses, Executable
<1>7. HeldInv'
  <2>1. \A n \in Names : stmts'[n].born <= session' /\ stmts'[n].born # session'
    BY <1>1, <1>2 DEF Inv, RegistryInv, HeldInv, SameSource
  <2> QED BY <1>5, <2>1, QuietHeld
<1> QED BY <1>4, <1>5, <1>6, <1>7 DEF Inv, RegistryInv

LEMMA ConnectStep ==
  ASSUME Inv, Connect
  PROVE  Inv'
<1>1. /\ Idle /\ link = "down" /\ trans' = FALSE /\ known' \in {TRUE, FALSE}
      /\ UNCHANGED <<reconnect, stmts, dangling, call, reply, ran>>
  BY DEF Connect
<1>2. Quiet
  <2>1. call' = NoCall /\ reply' = NoReply /\ ran' = ran
    BY <1>1, CallFacts DEF Idle, Inv, RegistryInv, HeldInv, Waiting
  <2>2. reconnect' \in BOOLEAN /\ known' \in BOOLEAN /\ trans' \in BOOLEAN /\ dangling' \in BOOLEAN
    BY <1>1 DEF Inv, TypeOK
  <2>3. link' \in Links
    BY DEF Connect, Links
  <2> QED BY <2>1, <2>2, <2>3 DEF Quiet
<1>3. stmts' = stmts /\ SameSource(stmts, stmts')
  BY <1>1, Types, SameItself DEF Inv
<1>4. CASE Opens /\ seen' = Names
  BY <1>2, <1>3, <1>4, OpenedStep
<1>5. CASE link' = "down" /\ UNCHANGED <<session, held, seen>>
  BY <1>2, <1>3, <1>5, SourcesQuiet DEF Inv, RegistryInv, StaleCauses, Executable
<1> QED BY <1>4, <1>5 DEF Connect

LEMMA ReconnectStep ==
  ASSUME Inv, Reconnect
  PROVE  Inv'
<1>1. /\ Idle /\ trans' = FALSE /\ UNCHANGED <<reconnect, known, dangling, call, reply, ran>>
      /\ \/ link' = "up" /\ Opens /\ stmts' = Stale(stmts) /\ seen' = {}
         \/ UNCHANGED <<link, session, held, stmts, seen>>
  BY DEF Reconnect
<1>2. call = NoCall /\ reply = NoReply /\ ~Served("reset")
  BY <1>1, CallFacts DEF Idle, Inv, RegistryInv, HeldInv, Waiting, Served
<1>3. Quiet
  <2>1. reconnect' \in BOOLEAN /\ known' \in BOOLEAN /\ trans' \in BOOLEAN /\ dangling' \in BOOLEAN
    BY <1>1 DEF Inv, TypeOK
  <2>2. link' \in Links
    BY <1>1 DEF Links, Inv, TypeOK
  <2> QED BY <1>1, <1>2, <2>1, <2>2 DEF Quiet
<1>4. stmts \in [Names -> Statements]
  BY Types DEF Inv
<1>5. CASE Opens /\ stmts' = Stale(stmts) /\ seen' = {}
  BY <1>3, <1>4, <1>5, StaleFacts, OpenedStep
<1>6. CASE UNCHANGED <<link, session, held, stmts, seen>>
  BY <1>2, <1>3, <1>4, <1>6, SameItself, SourcesQuiet
  DEF Inv, RegistryInv, StaleCauses, Executable
<1> QED BY <1>1, <1>5, <1>6


\* A name that cannot be executed any more is not brought back.
LEMMA DeadStale ==
  ASSUME TypeOK, NEW n \in Names, Dead(n),
         stmts' = stmts \/ stmts' = Stale(stmts) \/ stmts' = Detach(stmts)
  PROVE  Dead(n)'
<1>1. stmts \in [Names -> Statements]
  BY DEF TypeOK
<1> QED BY <1>1, StaleFacts, DetachFacts DEF Dead, Executable, Usable, SameSource

LEMMA DeadSent ==
  ASSUME TypeOK, NEW c, Send(c), NEW n \in Names, Dead(n)
  PROVE  Dead(n)'
<1>1. stmts' = stmts \/ stmts' = Stale(stmts)
  BY DEF Send, Fails
<1> QED BY <1>1, DeadStale

LEMMA DeadStep ==
  ASSUME TypeOK, [Next]_vars, NEW n \in Names, Dead(n), ~(call.op = "exec" /\ call.name = n)
  PROVE  Dead(n)'
<1>1. CASE Receive
  <2>1. stmts \in [Names -> Statements] /\ call \in Calls
    BY <1>1, Types DEF Receive
  <2>2. CASE call.op = "exec"
    <3>1. call.name \in Names /\ call.name # n /\ stmts' = Revived(call.name)
      BY <1>1, <2>1, <2>2, CallFacts DEF Receive, Succeeds, FailsLate, Fails
    <3>2. stmts'[n] = stmts[n]
      BY <2>1, <3>1, RevivedFacts
    <3> QED BY <3>2 DEF Dead, Executable
  <2>3. CASE call.op = "prepare" /\ Succeeds
    <3>1. Registered(call.name, call.sql, reply.id) /\ call.name \in Names
      BY <2>1, <2>3, CallFacts DEF Succeeds
    <3>2. CASE stmts[call.name].state = "none"
      <4>1. stmts'[n] = stmts[n]
        BY <2>1, <3>1, <3>2 DEF Registered, Dead
      <4> QED BY <4>1 DEF Dead, Executable
    <3>3. CASE stmts[call.name].state # "none"
      BY <3>1, <3>3, DeadStale DEF Registered
    <3> QED BY <3>2, <3>3
  <2>4. CASE call.op # "exec" /\ ~(call.op = "prepare" /\ Succeeds)
    <3>1. stmts' = stmts \/ stmts' = Detach(stmts)
      BY <1>1, <2>4 DEF Receive, Succeeds, FailsLate, Fails
    <3> QED BY <3>1, DeadStale
  <2> QED BY <2>2, <2>3, <2>4
<1>2. CASE ReadFails
  <2>1. stmts \in [Names -> Statements] /\ call \in Calls
    BY <1>2, Types DEF ReadFails
  <2>2. CASE call.op = "exec"
    <3>1. call.name \in Names /\ call.name # n /\ stmts' = Revived(call.name)
      BY <1>2, <2>1, <2>2, CallFacts DEF ReadFails, FailsLate, Fails
    <3>2. stmts'[n] = stmts[n]
      BY <2>1, <3>1, RevivedFacts
    <3> QED BY <3>2 DEF Dead, Executable
  <2>3. CASE call.op # "exec"
    BY <1>2, <2>3, DeadStale DEF ReadFails, FailsLate, Fails
  <2> QED BY <2>2, <2>3
<1>3. ASSUME NEW m \in Names, NEW q \in Sqls, Prepare(m, q) PROVE Dead(n)'
  BY <1>3, DeadSent DEF Prepare
<1>4. ASSUME NEW m \in Names, Exec(m) PROVE Dead(n)'
  BY <1>4, DeadSent DEF Exec
<1>5. ASSUME NEW op \in {"ping", "reset"}, Command(op) PROVE Dead(n)'
  BY <1>5, DeadSent DEF Command
<1>6. CASE Retry
  BY <1>6, DeadSent DEF Retry
<1>7. CASE Serve \/ Cut \/ Connect \/ Reconnect \/ UNCHANGED vars
  <2>1. stmts' = stmts \/ stmts' = Stale(stmts)
    BY <1>7 DEF Serve, Cut, Connect, Reconnect, vars, client
  <2> QED BY <2>1, DeadStale
<1> QED BY <1>1, <1>2, <1>3, <1>4, <1>5, <1>6, <1>7 DEF Next

-----------------------------------------------------------------------------
(* Theorems.                                                               *)

LEMMA InitInv ==
  ASSUME Init
  PROVE  Inv
<1>1. NoStmt \in Statements /\ NoStmt.born = 1 /\ NoStmt.mysql = "null" /\ NoStmt.state = "none"
  BY RegistryAssumption DEF NoStmt, Stmt, Statements
<1>2. /\ ran \in [name : Names \cup {None}, sql : Sqls \cup {None}, in : 1..MaxSession]
      /\ ran.name = None
  BY RegistryAssumption DEF Init, Run
<1>3. /\ stmts \in [Names -> Statements] /\ \A n \in Names : stmts[n] = NoStmt
      /\ session = 1 /\ session \in 1..MaxSession
  BY <1>1, RegistryAssumption DEF Init
<1>4. /\ call = NoCall /\ call.op = "none" /\ call.at = "idle" /\ reply = NoReply
      /\ reply \in [kind : {"none", "ok", "error"}, id : Nat, trans : BOOLEAN]
  BY CallFacts, NoReplyFacts DEF Init
<1>5. /\ reconnect \in BOOLEAN /\ known \in BOOLEAN /\ trans \in BOOLEAN /\ dangling \in BOOLEAN
      /\ link \in Links /\ held \in Seq(Sqls \cup {None}) /\ seen \subseteq Names
  <2>1. reconnect \in BOOLEAN /\ known \in BOOLEAN /\ trans \in BOOLEAN /\ dangling \in BOOLEAN
    BY RegistryAssumption, Zenon DEF Init
  <2>2. link \in Links /\ held \in Seq(Sqls \cup {None}) /\ seen \subseteq Names
    BY DEF Init, Links
  <2> QED BY <2>1, <2>2
<1>6. TypeOK
  BY <1>2, <1>3, <1>4, <1>5 DEF TypeOK
<1>7. RegistryInv
  BY <1>1, <1>2, <1>3, <1>4
  DEF RegistryInv, OwnRun, StaleCauses, HeldInv, Executable, Usable, Waiting, Served
<1> QED BY <1>6, <1>7 DEF Inv

LEMMA NextInv ==
  ASSUME Inv, [Next]_vars
  PROVE  Inv'
<1>1. ASSUME NEW n \in Names, NEW q \in Sqls, Prepare(n, q) PROVE Inv'
  BY <1>1, PrepareStep
<1>2. ASSUME NEW n \in Names, Exec(n) PROVE Inv'
  BY <1>2, ExecStep
<1>3. ASSUME NEW op \in {"ping", "reset"}, Command(op) PROVE Inv'
  BY <1>3, CommandStep
<1>4. CASE Retry \/ Receive \/ ReadFails
  BY <1>4, RetryStep, ReceiveStep, ReadFailsStep
<1>5. CASE Serve \/ Cut
  BY <1>5, ServeStep, CutStep
<1>6. CASE Connect \/ Reconnect
  BY <1>6, ConnectStep, ReconnectStep
<1>7. CASE UNCHANGED vars
  BY <1>7 DEF vars, client, Inv, TypeOK, RegistryInv, OwnRun, StaleCauses, HeldInv, Executable,
     Waiting, Served
<1> QED BY <1>1, <1>2, <1>3, <1>4, <1>5, <1>6, <1>7 DEF Next

LEMMA SpecInv == Spec => []Inv
<1>1. Init => Inv
  BY InitInv
<1>2. Inv /\ [Next]_vars => Inv'
  BY NextInv
<1> QED BY <1>1, <1>2, PTL DEF Spec

\* What the handle, its statements and the server's session may hold: prepare(),
\* exec(), ping(), reset(), connect() and reconnect() keep it.
THEOREM RegistryTypes == Spec => []TypeOK
BY SpecInv, PTL DEF Inv

\* The inductive invariant: what the session holds is what its statements stand for.
THEOREM RegistryKept == Spec => []RegistryInv
BY SpecInv, PTL DEF Inv

\* exec(prepped(name)) in the session that has prepared the statement runs what was
\* given to prepare(), however many sessions and statements there have been.
THEOREM OwnSqlRuns == Spec => []OwnRun
BY SpecInv, PTL DEF Inv, RegistryInv

\* Only connect(), and the reconnection under an execution itself, leave a statement
\* executable in a session that does not know it.
THEOREM StaleOnlyThere == Spec => []StaleCauses
BY SpecInv, PTL DEF Inv, RegistryInv

\* prepare(), connect(), reconnect(), ping() and reset() never make a statement
\* executable again that has lost its number or its handle.
THEOREM DeadStayDead == Spec => DeadForGood
<1>1. TypeOK /\ [Next]_vars =>
        [\A n \in Names :
           Dead(n) /\ ~(call.op = "exec" /\ call.name = n) => Dead(n)']_vars
  BY DeadStep
<1> QED BY <1>1, RegistryTypes, PTL DEF Spec, DeadForGood
=============================================================================
