----------------------------- MODULE TxnProofs -----------------------------
(***************************************************************************)
(* Theorems about TxnSession, for any set of writes and any settings of     *)
(* the reconnection option, and its refinement of AtomicStore when the      *)
(* option stays off.                                                       *)
(***************************************************************************)
EXTENDS TxnSession, SendingProofs, Naturals

-----------------------------------------------------------------------------
(* The server's operators.                                                 *)

LEMMA SessionTypes ==
  ASSUME NEW s \in Sessions, NEW op \in Requests, NEW w \in Writes \cup {NoWrite},
         op = "write" => w \in Writes
  PROVE  /\ Lands(s, op, w) \subseteq Writes
         /\ After(s, op, w) \in Sessions
         /\ Failures(s) \subseteq Sessions
         /\ NewSession \in Sessions
BY DEF Sessions, Requests, Texts, Commands, Lands, Commits, Alone, After, Ends, Ended,
       Failures, NewSession

\* After a success the session's work and what has landed come from the work
\* before and the write.
LEMMA SessionWork ==
  ASSUME NEW s \in Sessions, NEW op \in Requests, NEW w \in Writes \cup {NoWrite},
         op = "write" => w \in Writes, ~s.open => s.work = {}
  PROVE  /\ Lands(s, op, w) \subseteq s.work \cup {w}
         /\ After(s, op, w).work \subseteq s.work \cup {w}
         /\ Lands(s, op, w) \cap After(s, op, w).work = {}
         /\ ~After(s, op, w).open => After(s, op, w).work = {}
         /\ op = "commit" => Lands(s, op, w) = s.work
         /\ op = "begin" => After(s, op, w).open
         /\ op = "write" => /\ s.work \cup {w} = Lands(s, op, w) \cup After(s, op, w).work
                            /\ Lands(s, op, w) = {} => After(s, op, w).open
                            /\ s.open => Lands(s, op, w) = {} /\ After(s, op, w).open
BY DEF Sessions, Requests, Texts, Commands, Lands, Commits, Alone, After, Ends, Ended, NewSession

LEMMA FailedWork ==
  ASSUME NEW s \in Sessions, NEW t \in Failures(s), ~s.open => s.work = {}
  PROVE  t.work \subseteq s.work /\ (~t.open => t.work = {})
BY DEF Sessions, Failures, Ended

LEMMA HereSent ==
  ASSUME link \in Links, trans \in BOOLEAN,
         NEW out \in SendCmd(link, reconnect, trans, known)
  PROVE  /\ out.link \in Links /\ out.trans \in BOOLEAN
         /\ out.how \in {"sent", "new", "void", "fails"}
         /\ out.how = "sent" => link = "up" /\ out.link = "up" /\ out.trans = trans
         /\ out.how = "new" => link # "up" /\ out.link = "up" /\ ~trans /\ reconnect = TRUE
         /\ out.how = "void" => link = "cut" /\ out.link = "cut" /\ out.trans = trans
         /\ out.how = "fails" => link # "up" /\ out.link # "up"
         /\ reconnect = FALSE => out.how # "new" /\ (out.how = "fails" => out.link = "down")
<1>1. Outcome(link, reconnect, trans, known, out)
  BY Sendings, Zenon
<1> QED BY <1>1 DEF Outcome

-----------------------------------------------------------------------------
(* Calls, answers and what they make of the caller's beliefs.               *)

LEMMA NoCallFacts ==
  /\ NoCall.op = "none" /\ NoCall.at = "idle" /\ NoCall.w = NoWrite
  /\ NoCall \notin Calls
BY DEF NoCall, Request, Calls, Requests, Texts, Commands

RequestOK(op, w, try, at) ==
  /\ op \in Requests /\ w \in Writes \cup {NoWrite} /\ try \in {"first", "second"}
  /\ at \in {"wait", "retry"}
  /\ op = "write" <=> w \in Writes
  /\ try = "second" => op \in Commands
  /\ at = "retry" => try = "second"

LEMMA RequestFacts ==
  ASSUME NEW op, NEW w, NEW try, NEW at, RequestOK(op, w, try, at)
  PROVE  /\ Request(op, w, try, at) \in Calls
         /\ Request(op, w, try, at).op = op
         /\ Request(op, w, try, at).w = w
         /\ Request(op, w, try, at).at = at
BY DEF Request, Calls, RequestOK

LEMMA CallFacts ==
  ASSUME NEW c \in Calls
  PROVE  /\ c.op \in Requests /\ c.w \in Writes \cup {NoWrite} /\ c.try \in {"first", "second"}
         /\ c.op = "write" <=> c.w \in Writes
         /\ c.try = "second" => c.op \in Commands
         /\ c.at \in {"wait", "retry"}
         /\ c # NoCall
BY NoCallFacts DEF Calls

Beliefs == [unit : SUBSET Writes, begun : BOOLEAN, manual : BOOLEAN]

LEMMA NoBeliefFacts ==
  NoBelief \in Beliefs /\ NoBelief.unit = {} /\ ~NoBelief.begun
BY DEF NoBelief, Beliefs

LEMMA LearnedFacts ==
  ASSUME NEW b \in Beliefs, NEW op, NEW w, op = "write" => w \in Writes
  PROVE  /\ Learned(b, op, w) \in Beliefs
         /\ Learned(b, op, w).unit = IF op = "write" THEN b.unit \cup {w} ELSE {}
         /\ Learned(b, op, w).begun <=> op = "begin" \/ (op = "write" /\ b.begun)
BY DEF Learned, Beliefs

LEMMA ReplyFacts ==
  /\ NoReply.kind = "none"
  /\ NoReply \in [kind : {"none", "ok", "error"}, trans : BOOLEAN]
  /\ \A bit \in BOOLEAN : /\ Reply("ok", bit) # NoReply /\ Reply("ok", bit).kind = "ok"
                          /\ Reply("ok", bit).trans = bit
                          /\ Reply("ok", bit) \in [kind : {"none", "ok", "error"}, trans : BOOLEAN]
  /\ Reply("error", FALSE) # NoReply /\ Reply("error", FALSE).kind = "error"
  /\ Reply("error", FALSE) \in [kind : {"none", "ok", "error"}, trans : BOOLEAN]
BY DEF NoReply, Reply

\* A call that fails is sent again, if it is a ping() or a reset(), or the
\* caller gives up what it believed.
LEMMA FailsFacts ==
  ASSUME NEW c \in Calls, Fails(c), belief \in Beliefs, ret \in {"none", "ok", "error"}
  PROVE  /\ ret' \in {"none", "ok", "error"}
         /\ belief' \in Beliefs
         /\ call' \in Calls \cup {NoCall}
         /\ call'.at # "wait"
         /\ call' = NoCall => belief' = NoBelief
         /\ call' # NoCall => call' = Request(c.op, c.w, "second", "retry") /\ c.op \in Commands
                              /\ call'.w \notin Writes
<1>1. CASE Retries(c)
  <2>1. call' = Request(c.op, c.w, "second", "retry") /\ ret' = ret /\ belief' = belief
    BY <1>1 DEF Fails
  <2>2. c.op \in Commands
    BY <1>1 DEF Retries
  <2>3. call' \in Calls /\ call'.at = "retry" /\ call'.w = c.w
    <3>2. RequestOK(c.op, c.w, "second", "retry")
      BY <2>2, CallFacts DEF RequestOK
    <3> QED BY <2>1, <3>2, RequestFacts
  <2>4. c.w \notin Writes
    BY <2>2, CallFacts DEF Commands
  <2> QED BY <2>1, <2>2, <2>3, <2>4, CallFacts
<1>2. CASE ~Retries(c)
  <2>1. call' = NoCall /\ belief' = NoBelief /\ ret' = "error"
    BY <1>2 DEF Fails, Returns, Answer
  <2> QED BY <2>1, NoCallFacts, NoBeliefFacts
<1> QED BY <1>1, <1>2

-----------------------------------------------------------------------------
(* The invariant: one lemma per action.                                     *)

Inv == TypeOK /\ TxnInv

LEMMA Types ==
  ASSUME TypeOK
  PROVE  /\ srv \in Sessions /\ srv.work \subseteq Writes
         /\ belief \in Beliefs /\ belief.unit \subseteq Writes
         /\ call \in Calls \cup {NoCall}
         /\ Waiting => call \in Calls
         /\ UNION late \subseteq Writes
BY NoCallFacts DEF TypeOK, Sessions, Beliefs, Waiting

\* Nothing in the invariant speaks of the options or of the last answer.
LEMMA Framed ==
  ASSUME TxnInv, UNCHANGED <<link, trans, call, reply, srv, late, store, issued, belief>>
  PROVE  TxnInv'
BY DEF TxnInv, ReplyInv, PlaceInv, UnitInv, BegunInv, Held, Secured, Pending, Idle,
       Waiting, Running

\* After a call has failed nothing is awaited, and nothing believed.
LEMMA FailStep ==
  ASSUME TypeOK, PlaceInv, NEW c \in Calls, Fails(c), reply' = NoReply,
         store' = store, issued \subseteq issued',
         Held' \subseteq issued', srv'.work \cap (store' \cup UNION late') = {},
         store' \cap UNION late' = {}, \A e, f \in late' : e = f \/ e \cap f = {},
         ~srv'.open => srv'.work = {}
  PROVE  TxnInv'
<1>1. call'.at # "wait" /\ call'.w \notin Writes /\ (call' = NoCall => belief' = NoBelief)
  <2>1. belief \in Beliefs /\ ret \in {"none", "ok", "error"}
    BY DEF TypeOK, Beliefs
  <2> QED BY <2>1, FailsFacts, NoCallFacts, WritesAssumption
<1>2. ReplyInv' /\ ~Waiting' /\ ~Running'
  BY <1>1 DEF ReplyInv, Waiting, Running
<1>3. PlaceInv'
  BY <1>1, <1>2 DEF PlaceInv
<1>4. UnitInv' /\ BegunInv'
  BY <1>1, <1>2, NoBeliefFacts DEF UnitInv, BegunInv, Secured, Idle
<1> QED BY <1>2, <1>3, <1>4 DEF TxnInv

LEMMA SendStep ==
  ASSUME TypeOK, TxnInv, NEW c \in Calls, Send(c), ~Waiting,
         Idle \/ c.op \in Commands,
         issued \subseteq issued', issued' \subseteq Writes,
         c.w \in Writes => c.w \in issued' /\ c.w \notin issued
  PROVE  TypeOK' /\ TxnInv'
<1>1. PICK out \in SendCmd(link, reconnect, trans, known) :
        /\ link' = out.link /\ trans' = out.trans
        /\ srv' = IF out.how = "sent" THEN srv ELSE NewSession
        /\ IF out.how = "fails" THEN Fails(c)
           ELSE call' = Request(c.op, c.w, c.try, "wait") /\ UNCHANGED <<ret, belief>>
  BY DEF Send
<1>2. UNCHANGED <<prop, reconnect, known, reply, late, store>>
  BY DEF Send
<1>3. link \in Links /\ trans \in BOOLEAN
  BY DEF TypeOK
<1>4. /\ out.link \in Links /\ out.trans \in BOOLEAN
      /\ out.how \in {"sent", "new", "void", "fails"}
      /\ out.how = "sent" => link = "up" /\ out.link = "up" /\ out.trans = trans
      /\ out.how = "new" => link # "up" /\ out.link = "up" /\ ~trans
      /\ out.how = "void" => link = "cut" /\ out.link = "cut" /\ out.trans = trans
  BY <1>3, HereSent
<1>5. reply = NoReply
  BY DEF TxnInv, ReplyInv
<1>6. srv' \in Sessions /\ srv'.work \subseteq srv.work /\ (~srv'.open => srv'.work = {})
  BY <1>1, Types DEF NewSession, Sessions, TxnInv, PlaceInv
<1>7. /\ Held' \subseteq Held /\ Held' \subseteq issued'
      /\ srv'.work \cap (store' \cup UNION late') = {}
      /\ store' \cap UNION late' = {}
      /\ \A e, f \in late' : e = f \/ e \cap f = {}
  BY <1>2, <1>6 DEF TxnInv, PlaceInv, Held
<1>8. CASE out.how = "fails"
  <2>1. Fails(c)
    BY <1>1, <1>8
  <2>2. /\ ret' \in {"none", "ok", "error"} /\ belief' \in Beliefs
        /\ call' \in Calls \cup {NoCall}
    <3>1. belief \in Beliefs /\ ret \in {"none", "ok", "error"}
      BY DEF TypeOK, Beliefs
    <3> QED BY <2>1, <3>1, FailsFacts
  <2>3. TypeOK'
    BY <1>1, <1>2, <1>4, <1>6, <2>2 DEF TypeOK, Beliefs
  <2>4. TxnInv'
    BY <1>2, <1>5, <1>6, <1>7, <2>1, FailStep DEF TxnInv
  <2> QED BY <2>3, <2>4
<1>9. CASE out.how # "fails"
  <2>1. call' = Request(c.op, c.w, c.try, "wait") /\ ret' = ret /\ belief' = belief
    BY <1>1, <1>9
  <2>2. call' \in Calls /\ call'.op = c.op /\ call'.w = c.w /\ call'.at = "wait"
    <3>1. RequestOK(c.op, c.w, c.try, "wait")
      BY CallFacts DEF RequestOK
    <3> QED BY <2>1, <3>1, RequestFacts
  <2>3. TypeOK'
    BY <1>1, <1>2, <1>4, <1>6, <2>1, <2>2 DEF TypeOK
  <2>4. ReplyInv' /\ ~Idle' /\ Waiting' /\ reply' = NoReply /\ reply'.kind = "none"
    BY <1>2, <1>5, <2>2, CallFacts, ReplyFacts DEF ReplyInv, Idle, Waiting
  <2>5. PlaceInv'
    <3>1. c.w \notin Held'
      BY <1>7, Types, CallFacts, WritesAssumption DEF TxnInv, PlaceInv, TypeOK
    <3> QED BY <1>6, <1>7, <2>2, <3>1 DEF PlaceInv
  <2>6. UnitInv'
    <3>1. ASSUME Running', c.op \in Texts PROVE belief.unit \subseteq store \cup srv'.work
      <4>1. Idle /\ Secured(belief.unit, trans)
        BY <3>1 DEF Texts, Commands, TxnInv, UnitInv
      <4>2. out.link = "up"
        BY <1>1, <3>1 DEF Running
      <4> QED BY <1>1, <1>4, <1>9, <4>1, <4>2 DEF Secured
    <3> QED BY <1>2, <2>1, <2>2, <2>4, <3>1 DEF UnitInv
  <2>7. BegunInv'
    <3>1. ASSUME Running', c.op \in Texts, belief.begun
          PROVE  srv'.open /\ belief.unit \cap (store \cup UNION late) = {}
      <4>1. Idle /\ Pending(belief.unit, trans)
        BY <3>1 DEF Texts, Commands, TxnInv, BegunInv
      <4>2. out.link = "up"
        BY <1>1, <3>1 DEF Running
      <4> QED BY <1>1, <1>4, <1>9, <4>1, <4>2 DEF Pending
    <3> QED BY <1>2, <2>1, <2>2, <2>4, <3>1 DEF BegunInv, Pending
  <2> QED BY <2>3, <2>4, <2>5, <2>6, <2>7 DEF TxnInv
<1> QED BY <1>8, <1>9

LEMMA CallStep ==
  ASSUME Inv, NEW op \in Requests, NEW w \in Writes \cup {NoWrite}, Call(op, w)
  PROVE  Inv'
<1> DEFINE c == Request(op, w, "first", "wait")
<1>1. op = "write" <=> w \in Writes
  BY WritesAssumption DEF Call
<1>2. c \in Calls /\ c.w = w
  <2>1. RequestOK(op, w, "first", "wait")
    BY <1>1 DEF RequestOK
  <2> QED BY <2>1, RequestFacts
<1>3. Idle /\ ~Waiting /\ Send(c)
  BY NoCallFacts DEF Call, Idle, Waiting
<1>4. /\ issued \subseteq issued' /\ issued' \subseteq Writes
      /\ w \in Writes => w \in issued' /\ w \notin issued
  BY <1>1 DEF Call, Inv, TypeOK
<1> HIDE DEF c
<1> QED BY <1>2, <1>3, <1>4, SendStep DEF Inv

LEMMA RetryStep ==
  ASSUME Inv, Retry
  PROVE  Inv'
<1>1. call \in Calls /\ ~Waiting
  BY NoCallFacts DEF Inv, TypeOK, Retry, Waiting
<1>2. call.op \in Commands
  BY <1>1 DEF Calls, Retry, Inv, TypeOK
<1>3. call.w \notin Writes
  BY <1>1, <1>2, CallFacts DEF Commands
<1>4. Send(call) /\ issued' = issued /\ issued \subseteq Writes
  BY DEF Retry, Inv, TypeOK
<1> QED BY <1>1, <1>2, <1>3, <1>4, SendStep DEF Inv

LEMMA ReceiveStep ==
  ASSUME Inv, Receive
  PROVE  Inv'
<1>1. /\ Waiting /\ reply # NoReply /\ reply' = NoReply
      /\ UNCHANGED <<prop, reconnect, known, link, srv, late, store, issued>>
  BY DEF Receive, client, server
<1>2. call \in Calls /\ belief \in Beliefs /\ ret \in {"none", "ok", "error"}
  BY <1>1, Types DEF Inv, TypeOK
<1>3. /\ Held' = Held /\ Held' \subseteq issued' /\ srv'.work \cap (store' \cup UNION late') = {}
      /\ store' \cap UNION late' = {} /\ (~srv'.open => srv'.work = {})
      /\ \A e, f \in late' : e = f \/ e \cap f = {}
  BY <1>1 DEF Inv, TxnInv, PlaceInv, Held
<1>4. CASE reply.kind = "ok" /\ trans' = Status /\ Returns(call, TRUE)
  <2>1. call' = NoCall /\ ret' = "ok" /\ belief' = Learned(belief, call.op, call.w)
    BY <1>4 DEF Returns, Answer
  <2>2. /\ belief' \in Beliefs
        /\ belief'.unit = IF call.op = "write" THEN belief.unit \cup {call.w} ELSE {}
        /\ belief'.begun <=> call.op = "begin" \/ (call.op = "write" /\ belief.begun)
    <3>1. call.op = "write" => call.w \in Writes
      BY <1>2, CallFacts
    <3> QED BY <1>2, <2>1, <3>1, LearnedFacts
  <2>3. trans' \in BOOLEAN
    BY <1>4 DEF Status, Inv, TypeOK
  <2>4. TypeOK'
    BY <1>1, <2>1, <2>2, <2>3, ReplyFacts DEF Inv, TypeOK, Beliefs
  <2>5. Idle' /\ ~Waiting' /\ ~Running' /\ ReplyInv'
    BY <1>1, <2>1, NoCallFacts DEF Idle, Waiting, Running, ReplyInv
  <2>6. PlaceInv'
    BY <1>3, <2>1, <2>5, NoCallFacts, WritesAssumption DEF PlaceInv
  <2>7. call.op \in Texts => trans' = reply.trans
    BY <1>4 DEF Status
  <2>8. UnitInv'
    <3>1. Secured(belief.unit, trans)'
      <4>1. CASE call.op = "write"
        BY <1>1, <1>4, <2>2, <2>7, <4>1 DEF Inv, TxnInv, UnitInv, Secured, Texts
      <4>2. CASE call.op # "write"
        BY <2>2, <4>2 DEF Secured
      <4> QED BY <4>1, <4>2
    <3> QED BY <2>5, <3>1 DEF UnitInv, Secured
  <2>9. BegunInv'
    <3>1. CASE call.op = "begin"
      <4>1. trans' = reply.trans /\ Pending({}, reply.trans)
        BY <1>1, <1>4, <2>7, <3>1 DEF Inv, TxnInv, BegunInv, Texts
      <4> QED BY <1>1, <2>2, <2>5, <3>1, <4>1 DEF BegunInv, Pending
    <3>2. CASE call.op = "write" /\ belief.begun
      <4>1. trans' = reply.trans /\ Pending(belief.unit \cup {call.w}, reply.trans)
        BY <1>1, <1>4, <2>7, <3>2 DEF Inv, TxnInv, BegunInv, Texts
      <4> QED BY <1>1, <2>2, <2>5, <3>2, <4>1 DEF BegunInv, Pending
    <3>3. CASE ~belief'.begun
      BY <2>5, <3>3 DEF BegunInv
    <3> QED BY <2>2, <3>1, <3>2, <3>3
  <2> QED BY <2>4, <2>5, <2>6, <2>8, <2>9 DEF Inv, TxnInv
<1>5. CASE reply.kind = "error" /\ Fails(call) /\ UNCHANGED trans
  <2>1. TypeOK'
    BY <1>1, <1>2, <1>5, FailsFacts, ReplyFacts DEF Inv, TypeOK, Beliefs
  <2>2. TxnInv'
    BY <1>1, <1>2, <1>3, <1>5, FailStep DEF Inv, TxnInv
  <2> QED BY <2>1, <2>2 DEF Inv
<1> QED BY <1>4, <1>5 DEF Receive

LEMMA ServeStep ==
  ASSUME Inv, Serve
  PROVE  Inv'
<1>1. /\ Running /\ Waiting /\ reply = NoReply /\ link = "up"
      /\ UNCHANGED <<prop, reconnect, link, known, trans, call, ret, late, issued, belief>>
  BY DEF Serve, Running, ghosts
<1>2. /\ call \in Calls /\ call.op \in Requests /\ call.w \in Writes \cup {NoWrite}
      /\ call.op = "write" <=> call.w \in Writes
      /\ call # NoCall /\ call.w \notin Held
  BY <1>1, Types, CallFacts DEF Inv, TxnInv, PlaceInv
<1>3. srv \in Sessions /\ (~srv.open => srv.work = {})
  BY Types DEF Inv, TxnInv, PlaceInv
<1>4. CASE /\ store' = store \cup Lands(srv, call.op, call.w)
           /\ srv' = After(srv, call.op, call.w)
           /\ reply' = Reply("ok", srv'.open)
  <2> DEFINE lands == Lands(srv, call.op, call.w)
  <2>1. srv' \in Sessions /\ lands \subseteq Writes
    BY <1>2, <1>3, <1>4, SessionTypes
  <2>2. /\ lands \subseteq srv.work \cup {call.w} /\ srv'.work \subseteq srv.work \cup {call.w}
        /\ lands \cap srv'.work = {}
        /\ ~srv'.open => srv'.work = {}
        /\ call.op = "commit" => lands = srv.work
        /\ call.op = "begin" => srv'.open
        /\ call.op = "write" => /\ srv.work \cup {call.w} = lands \cup srv'.work
                                /\ lands = {} => srv'.open
                                /\ srv.open => lands = {} /\ srv'.open
    BY <1>2, <1>3, <1>4, SessionWork
  <2>3. srv'.open \in BOOLEAN
    BY <2>1 DEF Sessions
  <2>4. /\ reply' # NoReply /\ reply'.kind = "ok" /\ reply'.trans = srv'.open
        /\ reply' \in [kind : {"none", "ok", "error"}, trans : BOOLEAN]
    BY <1>4, <2>3, ReplyFacts
  <2> HIDE DEF lands
  <2>5. store' = store \cup lands
    BY <1>4 DEF lands
  <2>6. TypeOK'
    BY <1>1, <2>1, <2>4, <2>5 DEF Inv, TypeOK
  <2>7. ~Idle' /\ Waiting' /\ ~Running' /\ ReplyInv'
    BY <1>1, <1>2, <2>4 DEF Idle, Waiting, Running, ReplyInv
  <2>8. PlaceInv'
    <3>1. Held' \subseteq issued'
      <4>1. call.w \in Writes => call.w \in issued
        BY DEF Inv, TxnInv, PlaceInv
      <4>2. lands \cup srv'.work \subseteq issued
        BY <1>2, <1>3, <2>1, <2>2, <4>1, Types, WritesAssumption
           DEF Inv, TxnInv, PlaceInv, Held, Sessions
      <4> QED BY <1>1, <2>5, <4>2 DEF Inv, TxnInv, PlaceInv, Held
    <3>2. /\ srv'.work \cap (store' \cup UNION late') = {}
          /\ store' \cap UNION late' = {}
      BY <1>1, <1>2, <2>2, <2>5 DEF Inv, TxnInv, PlaceInv, Held
    <3> QED BY <1>1, <2>2, <2>7, <3>1, <3>2 DEF Inv, TxnInv, PlaceInv
  <2>9. UnitInv'
    <3>1. call.op \in Texts => belief.unit \subseteq store \cup srv.work
      BY <1>1 DEF Inv, TxnInv, UnitInv
    <3>2. call.op = "commit" => belief.unit \subseteq store'
      BY <2>2, <2>5, <3>1 DEF Texts
    <3>3. call.op = "write" => Secured(belief.unit \cup {call.w}, reply.trans)'
      <4> SUFFICES ASSUME call.op = "write"
                   PROVE  Secured(belief.unit \cup {call.w}, reply.trans)'
        OBVIOUS
      <4>1. belief.unit \cup {call.w} \subseteq store' \cup srv'.work
        BY <2>2, <2>5, <3>1 DEF Texts
      <4>2. belief.unit \cup {call.w} \subseteq store' \/ srv'.open
        BY <2>2, <4>1
      <4> QED BY <1>1, <2>4, <4>1, <4>2 DEF Secured
    <3>4. call' = call /\ belief' = belief
      BY <1>1
    <3> QED BY <2>7, <3>2, <3>3, <3>4 DEF UnitInv
  <2>10. BegunInv'
    <3>1. call.op = "begin" => Pending({}, reply.trans)'
      BY <2>2, <2>4 DEF Pending
    <3>2. ASSUME call.op = "write", belief.begun
          PROVE  Pending(belief.unit \cup {call.w}, reply.trans)'
      <4>1. srv.open /\ belief.unit \cap (store \cup UNION late) = {}
        BY <1>1, <3>2 DEF Inv, TxnInv, BegunInv, Pending, Texts
      <4>2. store' = store /\ srv'.open
        BY <2>2, <2>5, <3>2, <4>1
      <4> QED BY <1>1, <1>2, <2>4, <4>1, <4>2 DEF Pending, Held
    <3> QED BY <1>1, <2>7, <3>1, <3>2 DEF BegunInv, Pending
  <2> QED BY <2>6, <2>7, <2>8, <2>9, <2>10 DEF Inv, TxnInv
<1>5. CASE srv' \in Failures(srv) /\ reply' = Reply("error", FALSE) /\ store' = store
  <2>1. srv' \in Sessions
    BY <1>2, <1>3, <1>5, SessionTypes
  <2>2. srv'.work \subseteq srv.work /\ (~srv'.open => srv'.work = {})
    BY <1>3, <1>5, FailedWork
  <2>3. TypeOK'
    BY <1>1, <1>5, <2>1, ReplyFacts DEF Inv, TypeOK
  <2>4. ~Idle' /\ Waiting' /\ ~Running' /\ ReplyInv' /\ reply'.kind = "error"
    BY <1>1, <1>2, <1>5, ReplyFacts DEF Idle, Waiting, Running, ReplyInv
  <2>5. PlaceInv'
    BY <1>1, <1>5, <2>2, <2>4 DEF Inv, TxnInv, PlaceInv, Held
  <2>6. UnitInv' /\ BegunInv'
    BY <2>4 DEF UnitInv, BegunInv
  <2> QED BY <2>3, <2>4, <2>5, <2>6 DEF Inv, TxnInv
<1> QED BY <1>4, <1>5 DEF Serve

LEMMA LandStep ==
  ASSUME Inv, NEW e \in late, Land(e)
  PROVE  Inv'
<1>1. /\ store' = store \cup e /\ late' = late \ {e} /\ e \subseteq Writes
      /\ UNCHANGED <<prop, reconnect, link, known, trans, call, reply, ret, srv, issued, belief>>
  BY DEF Land, client, ghosts, Inv, TypeOK
<1>2. store' \cup UNION late' = store \cup UNION late
  BY <1>1
<1>3. TypeOK'
  BY <1>1 DEF Inv, TypeOK
<1>4. ReplyInv'
  BY <1>1 DEF Inv, TxnInv, ReplyInv, Waiting
<1>5. PlaceInv'
  <2>1. e \cap UNION late' = {} /\ UNION late' \subseteq UNION late
    BY <1>1 DEF Inv, TxnInv, PlaceInv
  <2> QED BY <1>1, <1>2, <2>1 DEF Inv, TxnInv, PlaceInv, Held, Running, Waiting
<1>6. UnitInv'
  BY <1>1 DEF Inv, TxnInv, UnitInv, Secured, Idle, Running, Waiting
<1>7. BegunInv'
  BY <1>1, <1>2 DEF Inv, TxnInv, BegunInv, Pending, Idle, Running, Waiting
<1> QED BY <1>3, <1>4, <1>5, <1>6, <1>7 DEF Inv, TxnInv

LEMMA FadeStep ==
  ASSUME Inv, NEW e \in late, Fade(e)
  PROVE  Inv'
<1>1. /\ late' = late \ {e} /\ UNION late' \subseteq UNION late
      /\ UNCHANGED <<prop, reconnect, link, known, trans, call, reply, ret, srv, store, issued, belief>>
  BY DEF Fade, client, ghosts
<1>2. TypeOK'
  BY <1>1 DEF Inv, TypeOK
<1>3. ReplyInv' /\ UnitInv'
  BY <1>1 DEF Inv, TxnInv, ReplyInv, UnitInv, Secured, Idle, Running, Waiting
<1>4. PlaceInv'
  BY <1>1 DEF Inv, TxnInv, PlaceInv, Held, Running, Waiting
<1>5. BegunInv'
  BY <1>1 DEF Inv, TxnInv, BegunInv, Pending, Idle, Running, Waiting
<1> QED BY <1>2, <1>3, <1>4, <1>5 DEF Inv, TxnInv

\* The request of a session that is lost may land, whole, in no other's place.
LEMMA LostFacts ==
  ASSUME Inv, Lost, store' = store, issued' = issued
  PROVE  /\ srv' = NewSession /\ srv' \in Sessions /\ srv'.work = {}
         /\ late' \subseteq (SUBSET Writes) \ {{}}
         /\ Held' \subseteq issued'
         /\ srv'.work \cap (store' \cup UNION late') = {}
         /\ store' \cap UNION late' = {}
         /\ \A e, f \in late' : e = f \/ e \cap f = {}
         /\ ~Running => late' = late
<1>1. srv' = NewSession /\ srv' \in Sessions /\ srv'.work = {}
  BY DEF Lost, NewSession, Sessions
<1>2. CASE ~Running
  <2>1. late' = late
    BY <1>2 DEF Lost
  <2> QED BY <1>1, <2>1 DEF Inv, TypeOK, TxnInv, PlaceInv, Held
<1>3. CASE Running
  <2> DEFINE lands == Lands(srv, call.op, call.w)
  <2>1. /\ call.op \in Requests /\ call.w \in Writes \cup {NoWrite}
        /\ call.op = "write" <=> call.w \in Writes
    BY <1>3, Types, CallFacts DEF Running, Inv
  <2>2. /\ srv \in Sessions /\ (~srv.open => srv.work = {})
        /\ call.w \notin Held /\ (call.w \in Writes => call.w \in issued)
        /\ Held \subseteq issued /\ srv.work \cap (store \cup UNION late) = {}
    BY <1>3, Types DEF Inv, TxnInv, PlaceInv
  <2>3. late' = late \cup ({lands} \ {{}})
    BY <1>3 DEF Lost
  <2>4. /\ lands \subseteq issued /\ lands \subseteq Writes /\ lands \cap store = {}
        /\ \A e \in late : e \cap lands = {}
    <3>1. lands \subseteq srv.work \cup {call.w}
      BY <2>1, <2>2, SessionWork
    <3>2. lands \subseteq Writes
      BY <2>1, <2>2, SessionTypes
    <3> HIDE DEF lands
    <3>3. lands \subseteq issued
      BY <2>2, <3>1, <3>2, WritesAssumption DEF Held
    <3>4. lands \cap store = {}
      BY <2>2, <3>1 DEF Held
    <3>5. \A e \in late : e \cap lands = {}
      BY <2>2, <3>1 DEF Held
    <3> QED BY <3>2, <3>3, <3>4, <3>5
  <2> HIDE DEF lands
  <2>5. UNION late' \subseteq (UNION late) \cup lands
    BY <2>3
  <2>6. \A e, f \in late' : e = f \/ e \cap f = {}
    BY <2>3, <2>4 DEF Inv, TxnInv, PlaceInv
  <2>7. late' \subseteq (SUBSET Writes) \ {{}}
    BY <2>3, <2>4 DEF Inv, TypeOK
  <2> QED BY <1>1, <1>3, <2>4, <2>5, <2>6, <2>7 DEF Inv, TxnInv, PlaceInv, Held
<1> QED BY <1>2, <1>3

LEMMA CutStep ==
  ASSUME Inv, Cut
  PROVE  Inv'
<1>1. /\ link = "up" /\ link' = "cut" /\ reply' \in {reply, NoReply} /\ Lost
      /\ UNCHANGED <<prop, reconnect, known, trans, call, ret, store, issued, belief>>
  BY DEF Cut, ghosts
<1>2. /\ srv' \in Sessions /\ srv'.work = {}
      /\ late' \subseteq (SUBSET Writes) \ {{}}
      /\ Held' \subseteq issued'
      /\ srv'.work \cap (store' \cup UNION late') = {}
      /\ store' \cap UNION late' = {}
      /\ \A e, f \in late' : e = f \/ e \cap f = {}
      /\ ~Running => late' = late
  BY <1>1, LostFacts
<1>3. TypeOK'
  BY <1>1, <1>2, ReplyFacts DEF Inv, TypeOK, Links
<1>4. ~Running'
  BY <1>1 DEF Running
<1>5. ReplyInv'
  BY <1>1 DEF Inv, TxnInv, ReplyInv, Waiting
<1>6. PlaceInv'
  BY <1>1, <1>2, <1>4 DEF Inv, TxnInv, PlaceInv
<1>7. reply'.kind = "ok" => reply' = reply /\ late' = late
  BY <1>1, <1>2, ReplyFacts DEF Running
<1>8. Idle => late' = late
  BY <1>2, NoCallFacts DEF Idle, Running, Waiting
<1>9. UnitInv'
  BY <1>1, <1>4, <1>7 DEF Inv, TxnInv, UnitInv, Secured, Idle, Waiting
<1>10. BegunInv'
  BY <1>1, <1>4, <1>7, <1>8 DEF Inv, TxnInv, BegunInv, Pending, Idle, Waiting
<1> QED BY <1>3, <1>5, <1>6, <1>9, <1>10 DEF Inv, TxnInv

LEMMA ReadFailsStep ==
  ASSUME Inv, ReadFails
  PROVE  Inv'
<1>1. /\ Waiting /\ reply = NoReply /\ link' = "down" /\ Lost /\ Fails(call)
      /\ UNCHANGED <<prop, reconnect, known, trans, reply, store, issued>>
  BY DEF ReadFails
<1>2. call \in Calls /\ belief \in Beliefs /\ ret \in {"none", "ok", "error"}
  BY <1>1, Types DEF Inv, TypeOK
<1>3. /\ srv' \in Sessions /\ srv'.work = {}
      /\ late' \subseteq (SUBSET Writes) \ {{}}
      /\ Held' \subseteq issued'
      /\ srv'.work \cap (store' \cup UNION late') = {}
      /\ store' \cap UNION late' = {}
      /\ \A e, f \in late' : e = f \/ e \cap f = {}
  BY <1>1, LostFacts
<1>4. TypeOK'
  BY <1>1, <1>2, <1>3, FailsFacts DEF Inv, TypeOK, Beliefs, Links
<1>5. TxnInv'
  BY <1>1, <1>2, <1>3, FailStep DEF Inv, TxnInv
<1> QED BY <1>4, <1>5 DEF Inv

\* Between calls, with nothing believed, a connection may be replaced by another.
LEMMA FreshStep ==
  ASSUME Inv, Idle, belief' = NoBelief,
         prop' = prop, reconnect' \in Settings \cup {FALSE}, known' \in BOOLEAN,
         link' \in Links, trans' \in BOOLEAN, ret' \in {"ok", "error"},
         srv' \in {srv, NewSession},
         UNCHANGED <<call, reply, late, store, issued>>
  PROVE  Inv'
<1>1. NewSession \in Sessions /\ NewSession.work = {}
  BY DEF NewSession, Sessions
<1>2. TypeOK'
  BY <1>1, NoBeliefFacts DEF Inv, TypeOK, Beliefs
<1>3. Idle' /\ ~Waiting' /\ ~Running' /\ reply = NoReply
  BY NoCallFacts DEF Inv, TxnInv, ReplyInv, Idle, Waiting, Running
<1>4. ReplyInv' /\ UnitInv' /\ BegunInv'
  BY <1>3, NoBeliefFacts DEF ReplyInv, UnitInv, BegunInv, Secured
<1>5. PlaceInv'
  BY <1>1, <1>3 DEF Inv, TxnInv, PlaceInv, Held
<1> QED BY <1>2, <1>4, <1>5 DEF Inv, TxnInv

LEMMA ConnectStep ==
  ASSUME Inv, Connect
  PROVE  Inv'
<1>1. /\ Idle /\ belief' = NoBelief /\ prop' = prop /\ reconnect' = prop
      /\ UNCHANGED <<call, reply, srv, late, store, issued>>
  BY DEF Connect, server
<1>2. link' \in Links /\ known' \in BOOLEAN
  BY DEF Connect, Inv, TypeOK, Links
<1>3. trans' \in BOOLEAN
  BY Zenon DEF Connect, Inv, TypeOK
<1>4. ret' \in {"ok", "error"}
  BY DEF Connect, Answer
<1> QED BY <1>1, <1>2, <1>3, <1>4, FreshStep DEF Inv, TypeOK

LEMMA ReconnectStep ==
  ASSUME Inv, Reconnect
  PROVE  Inv'
<1>1. /\ Idle /\ belief' = NoBelief /\ trans' \in BOOLEAN /\ srv' \in {srv, NewSession}
      /\ UNCHANGED <<prop, reconnect, known, call, reply, late, store, issued>>
  BY DEF Reconnect
<1>2. link' \in Links /\ ret' \in {"ok", "error"}
  BY DEF Reconnect, Inv, TypeOK, Links
<1> QED BY <1>1, <1>2, FreshStep DEF Inv, TypeOK

LEMMA SetPropStep ==
  ASSUME Inv, NEW b \in Settings, SetProp(b)
  PROVE  Inv'
<1>1. /\ prop' \in Settings
      /\ UNCHANGED <<reconnect, link, known, trans, call, reply, ret, srv, late, store, issued, belief>>
  BY DEF SetProp, server, ghosts
<1> QED BY <1>1, Framed DEF Inv, TypeOK

-----------------------------------------------------------------------------
(* Theorems.                                                               *)

LEMMA InitInv == Init => Inv
<1> SUFFICES ASSUME Init PROVE Inv
  OBVIOUS
<1>1. srv \in Sessions /\ srv.work = {} /\ ~srv.open
  BY DEF Init, NewSession, Sessions
<1>2. TypeOK
  BY <1>1, NoBeliefFacts, ReplyFacts DEF Init, TypeOK, Links, Beliefs
<1>3. Idle /\ ~Waiting /\ ~Running /\ reply = NoReply /\ belief.unit = {} /\ ~belief.begun
  BY NoCallFacts, NoBeliefFacts DEF Init, Idle, Waiting, Running
<1>4. ReplyInv /\ UnitInv /\ BegunInv
  BY <1>3 DEF ReplyInv, UnitInv, BegunInv, Secured
<1>5. PlaceInv
  BY <1>1, <1>3, NoCallFacts, WritesAssumption DEF Init, PlaceInv, Held
<1> QED BY <1>2, <1>4, <1>5 DEF Inv, TxnInv

LEMMA NextInv == Inv /\ [Next]_vars => Inv'
<1> SUFFICES ASSUME Inv, [Next]_vars PROVE Inv'
  OBVIOUS
<1>1. ASSUME NEW op \in Requests, NEW w \in Writes \cup {NoWrite}, Call(op, w) PROVE Inv'
  BY <1>1, CallStep
<1>2. CASE Receive
  BY <1>2, ReceiveStep
<1>3. CASE ReadFails
  BY <1>3, ReadFailsStep
<1>4. CASE Retry
  BY <1>4, RetryStep
<1>5. CASE Serve
  BY <1>5, ServeStep
<1>6. CASE Cut
  BY <1>6, CutStep
<1>7. CASE Connect
  BY <1>7, ConnectStep
<1>8. CASE Reconnect
  BY <1>8, ReconnectStep
<1>9. ASSUME NEW e \in late, Land(e) \/ Fade(e) PROVE Inv'
  BY <1>9, LandStep, FadeStep
<1>10. ASSUME NEW b \in Settings, SetProp(b) PROVE Inv'
  BY <1>10, SetPropStep
<1>11. CASE UNCHANGED vars
  BY <1>11, Framed DEF vars, client, server, ghosts, Inv, TypeOK
<1> QED BY <1>1, <1>2, <1>3, <1>4, <1>5, <1>6, <1>7, <1>8, <1>9, <1>10, <1>11 DEF Next, Continue

LEMMA Invariance == Spec => []Inv
BY InitInv, NextInv, PTL DEF Spec

\* Every variable keeps its type, and only ping() and reset() are sent again.
THEOREM TypesKept == Spec => []TypeOK
<1>1. Inv => TypeOK
  BY DEF Inv
<1> QED BY <1>1, Invariance, PTL

\* The inductive invariant: whatever the caller may believe of its transaction
\* is so in the session, or the status bit is set and forbids the next session.
THEOREM TransactionsKept == Spec => []TxnInv
<1>1. Inv => TxnInv
  BY DEF Inv
<1> QED BY <1>1, Invariance, PTL

\* Nothing of a transaction that BEGIN has begun is durable before it is
\* committed, with automatic reconnection or without it.
THEOREM BegunKept == Spec => []BegunIsolated
<1>1. Inv => BegunIsolated
  BY DEF Inv, TxnInv, BegunInv, Pending, BegunIsolated
<1> QED BY <1>1, Invariance, PTL

\* No write is in two places, so that none can be made durable twice.
THEOREM NothingTwice == Spec => []OnePlace
<1>1. Inv => OnePlace
  <2> SUFFICES ASSUME Inv, NEW w \in Writes, NEW p \in Places(w), NEW q \in Places(w)
               PROVE  p = q
    BY DEF OnePlace
  <2>1. \A e, f \in late : w \in e /\ w \in f => e = f
    BY DEF Inv, TxnInv, PlaceInv
  <2>2. /\ \A e \in late : w \in e => w \notin store /\ w \notin srv.work /\ ~(Running /\ call.w = w)
        /\ w \in store => w \notin srv.work /\ ~(Running /\ call.w = w)
    BY DEF Inv, TxnInv, PlaceInv, Held
  <2> QED BY <2>1, <2>2 DEF Places
<1> QED BY <1>1, Invariance, PTL

\* A commit() that succeeds has made durable every write acknowledged since the
\* transaction began.
THEOREM CommitsAll == Spec => CommitWhole
<1>1. ASSUME Inv, [Next]_vars
      PROVE  [call.op = "commit" /\ call' = NoCall /\ ret' = "ok" => belief.unit \subseteq store']_vars
  <2> SUFFICES ASSUME Next, call.op = "commit", call' = NoCall, ret' = "ok"
               PROVE  belief.unit \subseteq store'
    BY <1>1
  <2>1. ~Idle /\ call \in Calls /\ call' # call /\ call.op \notin Commands
    <3>1. call # NoCall /\ call.op \notin Commands
      BY NoCallFacts DEF Commands
    <3> QED BY <1>1, <3>1 DEF Idle, Inv, TypeOK
  <2>2. ~Retry
    BY <2>1 DEF Retry, Calls
  <2>3. ~Fails(call)
    BY <2>1 DEF Fails, Retries, Returns, Answer
  <2>4. CASE Receive
    <3>1. Waiting /\ reply.kind = "ok" /\ store' = store
      BY <2>3, <2>4 DEF Receive, server
    <3> QED BY <1>1, <3>1 DEF Inv, TxnInv, UnitInv
  <2>5. CASE ~Receive
    BY <2>1, <2>2, <2>3, <2>5 DEF Next, Continue, Call, Serve, Cut, Connect, Reconnect, ReadFails,
       SetProp, Land, Fade, client, Idle
  <2> QED BY <2>4, <2>5
<1> QED BY <1>1, Invariance, PTL DEF Spec, CommitWhole

-----------------------------------------------------------------------------
(* The end of a call.                                                      *)

\* The steps that a call can still take: one when it waits for its last answer,
\* three when it may be sent once more.
Left(c) ==
  CASE c.at = "idle" -> 0
    [] c.at = "retry" -> 2
    [] c.at = "wait" -> IF c.try = "first" THEN 3 ELSE 1

\* A retry is followed by no other: every step of the client takes the call nearer
\* its end, whether the connection is lost, replaced or lost again meanwhile, and
\* however often the server sends an error.
RetriesEnd == [][Continue => Left(call') < Left(call)]_vars

\* What is left of a call, by what is known of it.
LEMMA LeftFacts ==
  /\ Left(NoCall) = 0
  /\ \A c \in Calls : Left(c) = IF c.at = "retry" THEN 2 ELSE IF c.try = "first" THEN 3 ELSE 1
BY NoCallFacts DEF Left, Calls

\* A call that has failed is sent once more, and only if it had not been before.
LEMMA FailsLess ==
  ASSUME NEW c \in Calls, Fails(c)
  PROVE  \/ c.try = "first" /\ Left(call') = 2
         \/ Left(call') = 0
<1>1. CASE Retries(c)
  <2>1. c.try = "first" /\ c.op \in Commands
    BY <1>1 DEF Retries
  <2>2. RequestOK(c.op, c.w, "second", "retry")
    BY <2>1, CallFacts DEF RequestOK
  <2>3. call' \in Calls /\ call'.at = "retry"
    BY <1>1, <2>2, RequestFacts DEF Fails
  <2> QED BY <2>1, <2>3, LeftFacts
<1>2. CASE ~Retries(c)
  BY <1>2, LeftFacts DEF Fails, Returns
<1> QED BY <1>1, <1>2

\* A command is sent at most twice and an SQL text once, for any loss of the
\* connection, any settings of the option and any answers.
THEOREM RetriesAreBounded == Spec => RetriesEnd
<1>1. ASSUME Inv, Continue
      PROVE  Left(call') < Left(call)
  <2>1. call \in Calls
    <3>1. call # NoCall
      BY <1>1, NoCallFacts DEF Continue, Receive, ReadFails, Retry, Waiting
    <3> QED BY <1>1, <3>1 DEF Inv, TypeOK
  <2>2. CASE Receive
    <3>1. Waiting /\ (Returns(call, TRUE) \/ Fails(call))
      BY <2>2 DEF Receive
    <3>2. Returns(call, TRUE) => Left(call') = 0
      BY LeftFacts DEF Returns
    <3>3. Left(call) = IF call.try = "first" THEN 3 ELSE 1
      BY <2>1, <3>1, LeftFacts DEF Waiting
    <3>4. Fails(call) => (call.try = "first" /\ Left(call') = 2) \/ Left(call') = 0
      BY <2>1, FailsLess
    <3>5. Left(call) \in {1, 3} /\ (call.try = "first" => Left(call) = 3)
      BY <3>3
    <3>6. Left(call') = 0 \/ (Left(call) = 3 /\ Left(call') = 2)
      BY <3>1, <3>2, <3>4, <3>5, Zenon
    <3> QED BY <3>5, <3>6
  <2>3. CASE ReadFails
    <3>1. Waiting /\ Fails(call)
      BY <2>3 DEF ReadFails
    <3> QED BY <2>1, <3>1, FailsLess, LeftFacts, CallFacts DEF Waiting
  <2>4. CASE Retry
    <3>1. call.at = "retry" /\ call.try = "second" /\ Left(call) = 2
      BY <2>1, <2>4, LeftFacts DEF Retry, Calls
    <3>2. \/ Fails(call)
          \/ call' = Request(call.op, call.w, call.try, "wait")
      BY <2>4 DEF Retry, Send
    <3>3. Fails(call) => Left(call') = 0
      BY <2>1, <3>1, FailsLess
    <3>4. call' = Request(call.op, call.w, call.try, "wait") => Left(call') = 1
      BY <3>1 DEF Request, Left
    <3> QED BY <3>1, <3>2, <3>3, <3>4
  <2> QED BY <1>1, <2>2, <2>3, <2>4 DEF Continue
<1>2. Inv /\ [Next]_vars => [Continue => Left(call') < Left(call)]_vars
  BY <1>1
<1> QED BY <1>2, Invariance, PTL DEF Spec, RetriesEnd

-----------------------------------------------------------------------------
(* The refinement of AtomicStore, while the reconnection option stays off.  *)

\* No session is made behind the caller's back, no call is made again, and a
\* session that is lost has left nothing.
Single ==
  /\ prop = FALSE /\ reconnect = FALSE
  /\ call.at # "retry"
  /\ link # "up" => srv = NewSession
  /\ reply.kind = "none" => reply = NoReply

LEMMA SingleSteps ==
  ASSUME Settings \subseteq {FALSE}, Inv, Single, [Next]_vars
  PROVE  Single'
<1>1. prop' = FALSE /\ reconnect' = FALSE
  BY DEF Single, Next, Continue, Call, Receive, ReadFails, Retry, Send, Serve, Cut, Connect, Reconnect,
     SetProp, Land, Fade, vars, client
<1>2. \A c : reconnect = FALSE /\ Fails(c) => call' = NoCall
  BY DEF Fails, Retries, Returns
<1>3. ASSUME NEW c, c.at = "wait", Send(c) PROVE call'.at # "retry" /\ (link' # "up" => srv' = NewSession)
  <2>1. PICK out \in SendCmd(link, reconnect, trans, known) :
          /\ link' = out.link
          /\ srv' = IF out.how = "sent" THEN srv ELSE NewSession
          /\ IF out.how = "fails" THEN Fails(c)
             ELSE call' = Request(c.op, c.w, c.try, "wait")
    BY <1>3 DEF Send
  <2>2. out.how = "sent" => out.link = "up"
    BY HereSent DEF Inv, TypeOK
  <2> QED BY <1>2, <2>1, <2>2, NoCallFacts DEF Single, Request
<1>4. \A op, w : Call(op, w) => \E c : c.at = "wait" /\ Send(c)
  BY DEF Call, Request
<1>5. ~Retry
  BY DEF Retry, Single
<1>6. call'.at # "retry"
  BY <1>2, <1>3, <1>4, <1>5, NoCallFacts DEF Single, Next, Continue, Receive, Returns, ReadFails, Serve, Cut,
     Connect, Reconnect, SetProp, Land, Fade, vars, client
<1>7. link' # "up" => srv' = NewSession
  BY <1>3, <1>4, <1>5 DEF Single, Next, Continue, Receive, ReadFails, Serve, Cut, Lost, Running,
     Connect, Reconnect, SetProp, Land, Fade, vars, client, server
<1>8. reply'.kind = "none" => reply' = NoReply
  <2>1. CASE Serve
    <3>1. srv'.open \in BOOLEAN
      BY <2>1, NextInv DEF Inv, TypeOK, Sessions
    <3> QED BY <2>1, <3>1, ReplyFacts DEF Serve
  <2>2. CASE ~Serve
    BY <1>4, <1>5, <2>2 DEF Single, Next, Continue, Call, Send, Receive, ReadFails, Cut,
       Connect, Reconnect, SetProp, Land, Fade, vars, client
  <2> QED BY <2>1, <2>2
<1> QED BY <1>1, <1>6, <1>7, <1>8 DEF Single

\* AtomicStore has the server's operators of its own.
LEMMA SameServer ==
  /\ Abstract!NewSession = NewSession /\ Abstract!Requests = Requests
  /\ \A s, op, w : Abstract!Lands(s, op, w) = Lands(s, op, w)
  /\ \A s, op, w : Abstract!After(s, op, w) = After(s, op, w)
  /\ \A s : Abstract!Failures(s) = Failures(s)
BY DEF Abstract!NewSession, NewSession, Abstract!Requests, Abstract!Texts, Abstract!Commands, Requests, Texts,
   Commands, Abstract!Lands, Abstract!Commits, Abstract!Alone, Lands, Commits, Alone, Abstract!After,
   Abstract!Ends, After, Ends, Abstract!Failures, Abstract!Ended, Failures, Ended

\* What the two modules call a call.
Done(op, w, answer) == [op |-> op, w |-> w, answer |-> answer]

LEMMA DoingFacts ==
  ASSUME Inv
  PROVE  /\ ~Waiting => Doing = Abstract!NoCall
         /\ Waiting /\ reply # NoReply => Doing = Done(call.op, call.w, reply.kind)
         /\ Running => Doing = Done(call.op, call.w, "none")
         /\ Waiting /\ reply = NoReply /\ link # "up" => Doing = Done(call.op, call.w, "error")
         /\ Idle => ~Waiting
         /\ Waiting => Doing # Abstract!NoCall
<1>1. Waiting => call.op # "none"
  BY Types, CallFacts DEF Inv, Requests, Texts, Commands
<1> QED BY <1>1, NoCallFacts DEF Doing, Done, Abstract!NoCall, Running, Waiting, Idle

LEMMA CallMaps ==
  ASSUME Settings \subseteq {FALSE}, Inv, Single, Inv', Single',
         NEW op \in Requests, NEW w \in Writes \cup {NoWrite}, Call(op, w)
  PROVE  Abstract!Next
<1>1. PICK out \in SendCmd(link, reconnect, trans, known) :
        /\ link' = out.link
        /\ srv' = IF out.how = "sent" THEN srv ELSE NewSession
        /\ IF out.how = "fails" THEN Fails(Request(op, w, "first", "wait"))
           ELSE call' = Request(op, w, "first", "wait") /\ UNCHANGED ret
  BY DEF Call, Send, Request
<1>2. /\ out.how \in {"sent", "void", "fails"}
      /\ out.how = "sent" => link = "up" /\ out.link = "up"
      /\ out.how = "void" => link = "cut" /\ out.link = "cut"
      /\ out.how = "fails" => link # "up" /\ out.link # "up"
  BY HereSent DEF Inv, TypeOK, Single
<1>3. Idle /\ reply = NoReply /\ Doing = Abstract!NoCall /\ UNCHANGED <<reply, late, store>>
  BY DoingFacts DEF Call, Send, Inv, TxnInv, ReplyInv
<1>4. srv' = srv
  BY <1>1, <1>2 DEF Single
<1>5. CASE out.how = "fails"
  <2>1. call' = NoCall /\ ret' = "error"
    BY <1>1, <1>5 DEF Fails, Retries, Single, Returns, Answer
  <2>2. Doing' = Abstract!NoCall
    BY <2>1, NoCallFacts DEF Doing, Waiting, Abstract!NoCall
  <2> QED BY <1>1, <1>2, <1>3, <1>4, <1>5, <2>1, <2>2 DEF Abstract!Next, Abstract!Refuse, Abstract!Idle
<1>6. CASE out.how # "fails"
  <2>1. call' = Request(op, w, "first", "wait") /\ ret' = ret
    BY <1>1, <1>6
  <2>2. Doing' = [op |-> op, w |-> w, answer |-> IF link = "up" THEN "none" ELSE "error"]
    BY <1>1, <1>2, <1>3, <1>6, <2>1 DEF Doing, Waiting, Request
  <2>3. link' = "up" <=> link = "up"
    BY <1>1, <1>2, <1>6
  <2>4. Abstract!Begin(op, w)
    BY <1>3, <1>4, <2>1, <2>2, <2>3 DEF Abstract!Begin, Abstract!Idle
  <2> QED BY <2>4, SameServer DEF Abstract!Next
<1> QED BY <1>5, <1>6

LEMMA ServeMaps ==
  ASSUME Inv, Inv', Serve
  PROVE  Abstract!Next
<1>1. /\ Running /\ Waiting' /\ link = "up" /\ UNCHANGED <<link, call, ret, late>>
  BY DEF Serve, Running, Waiting
<1>2. Doing = Done(call.op, call.w, "none") /\ call.op \in Requests
  BY <1>1, DoingFacts, Types, CallFacts DEF Running, Inv
<1>3. Abstract!Open
  BY <1>2, SameServer DEF Abstract!Open, Done
<1>4. ASSUME NEW kind \in {"ok", "error"}, reply'.kind = kind, reply' # NoReply
      PROVE  Doing' = [Doing EXCEPT !.answer = kind]
  BY <1>1, <1>2, <1>4 DEF Doing, Waiting, Done
<1>5. CASE /\ store' = store \cup Lands(srv, call.op, call.w)
           /\ srv' = After(srv, call.op, call.w)
           /\ reply' = Reply("ok", srv'.open)
  <2>1. srv'.open \in BOOLEAN
    BY DEF Inv, TypeOK, Sessions
  <2>2. Doing' = [Doing EXCEPT !.answer = "ok"]
    BY <1>4, <1>5, <2>1, ReplyFacts
  <2>3. Abstract!Effect = Lands(srv, call.op, call.w) /\ Abstract!After(srv, Doing.op, Doing.w) = srv'
    BY <1>2, <1>5, SameServer DEF Abstract!Effect, Done
  <2> QED BY <1>1, <1>3, <1>5, <2>2, <2>3 DEF Abstract!Next, Abstract!Succeed
<1>6. CASE srv' \in Failures(srv) /\ reply' = Reply("error", FALSE) /\ store' = store
  <2>1. Doing' = [Doing EXCEPT !.answer = "error"]
    BY <1>4, <1>6, ReplyFacts
  <2> QED BY <1>1, <1>3, <1>6, <2>1, SameServer DEF Abstract!Next, Abstract!Reject
<1> QED BY <1>5, <1>6 DEF Serve

LEMMA ReceiveMaps ==
  ASSUME Inv, Inv', Single, Receive
  PROVE  Abstract!Next
<1>1. /\ Waiting /\ reply # NoReply /\ reply.kind \in {"ok", "error"}
      /\ UNCHANGED <<link, srv, late, store>>
  BY DEF Receive, server
<1>2. Doing = Done(call.op, call.w, reply.kind)
  BY <1>1, DoingFacts
<1>3. call' = NoCall /\ ret' = reply.kind
  BY DEF Receive, Returns, Answer, Fails, Retries, Single
<1>4. Doing' = Abstract!NoCall
  BY <1>3, NoCallFacts DEF Doing, Waiting, Abstract!NoCall
<1>5. Abstract!Return
  BY <1>1, <1>2, <1>3, <1>4 DEF Abstract!Return, Done
<1> QED BY <1>5 DEF Abstract!Next

LEMMA ReadFailsMaps ==
  ASSUME Inv, Inv', Single, ReadFails
  PROVE  Abstract!Next
<1>1. /\ Waiting /\ reply = NoReply /\ link' = "down" /\ Lost /\ UNCHANGED store
  BY DEF ReadFails
<1>2. call' = NoCall /\ ret' = "error"
  BY DEF ReadFails, Fails, Retries, Single, Returns, Answer
<1>3. Doing' = Abstract!NoCall
  BY <1>2, NoCallFacts DEF Doing, Waiting, Abstract!NoCall
<1>4. call.op \in Requests
  BY <1>1, Types, CallFacts DEF Inv
<1>5. CASE link = "up"
  <2>1. Running /\ Doing = Done(call.op, call.w, "none")
    BY <1>1, <1>5, DoingFacts DEF Running
  <2>2. Abstract!Open /\ Abstract!Effect = Lands(srv, call.op, call.w)
    BY <1>4, <2>1, SameServer DEF Abstract!Open, Abstract!Effect, Done
  <2>3. Abstract!Gone
    BY <1>1, <1>5, <2>1, <2>2, SameServer DEF Abstract!Gone, Lost
  <2> QED BY <1>1, <1>2, <1>3, <2>2, <2>3 DEF Abstract!Next, Abstract!GiveUp
<1>6. CASE link # "up"
  <2>1. Doing = Done(call.op, call.w, "error")
    BY <1>1, <1>6, DoingFacts
  <2>2. srv' = srv /\ late' = late
    BY <1>1, <1>6 DEF Lost, Running, Single
  <2> QED BY <1>1, <1>2, <1>3, <1>6, <2>1, <2>2 DEF Abstract!Next, Abstract!Return, Done
<1> QED BY <1>5, <1>6

LEMMA CutMaps ==
  ASSUME Inv, Inv', Single, Cut
  PROVE  Abstract!Next
<1>1. /\ link = "up" /\ link' = "cut" /\ reply' \in {reply, NoReply} /\ Lost
      /\ UNCHANGED <<call, ret, store>>
  BY DEF Cut
<1>2. CASE ~Waiting
  <2>1. Doing = Abstract!NoCall /\ Doing' = Doing
    BY <1>1, <1>2, DoingFacts DEF Waiting, Doing, Abstract!NoCall
  <2>2. late' = late /\ ~Abstract!Open
    BY <1>1, <1>2, <2>1, SameServer DEF Lost, Running, Abstract!Open, Abstract!NoCall, Requests, Texts, Commands
  <2> QED BY <1>1, <2>1, <2>2, SameServer
          DEF Abstract!Next, Abstract!Lose, Abstract!Gone, Abstract!Idle, Lost
<1>3. CASE Waiting /\ reply = NoReply
  <2>1. Running /\ Doing = Done(call.op, call.w, "none") /\ call.op \in Requests
    BY <1>1, <1>3, DoingFacts, Types, CallFacts DEF Running, Inv
  <2>2. Doing' = [Doing EXCEPT !.answer = "error"]
    BY <1>1, <1>3, <2>1 DEF Doing, Waiting, Done
  <2>3. Abstract!Open /\ ~Abstract!Idle /\ Abstract!Effect = Lands(srv, call.op, call.w)
    BY <1>3, <2>1, DoingFacts, SameServer DEF Abstract!Open, Abstract!Idle, Abstract!Effect, Done
  <2> QED BY <1>1, <2>1, <2>2, <2>3, SameServer DEF Abstract!Next, Abstract!Lose, Abstract!Gone, Lost
<1>4. CASE Waiting /\ reply # NoReply
  <2>1. Doing = Done(call.op, call.w, reply.kind) /\ ~Abstract!Idle
    BY <1>4, DoingFacts DEF Abstract!Idle
  <2>2. Doing' \in {Doing, [Doing EXCEPT !.answer = "error"]}
    BY <1>1, <1>4, <2>1 DEF Doing, Waiting, Done
  <2>3. reply.kind # "none"
    BY <1>4 DEF Single
  <2>4. ~Abstract!Open /\ late' = late
    BY <1>1, <1>4, <2>1, <2>3 DEF Lost, Running, Abstract!Open, Done
  <2> QED BY <1>1, <2>1, <2>2, <2>4, SameServer DEF Abstract!Next, Abstract!Lose, Abstract!Gone, Lost
<1> QED BY <1>2, <1>3, <1>4

LEMMA RestMaps ==
  ASSUME Settings \subseteq {FALSE}, Inv, Inv', Single,
         \/ Connect \/ Reconnect \/ \E b \in Settings : SetProp(b)
         \/ (\E e \in late : Land(e) \/ Fade(e)) \/ UNCHANGED vars
  PROVE  [Abstract!Next]_(Abstract!vars)
<1>1. call' = call /\ reply' = reply
  BY DEF Connect, Reconnect, SetProp, Land, Fade, vars, client
<1>2. link' = link => Doing' = Doing
  BY <1>1 DEF Doing, Waiting
<1>3. ASSUME Idle PROVE Doing = Abstract!NoCall /\ Doing' = Doing
  BY <1>1, <1>3, DoingFacts, NoCallFacts DEF Doing, Waiting, Idle, Abstract!NoCall
<1>4. CASE Connect
  <2>1. Idle /\ UNCHANGED <<srv, late, store>>
    BY <1>4 DEF Connect, server
  <2>2. \/ ret' = "error" /\ (link' = "up" <=> link = "up")
        \/ ret' = "ok" /\ link # "up" /\ link' = "up"
    BY <1>4 DEF Connect, Answer
  <2>3. Abstract!Decline \/ Abstract!Connect
    BY <1>3, <2>1, <2>2 DEF Abstract!Decline, Abstract!Connect, Abstract!Idle
  <2> QED BY <2>3 DEF Abstract!Next
<1>5. CASE Reconnect
  <2>1. Idle /\ ret' = "error" /\ UNCHANGED <<link, srv, late, store>>
    BY <1>5 DEF Reconnect, Refused, Single
  <2>2. Abstract!Decline
    BY <1>3, <2>1 DEF Abstract!Decline, Abstract!Idle
  <2> QED BY <2>2 DEF Abstract!Next
<1>6. CASE (\E b \in Settings : SetProp(b)) \/ UNCHANGED vars
  BY <1>2, <1>6 DEF SetProp, vars, client, server, Abstract!vars
<1>7. ASSUME NEW e \in late, Land(e) \/ Fade(e) PROVE Abstract!Next
  <2>1. UNCHANGED <<link, srv, ret>> /\ Doing' = Doing
    BY <1>2, <1>7 DEF Land, Fade, client
  <2>2. Abstract!Land(e) \/ Abstract!Fade(e)
    BY <1>7, <2>1 DEF Land, Fade, Abstract!Land, Abstract!Fade
  <2> QED BY <2>2 DEF Abstract!Next
<1> QED BY <1>4, <1>5, <1>6, <1>7

\* Without automatic reconnection the calls implement AtomicStore: one that
\* succeeds has had its effect, once, in the session of the calls before it; one
\* that fails has all of it, now or later, or nothing.
THEOREM Implements == ASSUME Settings \subseteq {FALSE} PROVE Spec => Atomic
<1>1. Init => Abstract!Init /\ Single
  BY SameServer, NoCallFacts, ReplyFacts DEF Init, Abstract!Init, Single, Doing, Waiting, Abstract!NoCall
<1>2. Inv /\ Single /\ [Next]_vars => Single'
  BY SingleSteps
<1>3. ASSUME Inv, Inv', Single, Single', [Next]_vars PROVE [Abstract!Next]_(Abstract!vars)
  <2>1. ~Retry
    BY <1>3 DEF Retry, Single
  <2> QED BY <1>3, <2>1, CallMaps, ServeMaps, ReceiveMaps, ReadFailsMaps, CutMaps, RestMaps DEF Next, Continue
<1>4. Spec => []Inv
  BY Invariance
<1> QED BY <1>1, <1>2, <1>3, <1>4, PTL DEF Spec, Atomic, Abstract!Spec

-----------------------------------------------------------------------------
(* Transactions begun by switching autocommit off.                          *)

\* The session, while there is one, has autocommit off, and the writes have not
\* left it.
Kept(unit) ==
  /\ link = "up" => ~srv.auto
  /\ unit \cap (store \cup UNION late) = {}

\* What stands between a caller who has switched autocommit off and the end of his
\* transaction, at each step of a call.
ManualInv ==
  /\ belief.manual /\ (Idle \/ (Running /\ call.op \in Texts)) => Kept(belief.unit)
  /\ Waiting /\ reply.kind = "ok" =>
       /\ call.op = "auto_off" => Kept({})
       /\ call.op \in Texts \ {"auto_on"} /\ belief.manual =>
            Kept(IF call.op = "write" THEN belief.unit \cup {call.w} ELSE {})

LEMMA ManualFacts ==
  /\ ~NoBelief.manual
  /\ \A b, op, w :
       /\ Learned(b, op, w).manual <=>
            op = "auto_off" \/ (op \in Texts \ {"auto_on"} /\ b.manual)
       /\ Learned(b, op, w).unit = IF op = "write" THEN b.unit \cup {w} ELSE {}
BY DEF NoBelief, Learned

\* With autocommit off a write stays with the session, and only autocommit itself
\* switches that on again.
LEMMA OffFacts ==
  ASSUME NEW s \in Sessions, NEW op \in Texts, NEW w
  PROVE  /\ op = "write" /\ ~s.auto => Lands(s, op, w) = {}
         /\ op = "auto_off" \/ (op # "auto_on" /\ ~s.auto) => ~After(s, op, w).auto
BY DEF Sessions, Texts, Lands, Commits, Alone, After

LEMMA ManualSend ==
  ASSUME Inv, Single, ManualInv, NEW c, c.at = "wait", Send(c), Idle
  PROVE  ManualInv'
<1>1. PICK out \in SendCmd(link, reconnect, trans, known) :
        /\ link' = out.link
        /\ srv' = IF out.how = "sent" THEN srv ELSE NewSession
        /\ IF out.how = "fails" THEN Fails(c)
           ELSE call' = Request(c.op, c.w, c.try, "wait") /\ UNCHANGED <<ret, belief>>
  BY DEF Send
<1>2. /\ out.how \in {"sent", "void", "fails"}
      /\ out.how = "sent" => link = "up" /\ out.link = "up"
      /\ out.how = "void" => out.link = "cut"
  BY HereSent DEF Inv, TypeOK, Single
<1>3. reply = NoReply /\ UNCHANGED <<reply, late, store>>
  BY NoCallFacts DEF Send, Inv, TxnInv, ReplyInv, Idle, Waiting
<1>4. reply'.kind # "ok"
  BY <1>3, ReplyFacts
<1>5. CASE out.how = "fails"
  <2>1. call' = NoCall /\ belief' = NoBelief
    BY <1>1, <1>5 DEF Fails, Retries, Single, Returns
  <2> QED BY <1>4, <2>1, ManualFacts DEF ManualInv
<1>6. CASE out.how # "fails"
  <2>1. belief' = belief /\ ~Idle' /\ (Running' => link = "up" /\ link' = "up" /\ srv' = srv)
    <3>1. call'.at = "wait" /\ belief' = belief
      BY <1>1, <1>6 DEF Request
    <3> QED BY <1>1, <1>2, <1>6, <3>1, NoCallFacts DEF Idle, Running
  <2> QED BY <1>3, <1>4, <2>1 DEF ManualInv, Kept
<1> QED BY <1>5, <1>6

LEMMA ManualServe ==
  ASSUME Inv, ManualInv, Serve
  PROVE  ManualInv'
<1>1. /\ Running /\ link = "up" /\ UNCHANGED <<link, call, late, belief>>
      /\ call \in Calls /\ call # NoCall /\ srv \in Sessions
  BY Types, NoCallFacts DEF Serve, Running, ghosts, Inv, Calls
<1>2. ~Idle' /\ call.w \notin Held
  BY <1>1 DEF Idle, Inv, TxnInv, PlaceInv
<1>3. CASE /\ store' = store \cup Lands(srv, call.op, call.w)
           /\ srv' = After(srv, call.op, call.w)
           /\ reply' = Reply("ok", srv'.open)
  <2>1. srv'.open \in BOOLEAN
    BY <1>3, NextInv DEF Inv, TypeOK, Sessions, Next
  <2>2. ~Running'
    BY <1>3, <2>1, ReplyFacts DEF Running
  <2>3. call.op = "auto_off" => ~srv'.auto
    BY <1>1, <1>3, OffFacts DEF Texts
  <2>4. ASSUME call.op \in Texts \ {"auto_on"}, belief.manual
        PROVE  /\ ~srv'.auto
               /\ call.op = "write" =>
                    (belief.unit \cup {call.w}) \cap (store' \cup UNION late') = {}
    <3>1. ~srv.auto /\ belief.unit \cap (store \cup UNION late) = {}
      BY <1>1, <2>4 DEF ManualInv, Kept
    <3>2. ~srv'.auto /\ (call.op = "write" => store' = store)
      BY <1>1, <1>3, <2>4, <3>1, OffFacts
    <3> QED BY <1>1, <1>2, <3>1, <3>2 DEF Held
  <2> QED BY <1>1, <1>2, <2>2, <2>3, <2>4 DEF ManualInv, Kept
<1>4. CASE reply' = Reply("error", FALSE)
  BY <1>2, <1>4, ReplyFacts DEF ManualInv, Running
<1> QED BY <1>3, <1>4 DEF Serve

LEMMA ManualReceive ==
  ASSUME Inv, Single, ManualInv, Receive
  PROVE  ManualInv'
<1>1. /\ Waiting /\ reply # NoReply /\ UNCHANGED <<link, srv, late, store>>
      /\ call' = NoCall /\ ~Waiting' /\ Idle'
  BY NoCallFacts DEF Receive, server, Returns, Fails, Retries, Single, Waiting, Idle
<1>2. CASE reply.kind = "ok" /\ Returns(call, TRUE)
  <2>1. belief' = Learned(belief, call.op, call.w)
    BY <1>2 DEF Returns
  <2>2. belief'.manual => Kept(belief'.unit)
    <3>1. CASE call.op = "write"
      <4> SUFFICES ASSUME belief'.manual
                   PROVE  (link = "up" => ~srv.auto) /\ belief'.unit \cap (store \cup UNION late) = {}
        BY <1>1 DEF Kept
      <4>1. belief.manual /\ call.op \in Texts \ {"auto_on"}
        <5>1. Learned(belief, call.op, call.w).manual /\ call.op # "auto_off"
          BY <2>1, <3>1
        <5> QED BY <5>1, ManualFacts, Zenon
      <4>3. belief'.unit = belief.unit \cup {call.w}
        BY <2>1, <3>1 DEF Learned
      <4>2. Kept(belief.unit \cup {call.w})
        BY <1>1, <1>2, <3>1, <4>1 DEF ManualInv
      <4> QED BY <1>1, <4>2, <4>3 DEF Kept
    <3>2. CASE call.op # "write"
      BY <1>1, <1>2, <2>1, <3>2, ManualFacts DEF ManualInv, Kept
    <3> QED BY <3>1, <3>2
  <2> QED BY <1>1, <2>2 DEF ManualInv, Kept, Running
<1>3. CASE Fails(call)
  <2>1. belief' = NoBelief
    BY <1>3 DEF Fails, Retries, Single, Returns
  <2> QED BY <1>1, <2>1, ManualFacts DEF ManualInv
<1> QED BY <1>2, <1>3 DEF Receive

LEMMA ManualCut ==
  ASSUME Inv, ManualInv, Cut
  PROVE  ManualInv'
<1>1. /\ link' = "cut" /\ UNCHANGED <<call, store, belief>> /\ reply' \in {reply, NoReply}
      /\ late' = IF Running THEN late \cup ({Lands(srv, call.op, call.w)} \ {{}}) ELSE late
  BY DEF Cut, Lost, ghosts
<1>2. ~Running' /\ (Idle' <=> Idle) /\ (Waiting' <=> Waiting)
  BY <1>1 DEF Running, Idle, Waiting
<1>3. Idle => late' = late
  BY <1>1, NoCallFacts DEF Idle, Running, Waiting
<1>4. reply'.kind = "ok" => reply'= reply /\ late' = late
  BY <1>1, ReplyFacts DEF Running
<1> QED BY <1>1, <1>2, <1>3, <1>4 DEF ManualInv, Kept

LEMMA ManualSteps ==
  ASSUME Settings \subseteq {FALSE}, Inv, Single, ManualInv, [Next]_vars
  PROVE  ManualInv'
<1>1. ASSUME NEW op, NEW w, Call(op, w) PROVE ManualInv'
  <2>1. Idle /\ Send(Request(op, w, "first", "wait")) /\ Request(op, w, "first", "wait").at = "wait"
    BY <1>1 DEF Call, Request
  <2> QED BY <2>1, ManualSend
<1>2. CASE ReadFails
  <2>1. belief' = NoBelief /\ call' = NoCall
    BY <1>2 DEF ReadFails, Fails, Retries, Single, Returns
  <2> QED BY <2>1, ManualFacts, NoCallFacts DEF ManualInv, Waiting
<1>3. CASE Connect \/ Reconnect
  <2>1. belief' = NoBelief /\ Idle /\ call' = call
    BY <1>3 DEF Connect, Reconnect
  <2> QED BY <2>1, ManualFacts, NoCallFacts DEF ManualInv, Waiting, Idle
<1>4. ASSUME NEW e \in late, Land(e) \/ Fade(e) PROVE ManualInv'
  <2>1. /\ UNCHANGED <<link, call, reply, srv, belief>>
        /\ store' \cup UNION late' \subseteq store \cup UNION late
    BY <1>4 DEF Land, Fade, client, ghosts
  <2> QED BY <2>1 DEF ManualInv, Kept, Idle, Running, Waiting
<1>5. CASE (\E b \in Settings : SetProp(b)) \/ UNCHANGED vars
  BY <1>5 DEF SetProp, vars, client, server, ghosts, ManualInv, Kept, Idle, Running, Waiting
<1>6. ~Retry
  BY DEF Retry, Single
<1> QED BY <1>1, <1>2, <1>3, <1>4, <1>5, <1>6, ManualServe, ManualReceive, ManualCut DEF Next, Continue

\* Without automatic reconnection nothing that was written while autocommit was off is
\* durable before commit(), a BEGIN or toggle_autocommit(true), whatever connections
\* are lost on the way.
THEOREM ManualKept == ASSUME Settings \subseteq {FALSE} PROVE Spec => []ManualIsolated
<1>1. Init => Single /\ ManualInv
  BY NoCallFacts, ReplyFacts, ManualFacts
     DEF Init, Single, ManualInv, Waiting
<1>2. Inv /\ Single /\ ManualInv /\ [Next]_vars => Single' /\ ManualInv'
  BY SingleSteps, ManualSteps
<1>3. Inv /\ ManualInv => ManualIsolated
  BY DEF ManualInv, Kept, ManualIsolated
<1>4. Spec => []Inv
  BY Invariance
<1> QED BY <1>1, <1>2, <1>3, <1>4, PTL DEF Spec
=============================================================================
