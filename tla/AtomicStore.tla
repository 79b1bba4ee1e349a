---------------------------- MODULE AtomicStore ----------------------------
(***************************************************************************)
(* What a user of Transaction and Connection may rely on without automatic  *)
(* reconnection: a store, a session with transactions in it, and calls that *)
(* are answered.                                                           *)
(*                                                                         *)
(* A call that succeeds has had its effect, once and in the session that    *)
(* the calls before it were made in.  When the session is gone every call   *)
(* fails until connect() succeeds; the work of its open transaction is      *)
(* gone.  A call that fails may still have had its effect, or have it       *)
(* later, but all of it or nothing.                                        *)
(***************************************************************************)
EXTENDS SqlServer

VARIABLES
  store,      \* the writes that are durable
  alive,      \* there is a session
  sess,       \* the session
  call,       \* the running call and its outcome
  ret,        \* how the call that ended last did
  late        \* what calls that were given up may still do

vars == <<store, alive, sess, call, ret, late>>

NoCall == [op |-> "none", w |-> NoWrite, answer |-> "none"]
Answers == {"none", "ok", "error"}

Idle == call = NoCall
Open == call.op \in Requests /\ call.answer = "none"
Effect == Lands(sess, call.op, call.w)

Init ==
  /\ store = {} /\ late = {}
  /\ alive = TRUE /\ sess = NewSession
  /\ call = NoCall /\ ret = "none"

\* A call begins; without a session it can only fail.
Begin(op, w) ==
  /\ Idle
  /\ call' = [op |-> op, w |-> w, answer |-> IF alive THEN "none" ELSE "error"]
  /\ UNCHANGED <<store, alive, sess, ret, late>>

Refuse ==
  /\ Idle /\ ~alive
  /\ ret' = "error"
  /\ UNCHANGED <<store, alive, sess, call, late>>

Succeed ==
  /\ Open /\ alive
  /\ store' = store \cup Effect
  /\ sess' = After(sess, call.op, call.w)
  /\ call' = [call EXCEPT !.answer = "ok"]
  /\ UNCHANGED <<alive, ret, late>>

Reject ==
  /\ Open /\ alive
  /\ sess' \in Failures(sess)
  /\ call' = [call EXCEPT !.answer = "error"]
  /\ UNCHANGED <<store, alive, ret, late>>

Return ==
  /\ call.answer # "none"
  /\ ret' = call.answer
  /\ call' = NoCall
  /\ UNCHANGED <<store, alive, sess, late>>

\* The session ends, and what was open in it; a request that it has not run may
\* still be run, and an answer may get lost.
Gone ==
  /\ alive
  /\ alive' = FALSE /\ sess' = NewSession
  /\ late' = IF Open THEN late \cup ({Effect} \ {{}}) ELSE late

Lose ==
  /\ Gone
  /\ call' \in IF Idle THEN {call}
               ELSE IF Open THEN {[call EXCEPT !.answer = "error"]}
               ELSE {call, [call EXCEPT !.answer = "error"]}
  /\ UNCHANGED <<store, ret>>

\* The caller waits no longer.
GiveUp ==
  /\ Open /\ Gone
  /\ ret' = "error"
  /\ call' = NoCall
  /\ UNCHANGED store

Land(e) ==
  /\ store' = store \cup e
  /\ late' \in {late, late \ {e}}
  /\ UNCHANGED <<alive, sess, call, ret>>

Fade(e) == late' = late \ {e} /\ UNCHANGED <<store, alive, sess, call, ret>>

Connect ==
  /\ Idle /\ ~alive
  /\ alive' = TRUE
  /\ ret' = "ok"
  /\ UNCHANGED <<store, sess, call, late>>

\* connect() to a server that cannot be reached or on a handle that is
\* connected, reconnect() without the option.
Decline ==
  /\ Idle
  /\ ret' = "error"
  /\ UNCHANGED <<store, alive, sess, call, late>>

Next ==
  \/ \E op \in Requests, w \in Writes \cup {NoWrite} : Begin(op, w)
  \/ Refuse \/ Succeed \/ Reject \/ Return \/ Lose \/ GiveUp \/ Connect \/ Decline
  \/ \E e \in late : Land(e) \/ Fade(e)

Spec == Init /\ [][Next]_vars
=============================================================================
