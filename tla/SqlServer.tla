----------------------------- MODULE SqlServer -----------------------------
(***************************************************************************)
(* The server's side of a session, as far as mdbcxx relies on it: the       *)
(* autocommit mode, whether a transaction is open, and the writes in it.    *)
(* The server is not in the repository; these are the semantics that the    *)
(* connector's pages mysql_commit.3, mysql_autocommit.3 and                 *)
(* mysql_reset_connection.3 describe.                                      *)
(***************************************************************************)
CONSTANTS
  Writes,     \* statements that write something, each given to the library once
  NoWrite     \* the statement of a call that is not one of them

ASSUME WritesAssumption == NoWrite \notin Writes

\* What reaches the server as a text query, and as a command of its own.
Texts == {"write", "begin", "commit", "rollback", "auto_on", "auto_off"}
Commands == {"ping", "reset"}
Requests == Texts \cup Commands

Sessions == [auto : BOOLEAN, open : BOOLEAN, work : SUBSET Writes]

\* The session of a new connection, and of one that has been reset.
NewSession == [auto |-> TRUE, open |-> FALSE, work |-> {}]

\* BEGIN ends the transaction before it, and so does autocommit when it is
\* switched on and was off.
Commits(s, op) == op \in {"commit", "begin"} \/ (op = "auto_on" /\ ~s.auto)
Ends(s, op) == Commits(s, op) \/ op \in {"rollback", "reset"}

\* A statement outside a transaction, with autocommit on, stands for itself.
Alone(s) == s.auto /\ ~s.open

\* The writes that a request makes durable.
Lands(s, op, w) ==
  IF Commits(s, op) THEN s.work
  ELSE IF op = "write" /\ Alone(s) THEN {w}
  ELSE {}

\* The session after a request that succeeds.
After(s, op, w) ==
  [auto |-> op # "auto_off" /\ (s.auto \/ op \in {"auto_on", "reset"}),
   open |-> op = "begin" \/ (~Ends(s, op) /\ (s.open \/ (op = "write" /\ ~s.auto))),
   work |-> IF Ends(s, op) THEN {}
            ELSE IF op = "write" /\ ~Alone(s) THEN s.work \cup {w}
            ELSE s.work]

\* The session after the end of its transaction.
Ended(s) == [auto |-> s.auto, open |-> FALSE, work |-> {}]

\* An error undoes the statement, or the transaction (a deadlock, a full log).
Failures(s) == {s, Ended(s)}
=============================================================================
