------------------------------ MODULE Sending ------------------------------
(***************************************************************************)
(* How a command gets to the server when the connection may have been       *)
(* lost: mthd_my_send_cmd, and mariadb_reconnect under it.  The handle's    *)
(* status is READY here; Session has what happens when it is not.           *)
(***************************************************************************)

\* net.pvio: "up"; "cut", when the peer is gone and the client has not seen it;
\* "down", when it is NULL.
Links == {"up", "cut", "down"}

\* What becomes of the command: it has reached the session that was there, or a
\* "new" one; it is in a buffer that nobody will read ("void"); or the call
\* fails without having sent it.
Sent(l, t, how) == [link |-> l, trans |-> t, how |-> how]

\* Mutants: an open transaction does not matter; the option does not.
RefusedIfOff(reconnect, trans, known) == ~reconnect \/ ~known
RefusedInTrans(reconnect, trans, known) == trans \/ ~known

\* mariadb_reconnect: reconnect is the option, trans is SERVER_STATUS_IN_TRANS,
\* known tells whether host_info is set.  A refusal clears trans, to "allow
\* reconnect next time"; the new session has it clear as well.
Refused(reconnect, trans, known) == ~reconnect \/ trans \/ ~known

\* Reconnection and the write after it, which may find the new peer gone too:
\* then net.pvio stays as it is.
Reconnection(reconnect, trans, known) ==
  IF Refused(reconnect, trans, known) THEN {Sent("down", FALSE, "fails")}
  ELSE {Sent("down", FALSE, "fails"), Sent("up", FALSE, "new"),
        Sent("cut", FALSE, "fails")}

\* mthd_my_send_cmd.  With the option on, a peer that has hung up is noticed
\* before the write (ma_pvio_is_alive); else the write fails, which ends in
\* end_server and a reconnection as well, or it seems to succeed.
SendCmd(link, reconnect, trans, known) ==
  IF link = "up" THEN {Sent("up", trans, "sent")}
  ELSE Reconnection(reconnect, trans, known)
         \cup {Sent(l, trans, "void") : l \in {link} \ {"down"}}
=============================================================================
