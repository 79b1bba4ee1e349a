--------------------------- MODULE SendingProofs ---------------------------
(***************************************************************************)
(* What the sending of a command can leave, for TxnProofs and               *)
(* RegistryProofs.                                                         *)
(***************************************************************************)
EXTENDS Sending, TLAPS

LEMMA SentTrans ==
  ASSUME NEW l, NEW t, NEW how
  PROVE  Sent(l, t, how).trans = t
BY DEF Sent

\* What is known of an outcome of SendCmd.
Outcome(peer, option, bit, host, out) ==
  /\ out.link \in Links /\ out.trans \in BOOLEAN
  /\ out.how \in {"sent", "new", "void", "fails"}
  /\ out.how = "sent" => peer = "up" /\ out.link = "up" /\ out.trans = bit
  /\ out.how = "new" => peer # "up" /\ out.link = "up" /\ ~bit /\ option = TRUE
  /\ out.how = "void" => peer = "cut" /\ out.link = "cut" /\ out.trans = bit
  /\ out.how = "fails" => peer # "up" /\ out.link # "up"
  /\ option = FALSE => out.how # "new" /\ (out.how = "fails" => out.link = "down")

LEMMA Sendings ==
  ASSUME NEW peer \in Links, NEW option, NEW bit \in BOOLEAN, NEW host,
         NEW out \in SendCmd(peer, option, bit, host)
  PROVE  Outcome(peer, option, bit, host, out)
<1>1. \A o \in Reconnection(option, bit, host) :
        /\ o.link \in Links /\ o.trans \in BOOLEAN
        /\ o.how \in {"new", "fails"}
        /\ o.how = "new" => o.link = "up" /\ ~Refused(option, bit, host)
        /\ o.how = "fails" => o.link # "up"
        /\ Refused(option, bit, host) => o.how = "fails" /\ o.link = "down"
  <2> TAKE o \in Reconnection(option, bit, host)
  <2>1. \/ o = Sent("down", FALSE, "fails")
        \/ /\ ~Refused(option, bit, host)
           /\ \/ o = Sent("up", FALSE, "new")
              \/ o = Sent("cut", FALSE, "fails")
    BY DEF Reconnection
  <2>2. o.trans \in BOOLEAN
    <3>1. \A l, how : Sent(l, FALSE, how).trans \in BOOLEAN
      BY SentTrans, Zenon
    <3> QED BY <2>1, <3>1
  <2>3. o.link \in Links /\ o.how \in {"new", "fails"}
    BY <2>1 DEF Sent, Links
  <2>4. Refused(option, bit, host) => o.how = "fails" /\ o.link = "down"
    BY <2>1 DEF Sent
  <2>5. /\ o.how = "new" => o.link = "up" /\ ~Refused(option, bit, host)
        /\ o.how = "fails" => o.link # "up"
    BY <2>1 DEF Sent
  <2> QED BY <2>2, <2>3, <2>4, <2>5
<1>2. CASE peer = "up"
  BY <1>2 DEF SendCmd, Sent, Links, Outcome
<1>3. CASE peer # "up"
  <2>1. \/ out = Sent("cut", bit, "void") /\ peer = "cut"
        \/ out \in Reconnection(option, bit, host)
    BY <1>3 DEF SendCmd, Links
  <2> QED BY <1>1, <1>3, <2>1 DEF Sent, Links, Refused, Outcome
<1> QED BY <1>2, <1>3
=============================================================================
