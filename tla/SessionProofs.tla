---------------------------- MODULE SessionProofs ----------------------------
(***************************************************************************)
(* Theorems about Session, for any set of statements and any bounds.       *)
(***************************************************************************)
EXTENDS Session, SequenceTheorems, TLAPS

-----------------------------------------------------------------------------
(* The replies are sequences of packets.                                   *)

LEMMA PktType ==
  /\ ErrPkt \in Packet
  /\ RowPkt \in Packet
  /\ \A m \in BOOLEAN : /\ Pkt("OK", m) \in Packet
                       /\ Pkt("HDR", m) \in Packet
                       /\ Pkt("EOF", m) \in Packet
BY DEF Pkt, Packet, PacketKinds, ErrPkt, RowPkt

LEMMA RowsType ==
  ASSUME NEW r \in Nat
  PROVE  Rows(r) \in Seq(Packet)
<1>1. Rows(r) \in [1..r -> Packet]
  BY PktType DEF Rows
<1> QED
  BY <1>1, SeqDef

LEMMA ResultSetType ==
  ASSUME NEW r \in Nat, NEW m \in BOOLEAN
  PROVE  ResultSet(r, m) \in Reply
<1>1. <<Pkt("HDR", m)>> \in Seq(Packet) /\ <<Pkt("EOF", m)>> \in Seq(Packet)
  BY PktType
<1> QED
  BY <1>1, RowsType DEF ResultSet, Reply

LEMMA WholeType ==
  ASSUME NEW m \in BOOLEAN, NEW a \in Whole(m)
  PROVE  a \in Reply
<1>1. CASE a = OkReply(m)
  BY <1>1, PktType DEF OkReply, Reply
<1>2. ASSUME NEW r \in 0..MaxRows, a = ResultSet(r, m)
      PROVE  a \in Reply
  <2>1. r \in Nat
    BY ProtocolAssumption
  <2> QED
    BY <1>2, <2>1, ResultSetType
<1> QED
  BY <1>1, <1>2 DEF Whole

LEMMA FailedType ==
  ASSUME NEW m \in BOOLEAN, NEW a \in Failed(m)
  PROVE  a \in Reply
<1>1. CASE a = ErrReply
  BY <1>1, PktType DEF ErrReply, Reply
<1>2. ASSUME NEW r \in 0..MaxRows, a = Broken(r, m)
      PROVE  a \in Reply
  <2>1. r \in Nat
    BY ProtocolAssumption
  <2>2. <<Pkt("HDR", m)>> \in Seq(Packet) /\ <<ErrPkt>> \in Seq(Packet)
    BY PktType
  <2> QED
    BY <1>2, <2>1, <2>2, RowsType DEF Broken, Reply
<1> QED
  BY <1>1, <1>2 DEF Failed

LEMMA FollowedType ==
  ASSUME NEW a \in Reply, NEW b \in Reply
  PROVE  Followed(a, b) \in Reply
BY DEF Followed, Reply

LEMMA RepliesType ==
  /\ Whole(TRUE) \subseteq Reply
  /\ Whole(FALSE) \subseteq Reply
  /\ Failed(TRUE) \subseteq Reply
  /\ Failed(FALSE) \subseteq Reply
<1>1. TRUE \in BOOLEAN /\ FALSE \in BOOLEAN
  OBVIOUS
<1> QED
  BY <1>1, WholeType, FailedType, Zenon

LEMMA AckType == AckReplies \subseteq Reply
<1>1. OkReply(FALSE) \in Whole(FALSE) /\ ErrReply \in Failed(FALSE)
  BY DEF Whole, Failed
<1> QED
  BY <1>1, RepliesType, Zenon DEF AckReplies

LEMMA TextType == TextReplies \subseteq Reply
<1>1. FirstReplies \subseteq Reply /\ LastReplies \subseteq Reply
  BY RepliesType, Zenon DEF FirstReplies, LastReplies
<1>2. TwoReplies \subseteq Reply
  BY <1>1, FollowedType DEF TwoReplies
<1> QED
  BY <1>1, <1>2 DEF TextReplies

LEMMA QueryType == QueryReplies \subseteq Reply
<1>1. {ResultSet(r, FALSE) : r \in 0..MaxRows} \subseteq Whole(FALSE)
  BY Zenon DEF Whole
<1> QED
  BY <1>1, RepliesType, Zenon DEF QueryReplies

LEMMA OutType == OutReplies \subseteq Reply
<1>1. ASSUME NEW m \in BOOLEAN PROVE OutSet(m) \in Reply
  <2> DEFINE h == OutPkt("HDR", m)
             r == OutPkt("ROW", FALSE)
             e == OutPkt("EOF", m)
  <2>1. h \in Packet /\ r \in Packet /\ e \in Packet
    BY DEF OutPkt, Packet, PacketKinds
  <2>2. OutSet(m) = [pkts |-> <<h, r, e>>, rows |-> 1]
    BY DEF OutSet
  <2> HIDE DEF h, r, e
  <2>3. <<h, r, e>> \in Seq(Packet)
    BY <2>1
  <2> QED
    BY <2>2, <2>3 DEF Reply
<1>2. OkReply(FALSE) \in Reply
  BY AckType DEF AckReplies
<1> QED
  BY <1>1, <1>2, FollowedType DEF OutReplies

LEMMA CallType == CallReplies \subseteq Reply
<1>1. CallResults \subseteq Reply
  <2>1. CallResults \subseteq Whole(TRUE)
    BY Zenon DEF CallResults, Whole
  <2> QED
    BY <2>1, RepliesType, Zenon
<1>2. CallEnds \subseteq Reply
  <2>1. ResultSet(1, TRUE) \in Reply
    <3>1. 1 \in Nat /\ TRUE \in BOOLEAN
      OBVIOUS
    <3> QED
      BY <3>1, ResultSetType, Zenon
  <2>2. {Followed(ResultSet(1, TRUE), a) : a \in AckReplies} \subseteq Reply
    BY <2>1, AckType, FollowedType, Zenon
  <2> QED
    BY <2>2, AckType, Zenon DEF CallEnds
<1>4. {Followed(a, b) : a \in CallResults, b \in CallEnds \cup OutReplies} \subseteq Reply
  BY <1>1, <1>2, OutType, FollowedType
<1>3. CallFailures \subseteq Reply
  BY RepliesType DEF CallFailures
<1> QED
  BY <1>3, <1>4, OutType DEF CallReplies

LEMMA StmtType ==
  ASSUME NEW s \in Stmts
  PROVE  StmtReplies(Kind[s]) \subseteq Reply
<1>1. Kind[s] \in {"select", "dml", "call"}
  BY SessionAssumption
<1>2. (IF MultiResults THEN CallReplies ELSE {}) \subseteq Reply
  BY CallType
<1>3. CASE Kind[s] = "select"
  BY <1>3, QueryType DEF StmtReplies
<1>4. CASE Kind[s] = "dml"
  BY <1>4, AckType DEF StmtReplies
<1>5. CASE Kind[s] = "call"
  <2>1. StmtReplies(Kind[s]) = AckReplies \cup (IF MultiResults THEN CallReplies ELSE {})
    BY <1>5 DEF StmtReplies
  <2> QED
    BY <1>2, <2>1, AckType, Zenon
<1> QED
  BY <1>1, <1>3, <1>4, <1>5

LEMMA StaleType ==
  ASSUME NEW w \in Seq(Packet)
  PROVE  Stale(w) \in Seq(Packet)
<1>1. ASSUME NEW p \in Packet
      PROVE  [p EXCEPT !.fresh = FALSE] \in Packet
  BY DEF Packet
<1>2. DOMAIN w = 1..Len(w) /\ Len(w) \in Nat /\ \A i \in DOMAIN w : w[i] \in Packet
  OBVIOUS
<1>3. Stale(w) \in [1..Len(w) -> Packet]
  BY <1>1, <1>2 DEF Stale
<1> QED
  BY <1>2, <1>3, SeqDef

-----------------------------------------------------------------------------
(* What the primitives of the connector do to the types.                   *)

LEMMA NewCallType ==
  ASSUME NEW o \in TextOps \cup ConnOps \cup {"none"}, NEW s \in Stmts \cup {NoStmt},
         NEW n \in 0..MaxN
  PROVE  NewCall(o, s, n) \in Call
BY DEF NewCall, Call

LEMMA NoCallType == NoCall \in Call /\ NoRet \in Ret
<1>1. NoCall \in Call
  BY SessionAssumption DEF NoCall, NewCall, Call
<1> QED
  BY <1>1 DEF NoRet, Ret, RetKinds

LEMMA ReturnType ==
  ASSUME NEW c \in Call, NEW k \in RetKinds, Return(c, k)
  PROVE  pc' \in PCs /\ call' \in Call /\ ret' \in Ret
BY NoCallType DEF Return, PCs, Ret

LEMMA GotoWithType ==
  ASSUME NEW c \in Call, NEW p \in PCs, GotoWith(c, p)
  PROVE  pc' \in PCs /\ call' \in Call /\ ret' \in Ret
BY NoCallType DEF GotoWith

LEMMA ReadType ==
  ASSUME TypeOK, NEW ks, Read(ks)
  PROVE  link' = link /\ wire' \in Seq(Packet) /\ Head(wire) \in Packet
BY HeadTailProperties DEF TypeOK, Read, Readable

LEMMA ReadHeaderType ==
  ASSUME TypeOK, NEW ks, ReadHeader(ks)
  PROVE  link' = link /\ wire' \in Seq(Packet) /\ Head(wire) \in Packet
BY ReadType DEF ReadHeader

LEMMA TakeStatusType ==
  ASSUME TypeOK, TakeStatus, Head(wire) \in Packet
  PROVE  more' \in BOOLEAN /\ out' \in BOOLEAN
BY DEF TypeOK, TakeStatus, Packet

LEMMA ReadFailsType ==
  ASSUME ReadFails
  PROVE  link' = "down" /\ wire' \in Seq(Packet)
BY DEF ReadFails

LEMMA MisreadsType ==
  ASSUME TypeOK, Misreads
  PROVE  /\ link' = link /\ wire' \in Seq(Packet)
         /\ pc' \in PCs /\ call' \in Call /\ ret' \in Ret
<1>1. Read(PacketKinds) /\ GotoWith(call, "garbled")
  BY DEF Misreads, Goto
<1>2. call \in Call /\ "garbled" \in PCs
  BY DEF TypeOK, PCs
<1> QED
  BY <1>1, <1>2, ReadType, GotoWithType

LEMMA BreaksType ==
  ASSUME TypeOK, Breaks
  PROVE  link' = "cut" /\ wire' \in Seq(Packet)
<1>1. PICK k \in 0..Len(wire) : wire' = SubSeq(wire, 1, k)
  BY DEF Breaks
<1>2. \A i \in 1..k : wire[i] \in Packet
  BY DEF TypeOK
<1> QED
  BY <1>1, <1>2, SubSeqProperties DEF Breaks, TypeOK

LEMMA SendCmdType ==
  ASSUME TypeOK, NEW c \in Call, NEW busy, NEW replies \in SUBSET Reply,
         NEW next \in PCs, NEW failure \in RetKinds,
         SendCmd(c, busy, replies, next, failure)
  PROVE  /\ link' \in {"up", "cut", "down", "closed"} /\ wire' \in Seq(Packet)
         /\ pc' \in PCs /\ call' \in Call /\ ret' \in Ret
<1>1. CASE Return(c, failure) /\ UNCHANGED <<link, wire>>
  BY <1>1, ReturnType DEF TypeOK
<1>2. CASE link' = "down" /\ wire' = <<>> /\ Return(c, failure)
  BY <1>2, ReturnType
<1>3. CASE link' = link /\ wire' = Stale(wire) /\ GotoWith(c, next)
  BY <1>3, GotoWithType, StaleType DEF TypeOK
<1>4. ASSUME NEW r \in replies, link' = link, wire' = Stale(wire) \o r.pkts,
             GotoWith([c EXCEPT !.sent = r.rows], next)
      PROVE  /\ link' \in {"up", "cut", "down", "closed"} /\ wire' \in Seq(Packet)
             /\ pc' \in PCs /\ call' \in Call /\ ret' \in Ret
  <2>1. r.pkts \in Seq(Packet) /\ r.rows \in Nat
    BY DEF Reply
  <2>2. [c EXCEPT !.sent = r.rows] \in Call
    BY <2>1 DEF Call
  <2>3. Stale(wire) \in Seq(Packet)
    BY StaleType DEF TypeOK
  <2> QED
    BY <1>4, <2>1, <2>2, <2>3, GotoWithType, ConcatProperties DEF TypeOK
<1> QED
  BY <1>1, <1>2, <1>3, <1>4 DEF SendCmd

-----------------------------------------------------------------------------
(* Type correctness.                                                       *)

LEMMA SessionTypes ==
  ASSUME TypeOK, CallInv, [Next]_vars
  PROVE  TypeOK'
<1> USE DEF TypeOK
<1> DEFINE ThreadType == pc' \in PCs /\ call' \in Call /\ ret' \in Ret
           WireType   == link' \in {"up", "cut", "down", "closed"} /\ wire' \in Seq(Packet)
<1>a. \A o \in {"ping", "reset", "reconnect", "abort", "close", "connect"} :
        NewCall(o, NoStmt, 0) \in Call
  <2>1. 0 \in 0..MaxN /\ NoStmt \in Stmts \cup {NoStmt}
    BY SessionAssumption
  <2> QED
    BY <2>1, NewCallType DEF ConnOps
<1>b. \A p \in PCs : Goto(p) => ThreadType
  BY GotoWithType DEF Goto
<1>c. \A k \in RetKinds : Return(call, k) => ThreadType
  BY ReturnType
<1>d. /\ "done" \in RetKinds /\ "crash" \in RetKinds /\ "throw" \in RetKinds
      /\ "length" \in RetKinds /\ "nullopt" \in RetKinds /\ "result" \in RetKinds
      /\ "row" \in RetKinds /\ "true" \in RetKinds /\ "false" \in RetKinds
  BY DEF RetKinds
<1>1. ASSUME NEW o \in TextOps, NEW n \in 0..MaxN, TextCall(o, n)
      PROVE  TypeOK'
  <2> DEFINE c == NewCall(o, NoStmt, n)
  <2>1. c \in Call
    BY NewCallType
  <2>2. ThreadType /\ WireType
    <3>1. CASE link = "closed"
      BY <1>1, <1>d, <2>1, <3>1, ReturnType DEF TextCall
    <3>2. CASE link # "closed" /\ ~ver /\ o # "commit"
      BY <1>1, <1>d, <2>1, <3>2, ReturnType DEF TextCall
    <3>3. CASE SendCmd(c, Busy, IF o = "commit" THEN AckReplies ELSE TextReplies,
                       "header", "throw")
      <4>1. (IF o = "commit" THEN AckReplies ELSE TextReplies) \in SUBSET Reply
        BY AckType, TextType
      <4>2. "header" \in PCs
        BY DEF PCs
      <4> QED
        BY <1>d, <2>1, <3>3, <4>1, <4>2, SendCmdType
    <3> QED
      BY <1>1, <3>1, <3>2, <3>3 DEF TextCall
  <2> QED
    BY <1>1, <2>2 DEF TextCall, stmts
<1>2. ASSUME NEW o \in StmtOps, NEW s \in Stmts, NEW n \in 0..MaxN, StmtCall(o, s, n)
      PROVE  TypeOK'
  <2>1. NewCall(o, s, n) \in Call
    BY NewCallType DEF StmtOps, TextOps
  <2>2. ThreadType
    BY <1>2, <1>d, <2>1, ReturnType, GotoWithType DEF StmtCall, PCs
  <2>3. st' \in [Stmts -> States]
    BY <1>2 DEF StmtCall, States
  <2> QED
    BY <1>2, <2>2, <2>3 DEF StmtCall, conn
<1>3. CASE PingCall
  <2> DEFINE c == NewCall("ping", NoStmt, 0)
  <2>1. c \in Call
    BY <1>a
  <2>2. "ack" \in PCs /\ AckReplies \in SUBSET Reply
    BY AckType DEF PCs
  <2>3. ThreadType /\ WireType
    BY <1>3, <1>d, <2>1, <2>2, ReturnType, SendCmdType DEF PingCall
  <2> QED
    BY <1>3, <2>3 DEF PingCall, stmts
<1>4. CASE ResetCall
  <2>1. ThreadType
    BY <1>4, <1>a, <1>d, ReturnType, GotoWithType DEF ResetCall, PCs
  <2> QED
    BY <1>4, <2>1 DEF ResetCall, conn, stmts, Busy
<1>5. CASE ReconnectCall
  <2>1. ThreadType
    BY <1>5, <1>a, <1>d, ReturnType DEF ReconnectCall
  <2> QED
    BY <1>5, <2>1 DEF ReconnectCall, conn, stmts
<1>6. CASE AbortCall
  <2>1. ThreadType
    BY <1>6, <1>a, <1>d, ReturnType DEF AbortCall
  <2>2. WireType
    BY <1>6, BreaksType DEF AbortCall
  <2> QED
    BY <1>6, <2>1, <2>2 DEF AbortCall, stmts
<1>7. CASE CloseCall
  <2>1. ThreadType
    BY <1>7, <1>a, <1>d, ReturnType DEF CloseCall
  <2>2. WireType
    BY <1>7 DEF CloseCall
  <2>3. more' \in BOOLEAN /\ out' \in BOOLEAN
    BY <1>7, Zenon DEF CloseCall
  <2>4. att' \in SUBSET Stmts
    BY <1>7 DEF CloseCall
  <2>5. UNCHANGED <<ver, st, fc, taint>> /\ status' = "READY"
    BY <1>7, Zenon DEF CloseCall
  <2> QED
    BY <2>1, <2>2, <2>3, <2>4, <2>5
<1>8. CASE ConnectCall
  <2>1. ThreadType
    BY <1>8, <1>a, <1>d, ReturnType DEF ConnectCall
  <2> QED
    BY <1>8, <2>1 DEF ConnectCall, stmts
<1>9. CASE Header
  <2>1. ThreadType
    <3>1. call.op \in TextOps
      BY <1>9 DEF Header, CallInv
    <3>2. NoResultSet(call.op) \in RetKinds
      BY <3>1 DEF NoResultSet, TextOps, RetKinds
    <3>3. "store" \in PCs
      BY DEF PCs
    <3> QED
      BY <1>9, <1>b, <1>c, <1>d, <3>2, <3>3, MisreadsType DEF Header
  <2>2. WireType /\ more' \in BOOLEAN /\ out' \in BOOLEAN
    BY <1>9, ReadFailsType, ReadHeaderType, TakeStatusType, MisreadsType DEF Header
  <2> QED
    BY <1>9, <2>1, <2>2 DEF Header, stmts
<1>10. CASE Store
  <2>1. ThreadType
    <3>1. [call EXCEPT !.got = 0] \in Call /\ [call EXCEPT !.got = @ + 1] \in Call
      BY DEF Call
    <3>2. StoreFailed(call.op) \in RetKinds /\ Stored(call) \in RetKinds
      BY DEF StoreFailed, Stored, RetKinds
    <3> QED
      BY <1>10, <1>d, <3>1, <3>2, ReturnType, GotoWithType DEF Store, PCs
  <2>2. WireType /\ more' \in BOOLEAN /\ out' \in BOOLEAN
    BY <1>10, ReadFailsType, ReadType, TakeStatusType DEF Store
  <2> QED
    BY <1>10, <2>1, <2>2 DEF Store, stmts
<1>11. CASE Flush
  <2>1. \A m : FlushEnds(m) => /\ ThreadType
                              /\ st' \in [Stmts -> States]
                              /\ status' \in {"READY", "GET", "STMT"}
    BY <1>b DEF FlushEnds, FlushStops, PCs, States
  <2>2. ThreadType /\ st' \in [Stmts -> States] /\ status' \in {"READY", "GET", "STMT"}
    BY <1>11, <1>b, <2>1 DEF Flush, PCs
  <2>3. WireType /\ more' \in BOOLEAN /\ out' \in BOOLEAN
    BY <1>11, ReadFailsType, ReadType, TakeStatusType DEF Flush
  <2> QED
    BY <1>11, <2>2, <2>3 DEF Flush
<1>12. CASE ExecSend
  <2>1. ThreadType /\ WireType
    <3>1. CASE call.s \in Stmts
      <4>1. "exechdr" \in PCs /\ StmtReplies(Kind[call.s]) \in SUBSET Reply
        BY <3>1, StmtType DEF PCs
      <4>2. SendCmd(call, Busy, StmtReplies(Kind[call.s]), "exechdr", "throw")
        BY <1>12 DEF ExecSend
      <4> QED
        BY <1>d, <4>1, <4>2, SendCmdType
    <3> QED
      BY <1>12, <3>1 DEF ExecSend, CallInv, StmtPCs
  <2>2. st' \in [Stmts -> States]
    BY <1>12 DEF ExecSend, States
  <2>3. taint' \in BOOLEAN
    BY <1>12 DEF ExecSend
  <2> QED
    BY <1>12, <2>1, <2>2, <2>3 DEF ExecSend
<1>13. CASE ExecHeader
  <2>1. ThreadType
    <3>1. call.op \in StmtOps
      BY <1>13 DEF ExecHeader, CallInv, StmtPCs
    <3>2. NoStmtResult(call.op) \in RetKinds
      BY <3>1 DEF NoStmtResult, StmtOps, RetKinds
    <3>3. "stmtstore" \in PCs /\ "first" \in PCs
      BY DEF PCs
    <3> QED
      BY <1>13, <1>b, <1>c, <1>d, <3>2, <3>3, MisreadsType DEF ExecHeader
  <2>2. WireType /\ more' \in BOOLEAN /\ out' \in BOOLEAN
    BY <1>13, ReadFailsType, ReadHeaderType, TakeStatusType, MisreadsType DEF ExecHeader
  <2>3. st' \in [Stmts -> States] /\ fc' \in [Stmts -> BOOLEAN]
    BY <1>13 DEF ExecHeader, States
  <2> QED
    BY <1>13, <2>1, <2>2, <2>3 DEF ExecHeader
<1>f. ASSUME NEW rc \in {"ROW", "NODATA", "ERROR"}, Fetch(rc)
      PROVE  /\ WireType /\ more' \in BOOLEAN /\ out' \in BOOLEAN /\ status' \in {"READY", "GET", "STMT"}
             /\ st' \in [Stmts -> States] /\ taint' \in BOOLEAN
             /\ Appended(rc) \in Call
  <2>1. WireType /\ more' \in BOOLEAN /\ out' \in BOOLEAN
    BY <1>f, ReadFailsType, ReadType, TakeStatusType DEF Fetch
  <2>2. st' \in [Stmts -> States] /\ status' \in {"READY", "GET", "STMT"}
    BY <1>f DEF Fetch, States
  <2>3. Appended(rc) \in Call
    <3>1. [call EXCEPT !.got = @ + 1] \in Call /\ [call EXCEPT !.junk = @ + 1] \in Call
      BY DEF Call
    <3> QED
      BY <3>1 DEF Appended
  <2>4. taint' \in BOOLEAN
    BY <1>f DEF Fetch
  <2> QED
    BY <2>1, <2>2, <2>3, <2>4
<1>14. CASE FirstFetch
  <2>1. PICK rc \in {"ROW", "NODATA", "ERROR"} :
          /\ Fetch(rc)
          /\ \/ \E k \in {"result", "throw"} : Return(call, k)
             \/ Return(Appended(rc), "row")
             \/ GotoWith(Appended(rc), "next")
    BY <1>14 DEF FirstFetch
  <2>2. ThreadType
    BY <1>c, <1>d, <1>f, <2>1, ReturnType, GotoWithType DEF PCs
  <2> QED
    BY <1>14, <1>f, <2>1, <2>2 DEF FirstFetch
<1>15. CASE NextFetch
  <2>1. PICK rc \in {"ROW", "NODATA", "ERROR"} :
          /\ Fetch(rc)
          /\ \/ \E k \in {"result", "throw"} : Return(call, k)
             \/ GotoWith(Appended(rc), "next")
    BY <1>15 DEF NextFetch
  <2>2. ThreadType
    BY <1>c, <1>d, <1>f, <2>1, GotoWithType DEF PCs
  <2> QED
    BY <1>15, <1>f, <2>1, <2>2 DEF NextFetch
<1>16. CASE StoreStmt
  <2>1. ThreadType
    <3>1. [call EXCEPT !.got = 0] \in Call /\ [call EXCEPT !.got = @ + 1] \in Call
      BY DEF Call
    <3> QED
      BY <1>16, <1>c, <1>d, <3>1, ReturnType, GotoWithType DEF StoreStmt, PCs
  <2>2. WireType /\ more' \in BOOLEAN /\ out' \in BOOLEAN
    <3>1. WireType
      BY <1>16, ReadFailsType, ReadType DEF StoreStmt
    <3>2. CASE UNCHANGED <<more, out>>
      BY <3>1, <3>2
    <3>3. CASE Read({"ERR"}) /\ TakeStatus
      BY <3>1, <3>3, ReadType, TakeStatusType
    <3>4. CASE /\ Read({"EOF"})
               /\ more' = (Head(wire).more \/ out) /\ out' = Head(wire).out
      <4>1. Head(wire) \in Packet
        BY <3>4, ReadType
      <4> QED
        BY <3>1, <3>4, <4>1 DEF Packet
    <3> QED
      BY <1>16, <3>1, <3>2, <3>3, <3>4 DEF StoreStmt
  <2>3. st' \in [Stmts -> States] /\ status' \in {"READY", "GET", "STMT"} /\ taint' \in BOOLEAN
    BY <1>16 DEF StoreStmt, States
  <2> QED
    BY <1>16, <2>1, <2>2, <2>3 DEF StoreStmt
<1>17. CASE Drain
  <2>1. ThreadType
    BY <1>17, <1>b DEF Drain, PCs
  <2>2. WireType /\ more' \in BOOLEAN /\ out' \in BOOLEAN
    BY <1>17, ReadFailsType, ReadType, TakeStatusType DEF Drain
  <2> QED
    BY <1>17, <2>1, <2>2 DEF Drain, stmts
<1>18. CASE ResetSend
  <2>1. "ack" \in PCs /\ AckReplies \in SUBSET Reply
    BY AckType DEF PCs
  <2>2. ThreadType /\ WireType
    BY <1>18, <1>d, <2>1, SendCmdType DEF ResetSend
  <2> QED
    BY <1>18, <2>2 DEF ResetSend, stmts
<1>19. CASE Ack
  <2>1. ThreadType
    BY <1>19, <1>c, <1>d DEF Ack
  <2>2. WireType /\ more' \in BOOLEAN /\ out' \in BOOLEAN
    BY <1>19, ReadFailsType, ReadType, TakeStatusType DEF Ack
  <2> QED
    BY <1>19, <2>1, <2>2 DEF Ack
<1>20. CASE Cut
  BY <1>20, BreaksType DEF Cut, stmts
<1>21. CASE UNCHANGED vars
  BY <1>21 DEF vars
<1> QED
  BY <1>1, <1>2, <1>3, <1>4, <1>5, <1>6, <1>7, <1>8, <1>9, <1>10, <1>11, <1>12, <1>13,
     <1>14, <1>15, <1>16, <1>17, <1>18, <1>19, <1>20, <1>21
     DEF Next, Begin, Continue, Halted

\* How a step ends or moves the running call.
Ended == pc' \in {"idle", "crashed"}
AtAs(p, c) == pc' = p /\ call'.op = c.op /\ call'.s = c.s

LEMMA CallParts ==
  ASSUME NEW c \in Call, NEW x
  PROVE  /\ [c EXCEPT !.sent = x].op = c.op /\ [c EXCEPT !.sent = x].s = c.s
         /\ [c EXCEPT !.got = x].op = c.op /\ [c EXCEPT !.got = x].s = c.s
         /\ [c EXCEPT !.junk = x].op = c.op /\ [c EXCEPT !.junk = x].s = c.s
BY DEF Call

LEMMA AppendedParts ==
  ASSUME TypeOK, NEW rc
  PROVE  Appended(rc).op = call.op /\ Appended(rc).s = call.s
BY CallParts DEF TypeOK, Appended

LEMMA ReturnEnds ==
  ASSUME NEW c, NEW k, Return(c, k)
  PROVE  Ended
BY DEF Return, Ended

LEMMA GotoWithMoves ==
  ASSUME NEW c, NEW p, GotoWith(c, p)
  PROVE  pc' = p /\ call' = c
BY DEF GotoWith

LEMMA GotoMoves ==
  ASSUME NEW p, Goto(p)
  PROVE  AtAs(p, call)
BY DEF Goto, GotoWith, AtAs

LEMMA SendCmdMoves ==
  ASSUME NEW c \in Call, NEW busy, NEW replies, NEW next, NEW failure,
         SendCmd(c, busy, replies, next, failure)
  PROVE  \/ Ended
         \/ ~busy /\ link # "down" /\ AtAs(next, c)
<1>1. CASE Return(c, failure)
  BY <1>1, ReturnEnds
<1>2. CASE link \in {"cut", "up"} /\ ~busy /\ GotoWith(c, next)
  BY <1>2, GotoWithMoves DEF AtAs
<1>3. ASSUME NEW r \in replies, GotoWith([c EXCEPT !.sent = r.rows], next),
             link = "up", ~busy
      PROVE  ~busy /\ link # "down" /\ AtAs(next, c)
  <2>1. pc' = next /\ call' = [c EXCEPT !.sent = r.rows]
    BY <1>3, GotoWithMoves, Zenon
  <2>2. [c EXCEPT !.sent = r.rows].op = c.op /\ [c EXCEPT !.sent = r.rows].s = c.s
    BY CallParts, Zenon
  <2> QED
    BY <1>3, <2>1, <2>2 DEF AtAs
<1> QED
  BY <1>1, <1>2, <1>3 DEF SendCmd

LEMMA NewCallParts ==
  ASSUME NEW o, NEW s, NEW n
  PROVE  NewCall(o, s, n).op = o /\ NewCall(o, s, n).s = s
BY DEF NewCall

LEMMA ConnCallType ==
  \A o \in ConnOps : NewCall(o, NoStmt, 0) \in Call
BY NewCallType, SessionAssumption

\* The calls that read with a statement, or wait for a text reply, are those
\* that asked for it, and their statement stays attached.
LEMMA CallStep ==
  ASSUME TypeOK, CallInv, [Next]_vars
  PROVE  CallInv'
<1>0. call \in Call
  BY DEF TypeOK
<1>a. Ended => CallInv'
  BY DEF Ended, CallInv, StmtPCs
<1>b. \A p : AtAs(p, call) /\ p \in StmtPCs /\ pc \in StmtPCs /\ att' = att => CallInv'
  BY DEF AtAs, CallInv, StmtPCs
<1>c. \A p, c : AtAs(p, c) /\ p \in {"drain", "resetsend", "ack", "garbled"} => CallInv'
  BY DEF AtAs, CallInv, StmtPCs
<1>d. \A p : /\ AtAs(p, call) /\ p \in {"header", "store"} /\ pc \in {"header", "store"}
             => CallInv'
  BY DEF AtAs, CallInv, StmtPCs
<1>1. ASSUME NEW o \in TextOps, NEW n \in 0..MaxN, TextCall(o, n)
      PROVE  CallInv'
  <2>1. NewCall(o, NoStmt, n) \in Call
    BY NewCallType
  <2>2. Ended \/ AtAs("header", NewCall(o, NoStmt, n))
    BY <1>1, <2>1, ReturnEnds, SendCmdMoves DEF TextCall
  <2> QED
    BY <1>a, <2>2, NewCallParts DEF AtAs, CallInv, StmtPCs
<1>2. ASSUME NEW o \in StmtOps, NEW s \in Stmts, NEW n \in 0..MaxN, StmtCall(o, s, n)
      PROVE  CallInv'
  <2>1. \/ Ended
        \/ /\ s \in att
           /\ \E p \in {"flush", "execsend"} : GotoWith(NewCall(o, s, n), p)
    BY <1>2, ReturnEnds DEF StmtCall
  <2>2. att' = att
    BY <1>2 DEF StmtCall
  <2> QED
    BY <1>a, <2>1, <2>2, GotoWithMoves, NewCallParts DEF CallInv, StmtPCs
<1>3. CASE PingCall
  <2>1. Ended \/ AtAs("ack", NewCall("ping", NoStmt, 0))
    BY <1>3, ConnCallType, ReturnEnds, SendCmdMoves DEF PingCall, ConnOps
  <2> QED
    BY <1>a, <1>c, <2>1
<1>4. CASE ResetCall
  <2>1. Ended \/ \E p \in {"drain", "resetsend"} : pc' = p
    BY <1>4, ReturnEnds, GotoWithMoves DEF ResetCall
  <2> QED
    BY <1>a, <2>1 DEF CallInv, StmtPCs
<1>5. CASE ReconnectCall \/ AbortCall \/ CloseCall \/ ConnectCall
  <2>1. Ended
    BY <1>5, ReturnEnds DEF ReconnectCall, AbortCall, CloseCall, ConnectCall
  <2> QED
    BY <1>a, <2>1
<1>6. CASE Header
  <2>1. pc = "header" /\ (Ended \/ AtAs("store", call) \/ AtAs("garbled", call))
    BY <1>6, ReturnEnds, GotoMoves DEF Header, Misreads
  <2> QED
    BY <1>a, <1>c, <1>d, <2>1
<1>7. CASE Store
  <2>0. GotoWith([call EXCEPT !.got = @ + 1], "store") => AtAs("store", call)
    <3>1. [call EXCEPT !.got = @ + 1].op = call.op /\ [call EXCEPT !.got = @ + 1].s = call.s
      BY <1>0 DEF Call
    <3> QED
      BY <3>1 DEF GotoWith, AtAs
  <2>1. pc = "store" /\ (Ended \/ AtAs("store", call))
    BY <1>7, <2>0, ReturnEnds DEF Store
  <2> QED
    BY <1>a, <1>d, <2>1
<1>8. CASE Flush
  <2>1. \A m : FlushEnds(m) => AtAs("flushnext", call) \/ AtAs("execsend", call)
    BY GotoMoves DEF FlushEnds, FlushStops
  <2>2. \/ AtAs("flushnext", call) \/ AtAs("execsend", call)
        \/ AtAs("flush", call) \/ AtAs("garbled", call)
    BY <1>8, <2>1, GotoMoves DEF Flush
  <2>3. pc \in StmtPCs /\ att' = att
    BY <1>8 DEF Flush, StmtPCs
  <2> QED
    BY <1>b, <1>c, <2>2, <2>3 DEF StmtPCs
<1>9. CASE ExecSend
  <2>1. Ended \/ AtAs("exechdr", call)
    BY <1>9, <1>0, SendCmdMoves DEF ExecSend
  <2>2. pc \in StmtPCs /\ att' = att
    BY <1>9 DEF ExecSend, StmtPCs
  <2> QED
    BY <1>a, <1>b, <2>1, <2>2 DEF StmtPCs
<1>10. CASE ExecHeader
  <2>1. \/ Ended \/ AtAs("stmtstore", call) \/ AtAs("first", call) \/ AtAs("garbled", call)
    BY <1>10, ReturnEnds, GotoMoves DEF ExecHeader, Misreads
  <2>2. pc \in StmtPCs /\ att' = att
    BY <1>10 DEF ExecHeader, StmtPCs
  <2> QED
    BY <1>a, <1>b, <1>c, <2>1, <2>2 DEF StmtPCs
<1>11. CASE FirstFetch
  <2>1. Ended \/ AtAs("next", call)
    BY <1>11, AppendedParts, ReturnEnds, GotoWithMoves DEF FirstFetch, AtAs
  <2>2. pc \in StmtPCs /\ att' = att
    BY <1>11 DEF FirstFetch, StmtPCs
  <2> QED
    BY <1>a, <1>b, <2>1, <2>2 DEF StmtPCs
<1>12. CASE NextFetch
  <2>1. Ended \/ AtAs("next", call)
    BY <1>12, AppendedParts, ReturnEnds, GotoWithMoves DEF NextFetch, AtAs
  <2>2. pc \in StmtPCs /\ att' = att
    BY <1>12 DEF NextFetch, StmtPCs
  <2> QED
    BY <1>a, <1>b, <2>1, <2>2 DEF StmtPCs
<1>13. CASE StoreStmt
  <2>0. GotoWith([call EXCEPT !.got = @ + 1], "stmtstore") => AtAs("stmtstore", call)
    <3>1. [call EXCEPT !.got = @ + 1].op = call.op /\ [call EXCEPT !.got = @ + 1].s = call.s
      BY <1>0 DEF Call
    <3> QED
      BY <3>1 DEF GotoWith, AtAs
  <2>1. Ended \/ AtAs("stmtstore", call)
    BY <1>13, <2>0, ReturnEnds DEF StoreStmt
  <2>2. pc \in StmtPCs /\ att' = att
    BY <1>13 DEF StoreStmt, StmtPCs
  <2> QED
    BY <1>a, <1>b, <2>1, <2>2 DEF StmtPCs
<1>14. CASE Drain
  <2>1. AtAs("drain", call) \/ AtAs("resetsend", call) \/ AtAs("garbled", call)
    BY <1>14, GotoMoves DEF Drain
  <2> QED
    BY <1>c, <2>1
<1>15. CASE ResetSend
  <2>1. Ended \/ AtAs("ack", call)
    BY <1>15, <1>0, SendCmdMoves DEF ResetSend
  <2> QED
    BY <1>a, <1>c, <2>1
<1>16. CASE Ack
  <2>1. Ended
    BY <1>16, ReturnEnds DEF Ack
  <2> QED
    BY <1>a, <2>1
<1>17. CASE Cut \/ UNCHANGED vars
  BY <1>17 DEF Cut, stmts, vars, CallInv
<1> QED
  BY <1>1, <1>2, <1>3, <1>4, <1>5, <1>6, <1>7, <1>8, <1>9, <1>10, <1>11, <1>12, <1>13,
     <1>14, <1>15, <1>16, <1>17
     DEF Next, Begin, Continue, Halted

LEMMA InitTypes ==
  ASSUME Init
  PROVE  TypeOK /\ CallInv
<1>1. fc \in [Stmts -> BOOLEAN]
  BY Zenon DEF Init
<1>2. st \in [Stmts -> States]
  BY DEF Init, States
<1>3. ver \in BOOLEAN /\ more \in BOOLEAN /\ out \in BOOLEAN /\ taint \in BOOLEAN
  BY Zenon DEF Init
<1>4. /\ link = "up" /\ status = "READY" /\ wire = <<>> /\ att = Stmts /\ pc = "idle"
  BY Zenon DEF Init
<1>5. call \in Call /\ ret \in Ret
  BY NoCallType DEF Init
<1>6. CallInv
  BY DEF Init, CallInv, StmtPCs
<1> QED
  BY <1>1, <1>2, <1>3, <1>4, <1>5, <1>6 DEF TypeOK, PCs

\* Every variable keeps its type: in particular a call is always at one of the
\* steps of its handler, and what a call returns is one of the outcomes the
\* code has for it.
THEOREM TypeCorrect == Spec => []TypeOK
<1>1. Init => TypeOK /\ CallInv
  BY InitTypes
<1>2. TypeOK /\ CallInv /\ [Next]_vars => TypeOK' /\ CallInv'
  BY SessionTypes, CallStep
<1> QED
  BY <1>1, <1>2, PTL DEF Spec

-----------------------------------------------------------------------------
(* Who holds the connection.                                               *)

LEMMA StreamsSame ==
  ASSUME UNCHANGED <<att, st>>
  PROVE  Streams' = Streams
BY DEF Streams

LEMMA StreamsSet ==
  ASSUME TypeOK, NEW s \in att, NEW x, att' = att, st' = [st EXCEPT ![s] = x]
  PROVE  Streams' = IF x \in {"WAITING", "FETCHING"} THEN Streams \cup {s} ELSE Streams \ {s}
BY DEF Streams, TypeOK

\* A step that ends a call leaves the connection free or held by one statement.
LEMMA EndedShape ==
  ASSUME Ended, Free' \/ \E s \in Stmts : HeldBy(s)'
  PROVE  StreamShape'
BY DEF Ended, StreamShape

LEMMA GarbledShape ==
  ASSUME NEW c, AtAs("garbled", c)
  PROVE  StreamShape'
BY DEF AtAs, StreamShape

LEMMA FetchStreams ==
  ASSUME TypeOK, NEW rc, Fetch(rc), call.s \in att, att' = att,
         Free \/ HeldBy(call.s)
  PROVE  Free' \/ (status' = "STMT" /\ Streams' = {call.s})
<1>1. CASE UNCHANGED <<status, st>>
  BY <1>1, StreamsSame DEF Free, HeldBy
<1>2. CASE st[call.s] \in {"WAITING", "FETCHING"} /\ status' = "READY"
           /\ st' = [st EXCEPT ![call.s] = "DONE"]
  BY <1>2, StreamsSet DEF Free, HeldBy
<1>3. CASE st[call.s] \in {"WAITING", "FETCHING"} /\ status' = status
           /\ st' = [st EXCEPT ![call.s] = "FETCHING"]
  <2>1. call.s \in Streams
    BY <1>3 DEF Streams
  <2>2. HeldBy(call.s)
    BY <2>1 DEF Free, HeldBy
  <2> QED
    BY <1>3, <2>2, StreamsSet DEF HeldBy
<1> QED
  BY <1>1, <1>2, <1>3 DEF Fetch

LEMMA StreamStep ==
  ASSUME TypeOK, CallInv, ~taint => StreamShape, [Next]_vars, ~taint'
  PROVE  StreamShape'
<1>0. call \in Call /\ att \subseteq Stmts
  BY DEF TypeOK
<1>1. ASSUME NEW o \in TextOps, NEW n \in 0..MaxN, TextCall(o, n)
      PROVE  StreamShape'
  <2>1. NewCall(o, NoStmt, n) \in Call
    BY NewCallType
  <2>2. Ended \/ (~Busy /\ AtAs("header", NewCall(o, NoStmt, n)))
    BY <1>1, <2>1, ReturnEnds, SendCmdMoves DEF TextCall
  <2>3. pc = "idle" /\ ~taint /\ UNCHANGED <<status, st, att>>
    BY <1>1 DEF TextCall, stmts
  <2>4. Streams' = Streams
    BY <2>3, StreamsSame
  <2>5. Free \/ \E s \in Stmts : HeldBy(s)
    BY <2>3 DEF StreamShape
  <2>6. CASE Ended
    BY <2>3, <2>4, <2>5, <2>6, EndedShape DEF Free, HeldBy
  <2>7. CASE ~Busy /\ AtAs("header", NewCall(o, NoStmt, n))
    BY <2>3, <2>4, <2>5, <2>7 DEF Free, HeldBy, AtAs, Busy, StreamShape
  <2> QED
    BY <2>2, <2>6, <2>7
<1>2. ASSUME NEW o \in StmtOps, NEW s \in Stmts, NEW n \in 0..MaxN, StmtCall(o, s, n)
      PROVE  StreamShape'
  <2> DEFINE adopted == IF st[s] = "WAITING" /\ status = "STMT" THEN "FETCHING" ELSE st[s]
  <2>1. pc = "idle" /\ ~taint /\ status' = status /\ att' = att
    BY <1>2 DEF StmtCall, conn
  <2>2. Free \/ \E t \in Stmts : HeldBy(t)
    BY <2>1 DEF StreamShape
  <2>3. CASE Ended /\ UNCHANGED st
    BY <2>1, <2>2, <2>3, StreamsSame, EndedShape DEF Free, HeldBy
  <2>4. ASSUME s \in att, st' = [st EXCEPT ![s] = adopted],
               GotoWith(NewCall(o, s, n), IF adopted = "FETCHING" THEN "flush" ELSE "execsend")
        PROVE  StreamShape'
    <3>1. call'.s = s /\ pc' = (IF adopted = "FETCHING" THEN "flush" ELSE "execsend")
      BY <2>4, GotoWithMoves, NewCallParts
    <3>2. CASE adopted = "FETCHING"
      <4>1. s \in Streams
        BY <2>4, <3>2 DEF Streams
      <4>2. HeldBy(s)
        BY <2>2, <4>1 DEF Free, HeldBy
      <4>3. Streams' = {s}
        BY <2>1, <2>4, <3>2, <4>2, StreamsSet DEF HeldBy
      <4> QED
        BY <2>1, <3>1, <3>2, <4>2, <4>3 DEF HeldBy, StreamShape
    <3>3. CASE adopted # "FETCHING"
      <4>1. s \notin Streams
        BY <2>2, <3>3 DEF Free, HeldBy, Streams
      <4>2. st' = st
        BY <2>4, <3>3, <4>1 DEF TypeOK
      <4>3. Streams' = Streams
        BY <2>1, <4>2, StreamsSame
      <4> QED
        BY <2>1, <2>2, <3>1, <3>3, <4>1, <4>3 DEF Free, HeldBy, StreamShape
    <3> QED
      BY <3>2, <3>3
  <2> QED
    BY <1>2, <2>3, <2>4, ReturnEnds DEF StmtCall
<1>3. CASE PingCall
  <2>1. Ended \/ (~Busy /\ AtAs("ack", NewCall("ping", NoStmt, 0)))
    BY <1>3, ConnCallType, ReturnEnds, SendCmdMoves DEF PingCall, ConnOps
  <2>2. pc = "idle" /\ ~taint /\ UNCHANGED <<status, st, att>>
    BY <1>3 DEF PingCall, stmts
  <2>3. Free \/ \E s \in Stmts : HeldBy(s)
    BY <2>2 DEF StreamShape
  <2>4. Streams' = Streams
    BY <2>2, StreamsSame
  <2>5. CASE Ended
    BY <2>2, <2>3, <2>4, <2>5, EndedShape DEF Free, HeldBy
  <2>6. CASE ~Busy /\ AtAs("ack", NewCall("ping", NoStmt, 0))
    BY <2>2, <2>3, <2>4, <2>6 DEF Free, HeldBy, AtAs, Busy, StreamShape
  <2> QED
    BY <2>1, <2>5, <2>6
<1>4. CASE ResetCall
  <2>1. pc = "idle" /\ ~taint /\ UNCHANGED <<status, st, att>>
    <3>1. UNCHANGED <<conn, stmts>> /\ pc = "idle"
      BY <1>4 DEF ResetCall
    <3>2. ~taint
      BY <1>4, Zenon DEF ResetCall
    <3> QED
      BY <3>1, <3>2 DEF conn, stmts
  <2>2. Ended \/ (~Busy /\ pc' = "resetsend")
    BY <1>4, ReturnEnds, GotoWithMoves DEF ResetCall, Busy
  <2>3. Free \/ \E s \in Stmts : HeldBy(s)
    BY <2>1 DEF StreamShape
  <2>4. Streams' = Streams
    BY <2>1, StreamsSame
  <2>5. CASE Ended
    BY <2>1, <2>3, <2>4, <2>5, EndedShape DEF Free, HeldBy
  <2>6. CASE ~Busy /\ pc' = "resetsend"
    BY <2>1, <2>3, <2>4, <2>6 DEF Free, HeldBy, Busy, StreamShape
  <2> QED
    BY <2>2, <2>5, <2>6
<1>5. CASE ReconnectCall \/ AbortCall \/ ConnectCall
  <2>1. Ended /\ pc = "idle" /\ ~taint /\ UNCHANGED <<status, st, att>>
    BY <1>5, ReturnEnds DEF ReconnectCall, AbortCall, ConnectCall, conn, stmts
  <2>2. Streams' = Streams
    BY <2>1, StreamsSame
  <2>3. Free \/ \E s \in Stmts : HeldBy(s)
    BY <2>1 DEF StreamShape
  <2> QED
    BY <2>1, <2>2, <2>3, EndedShape DEF Free, HeldBy
<1>6. CASE CloseCall
  <2>1. Ended /\ status' = "READY" /\ att' = {}
    BY <1>6, ReturnEnds DEF CloseCall
  <2>2. Free'
    BY <2>1 DEF Free, Streams
  <2> QED
    BY <2>1, <2>2, EndedShape
<1>7. CASE Header
  <2>1. pc = "header" /\ ~taint /\ UNCHANGED <<st, att>>
    BY <1>7 DEF Header, stmts
  <2>2. Free /\ Streams' = {}
    BY <2>1, StreamsSame DEF StreamShape, Free
  <2>3. CASE Ended /\ UNCHANGED status
    BY <2>2, <2>3, EndedShape DEF Free
  <2>4. CASE AtAs("store", call) /\ status' = "GET"
    BY <2>2, <2>4 DEF AtAs, StreamShape
  <2> QED
    BY <1>7, <2>3, <2>4, ReturnEnds, GotoMoves, GarbledShape DEF Header, Misreads
<1>8. CASE Store
  <2>1. pc = "store" /\ ~taint /\ UNCHANGED <<st, att>> /\ status' = "READY"
    BY <1>8 DEF Store, stmts
  <2>2. Free'
    BY <2>1, StreamsSame DEF StreamShape, Free
  <2>3. Ended \/ pc' = "store"
    BY <1>8, ReturnEnds, GotoWithMoves DEF Store
  <2> QED
    BY <2>2, <2>3, EndedShape DEF Free, StreamShape
<1>9. CASE Flush
  <2>1. pc \in {"flush", "flushnext"} /\ ~taint /\ att' = att /\ call.s \in att
    BY <1>9 DEF Flush, CallInv, StmtPCs
  <2>2. status = "STMT" /\ Streams \subseteq {call.s}
    BY <2>1 DEF StreamShape
  <2>3. ASSUME NEW m, FlushEnds(m)
        PROVE  StreamShape'
    <3>1. CASE st' = [st EXCEPT ![call.s] = "DONE"] /\ AtAs("flushnext", call) /\ status' = status
      BY <2>1, <2>2, <3>1, StreamsSet DEF AtAs, StreamShape
    <3>2. CASE st' = [st EXCEPT ![call.s] = "PREPARED"] /\ AtAs("execsend", call) /\ status' = "READY"
      BY <2>1, <2>2, <3>2, StreamsSet DEF AtAs, Free, StreamShape
    <3> QED
      BY <2>3, <3>1, <3>2, GotoMoves DEF FlushEnds, FlushStops
  <2>4. CASE AtAs("flush", call) /\ UNCHANGED <<status, st>>
    BY <2>1, <2>2, <2>4, StreamsSame DEF AtAs, StreamShape
  <2> QED
    BY <1>9, <2>3, <2>4, GotoMoves, GarbledShape DEF Flush
<1>10. CASE ExecSend
  <2>1. /\ pc = "execsend" /\ ~taint /\ call.s \in att /\ UNCHANGED <<status, att>>
        /\ st' = [st EXCEPT ![call.s] = IF @ = "BUFFERED" THEN "FETCHING" ELSE @]
        /\ taint' = (taint \/ (st[call.s] = "BUFFERED" /\ pc' = "idle"))
    BY <1>10 DEF ExecSend, CallInv, StmtPCs
  <2>2. (pc' = "idle" \/ pc' = "crashed") \/ (~Busy /\ AtAs("exechdr", call))
    BY <1>10, <1>0, SendCmdMoves DEF ExecSend, Ended
  <2>3. Free \/ \E s \in Stmts \ {call.s} : HeldBy(s)
    BY <2>1 DEF StreamShape
  <2>4. CASE pc' = "idle"
    <3>1. st' = st
      BY <2>1, <2>4 DEF TypeOK
    <3> QED
      BY <2>1, <2>3, <2>4, <3>1, StreamsSame, EndedShape DEF Ended, Free, HeldBy
  <2>5. CASE pc' = "crashed"
    BY <2>5 DEF StreamShape
  <2>6. CASE ~Busy /\ AtAs("exechdr", call)
    <3>1. status = "READY" /\ Streams = {}
      BY <2>3, <2>6 DEF Busy, Free, HeldBy
    <3>2. Streams' \subseteq {call.s}
      BY <2>1, <3>1, StreamsSet
    <3> QED
      BY <2>1, <2>6, <3>1, <3>2 DEF AtAs, StreamShape
  <2> QED
    BY <2>2, <2>4, <2>5, <2>6
<1>11. CASE ExecHeader
  <2>1. pc = "exechdr" /\ ~taint /\ att' = att /\ call.s \in att
    BY <1>11 DEF ExecHeader, CallInv, StmtPCs
  <2>2. status = "READY" /\ Streams \subseteq {call.s}
    BY <2>1 DEF StreamShape
  <2>3. CASE /\ \E x \in {"PREPARED", "EXECUTED"} : st' = [st EXCEPT ![call.s] = x]
             /\ UNCHANGED status
             /\ Ended \/ AtAs("first", call)
    <3>1. Free'
      BY <2>1, <2>2, <2>3, StreamsSet DEF Free
    <3> QED
      BY <2>3, <3>1, EndedShape DEF AtAs, StreamShape
  <2>4. CASE /\ st' = [st EXCEPT ![call.s] = "WAITING"] /\ status' = "STMT"
             /\ Ended \/ AtAs("first", call) \/ AtAs("stmtstore", call)
    <3>1. Streams' = {call.s} /\ status' = "STMT"
      BY <2>1, <2>2, <2>4, StreamsSet
    <3>2. CASE Ended
      BY <1>0, <2>1, <3>1, <3>2, EndedShape DEF HeldBy
    <3>3. CASE AtAs("first", call) \/ AtAs("stmtstore", call)
      BY <3>1, <3>3 DEF AtAs, HeldBy, StreamShape
    <3> QED
      BY <2>4, <3>2, <3>3
  <2> QED
    BY <1>11, <2>3, <2>4, ReturnEnds, GotoMoves, GarbledShape DEF ExecHeader, Misreads
<1>12. CASE FirstFetch \/ NextFetch
  <2>1. /\ pc \in {"first", "next"} /\ ~taint /\ att' = att /\ call.s \in att
        /\ \E rc \in {"ROW", "NODATA", "ERROR"} : Fetch(rc)
    <3>1. /\ pc \in {"first", "next"} /\ att' = att /\ call.s \in att
          /\ \E rc \in {"ROW", "NODATA", "ERROR"} : Fetch(rc)
      BY <1>12 DEF FirstFetch, NextFetch, CallInv, StmtPCs
    <3>2. ~taint
      BY <3>1 DEF Fetch
    <3> QED
      BY <3>1, <3>2
  <2>2. Free' \/ (status' = "STMT" /\ Streams' = {call.s})
    BY <2>1, FetchStreams DEF StreamShape
  <2>3. Ended \/ AtAs("next", call)
    <3>1. \A rc : GotoWith(Appended(rc), "next") => AtAs("next", call)
      BY AppendedParts, GotoWithMoves DEF AtAs
    <3>2. CASE FirstFetch
      BY <3>1, <3>2, ReturnEnds DEF FirstFetch
    <3>3. CASE NextFetch
      BY <3>1, <3>3, ReturnEnds DEF NextFetch
    <3> QED
      BY <1>12, <3>2, <3>3
  <2>4. CASE Ended
    BY <1>0, <2>1, <2>2, <2>4, EndedShape DEF HeldBy
  <2>5. CASE AtAs("next", call)
    BY <2>2, <2>5 DEF AtAs, StreamShape, Free, HeldBy
  <2> QED
    BY <2>3, <2>4, <2>5
<1>13. CASE StoreStmt
  <2>1. pc = "stmtstore" /\ ~taint /\ att' = att /\ call.s \in att
    BY <1>13 DEF StoreStmt, CallInv, StmtPCs
  <2>2. HeldBy(call.s)
    BY <2>1 DEF StreamShape
  <2>3. CASE /\ Ended /\ status' = "READY"
             /\ \E x \in {"DONE", "BUFFERED"} : st' = [st EXCEPT ![call.s] = x]
    <3>1. Free'
      BY <2>1, <2>2, <2>3, StreamsSet DEF Free, HeldBy
    <3> QED
      BY <2>3, <3>1, EndedShape
  <2>4. CASE AtAs("stmtstore", call) /\ UNCHANGED <<status, st>>
    BY <2>1, <2>2, <2>4, StreamsSame DEF AtAs, HeldBy, StreamShape
  <2>5. GotoWith([call EXCEPT !.got = @ + 1], "stmtstore") => AtAs("stmtstore", call)
    <3>1. [call EXCEPT !.got = @ + 1].op = call.op /\ [call EXCEPT !.got = @ + 1].s = call.s
      BY <1>0 DEF Call
    <3> QED
      BY <3>1 DEF GotoWith, AtAs
  <2> QED
    BY <1>13, <2>3, <2>4, <2>5, ReturnEnds DEF StoreStmt
<1>14. CASE Drain
  BY <1>14 DEF Drain, StreamShape
<1>15. CASE ResetSend
  <2>1. pc = "resetsend" /\ ~taint /\ UNCHANGED <<st, att>> /\ status' = "READY"
    BY <1>15 DEF ResetSend, stmts
  <2>2. Free'
    BY <2>1, StreamsSame DEF StreamShape, Free
  <2>3. Ended \/ AtAs("ack", call)
    BY <1>15, <1>0, SendCmdMoves DEF ResetSend
  <2> QED
    BY <2>2, <2>3, EndedShape DEF AtAs, StreamShape
<1>16. CASE Ack
  <2>1. pc = "ack" /\ ~taint /\ UNCHANGED <<st, status>> /\ att' \in {att, {}}
    BY <1>16 DEF Ack
  <2>2. Free'
    BY <2>1 DEF StreamShape, Free, Streams
  <2>3. Ended
    BY <1>16, ReturnEnds DEF Ack
  <2> QED
    BY <2>2, <2>3, EndedShape
<1>17. CASE Cut \/ UNCHANGED vars
  <2>1. UNCHANGED <<status, st, att, pc, call, taint>>
    BY <1>17 DEF Cut, stmts, vars
  <2> QED
    BY <2>1, StreamsSame DEF StreamShape, Free, HeldBy
<1> QED
  BY <1>1, <1>2, <1>3, <1>4, <1>5, <1>6, <1>7, <1>8, <1>9, <1>10, <1>11, <1>12, <1>13,
     <1>14, <1>15, <1>16, <1>17
     DEF Next, Begin, Continue, Halted

LEMMA StreamInductive == Spec => [](TypeOK /\ StreamInv)
<1>1. Init => TypeOK /\ StreamInv
  <2> SUFFICES ASSUME Init PROVE TypeOK /\ StreamInv
    OBVIOUS
  <2>1. TypeOK /\ CallInv
    BY InitTypes
  <2>2. status = "READY" /\ pc = "idle" /\ Streams = {}
    BY DEF Init, Streams
  <2> QED
    BY <2>1, <2>2 DEF StreamInv, StreamShape, Free
<1>2. TypeOK /\ StreamInv /\ [Next]_vars => TypeOK' /\ StreamInv'
  BY SessionTypes, CallStep, StreamStep DEF StreamInv
<1> QED
  BY <1>1, <1>2, PTL DEF Spec

\* A statement's rows are read by one owner at a time: between calls the status
\* of the connection and the states of its statements agree, whatever calls
\* were made, refused, failed or cut off before (mysql_stmt_execute,
\* mysql_stmt_fetch, mysql_stmt_store_result, mysql_close,
\* mysql_reset_connection).
THEOREM OneOwner == Spec => []StreamOwner
<1>1. StreamInv => StreamOwner
  BY DEF StreamInv, StreamShape, StreamOwner
<1> QED
  BY <1>1, StreamInductive, PTL

\* A statement's own unread rows never make mysql_stmt_execute refuse to run it
\* again: execute has always flushed them by the time the request is sent.
THEOREM RefusedForOthers == Spec => []RefusedOnlyForOthers
<1>1. StreamInv => RefusedOnlyForOthers
  BY DEF StreamInv, StreamShape, RefusedOnlyForOthers, Busy, Free
<1> QED
  BY <1>1, StreamInductive, PTL

-----------------------------------------------------------------------------
(* Losing the connection.                                                  *)

\* What is read when the connection is, or has just been, lost.
LEMMA ReadFacts ==
  /\ \A ks : Read(ks) => link # "down" /\ link' = link
  /\ ReadFails => link' = "down" /\ wire' = <<>>
BY DEF Read, Readable, ReadFails

LEMMA SendCmdLink ==
  ASSUME NEW c, NEW busy, NEW replies, NEW next, NEW failure,
         SendCmd(c, busy, replies, next, failure)
  PROVE  \/ UNCHANGED <<link, wire>> /\ Ended
         \/ link = "cut" /\ ~busy /\ link' = "down" /\ wire' = <<>> /\ Ended
         \/ link \in {"up", "cut"} /\ ~busy /\ link' = link
BY ReturnEnds DEF SendCmd

LEMMA LostStep ==
  ASSUME TypeOK, CallInv, LostInv, [Next]_vars
  PROVE  LostInv'
<1>0. call \in Call
  BY DEF TypeOK
<1>a. ASSUME Ended, link' \in {"up", "cut"}
      PROVE  LostInv'
  BY <1>a DEF Ended, LostInv
<1>b. ASSUME Ended, UNCHANGED <<link, wire, status, att>>, pc \notin {"flush", "flushnext"}
      PROVE  LostInv'
  BY <1>b DEF Ended, LostInv
<1>c. ASSUME Ended, link' = "down", wire' = <<>>, status' = "READY"
      PROVE  LostInv'
  BY <1>c DEF Ended, LostInv
<1>1. ASSUME NEW o \in TextOps, NEW n \in 0..MaxN, TextCall(o, n)
      PROVE  LostInv'
  <2>1. UNCHANGED <<status, att>> /\ pc = "idle"
    BY <1>1 DEF TextCall, stmts
  <2>2. NewCall(o, NoStmt, n) \in Call
    BY NewCallType
  <2>3. \/ Ended /\ UNCHANGED <<link, wire>>
        \/ SendCmd(NewCall(o, NoStmt, n), Busy,
                   IF o = "commit" THEN AckReplies ELSE TextReplies, "header", "throw")
    BY <1>1, ReturnEnds DEF TextCall
  <2>4. CASE Ended /\ UNCHANGED <<link, wire>>
    BY <1>b, <2>1, <2>4
  <2>5. CASE link = "cut" /\ ~Busy /\ link' = "down" /\ wire' = <<>> /\ Ended
    BY <1>c, <2>1, <2>5 DEF Busy
  <2>6. CASE link \in {"up", "cut"} /\ ~Busy /\ link' = link /\ pc' = "header"
    BY <2>1, <2>6 DEF Busy, LostInv
  <2>7. CASE link \in {"up", "cut"} /\ link' = link /\ Ended
    BY <1>a, <2>7
  <2> QED
    BY <2>2, <2>3, <2>4, <2>5, <2>6, <2>7, SendCmdLink, SendCmdMoves DEF AtAs
<1>2. ASSUME NEW o \in StmtOps, NEW s \in Stmts, NEW n \in 0..MaxN, StmtCall(o, s, n)
      PROVE  LostInv'
  <2>1. pc = "idle" /\ UNCHANGED <<link, wire, status, att>>
    BY <1>2 DEF StmtCall, conn
  <2>2. Ended \/ (att # {} /\ pc' \in {"flush", "execsend"})
    BY <1>2, ReturnEnds, GotoWithMoves DEF StmtCall
  <2> QED
    BY <1>b, <2>1, <2>2 DEF LostInv
<1>3. CASE PingCall
  <2>1. UNCHANGED <<status, att>> /\ pc = "idle"
    BY <1>3 DEF PingCall, stmts
  <2>2. NewCall("ping", NoStmt, 0) \in Call
    BY ConnCallType DEF ConnOps
  <2>3. \/ Ended /\ UNCHANGED <<link, wire>>
        \/ SendCmd(NewCall("ping", NoStmt, 0), Busy, AckReplies, "ack", "false")
    BY <1>3, ReturnEnds DEF PingCall
  <2>4. CASE Ended /\ UNCHANGED <<link, wire>>
    BY <1>b, <2>1, <2>4
  <2>5. CASE link = "cut" /\ ~Busy /\ link' = "down" /\ wire' = <<>> /\ Ended
    BY <1>c, <2>1, <2>5 DEF Busy
  <2>6. CASE link \in {"up", "cut"} /\ ~Busy /\ link' = link /\ pc' = "ack"
    BY <2>1, <2>6 DEF Busy, LostInv
  <2>7. CASE link \in {"up", "cut"} /\ link' = link /\ Ended
    BY <1>a, <2>7
  <2> QED
    BY <2>2, <2>3, <2>4, <2>5, <2>6, <2>7, SendCmdLink, SendCmdMoves DEF AtAs
<1>4. CASE ResetCall
  <2>1. pc = "idle" /\ UNCHANGED <<conn, stmts>>
    BY <1>4 DEF ResetCall
  <2>2. UNCHANGED <<link, wire, status, att>>
    BY <2>1 DEF conn, stmts
  <2>3. Ended \/ (link # "closed" /\ pc' \in {"drain", "resetsend"})
    BY <1>4, ReturnEnds, GotoWithMoves DEF ResetCall
  <2> QED
    BY <1>b, <2>1, <2>2, <2>3 DEF LostInv
<1>5. CASE ReconnectCall
  <2>1. Ended /\ pc = "idle" /\ UNCHANGED <<link, wire, status, att>>
    BY <1>5, ReturnEnds DEF ReconnectCall, conn, stmts
  <2> QED
    BY <1>b, <2>1
<1>6. CASE AbortCall
  <2>1. Ended /\ pc = "idle" /\ UNCHANGED <<status, att>>
    BY <1>6, ReturnEnds DEF AbortCall, stmts
  <2>2. UNCHANGED <<link, wire>> \/ link' = "cut"
    BY <1>6 DEF AbortCall, Breaks
  <2> QED
    BY <1>a, <1>b, <2>1, <2>2
<1>7. CASE CloseCall
  <2>1. Ended /\ link' = "closed" /\ wire' = <<>> /\ att' = {}
    BY <1>7, ReturnEnds DEF CloseCall
  <2> QED
    BY <2>1 DEF Ended, LostInv
<1>8. CASE ConnectCall
  <2>1. Ended /\ pc = "idle" /\ UNCHANGED <<wire, status, att>>
    BY <1>8, ReturnEnds DEF ConnectCall, stmts
  <2>2. link' = link \/ link' = "up"
    BY <1>8 DEF ConnectCall
  <2> QED
    BY <1>a, <1>b, <2>1, <2>2
<1>9. CASE Header
  <2>1. pc = "header" /\ att' = att /\ status = "READY" /\ link # "closed"
    BY <1>9 DEF Header, stmts, LostInv
  <2>2. \/ link' = "down" /\ wire' = <<>> /\ status' = status /\ Ended
        \/ /\ link # "down" /\ link' = link
           /\ Ended \/ AtAs("store", call) \/ AtAs("garbled", call)
    BY <1>9, ReadFacts, ReturnEnds, GotoMoves DEF Header, ReadHeader, Misreads
  <2> QED
    BY <1>c, <2>1, <2>2 DEF LostInv, AtAs, Ended
<1>10. CASE Store
  <2>1. pc = "store" /\ status' = "READY" /\ link # "closed"
    BY <1>10 DEF Store, LostInv
  <2>2. \/ link' = "down" /\ wire' = <<>> /\ Ended
        \/ link # "down" /\ link' = link /\ (Ended \/ pc' = "store")
    BY <1>10, ReadFacts, ReturnEnds, GotoWithMoves DEF Store
  <2> QED
    BY <1>c, <2>1, <2>2 DEF LostInv, Ended
<1>11. CASE Flush
  <2>1. pc \in {"flush", "flushnext"} /\ link # "closed"
    BY <1>11 DEF Flush, LostInv
  <2>2. \A m : FlushEnds(m) => pc' = "flushnext" \/ (pc' = "execsend" /\ status' = "READY")
    BY GotoMoves DEF FlushEnds, FlushStops, AtAs
  <2>3. \/ /\ link' = "down" /\ wire' = <<>>
           /\ pc' = "flushnext" \/ (pc' = "execsend" /\ status' = "READY")
        \/ /\ link # "down" /\ link' = link
           /\ pc' \in {"flush", "flushnext", "execsend", "garbled"}
    BY <1>11, <2>2, ReadFacts, GotoMoves DEF Flush, AtAs
  <2> QED
    BY <2>1, <2>3 DEF LostInv
<1>12. CASE ExecSend
  <2>1. pc = "execsend" /\ UNCHANGED <<status, att>>
    BY <1>12 DEF ExecSend
  <2>2. SendCmd(call, Busy, StmtReplies(Kind[call.s]), "exechdr", "throw")
    BY <1>12 DEF ExecSend
  <2>3. CASE Ended /\ UNCHANGED <<link, wire>>
    BY <1>b, <2>1, <2>3
  <2>4. CASE link = "cut" /\ ~Busy /\ link' = "down" /\ wire' = <<>> /\ Ended
    BY <1>c, <2>1, <2>4 DEF Busy
  <2>5. CASE link \in {"up", "cut"} /\ ~Busy /\ link' = link /\ pc' = "exechdr"
    BY <2>1, <2>5 DEF Busy, LostInv
  <2>6. CASE link \in {"up", "cut"} /\ link' = link /\ Ended
    BY <1>a, <2>6
  <2> QED
    BY <1>0, <2>2, <2>3, <2>4, <2>5, <2>6, SendCmdLink, SendCmdMoves DEF AtAs
<1>13. CASE ExecHeader
  <2>1. pc = "exechdr" /\ status = "READY" /\ link # "closed"
    BY <1>13 DEF ExecHeader, LostInv
  <2>2. \/ link' = "down" /\ wire' = <<>> /\ status' = status /\ Ended
        \/ /\ link # "down" /\ link' = link
           /\ \/ Ended \/ AtAs("first", call) \/ AtAs("stmtstore", call)
              \/ AtAs("garbled", call)
    BY <1>13, ReadFacts, ReturnEnds, GotoMoves DEF ExecHeader, ReadHeader, Misreads
  <2> QED
    BY <1>c, <2>1, <2>2 DEF LostInv, AtAs, Ended
<1>14. CASE FirstFetch \/ NextFetch
  <2>1. pc \in {"first", "next"} /\ att' = att
    BY <1>14 DEF FirstFetch, NextFetch
  <2>2. \A rc : Fetch(rc) => \/ UNCHANGED <<link, wire, status>>
                             \/ link' = "down" /\ wire' = <<>> /\ status' = "READY"
                             \/ link # "down" /\ link' = link
    BY ReadFacts DEF Fetch
  <2>3. \A rc : GotoWith(Appended(rc), "next") => pc' = "next"
    BY GotoWithMoves
  <2>4. \/ UNCHANGED <<link, wire, status>>
        \/ link' = "down" /\ wire' = <<>> /\ status' = "READY"
        \/ link # "down" /\ link' = link
    BY <1>14, <2>2 DEF FirstFetch, NextFetch
  <2>5. Ended \/ pc' = "next"
    <3>1. CASE FirstFetch
      BY <2>3, <3>1, ReturnEnds DEF FirstFetch
    <3>2. CASE NextFetch
      BY <2>3, <3>2, ReturnEnds DEF NextFetch
    <3> QED
      BY <1>14, <3>1, <3>2
  <2> QED
    BY <2>1, <2>4, <2>5 DEF LostInv, Ended
<1>15. CASE StoreStmt
  <2>1. pc = "stmtstore" /\ link # "closed"
    BY <1>15 DEF StoreStmt, LostInv
  <2>2. \/ link' = "down" /\ wire' = <<>> /\ status' = "READY" /\ Ended
        \/ link # "down" /\ link' = link /\ (Ended \/ pc' = "stmtstore")
    BY <1>15, ReadFacts, ReturnEnds, GotoWithMoves DEF StoreStmt
  <2> QED
    BY <1>c, <2>1, <2>2 DEF LostInv, Ended
<1>16. CASE Drain
  <2>1. pc = "drain" /\ status' = status /\ link # "closed"
    BY <1>16 DEF Drain, LostInv
  <2>2. AtAs("drain", call) \/ AtAs("resetsend", call) \/ AtAs("garbled", call)
    BY <1>16, GotoMoves DEF Drain
  <2>3. \/ UNCHANGED <<link, wire>>
        \/ link' = "down" /\ wire' = <<>> /\ status = "READY"
        \/ link # "down" /\ link' = link
    BY <1>16, ReadFacts DEF Drain
  <2> QED
    BY <2>1, <2>2, <2>3 DEF LostInv, AtAs
<1>17. CASE ResetSend
  <2>1. pc = "resetsend" /\ status' = "READY" /\ link # "closed"
    BY <1>17 DEF ResetSend, LostInv
  <2>2. SendCmd(call, more, AckReplies, "ack", "false")
    BY <1>17 DEF ResetSend
  <2>3. \/ UNCHANGED <<link, wire>>
        \/ link' = "down" /\ wire' = <<>>
        \/ link # "down" /\ link' = link
    BY <2>2, SendCmdLink
  <2>4. Ended \/ pc' = "ack"
    BY <1>0, <2>2, SendCmdMoves DEF AtAs
  <2> QED
    BY <2>1, <2>3, <2>4 DEF LostInv, Ended
<1>18. CASE Ack
  <2>1. pc = "ack" /\ status = "READY" /\ status' = "READY" /\ link # "closed"
    BY <1>18 DEF Ack, LostInv
  <2>2. Ended
    BY <1>18, ReturnEnds DEF Ack
  <2>3. (link' = "down" /\ wire' = <<>>) \/ (link # "down" /\ link' = link)
    BY <1>18, ReadFacts DEF Ack
  <2> QED
    BY <2>1, <2>2, <2>3 DEF LostInv, Ended
<1>19. CASE Cut
  BY <1>19 DEF Cut, Breaks, stmts, LostInv
<1>20. CASE UNCHANGED vars
  BY <1>20 DEF vars, LostInv
<1> QED
  BY <1>1, <1>2, <1>3, <1>4, <1>5, <1>6, <1>7, <1>8, <1>9, <1>10, <1>11, <1>12, <1>13,
     <1>14, <1>15, <1>16, <1>17, <1>18, <1>19, <1>20
     DEF Next, Begin, Continue, Halted

LEMMA LostInductive == Spec => [](TypeOK /\ CallInv /\ LostInv)
<1>1. Init => TypeOK /\ CallInv /\ LostInv
  BY InitTypes DEF Init, LostInv
<1>2. TypeOK /\ CallInv /\ LostInv /\ [Next]_vars => TypeOK' /\ CallInv' /\ LostInv'
  BY SessionTypes, CallStep, LostStep
<1> QED
  BY <1>1, <1>2, PTL DEF Spec

\* However the connection was lost, in the middle of whatever call, its status
\* is READY once the call has returned, so that connect() on the same handle
\* gives a usable connection (end_server, mysql_stmt_fetch,
\* mthd_stmt_flush_unbuffered, mysql_store_result).
THEOREM LostRecovers == Spec => []LostIsReady
<1>1. LostInv => LostIsReady
  BY DEF LostInv, LostIsReady
<1> QED
  BY <1>1, LostInductive, PTL

-----------------------------------------------------------------------------
(* Whose call reads a statement's rows.                                    *)

LEMMA ReaderStep ==
  ASSUME TypeOK, StreamInv, LostInv, Next, ~taint, status = "STMT",
         wire' # wire, link' = link
  PROVE  /\ call.s \in Stmts
         /\ st[call.s] \in {"WAITING", "FETCHING"} \/ pc \in {"flush", "flushnext"}
<1>0. StreamShape /\ CallInv /\ Busy /\ att \subseteq Stmts
  BY DEF StreamInv, Busy, TypeOK
<1>1. ASSUME NEW c, NEW replies, NEW next, NEW failure,
             SendCmd(c, Busy, replies, next, failure)
      PROVE  FALSE
  BY <1>0, <1>1 DEF SendCmd
<1>2. ASSUME NEW o \in TextOps, NEW n \in 0..MaxN, TextCall(o, n)
      PROVE  FALSE
  BY <1>1, <1>2 DEF TextCall
<1>3. ASSUME NEW o \in StmtOps, NEW s \in Stmts, NEW n \in 0..MaxN, StmtCall(o, s, n)
      PROVE  FALSE
  BY <1>3 DEF StmtCall, conn
<1>4. ~PingCall
  BY <1>1 DEF PingCall
<1>5. ~ResetCall /\ ~ReconnectCall /\ ~ConnectCall
  BY DEF ResetCall, ReconnectCall, ConnectCall, conn
<1>6. ~AbortCall
  BY DEF AbortCall, Breaks
<1>7. ~CloseCall
  BY DEF CloseCall, LostInv
<1>8. ~Header /\ ~Store /\ ~ExecHeader /\ ~Drain /\ ~Ack
  BY <1>0 DEF StreamShape, Free, Header, Store, ExecHeader, Drain, Ack
<1>9. ~ResetSend
  BY <1>0 DEF StreamShape, Free, ResetSend
<1>10. ~ExecSend
  BY <1>1 DEF ExecSend
<1>11. ~Cut
  BY DEF Cut, Breaks
<1>12. CASE Flush
  BY <1>0, <1>12 DEF Flush, CallInv, StmtPCs
<1>13. CASE FirstFetch \/ NextFetch
  <2>1. pc \in {"first", "next"} /\ \E rc : Fetch(rc)
    BY <1>13 DEF FirstFetch, NextFetch
  <2>2. st[call.s] \in {"WAITING", "FETCHING"}
    BY <2>1 DEF Fetch
  <2> QED
    BY <1>0, <2>1, <2>2 DEF CallInv, StmtPCs
<1>14. CASE StoreStmt
  <2>1. pc = "stmtstore"
    BY <1>14 DEF StoreStmt
  <2>2. call.s \in Streams
    BY <1>0, <2>1 DEF StreamShape, HeldBy
  <2> QED
    BY <1>0, <2>2 DEF Streams
<1>15. ~Halted
  BY DEF Halted, vars
<1> QED
  BY <1>2, <1>3, <1>4, <1>5, <1>6, <1>7, <1>8, <1>9, <1>10, <1>11, <1>12, <1>13, <1>14,
     <1>15 DEF Next, Begin, Continue

\* While a statement's rows are on the wire, packets are taken from it only by
\* calls of that statement, to fetch, to store or to discard them; no text
\* query, ping or other statement ever reads them.
THEOREM OwnerReads == Spec => OnlyOwnerReads
<1>1. TypeOK /\ StreamInv /\ LostInv /\ [Next]_vars
      => [~taint /\ ~taint' /\ status = "STMT" /\ wire' # wire /\ link' = link
           => call.s \in Stmts /\ (st[call.s] \in {"WAITING", "FETCHING"} \/ pc \in {"flush", "flushnext"})]_vars
  BY ReaderStep
<1> QED
  BY <1>1, StreamInductive, LostInductive, PTL DEF Spec, OnlyOwnerReads


-----------------------------------------------------------------------------
(* The end of a call.                                                      *)

\* What a step that brings the call nearer its end does.
Nearer ==
  \/ Phase(pc') < Phase(pc)
  \/ Phase(pc') = Phase(pc) /\ Len(wire') < Len(wire)

LEMMA Phases ==
  /\ \A p \in {"idle", "crashed", "garbled"} : Phase(p) = 0
  /\ \A p \in {"store", "next", "stmtstore", "ack"} : Phase(p) = 1
  /\ \A p \in {"header", "first", "resetsend"} : Phase(p) = 2
  /\ \A p \in {"exechdr", "drain"} : Phase(p) = 3
  /\ Phase("execsend") = 4
  /\ \A p \in {"flush", "flushnext"} : Phase(p) = 5
BY DEF Phase

LEMMA ReadShortens ==
  ASSUME TypeOK, NEW ks, Read(ks)
  PROVE  Len(wire') < Len(wire)
BY HeadTailProperties DEF TypeOK, Read, Readable

\* A call that is over, or past what is modelled, is in no phase.
LEMMA EndNearer ==
  ASSUME Ended \/ pc' = "garbled", Phase(pc) \in 1..5
  PROVE  Nearer
BY Phases DEF Ended, Nearer

\* A fetch that brings a row has taken it off the wire.
LEMMA FetchShortens ==
  ASSUME TypeOK, Fetch("ROW")
  PROVE  Len(wire') < Len(wire)
<1>1. Read({"ROW"})
  BY DEF Fetch
<1> QED BY <1>1, ReadShortens

LEMMA FlushNearer ==
  ASSUME TypeOK, Flush, ~Spins
  PROVE  Nearer
<1>1. pc \in {"flush", "flushnext"} /\ Phase(pc) = 5
  BY Phases DEF Flush
<1>2. \A m : FlushEnds(m) => IF m THEN pc' = "flushnext" ELSE pc' = "execsend"
  BY GotoMoves DEF FlushEnds, FlushStops, AtAs
<1>3. CASE \E ks : Read(ks)
  <2>1. Len(wire') < Len(wire)
    BY <1>3, ReadShortens
  <2>2. pc' \in {"flush", "flushnext", "execsend", "garbled"}
    BY <1>2, GotoMoves DEF Flush, AtAs
  <2> QED BY <1>1, <2>1, <2>2, Phases DEF Nearer
<1>4. CASE ReadFails /\ UNCHANGED <<more, out>> /\ FlushEnds(MoreResults)
  <2>1. ~more /\ ~out
    BY <1>1, <1>4 DEF Spins, ReadFails
  <2>2. ~MoreResults
    BY <1>4, <2>1 DEF MoreResults
  <2>3. pc' = "execsend"
    BY <1>2, <1>4, <2>2
  <2> QED BY <1>1, <2>3, Phases DEF Nearer
<1> QED BY <1>3, <1>4 DEF Flush

LEMMA DrainNearer ==
  ASSUME TypeOK, Drain, ~Spins
  PROVE  Nearer
<1>1. pc = "drain" /\ Phase(pc) = 3 /\ status = "READY" /\ more /\ Readable
  BY Phases DEF Drain, Spins
<1>2. PICK ks : Read(ks)
  BY <1>1 DEF Drain, ReadFails
<1>3. Len(wire') < Len(wire)
  BY <1>2, ReadShortens
<1>4. pc' \in {"drain", "resetsend", "garbled"}
  BY GotoMoves DEF Drain, AtAs
<1> QED BY <1>1, <1>3, <1>4, Phases DEF Nearer

LEMMA ContinueNearer ==
  ASSUME TypeOK, Continue, ~Spins
  PROVE  Nearer
<1>0. call \in Call
  BY DEF TypeOK
<1>1. CASE Header
  <2>1. pc = "header" /\ (Ended \/ pc' \in {"store", "garbled"})
    BY <1>1, ReturnEnds, GotoMoves DEF Header, Misreads, AtAs
  <2> QED BY <2>1, Phases, EndNearer DEF Nearer
<1>2. CASE Store
  <2>1. pc = "store" /\ (Ended \/ (pc' = "store" /\ Read({"ROW"})))
    BY <1>2, ReturnEnds, GotoWithMoves DEF Store
  <2> QED BY <2>1, Phases, EndNearer, ReadShortens DEF Nearer
<1>3. CASE ExecSend
  <2>1. pc = "execsend" /\ (Ended \/ pc' = "exechdr")
    BY <1>3, <1>0, SendCmdMoves DEF ExecSend, AtAs
  <2> QED BY <2>1, Phases, EndNearer DEF Nearer
<1>4. CASE ExecHeader
  <2>1. pc = "exechdr" /\ (Ended \/ pc' \in {"first", "stmtstore", "garbled"})
    BY <1>4, ReturnEnds, GotoMoves DEF ExecHeader, Misreads, AtAs
  <2> QED BY <2>1, Phases, EndNearer DEF Nearer
<1>5. CASE FirstFetch
  <2>1. pc = "first" /\ (Ended \/ pc' = "next")
    BY <1>5, ReturnEnds, GotoWithMoves DEF FirstFetch
  <2> QED BY <2>1, Phases, EndNearer DEF Nearer
<1>6. CASE NextFetch
  <2>1. pc = "next" /\ (Ended \/ (pc' = "next" /\ Fetch("ROW")))
    BY <1>6, ReturnEnds, GotoWithMoves DEF NextFetch
  <2> QED BY <2>1, Phases, EndNearer, FetchShortens DEF Nearer
<1>7. CASE StoreStmt
  <2>1. pc = "stmtstore" /\ (Ended \/ (pc' = "stmtstore" /\ Read({"ROW"})))
    BY <1>7, ReturnEnds, GotoWithMoves DEF StoreStmt
  <2> QED BY <2>1, Phases, EndNearer, ReadShortens DEF Nearer
<1>8. CASE ResetSend
  <2>1. pc = "resetsend" /\ (Ended \/ pc' = "ack")
    BY <1>8, <1>0, SendCmdMoves DEF ResetSend, AtAs
  <2> QED BY <2>1, Phases, EndNearer DEF Nearer
<1>9. CASE Ack
  <2>1. pc = "ack" /\ Ended
    BY <1>9, ReturnEnds DEF Ack
  <2> QED BY <2>1, Phases, EndNearer
<1> QED
  BY <1>1, <1>2, <1>3, <1>4, <1>5, <1>6, <1>7, <1>8, <1>9, FlushNearer, DrainNearer DEF Continue

\* A call takes as many steps as there are phases and packets to read, and goes on
\* for longer in two loops only: the flush of mysql_stmt_execute and the one of
\* reset() while more results are announced than can be read, for any replies of
\* any length and any loss of the connection, also after a reset() or an exec0
\* has left the connection out of step.
THEOREM OnlyTwoLoops == Spec => Advances
<1>1. TypeOK /\ [Next]_vars
      => [Continue /\ ~Spins => \/ Phase(pc') < Phase(pc)
                                \/ Phase(pc') = Phase(pc) /\ Len(wire') < Len(wire)]_vars
  BY ContinueNearer DEF Nearer
<1> QED
  BY <1>1, TypeCorrect, PTL DEF Spec, Advances

=============================================================================
