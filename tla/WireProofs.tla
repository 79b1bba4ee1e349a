------------------------------ MODULE WireProofs ------------------------------
(***************************************************************************)
(* Proofs about Session: what is on the wire at each step of a call, and   *)
(* from it that no call reads another's reply or waits in vain, what a     *)
(* call has read when it returns, and which calls crash.  For any set of   *)
(* statements and any bounds.                                              *)
(***************************************************************************)
EXTENDS SessionProofs

-----------------------------------------------------------------------------
(* The grammar of the wire.                                                *)

Fresh(p) == p.fresh
Last(p)  == ~p.more /\ ~p.out

\* An error ends everything; a set of OUT parameters is one of rows.
Formed(p) ==
  /\ Fresh(p)
  /\ p.kind = "ERR" => Last(p)
  /\ p.kind = "OK" => ~p.out

\* What follows a packet: rows follow a header and each other, up to the end of the
\* result set, and are OUT parameters like it; a further reply follows only what
\* announces it or OUT parameters, and after these it is not an error.
Follows(p, q) ==
  \/ p.kind \in {"HDR", "ROW"} /\ q.kind \in {"ROW", "EOF", "ERR"} /\ q.out = p.out
  \/ /\ p.kind \in {"OK", "EOF"} /\ ~Last(p) /\ q.kind \in {"OK", "HDR", "ERR"}
     /\ p.out => q.kind # "ERR"

Chain(w) ==
  \A i \in DOMAIN w :
    /\ Formed(w[i])
    /\ i + 1 \in DOMAIN w => Follows(w[i], w[i + 1])

\* No reply stops in the middle.
Final(w) ==
  w # <<>> => w[Len(w)].kind \in {"OK", "EOF", "ERR"} /\ Last(w[Len(w)])

\* Packet j of w is reached over rows alone.
Reached(w, j) == \A i \in 1..(j - 1) : w[i].kind = "ROW"

\* The end of the result set that is being read says m of further ones.
Tells(w, m) == \A j \in DOMAIN w : w[j].kind = "EOF" /\ Reached(w, j) => w[j].more = m

\* The rows of w complete n rows to those of the result set, of which the server has
\* sent as many as sent says.
Counts(w, n, sent) ==
  \A j \in DOMAIN w : Reached(w, j) =>
    /\ w[j].kind = "ROW" => n + j <= sent
    /\ w[j].kind = "EOF" => n + j - 1 = sent

Starts == {"OK", "HDR", "ERR"}
Parts == {"ROW", "EOF", "ERR"}

\* The next packet is one of these kinds; it is missing only if the link is.
Awaits(kinds) == IF wire = <<>> THEN link # "up" ELSE wire[1].kind \in kinds

\* The rows on the wire are OUT parameters just when the client takes them for such.
Held == wire # <<>> => wire[1].out = out

\* Between the replies, or the parts of a stream that is left for later.
Between == {"idle", "execsend", "resetsend", "first", "next"}
Quiet ==
  IF status = "STMT" THEN Awaits(Parts) /\ Held ELSE IF more THEN Awaits(Starts) ELSE wire = <<>>

Wellformed == Chain(wire) /\ (link = "up" => Final(wire))

\* What is on the wire at each step of a call, and between calls.
WireShape ==
  /\ Wellformed
  /\ pc # "garbled"
  /\ pc \in {"header", "exechdr", "flushnext"} => Awaits(Starts)
  /\ pc = "ack" => ~more /\ Awaits({"OK", "ERR"}) /\ (wire # <<>> => Last(wire[1]))
  /\ pc \in {"store", "flush", "stmtstore"} => Awaits(Parts)
  /\ pc \in {"flush", "stmtstore"} => Held
  /\ pc \in {"header", "store"} /\ wire # <<>> => ~wire[1].out
  /\ pc = "flushnext" /\ wire # <<>> /\ wire[1].kind = "ERR" => ~out
  /\ pc \in Between => Quiet
  /\ pc \in {"first", "next"} /\ status = "STMT" => Tells(wire, more)
  /\ pc = "exechdr" /\ wire # <<>> /\ wire[1].kind = "HDR" => Tells(Tail(wire), wire[1].more)

WireInv == ~taint => WireShape

-----------------------------------------------------------------------------
(* Sequences of packets.                                                   *)

LEMMA TailParts ==
  ASSUME NEW w \in Seq(Packet), w # <<>>
  PROVE  /\ Len(w) \in Nat \ {0} /\ DOMAIN w = 1..Len(w)
         /\ Head(w) = w[1] /\ w[1] \in Packet
         /\ Tail(w) \in Seq(Packet) /\ Len(Tail(w)) = Len(w) - 1
         /\ DOMAIN Tail(w) = 1..(Len(w) - 1)
         /\ \A i \in 1..(Len(w) - 1) : Tail(w)[i] = w[i + 1]
         /\ Tail(w) = <<>> <=> Len(w) = 1
<1>1. Len(w) \in Nat \ {0} /\ DOMAIN w = 1..Len(w)
  BY EmptySeq, LenProperties
<1>2. w[1] \in Packet
  BY <1>1, ElementOfSeq
<1>3. /\ Head(w) = w[1] /\ Tail(w) \in Seq(Packet) /\ Len(Tail(w)) = Len(w) - 1
      /\ \A i \in 1..Len(Tail(w)) : Tail(w)[i] = w[i + 1]
  BY HeadTailProperties
<1>4. DOMAIN Tail(w) = 1..(Len(w) - 1)
  BY <1>3, LenProperties
<1>5. Tail(w) = <<>> <=> Len(w) = 1
  BY <1>1, <1>3, EmptySeq
<1> QED BY <1>1, <1>2, <1>3, <1>4, <1>5

\* What may follow the packet that is read.
LEMMA ChainTail ==
  ASSUME NEW w \in Seq(Packet), w # <<>>, Chain(w)
  PROVE  /\ Chain(Tail(w)) /\ Fresh(w[1])
         /\ w[1].kind \in {"HDR", "ROW"} /\ Tail(w) # <<>> => Tail(w)[1].kind \in Parts
         /\ w[1].kind \in {"OK", "EOF"} /\ ~Last(w[1]) /\ Tail(w) # <<>> => Tail(w)[1].kind \in Starts
         /\ w[1].kind \in {"OK", "EOF"} /\ Last(w[1]) => Tail(w) = <<>>
         /\ w[1].kind = "ERR" => Last(w[1]) /\ Tail(w) = <<>>
         /\ w[1].kind \in {"HDR", "ROW"} /\ Tail(w) # <<>> => Tail(w)[1].out = w[1].out
         /\ w[1].kind \in {"OK", "EOF"} /\ Tail(w) # <<>> /\ Tail(w)[1].kind = "ERR" => ~w[1].out
         /\ w[1].kind = "OK" => ~w[1].out
<1>1. /\ Len(w) \in Nat \ {0} /\ DOMAIN w = 1..Len(w)
      /\ DOMAIN Tail(w) = 1..(Len(w) - 1)
      /\ \A i \in 1..(Len(w) - 1) : Tail(w)[i] = w[i + 1]
      /\ Tail(w) = <<>> <=> Len(w) = 1
  BY TailParts
<1>2. \A i \in 1..Len(w) :
        /\ Formed(w[i])
        /\ i + 1 \in 1..Len(w) => Follows(w[i], w[i + 1])
  BY <1>1 DEF Chain
<1>3. Chain(Tail(w))
  <2> SUFFICES ASSUME NEW i \in 1..(Len(w) - 1)
               PROVE  /\ Formed(Tail(w)[i])
                      /\ i + 1 \in 1..(Len(w) - 1) => Follows(Tail(w)[i], Tail(w)[i + 1])
    BY <1>1 DEF Chain
  <2>1. i + 1 \in 1..Len(w) /\ Tail(w)[i] = w[i + 1]
    BY <1>1
  <2>2. i + 1 \in 1..(Len(w) - 1) => Tail(w)[i + 1] = w[(i + 1) + 1] /\ (i + 1) + 1 \in 1..Len(w)
    BY <1>1
  <2> QED BY <1>2, <2>1, <2>2
<1>4. 1 \in 1..Len(w)
  BY <1>1
<1>5. Fresh(w[1]) /\ (w[1].kind = "ERR" => Last(w[1])) /\ (w[1].kind = "OK" => ~w[1].out)
  BY <1>2, <1>4 DEF Formed
<1>6. Tail(w) # <<>> => Follows(w[1], Tail(w)[1])
  <2> SUFFICES ASSUME Tail(w) # <<>> PROVE Follows(w[1], Tail(w)[1])
    OBVIOUS
  <2>1. Tail(w)[1] = w[1 + 1] /\ 1 + 1 \in 1..Len(w)
    BY <1>1
  <2> QED BY <1>2, <1>4, <2>1
<1> QED BY <1>3, <1>5, <1>6 DEF Follows, Parts, Starts

LEMMA FinalTail ==
  ASSUME NEW w \in Seq(Packet), w # <<>>, Final(w)
  PROVE  /\ Final(Tail(w))
         /\ Tail(w) = <<>> => w[1].kind \in {"OK", "EOF", "ERR"} /\ Last(w[1])
<1>1. /\ Len(w) \in Nat \ {0} /\ Len(Tail(w)) = Len(w) - 1
      /\ \A i \in 1..(Len(w) - 1) : Tail(w)[i] = w[i + 1]
      /\ Tail(w) = <<>> <=> Len(w) = 1
  BY TailParts
<1>2. Tail(w) # <<>> => Tail(w)[Len(Tail(w))] = w[Len(w)]
  <2> SUFFICES ASSUME Tail(w) # <<>> PROVE Tail(w)[Len(Tail(w))] = w[Len(w)]
    OBVIOUS
  <2>1. Len(w) - 1 \in 1..(Len(w) - 1) /\ (Len(w) - 1) + 1 = Len(w)
    BY <1>1
  <2>2. Tail(w)[Len(w) - 1] = w[(Len(w) - 1) + 1]
    BY <1>1, <2>1
  <2> QED BY <1>1, <2>1, <2>2
<1> QED BY <1>1, <1>2 DEF Final

\* One row less to be read.
LEMMA TellsTail ==
  ASSUME NEW w \in Seq(Packet), w # <<>>, w[1].kind = "ROW", NEW m, Tells(w, m)
  PROVE  Tells(Tail(w), m)
<1>1. /\ Len(w) \in Nat \ {0} /\ DOMAIN w = 1..Len(w) /\ DOMAIN Tail(w) = 1..(Len(w) - 1)
      /\ \A i \in 1..(Len(w) - 1) : Tail(w)[i] = w[i + 1]
  BY TailParts
<1> SUFFICES ASSUME NEW j \in 1..(Len(w) - 1), Tail(w)[j].kind = "EOF", Reached(Tail(w), j)
             PROVE  Tail(w)[j].more = m
  BY <1>1 DEF Tells
<1>2. ASSUME NEW i \in 1..((j + 1) - 1)
      PROVE  w[i].kind = "ROW"
  <2>1. CASE i = 1
    BY <2>1
  <2>2. CASE i # 1
    <3>1. i - 1 \in 1..(j - 1) /\ i - 1 \in 1..(Len(w) - 1) /\ (i - 1) + 1 = i
      BY <1>1, <2>2
    <3>2. Tail(w)[i - 1].kind = "ROW" /\ Tail(w)[i - 1] = w[(i - 1) + 1]
      BY <1>1, <3>1 DEF Reached
    <3> QED BY <3>1, <3>2
  <2> QED BY <2>1, <2>2
<1>3. j + 1 \in 1..Len(w) /\ Tail(w)[j] = w[j + 1] /\ Reached(w, j + 1)
  BY <1>1, <1>2 DEF Reached
<1> QED BY <1>1, <1>3 DEF Tells

LEMMA CountsTail ==
  ASSUME NEW w \in Seq(Packet), w # <<>>, w[1].kind = "ROW", NEW n \in Nat, NEW sent \in Nat,
         Counts(w, n, sent)
  PROVE  Counts(Tail(w), n + 1, sent) /\ n + 1 <= sent
<1>1. /\ Len(w) \in Nat \ {0} /\ DOMAIN w = 1..Len(w) /\ DOMAIN Tail(w) = 1..(Len(w) - 1)
      /\ \A i \in 1..(Len(w) - 1) : Tail(w)[i] = w[i + 1]
  BY TailParts
<1>2. n + 1 <= sent
  <2>1. Reached(w, 1) /\ 1 \in DOMAIN w
    BY <1>1 DEF Reached
  <2> QED BY <2>1 DEF Counts
<1>3. ASSUME NEW j \in 1..(Len(w) - 1), Reached(Tail(w), j)
      PROVE  /\ Tail(w)[j].kind = "ROW" => (n + 1) + j <= sent
             /\ Tail(w)[j].kind = "EOF" => (n + 1) + j - 1 = sent
  <2>1. ASSUME NEW i \in 1..((j + 1) - 1)
        PROVE  w[i].kind = "ROW"
    <3>1. CASE i = 1
      BY <3>1
    <3>2. CASE i # 1
      <4>1. i - 1 \in 1..(j - 1) /\ i - 1 \in 1..(Len(w) - 1) /\ (i - 1) + 1 = i
        BY <1>1, <3>2
      <4>2. Tail(w)[i - 1].kind = "ROW" /\ Tail(w)[i - 1] = w[(i - 1) + 1]
        BY <1>1, <1>3, <4>1 DEF Reached
      <4> QED BY <4>1, <4>2
    <3> QED BY <3>1, <3>2
  <2>2. j + 1 \in 1..Len(w) /\ Tail(w)[j] = w[j + 1] /\ Reached(w, j + 1)
    BY <1>1, <2>1 DEF Reached
  <2>3. /\ w[j + 1].kind = "ROW" => n + (j + 1) <= sent
        /\ w[j + 1].kind = "EOF" => n + (j + 1) - 1 = sent
    BY <1>1, <2>2 DEF Counts
  <2> QED BY <2>2, <2>3
<1> QED BY <1>1, <1>2, <1>3 DEF Counts

\* What has arrived when the connection breaks.
LEMMA Prefix ==
  ASSUME NEW w \in Seq(Packet), NEW k \in 0..Len(w)
  PROVE  LET u == SubSeq(w, 1, k)
         IN  /\ u \in Seq(Packet) /\ DOMAIN u = 1..k /\ Len(u) = k
             /\ \A i \in 1..k : u[i] = w[i] /\ i \in DOMAIN w
<1>1. /\ SubSeq(w, 1, k) \in Seq(Packet) /\ Len(SubSeq(w, 1, k)) = k
      /\ \A i \in 1..k : SubSeq(w, 1, k)[i] = w[i]
  <2>1. \A i \in 1..k : w[i] \in Packet
    BY ElementOfSeq, LenProperties
  <2> QED BY <2>1, SubSeqProperties, LenProperties
<1>2. DOMAIN SubSeq(w, 1, k) = 1..k /\ DOMAIN w = 1..Len(w)
  BY <1>1, LenProperties
<1> QED BY <1>1, <1>2

LEMMA PrefixKeeps ==
  ASSUME NEW w \in Seq(Packet), NEW k \in 0..Len(w)
  PROVE  LET u == SubSeq(w, 1, k)
         IN  /\ Chain(w) => Chain(u)
             /\ \A m : Tells(w, m) => Tells(u, m)
             /\ \A n, sent : Counts(w, n, sent) => Counts(u, n, sent)
             /\ u # <<>> => w # <<>> /\ u[1] = w[1]
<1> DEFINE u == SubSeq(w, 1, k)
<1>1. /\ u \in Seq(Packet) /\ DOMAIN u = 1..k /\ Len(u) = k
      /\ \A i \in 1..k : u[i] = w[i] /\ i \in DOMAIN w
  BY Prefix
<1> HIDE DEF u
<1>2. Chain(w) => Chain(u)
  <2> SUFFICES ASSUME Chain(w), NEW i \in 1..k
               PROVE  /\ Formed(u[i])
                      /\ i + 1 \in 1..k => Follows(u[i], u[i + 1])
    BY <1>1 DEF Chain
  <2>1. u[i] = w[i] /\ i \in DOMAIN w
    BY <1>1
  <2>2. i + 1 \in 1..k => u[i + 1] = w[i + 1] /\ i + 1 \in DOMAIN w
    BY <1>1
  <2> QED BY <2>1, <2>2 DEF Chain
<1>3. \A j \in 1..k : Reached(u, j) => Reached(w, j)
  BY <1>1 DEF Reached
<1>4. \A m : Tells(w, m) => Tells(u, m)
  BY <1>1, <1>3 DEF Tells
<1>5. \A n, sent : Counts(w, n, sent) => Counts(u, n, sent)
  BY <1>1, <1>3 DEF Counts
<1>6. u # <<>> => w # <<>> /\ u[1] = w[1]
  <2> SUFFICES ASSUME u # <<>> PROVE w # <<>> /\ u[1] = w[1]
    OBVIOUS
  <2>1. 1 \in 1..k
    BY <1>1, EmptySeq
  <2> QED BY <1>1, <2>1, EmptySeq, LenProperties
<1> QED BY <1>2, <1>4, <1>5, <1>6 DEF u

-----------------------------------------------------------------------------
(* The replies obey the grammar.                                           *)

Ends == {"OK", "EOF", "ERR"}

\* A reply, or one that others follow: Last tells them apart.
Sound(a) ==
  LET w == a.pkts
  IN  /\ w # <<>> /\ Chain(w) /\ w[1].kind \in Starts /\ w[Len(w)].kind \in Ends
      /\ w[1].kind = "HDR" => Tells(Tail(w), w[1].more) /\ Counts(Tail(w), 0, a.rows)

Closes(a) == Last(a.pkts[Len(a.pkts)])

\* The reply does not start or end with OUT parameters.
Plain(a) == ~a.pkts[1].out /\ ~a.pkts[Len(a.pkts)].out

LEMMA PktParts ==
  ASSUME NEW k, NEW m
  PROVE  Pkt(k, m).kind = k /\ Pkt(k, m).more = m /\ Pkt(k, m).out = FALSE /\ Fresh(Pkt(k, m))
BY Zenon DEF Pkt, Fresh

LEMMA PktLast ==
  /\ \A k, m : Last(Pkt(k, m)) <=> ~m
  /\ Last(ErrPkt) /\ ErrPkt.kind = "ERR" /\ ErrPkt.out = FALSE /\ Fresh(ErrPkt)
  /\ RowPkt.kind = "ROW" /\ RowPkt.out = FALSE /\ Fresh(RowPkt)
BY Zenon DEF Pkt, Last, Fresh, ErrPkt, RowPkt

LEMMA SinglePkt ==
  ASSUME NEW k \in {"OK", "ERR"}, NEW m \in BOOLEAN, k = "ERR" => ~m, NEW a,
         a.pkts = <<Pkt(k, m)>>
  PROVE  Sound(a) /\ Plain(a) /\ a.pkts \in Seq(Packet) /\ Len(a.pkts) = 1 /\ a.pkts[1] = Pkt(k, m)
<1> DEFINE p == Pkt(k, m)
<1>1. p \in Packet
  BY DEF Pkt, Packet, PacketKinds
<1>2. p.kind = k /\ Fresh(p) /\ ~p.out /\ (k = "ERR" => Last(p))
  BY PktParts, PktLast, Zenon
<1> HIDE DEF p
<1>3. /\ <<p>> \in Seq(Packet) /\ Len(<<p>>) = 1 /\ <<p>>[1] = p /\ <<p>> # <<>>
      /\ DOMAIN <<p>> = {1}
  BY <1>1
<1>4. Chain(<<p>>)
  BY <1>2, <1>3 DEF Chain, Formed
<1>5. a.pkts = <<p>>
  BY DEF p
<1>6. Plain(a)
  BY <1>2, <1>3, <1>5 DEF Plain
<1> QED BY <1>2, <1>3, <1>4, <1>5, <1>6 DEF Sound, Starts, Ends, p

\* The packets of a result set.
Frame(h, r, e) == <<h>> \o Rows(r) \o <<e>>

LEMMA Framed ==
  ASSUME NEW h \in Packet, NEW e \in Packet, NEW r \in Nat
  PROVE  /\ Frame(h, r, e) \in Seq(Packet) /\ Len(Frame(h, r, e)) = r + 2
         /\ Frame(h, r, e) # <<>> /\ DOMAIN Frame(h, r, e) = 1..(r + 2)
         /\ Frame(h, r, e)[1] = h /\ Frame(h, r, e)[r + 2] = e
         /\ \A i \in 2..(r + 1) : Frame(h, r, e)[i] = RowPkt
<1> DEFINE u == <<h>> \o Rows(r)
           w == u \o <<e>>
<1>1. Rows(r) \in Seq(Packet) /\ Len(Rows(r)) = r /\ \A i \in 1..r : Rows(r)[i] = RowPkt
  BY RowsType DEF Rows
<1>2. <<h>> \in Seq(Packet) /\ Len(<<h>>) = 1 /\ <<h>>[1] = h
  OBVIOUS
<1>3. <<e>> \in Seq(Packet) /\ Len(<<e>>) = 1 /\ <<e>>[1] = e
  OBVIOUS
<1>4. /\ u \in Seq(Packet) /\ Len(u) = r + 1 /\ u[1] = h
      /\ \A i \in 2..(r + 1) : u[i] = RowPkt
  <2>1. u \in Seq(Packet) /\ Len(u) = 1 + r
    BY <1>1, <1>2, ConcatProperties
  <2>2. \A i \in 1..(1 + r) : u[i] = IF i <= 1 THEN <<h>>[i] ELSE Rows(r)[i - 1]
    BY <1>1, <1>2, ConcatProperties
  <2>3. u[1] = h
    BY <1>2, <2>2
  <2>4. ASSUME NEW i \in 2..(r + 1)
        PROVE  u[i] = RowPkt
    <3>1. i - 1 \in 1..r /\ i \in 1..(1 + r) /\ ~(i <= 1)
      OBVIOUS
    <3> QED BY <1>1, <2>2, <3>1
  <2> QED BY <2>1, <2>3, <2>4
<1> HIDE DEF u
<1>5. w \in Seq(Packet) /\ Len(w) = r + 2
  BY <1>3, <1>4, ConcatProperties
<1>6. \A i \in 1..(r + 2) : w[i] = IF i <= r + 1 THEN u[i] ELSE <<e>>[i - (r + 1)]
  BY <1>3, <1>4, ConcatProperties
<1>7. w[1] = h
  BY <1>4, <1>6
<1>8. w[r + 2] = e
  <2>1. r + 2 \in 1..(r + 2) /\ ~(r + 2 <= r + 1) /\ (r + 2) - (r + 1) = 1
    OBVIOUS
  <2> QED BY <1>3, <1>6, <2>1
<1>9. ASSUME NEW i \in 2..(r + 1)
      PROVE  w[i] = RowPkt
  <2>1. i \in 1..(r + 2) /\ i <= r + 1
    OBVIOUS
  <2> QED BY <1>4, <1>6, <2>1
<1>10. w # <<>> /\ DOMAIN w = 1..(r + 2)
  BY <1>5, EmptySeq, LenProperties
<1> QED BY <1>5, <1>7, <1>8, <1>9, <1>10 DEF u, Frame

LEMMA SoundSet ==
  ASSUME NEW r \in Nat, NEW m \in BOOLEAN, NEW e \in {Pkt("EOF", m), ErrPkt}, NEW a,
         a.pkts = Frame(Pkt("HDR", m), r, e), a.rows = r
  PROVE  Sound(a) /\ Plain(a) /\ (Closes(a) <=> Last(e))
<1> DEFINE h == Pkt("HDR", m)
           w == a.pkts
<1>1. h \in Packet /\ e \in Packet /\ RowPkt \in Packet
  BY PktType
<1>2. h.kind = "HDR" /\ h.more = m /\ h.out = FALSE /\ Fresh(h)
  BY PktParts
<1>3. Pkt("EOF", m).kind = "EOF" /\ Pkt("EOF", m).more = m /\ Pkt("EOF", m).out = FALSE /\ Fresh(Pkt("EOF", m))
  BY PktParts
<1>4. /\ e.kind \in {"EOF", "ERR"} /\ e.out = FALSE /\ Fresh(e)
      /\ e.kind = "ERR" => Last(e)
  BY <1>3, PktLast
<1>5. e.kind = "EOF" => e.more = m
  BY <1>3, PktLast
<1>6. RowPkt.kind = "ROW" /\ RowPkt.out = FALSE /\ Fresh(RowPkt)
  BY PktLast
<1>a. w = Frame(h, r, e)
  OBVIOUS
<1> HIDE DEF h, w
<1>7. /\ w \in Seq(Packet) /\ Len(w) = r + 2 /\ w # <<>> /\ DOMAIN w = 1..(r + 2)
      /\ w[1] = h /\ w[r + 2] = e
      /\ \A i \in 2..(r + 1) : w[i] = RowPkt
  <2>1. h \in Packet /\ e \in Packet
    BY <1>1
  <2>2. w \in Seq(Packet) /\ Len(w) = r + 2 /\ w # <<>> /\ DOMAIN w = 1..(r + 2)
    BY <1>a, <2>1, Framed
  <2>a. \A x, y \in Packet : Frame(x, r, y)[1] = x /\ Frame(x, r, y)[r + 2] = y
    BY Framed
  <2>b. \A x, y \in Packet : \A i \in 2..(r + 1) : Frame(x, r, y)[i] = RowPkt
    BY Framed
  <2>3. w[1] = h /\ w[r + 2] = e
    BY <1>a, <2>1, <2>a, Zenon
  <2>4. \A i \in 2..(r + 1) : w[i] = RowPkt
    <3>1. \A i \in 2..(r + 1) : Frame(h, r, e)[i] = RowPkt
      BY <2>1, <2>b, Zenon
    <3> QED BY <1>a, <3>1, Zenon
  <2> QED BY <2>2, <2>3, <2>4
<1>8. Chain(w)
  <2> SUFFICES ASSUME NEW i \in 1..(r + 2)
               PROVE  /\ Formed(w[i])
                      /\ i + 1 \in 1..(r + 2) => Follows(w[i], w[i + 1])
    BY <1>7 DEF Chain
  <2>1. w[i] = h \/ w[i] = e \/ w[i] = RowPkt
    BY <1>7
  <2>2. Formed(w[i])
    BY <1>2, <1>4, <1>6, <2>1 DEF Formed
  <2>3. ASSUME i + 1 \in 1..(r + 2)
        PROVE  Follows(w[i], w[i + 1])
    <3>1. w[i] = h \/ w[i] = RowPkt
      BY <1>7, <2>3
    <3>2. w[i + 1] = e \/ w[i + 1] = RowPkt
      BY <1>7, <2>3
    <3> QED BY <1>2, <1>4, <1>6, <3>1, <3>2 DEF Follows
  <2> QED BY <2>2, <2>3
<1>9. /\ DOMAIN Tail(w) = 1..(r + 1)
      /\ \A j \in 1..(r + 1) : Tail(w)[j] = w[j + 1]
  BY <1>7, TailParts
<1>10. \A j \in 1..(r + 1) : /\ Tail(w)[j].kind = "EOF" => j = r + 1 /\ Tail(w)[j].more = m
                             /\ Tail(w)[j].kind = "ROW" => j <= r
  <2> SUFFICES ASSUME NEW j \in 1..(r + 1)
               PROVE  /\ Tail(w)[j].kind = "EOF" => j = r + 1 /\ Tail(w)[j].more = m
                      /\ Tail(w)[j].kind = "ROW" => j <= r
    OBVIOUS
  <2>1. CASE j = r + 1
    BY <1>4, <1>5, <1>7, <1>9, <2>1
  <2>2. CASE j # r + 1
    <3>1. j + 1 \in 2..(r + 1)
      BY <2>2
    <3>2. Tail(w)[j] = RowPkt
      BY <1>7, <1>9, <3>1
    <3>3. Tail(w)[j].kind = "ROW"
      BY <1>6, <3>2
    <3>4. j <= r
      BY <2>2
    <3> QED BY <3>3, <3>4
  <2> QED BY <2>1, <2>2
<1>11. Tells(Tail(w), m)
  BY <1>9, <1>10 DEF Tells
<1>12. Counts(Tail(w), 0, r)
  BY <1>9, <1>10 DEF Counts
<1>13. w[Len(w)] = e
  BY <1>7
<1>14. w = a.pkts
  BY DEF w
<1>15. Plain(a)
  BY <1>2, <1>4, <1>7, <1>13, <1>14 DEF Plain
<1> QED BY <1>2, <1>4, <1>7, <1>8, <1>11, <1>12, <1>13, <1>14, <1>15 DEF Sound, Closes, Starts, Ends

LEMMA SoundFollowed ==
  ASSUME NEW a \in Reply, NEW b \in Reply, Sound(a), Sound(b), ~Closes(a),
         a.pkts[Len(a.pkts)].out => b.pkts[1].kind # "ERR"
  PROVE  /\ Sound(Followed(a, b)) /\ (Closes(Followed(a, b)) <=> Closes(b))
         /\ Followed(a, b).pkts[1] = a.pkts[1]
<1> DEFINE u == a.pkts
           v == b.pkts
           w == u \o v
           k == Len(u)
           n == Len(v)
<1>0. Followed(a, b).pkts = w /\ Followed(a, b).rows = a.rows
  BY DEF Followed
<1>1. u \in Seq(Packet) /\ v \in Seq(Packet) /\ a.rows \in Nat
  BY DEF Reply
<1>2. /\ u # <<>> /\ Chain(u) /\ u[1].kind \in Starts /\ u[k].kind \in Ends
      /\ v # <<>> /\ Chain(v) /\ v[1].kind \in Starts /\ v[n].kind \in Ends
      /\ u[1].kind = "HDR" => Tells(Tail(u), u[1].more) /\ Counts(Tail(u), 0, a.rows)
      /\ ~Last(u[k]) /\ (u[k].out => v[1].kind # "ERR")
  BY DEF Sound, Closes
<1>3. /\ k \in Nat \ {0} /\ DOMAIN u = 1..k /\ n \in Nat \ {0} /\ DOMAIN v = 1..n
  BY <1>1, <1>2, TailParts
<1>4. /\ w \in Seq(Packet) /\ Len(w) = k + n
      /\ \A i \in 1..(k + n) : w[i] = IF i <= k THEN u[i] ELSE v[i - k]
  BY <1>1, ConcatProperties
<1>5. w # <<>> /\ DOMAIN w = 1..(k + n)
  BY <1>3, <1>4, EmptySeq, LenProperties
<1>6. u[k].kind \in {"OK", "EOF"}
  <2>0. k \in DOMAIN u /\ Chain(u)
    BY <1>2, <1>3
  <2>1. u[k].kind = "ERR" => Last(u[k])
    BY <2>0, Zenon DEF Chain, Formed
  <2> QED BY <1>2, <2>1 DEF Ends
<1> HIDE DEF u, v, w, k, n
<1>7. Chain(w)
  <2> SUFFICES ASSUME NEW i \in 1..(k + n)
               PROVE  /\ Formed(w[i])
                      /\ i + 1 \in 1..(k + n) => Follows(w[i], w[i + 1])
    BY <1>5 DEF Chain
  <2>1. CASE i < k
    <3>1. i \in 1..k /\ i + 1 \in 1..k /\ w[i] = u[i] /\ w[i + 1] = u[i + 1]
      BY <1>3, <1>4, <2>1
    <3> QED BY <1>2, <1>3, <3>1 DEF Chain
  <2>2. CASE i = k
    <3>1. w[i] = u[k] /\ w[i + 1] = v[1]
      BY <1>3, <1>4, <2>2
    <3>2. Follows(u[k], v[1])
      BY <1>2, <1>6 DEF Follows, Starts
    <3>3. Formed(u[k])
      BY <1>2, <1>3 DEF Chain
    <3> QED BY <3>1, <3>2, <3>3
  <2>3. CASE i > k
    <3>1. i - k \in 1..n /\ w[i] = v[i - k]
      BY <1>3, <1>4, <2>3
    <3>2. ASSUME i + 1 \in 1..(k + n)
          PROVE  (i - k) + 1 \in 1..n /\ w[i + 1] = v[(i - k) + 1]
      <4>1. (i + 1) - k = (i - k) + 1 /\ (i - k) + 1 \in 1..n
        BY <1>3, <2>3, <3>2
      <4> QED BY <1>3, <1>4, <2>3, <3>2, <4>1
    <3> QED BY <1>2, <1>3, <3>1, <3>2 DEF Chain
  <2> QED BY <1>3, <2>1, <2>2, <2>3
<1>8. w[1] = u[1] /\ w[Len(w)] = v[n]
  <2>1. 1 \in 1..(k + n) /\ 1 <= k /\ k + n \in 1..(k + n) /\ ~(k + n <= k) /\ (k + n) - k = n
    BY <1>3
  <2> QED BY <1>4, <2>1
<1>9. ASSUME u[1].kind = "HDR"
      PROVE  Tells(Tail(w), w[1].more) /\ Counts(Tail(w), 0, a.rows)
  <2>1. k # 1
    BY <1>6, <1>9
  <2>2. /\ DOMAIN Tail(w) = 1..(k + n - 1) /\ DOMAIN Tail(u) = 1..(k - 1)
        /\ \A j \in 1..(k + n - 1) : Tail(w)[j] = w[j + 1]
        /\ \A j \in 1..(k - 1) : Tail(u)[j] = u[j + 1]
    BY <1>1, <1>2, <1>3, <1>4, <1>5, TailParts DEF k
  <2>3. \A j \in 1..(k - 1) : j \in 1..(k + n - 1) /\ Tail(w)[j] = Tail(u)[j]
    <3> SUFFICES ASSUME NEW j \in 1..(k - 1)
                 PROVE  j \in 1..(k + n - 1) /\ Tail(w)[j] = Tail(u)[j]
      OBVIOUS
    <3>1. j \in 1..(k + n - 1) /\ j + 1 \in 1..(k + n) /\ j + 1 <= k
      BY <1>3
    <3> QED BY <1>4, <2>2, <3>1
  <2>4. ASSUME NEW j \in 1..(k + n - 1), Reached(Tail(w), j)
        PROVE  j \in 1..(k - 1) /\ Reached(Tail(u), j)
    <3>1. j \in 1..(k - 1)
      <4> SUFFICES ASSUME j > k - 1 PROVE FALSE
        BY <1>3
      <4>1. k - 1 \in 1..(j - 1) /\ k - 1 \in 1..(k - 1)
        BY <1>3, <2>1
      <4>2. Tail(w)[k - 1].kind = "ROW" /\ Tail(w)[k - 1] = Tail(u)[k - 1]
        BY <2>3, <2>4, <4>1 DEF Reached
      <4>3. Tail(u)[k - 1] = u[k]
        <5>1. Tail(u)[k - 1] = u[(k - 1) + 1] /\ (k - 1) + 1 = k
          BY <1>3, <2>2, <4>1
        <5> QED BY <5>1
      <4> QED BY <1>6, <4>2, <4>3
    <3>2. \A i \in 1..(j - 1) : i \in 1..(k - 1)
      BY <1>3, <3>1
    <3> QED BY <2>3, <2>4, <3>1, <3>2 DEF Reached
  <2>5. Tells(Tail(u), u[1].more) /\ Counts(Tail(u), 0, a.rows)
    BY <1>2, <1>9
  <2>6. Tells(Tail(w), u[1].more)
    BY <2>2, <2>3, <2>4, <2>5 DEF Tells
  <2>7. Counts(Tail(w), 0, a.rows)
    <3>1. \A j \in 1..(k + n - 1) : Reached(Tail(w), j) =>
            /\ Tail(w)[j].kind = "ROW" => 0 + j <= a.rows
            /\ Tail(w)[j].kind = "EOF" => 0 + j - 1 = a.rows
      BY <2>2, <2>3, <2>4, <2>5 DEF Counts
    <3> QED BY <2>2, <3>1 DEF Counts
  <2> QED BY <1>8, <2>6, <2>7
<1> QED BY <1>0, <1>2, <1>5, <1>7, <1>8, <1>9 DEF Sound, Closes, n, v, u

LEMMA SoundWhole ==
  ASSUME NEW m \in BOOLEAN, NEW a \in Whole(m)
  PROVE  a \in Reply /\ Sound(a) /\ Plain(a) /\ (Closes(a) <=> ~m)
<1>0. a \in Reply
  BY WholeType
<1>1. CASE a = OkReply(m)
  <2>1. a.pkts = <<Pkt("OK", m)>>
    BY <1>1 DEF OkReply
  <2>2. Sound(a) /\ Plain(a) /\ Len(a.pkts) = 1 /\ a.pkts[1] = Pkt("OK", m)
    BY <2>1, SinglePkt
  <2>3. Last(Pkt("OK", m)) <=> ~m
    BY PktLast, Zenon
  <2> QED BY <1>0, <2>2, <2>3 DEF Closes
<1>2. ASSUME NEW r \in 0..MaxRows, a = ResultSet(r, m)
      PROVE  Sound(a) /\ Plain(a) /\ (Closes(a) <=> ~m)
  <2>1. r \in Nat /\ a.rows = r /\ a.pkts = Frame(Pkt("HDR", m), r, Pkt("EOF", m))
    BY <1>2, ProtocolAssumption DEF ResultSet, Frame
  <2>2. Sound(a) /\ Plain(a) /\ (Closes(a) <=> Last(Pkt("EOF", m)))
    BY <2>1, SoundSet
  <2>3. Last(Pkt("EOF", m)) <=> ~m
    BY PktLast, Zenon
  <2> QED BY <2>2, <2>3
<1> QED BY <1>0, <1>1, <1>2 DEF Whole

LEMMA SoundFailed ==
  ASSUME NEW m \in BOOLEAN, NEW a \in Failed(m)
  PROVE  a \in Reply /\ Sound(a) /\ Plain(a) /\ Closes(a)
<1>0. a \in Reply /\ Last(ErrPkt)
  BY FailedType, PktLast, Zenon
<1>1. CASE a = ErrReply
  <2>1. a.pkts = <<Pkt("ERR", FALSE)>>
    BY <1>1 DEF ErrReply, ErrPkt
  <2>2. Sound(a) /\ Plain(a) /\ Len(a.pkts) = 1 /\ a.pkts[1] = Pkt("ERR", FALSE)
    BY <2>1, SinglePkt
  <2> QED BY <1>0, <2>2 DEF Closes, ErrPkt
<1>2. ASSUME NEW r \in 0..MaxRows, a = Broken(r, m)
      PROVE  Sound(a) /\ Plain(a) /\ Closes(a)
  <2>1. r \in Nat /\ a.rows = r /\ a.pkts = Frame(Pkt("HDR", m), r, ErrPkt)
    BY <1>2, ProtocolAssumption DEF Broken, Frame
  <2> QED BY <1>0, <2>1, SoundSet
<1> QED BY <1>0, <1>1, <1>2 DEF Failed

Complete(a) == a \in Reply /\ Sound(a) /\ Closes(a)
Partial(a)  == a \in Reply /\ Sound(a) /\ Plain(a) /\ ~Closes(a)

LEMMA CompleteFollowed ==
  ASSUME NEW a, NEW b, Partial(a), Complete(b)
  PROVE  Complete(Followed(a, b)) /\ ~Followed(a, b).pkts[1].out
BY SoundFollowed, FollowedType DEF Partial, Complete, Plain

LEMMA AckComplete ==
  ASSUME NEW a \in AckReplies
  PROVE  /\ Complete(a) /\ Len(a.pkts) = 1
         /\ a.pkts[1].kind \in {"OK", "ERR"} /\ Last(a.pkts[1])
<1>1. PICK k \in {"OK", "ERR"} : a.pkts = <<Pkt(k, FALSE)>>
  <2>1. CASE a = OkReply(FALSE)
    BY <2>1, Zenon DEF OkReply
  <2>2. CASE a = ErrReply
    BY <2>2, Zenon DEF ErrReply, ErrPkt
  <2> QED BY <2>1, <2>2, Zenon DEF AckReplies
<1>2. Sound(a) /\ Plain(a) /\ Len(a.pkts) = 1 /\ a.pkts[1] = Pkt(k, FALSE)
  BY <1>1, SinglePkt
<1>3. Pkt(k, FALSE).kind = k /\ Last(Pkt(k, FALSE))
  BY PktParts, PktLast, Zenon
<1>4. a \in Reply
  BY AckType
<1> QED BY <1>2, <1>3, <1>4 DEF Complete, Closes

LEMMA TextComplete ==
  ASSUME NEW a \in TextReplies
  PROVE  Complete(a) /\ ~a.pkts[1].out
<1>1. \A b \in LastReplies : Complete(b) /\ ~b.pkts[1].out
  <2>1. \A b \in Whole(FALSE) : Complete(b) /\ Plain(b)
    BY SoundWhole, Zenon DEF Complete
  <2>2. \A b \in Failed(FALSE) : Complete(b) /\ Plain(b)
    BY SoundFailed, Zenon DEF Complete
  <2> QED BY <2>1, <2>2 DEF LastReplies, Plain
<1>2. \A b \in FirstReplies : Partial(b)
  BY SoundWhole, Zenon DEF Partial, FirstReplies
<1>3. \A b \in TwoReplies : Complete(b) /\ ~b.pkts[1].out
  <2>1. \A c \in FirstReplies, b \in LastReplies :
          Complete(Followed(c, b)) /\ ~Followed(c, b).pkts[1].out
    BY <1>1, <1>2, CompleteFollowed, Zenon
  <2> QED BY <2>1 DEF TwoReplies
<1> QED BY <1>1, <1>3 DEF TextReplies

\* The OUT parameters and the result of the CALL that has set them, announced or not.
LEMMA OutComplete ==
  ASSUME NEW m \in BOOLEAN
  PROVE  Complete(Followed(OutSet(m), OkReply(FALSE)))
<1> DEFINE a == OutSet(m)
           h == OutPkt("HDR", m)
           p == OutPkt("ROW", FALSE)
           e == OutPkt("EOF", m)
           w == <<h, p, e>>
<1>1. h \in Packet /\ p \in Packet /\ e \in Packet
  BY DEF OutPkt, Packet, PacketKinds
<1>2. /\ h.kind = "HDR" /\ p.kind = "ROW" /\ e.kind = "EOF"
      /\ h.more = m /\ e.more = m /\ h.out = TRUE /\ p.out = TRUE /\ e.out = TRUE
      /\ Fresh(h) /\ Fresh(p) /\ Fresh(e)
  BY Zenon DEF OutPkt, Fresh
<1>3. a.pkts = w /\ a.rows = 1
  BY Zenon DEF OutSet
<1> HIDE DEF a, h, p, e
<1>4. Follows(h, p) /\ Follows(p, e) /\ Formed(h) /\ Formed(p) /\ Formed(e)
  BY <1>2 DEF Follows, Formed
<1>5. /\ w \in Seq(Packet) /\ Len(w) = 3 /\ DOMAIN w = 1..3 /\ w # <<>>
      /\ w[1] = h /\ w[2] = p /\ w[3] = e
  BY <1>1
<1>6. Chain(w)
  <2> SUFFICES ASSUME NEW i \in 1..3
               PROVE  /\ Formed(w[i])
                      /\ i + 1 \in 1..3 => Follows(w[i], w[i + 1])
    BY <1>5 DEF Chain
  <2>1. CASE i = 1
    BY <1>4, <1>5, <2>1
  <2>2. CASE i = 2
    BY <1>4, <1>5, <2>2
  <2>3. CASE i = 3
    BY <1>4, <1>5, <2>3
  <2> QED BY <2>1, <2>2, <2>3
<1>7. DOMAIN Tail(w) = 1..2 /\ Tail(w)[1] = p /\ Tail(w)[2] = e
  BY <1>5, TailParts
<1>8. Tells(Tail(w), m)
  BY <1>2, <1>7 DEF Tells
<1>9. Counts(Tail(w), 0, 1)
  BY <1>2, <1>7 DEF Counts, Reached
<1>10. Sound(a) /\ ~Closes(a)
  BY <1>2, <1>3, <1>5, <1>6, <1>8, <1>9 DEF Sound, Closes, Last, Starts, Ends
<1>11. a \in Reply
  BY <1>3, <1>5 DEF Reply, a, OutSet
<1>12. OkReply(FALSE) \in AckReplies
  BY DEF AckReplies
<1>13. Complete(OkReply(FALSE)) /\ OkReply(FALSE).pkts[1].kind # "ERR"
  <2>1. OkReply(FALSE).pkts[1] = Pkt("OK", FALSE)
    BY DEF OkReply
  <2>2. Pkt("OK", FALSE).kind = "OK"
    BY PktParts, Zenon
  <2>3. Complete(OkReply(FALSE))
    BY <1>12, AckComplete, Zenon
  <2> QED BY <2>1, <2>2, <2>3
<1> QED BY <1>10, <1>11, <1>13, SoundFollowed, FollowedType DEF Complete, a

LEMMA StmtComplete ==
  ASSUME NEW s \in Stmts, NEW a \in StmtReplies(Kind[s])
  PROVE  Complete(a)
<1>1. \A b \in AckReplies : Complete(b)
  BY AckComplete
<1>2. ASSUME NEW r \in 0..MaxRows, NEW m \in BOOLEAN
      PROVE  ResultSet(r, m) \in Whole(m)
  BY DEF Whole
<1>3. \A b \in QueryReplies : Complete(b)
  <2>1. \A b \in Failed(FALSE) : Complete(b)
    BY SoundFailed, Zenon DEF Complete
  <2>2. \A r \in 0..MaxRows : ResultSet(r, FALSE) \in Whole(FALSE)
    BY <1>2, Zenon
  <2>3. \A b \in Whole(FALSE) : Complete(b)
    BY SoundWhole, Zenon DEF Complete
  <2> QED BY <2>1, <2>2, <2>3 DEF QueryReplies
<1>4. \A b \in CallResults : Partial(b)
  <2>1. \A b \in Whole(TRUE) : Partial(b)
    BY SoundWhole, Zenon DEF Partial
  <2>2. \A r \in 0..MaxRows : ResultSet(r, TRUE) \in Whole(TRUE)
    BY <1>2, Zenon
  <2> QED BY <2>1, <2>2 DEF CallResults
<1>5. Partial(ResultSet(1, TRUE))
  <2>1. /\ ResultSet(1, TRUE).rows = 1
        /\ ResultSet(1, TRUE).pkts = Frame(Pkt("HDR", TRUE), 1, Pkt("EOF", TRUE))
    BY Zenon DEF ResultSet, Frame
  <2>2. 1 \in Nat /\ TRUE \in BOOLEAN
    OBVIOUS
  <2>3. ResultSet(1, TRUE) \in Reply
    BY <2>2, ResultSetType, Zenon
  <2>4. ~Last(Pkt("EOF", TRUE))
    BY PktLast, Zenon
  <2>5. Sound(ResultSet(1, TRUE)) /\ Plain(ResultSet(1, TRUE)) /\ (Closes(ResultSet(1, TRUE)) <=> Last(Pkt("EOF", TRUE)))
    BY <2>1, <2>2, SoundSet
  <2> QED BY <2>3, <2>4, <2>5 DEF Partial
<1>6. \A b \in CallEnds : Complete(b)
  BY <1>1, <1>5, CompleteFollowed, Zenon DEF CallEnds
<1>7. \A b \in CallFailures : Complete(b)
  BY SoundFailed, Zenon DEF CallFailures, Complete
<1>8. \A b \in CallReplies : Complete(b)
  <2>1. \A b \in OutReplies : Complete(b)
    BY OutComplete DEF OutReplies
  <2>2. \A c \in CallResults, b \in CallEnds \cup OutReplies : Complete(Followed(c, b))
    BY <1>4, <1>6, <2>1, CompleteFollowed, Zenon
  <2> QED BY <1>7, <2>1, <2>2 DEF CallReplies
<1>9. Kind[s] \in {"select", "dml", "call"}
  BY SessionAssumption
<1>10. CASE Kind[s] = "select"
  BY <1>3, <1>10 DEF StmtReplies
<1>11. CASE Kind[s] = "dml"
  BY <1>1, <1>11 DEF StmtReplies
<1>12. CASE Kind[s] = "call"
  BY <1>1, <1>8, <1>12 DEF StmtReplies
<1> QED BY <1>9, <1>10, <1>11, <1>12

-----------------------------------------------------------------------------
(* What the primitives of the connector do to the wire.                    *)

LEMMA EmptyWire ==
  ASSUME wire' = <<>>, link' # "up"
  PROVE  Wellformed' /\ \A kinds : Awaits(kinds)'
BY DEF Wellformed, Chain, Awaits

LEMMA Fails ==
  ASSUME ReadFails
  PROVE  wire' = <<>> /\ link' = "down" /\ Wellformed' /\ \A kinds : Awaits(kinds)'
BY EmptyWire DEF ReadFails

LEMMA Takes ==
  ASSUME TypeOK, Wellformed, NEW ks, Read(ks)
  PROVE  /\ wire # <<>> /\ Head(wire) = wire[1] /\ wire[1] \in Packet
         /\ wire[1].kind \in ks /\ Fresh(wire[1])
         /\ link # "down" /\ link' = link /\ wire' = Tail(wire) /\ Wellformed'
         /\ wire[1].kind \in {"HDR", "ROW"} => Awaits(Parts)'
         /\ wire[1].kind \in {"OK", "EOF"} => IF Last(wire[1]) THEN wire' = <<>> ELSE Awaits(Starts)'
         /\ wire[1].kind = "ERR" => Last(wire[1]) /\ wire' = <<>>
         /\ wire[1].kind \in {"HDR", "ROW"} /\ wire' # <<>> => wire'[1].out = wire[1].out
         /\ wire[1].kind \in {"OK", "EOF"} /\ wire' # <<>> /\ wire'[1].kind = "ERR" => ~wire[1].out
         /\ wire[1].kind = "OK" => ~wire[1].out
<1>1. wire # <<>> /\ link # "down" /\ link' = link /\ wire' = Tail(wire) /\ Head(wire).kind \in ks
  BY DEF Read, Readable
<1>2. wire \in Seq(Packet)
  BY DEF TypeOK
<1>3. Head(wire) = wire[1] /\ wire[1] \in Packet
  BY <1>1, <1>2, TailParts
<1>4. /\ Chain(Tail(wire)) /\ Fresh(wire[1])
      /\ wire[1].kind \in {"HDR", "ROW"} /\ Tail(wire) # <<>> => Tail(wire)[1].kind \in Parts
      /\ wire[1].kind \in {"OK", "EOF"} /\ ~Last(wire[1]) /\ Tail(wire) # <<>> => Tail(wire)[1].kind \in Starts
      /\ wire[1].kind \in {"OK", "EOF"} /\ Last(wire[1]) => Tail(wire) = <<>>
      /\ wire[1].kind = "ERR" => Last(wire[1]) /\ Tail(wire) = <<>>
      /\ wire[1].kind \in {"HDR", "ROW"} /\ Tail(wire) # <<>> => Tail(wire)[1].out = wire[1].out
      /\ wire[1].kind \in {"OK", "EOF"} /\ Tail(wire) # <<>> /\ Tail(wire)[1].kind = "ERR"
           => ~wire[1].out
      /\ wire[1].kind = "OK" => ~wire[1].out
  BY <1>1, <1>2, ChainTail DEF Wellformed
<1>5. link = "up" => /\ Final(Tail(wire))
                     /\ Tail(wire) = <<>> => wire[1].kind \in {"OK", "EOF", "ERR"} /\ Last(wire[1])
  BY <1>1, <1>2, FinalTail DEF Wellformed
<1>6. Wellformed'
  BY <1>1, <1>4, <1>5 DEF Wellformed
<1>7. wire[1].kind \in {"HDR", "ROW"} => Awaits(Parts)'
  BY <1>1, <1>4, <1>5 DEF Awaits
<1>8. wire[1].kind \in {"OK", "EOF"} => IF Last(wire[1]) THEN wire' = <<>> ELSE Awaits(Starts)'
  BY <1>1, <1>4, <1>5 DEF Awaits
<1> QED BY <1>1, <1>3, <1>4, <1>6, <1>7, <1>8

LEMMA TakesStatus ==
  ASSUME TakeStatus, Head(wire) = wire[1]
  PROVE  /\ more' = wire[1].more
         /\ wire[1].kind # "ERR" => out' = wire[1].out
         /\ ~wire[1].out => (more' <=> ~Last(wire[1]))
         /\ Last(wire[1]) => ~more'
         /\ wire[1].kind = "ERR" => out' = out
<1>1. more' = wire[1].more
  BY DEF TakeStatus
<1>2. out' = IF wire[1].kind = "ERR" THEN out ELSE wire[1].out
  BY DEF TakeStatus
<1>3. ~wire[1].out => (more' <=> ~Last(wire[1]))
  BY <1>1, Zenon DEF Last
<1>4. Last(wire[1]) => ~more'
  BY <1>1, Zenon DEF Last
<1> QED BY <1>1, <1>2, <1>3, <1>4

LEMMA Sends ==
  ASSUME TypeOK, Wellformed, NEW c \in Call, NEW busy, busy \/ wire = <<>>, NEW replies,
         \A a \in replies : Complete(a), NEW next, NEW failure,
         SendCmd(c, busy, replies, next, failure)
  PROVE  /\ Wellformed'
         /\ \/ UNCHANGED <<link, wire>> /\ Return(c, failure)
            \/ ~busy /\ link' = "down" /\ wire' = <<>> /\ Return(c, failure)
            \/ ~busy /\ link' = "cut" /\ wire' = <<>> /\ GotoWith(c, next)
            \/ /\ ~busy /\ wire' # <<>>
               /\ \E a \in replies : wire' = a.pkts /\ GotoWith([c EXCEPT !.sent = a.rows], next)
<1>1. CASE UNCHANGED <<link, wire>> /\ Return(c, failure)
  BY <1>1 DEF Wellformed
<1>2. CASE ~busy /\ link' = "down" /\ wire' = <<>> /\ Return(c, failure)
  BY <1>2, EmptyWire
<1>3. CASE link = "cut" /\ ~busy /\ link' = link /\ wire' = Stale(wire) /\ GotoWith(c, next)
  <2>1. wire' = <<>>
    BY <1>3 DEF Stale
  <2> QED BY <1>3, <2>1, EmptyWire
<1>4. ASSUME ~busy, NEW a \in replies, link' = link, wire' = Stale(wire) \o a.pkts,
             GotoWith([c EXCEPT !.sent = a.rows], next)
      PROVE  Wellformed' /\ wire' # <<>> /\ wire' = a.pkts
  <2>1. a.pkts \in Seq(Packet) /\ Sound(a) /\ Closes(a)
    BY DEF Complete, Reply
  <2>2. Stale(wire) = <<>>
    BY <1>4 DEF Stale
  <2>3. wire' = a.pkts
    BY <1>4, <2>1, <2>2
  <2>4. a.pkts # <<>> /\ Chain(a.pkts) /\ Final(a.pkts)
    BY <2>1 DEF Sound, Closes, Final, Ends
  <2> QED BY <2>3, <2>4 DEF Wellformed
<1> QED BY <1>1, <1>2, <1>3, <1>4 DEF SendCmd

LEMMA BreakKeeps ==
  ASSUME TypeOK, Breaks
  PROVE  /\ Wellformed => Wellformed'
         /\ link' = "cut" /\ (wire = <<>> => wire' = <<>>)
         /\ wire' # <<>> => wire # <<>> /\ wire'[1] = wire[1]
         /\ \A kinds : Awaits(kinds) => Awaits(kinds)'
         /\ \A m : Tells(wire, m) => Tells(wire', m)
         /\ \A n, sent : Counts(wire, n, sent) => Counts(wire', n, sent)
         /\ wire' # <<>> => /\ \A m : Tells(Tail(wire), m) => Tells(Tail(wire'), m)
                            /\ \A n, sent : Counts(Tail(wire), n, sent) => Counts(Tail(wire'), n, sent)
<1>1. PICK k \in 0..Len(wire) : wire' = SubSeq(wire, 1, k)
  BY DEF Breaks
<1>2. wire \in Seq(Packet) /\ link' = "cut"
  BY DEF TypeOK, Breaks
<1>3. /\ Chain(wire) => Chain(wire')
      /\ \A m : Tells(wire, m) => Tells(wire', m)
      /\ \A n, sent : Counts(wire, n, sent) => Counts(wire', n, sent)
      /\ wire' # <<>> => wire # <<>> /\ wire'[1] = wire[1]
  BY <1>1, <1>2, PrefixKeeps
<1>4. \A kinds : Awaits(kinds) => Awaits(kinds)'
  BY <1>2, <1>3 DEF Awaits
<1>5. ASSUME wire' # <<>>
      PROVE  /\ \A m : Tells(Tail(wire), m) => Tells(Tail(wire'), m)
             /\ \A n, sent : Counts(Tail(wire), n, sent) => Counts(Tail(wire'), n, sent)
  <2>1. /\ wire' \in Seq(Packet) /\ Len(wire') = k /\ \A i \in 1..k : wire'[i] = wire[i]
    BY <1>1, <1>2, Prefix
  <2>2. /\ k \in Nat \ {0} /\ DOMAIN Tail(wire') = 1..(k - 1)
        /\ \A i \in 1..(k - 1) : Tail(wire')[i] = wire'[i + 1]
    BY <1>5, <2>1, TailParts
  <2>3. /\ Len(wire) \in Nat /\ DOMAIN Tail(wire) = 1..(Len(wire) - 1)
        /\ \A i \in 1..(Len(wire) - 1) : Tail(wire)[i] = wire[i + 1]
    BY <1>2, <1>3, <1>5, TailParts
  <2>4. \A i \in 1..(k - 1) : i \in DOMAIN Tail(wire) /\ Tail(wire')[i] = Tail(wire)[i]
    <3> SUFFICES ASSUME NEW i \in 1..(k - 1)
                 PROVE  i \in DOMAIN Tail(wire) /\ Tail(wire')[i] = Tail(wire)[i]
      OBVIOUS
    <3>1. i + 1 \in 1..k /\ i \in 1..(Len(wire) - 1)
      BY <2>2, <2>3
    <3> QED BY <2>1, <2>2, <2>3, <3>1
  <2>5. \A j \in 1..(k - 1) : Reached(Tail(wire'), j) => Reached(Tail(wire), j)
    <3> SUFFICES ASSUME NEW j \in 1..(k - 1), Reached(Tail(wire'), j), NEW i \in 1..(j - 1)
                 PROVE  Tail(wire)[i].kind = "ROW"
      BY DEF Reached
    <3>1. i \in 1..(k - 1)
      BY <2>2
    <3> QED BY <2>4, <3>1 DEF Reached
  <2>6. \A m : Tells(Tail(wire), m) => Tells(Tail(wire'), m)
    BY <2>2, <2>4, <2>5 DEF Tells
  <2>7. \A n, sent : Counts(Tail(wire), n, sent) => Counts(Tail(wire'), n, sent)
    BY <2>2, <2>4, <2>5 DEF Counts
  <2> QED BY <2>6, <2>7
<1>6. Wellformed => Wellformed'
  BY <1>2, <1>3 DEF Wellformed
<1>7. wire = <<>> => wire' = <<>>
  BY <1>3
<1> QED BY <1>2, <1>3, <1>4, <1>5, <1>6, <1>7

-----------------------------------------------------------------------------
(* The wire keeps its shape.                                               *)

LEMMA EndsWell ==
  ASSUME Wellformed', Ended, pc' = "idle" => Quiet'
  PROVE  WireShape'
BY DEF WireShape, Ended, Between

LEMMA QuietSame ==
  ASSUME UNCHANGED <<link, wire, status, more, out>>
  PROVE  /\ Wellformed => Wellformed'
         /\ Quiet => Quiet'
         /\ \A kinds : Awaits(kinds) => Awaits(kinds)'
BY DEF Wellformed, Quiet, Awaits, Held

LEMMA QuietLost ==
  ASSUME wire' = <<>>, link' # "up"
  PROVE  Quiet'
BY DEF Quiet, Awaits, Held

LEMMA QuietAfter ==
  ASSUME NEW p, status' # "STMT", more' <=> ~Last(p),
         IF Last(p) THEN wire' = <<>> ELSE Awaits(Starts)'
  PROVE  Quiet'
BY DEF Quiet

LEMMA QuietRows ==
  ASSUME status' = "STMT", Awaits(Parts)', Held'
  PROVE  Quiet'
BY DEF Quiet

LEMMA Answered ==
  ASSUME NEW a, Complete(a), wire' = a.pkts
  PROVE  /\ Awaits(Starts)'
         /\ wire'[1].kind = "HDR" => Tells(Tail(wire'), wire'[1].more) /\ Counts(Tail(wire'), 0, a.rows)
BY DEF Complete, Sound, Awaits

\* A request that is sent is answered, unless the link goes.
LEMMA SentShape ==
  ASSUME TypeOK, Wellformed, Quiet, NEW c \in Call, NEW busy, busy \/ wire = <<>>, NEW replies,
         \A a \in replies : Complete(a), NEW next \in {"header", "exechdr"}, NEW failure,
         next = "header" => \A a \in replies : ~a.pkts[1].out,
         UNCHANGED <<status, more, out>>, SendCmd(c, busy, replies, next, failure)
  PROVE  WireShape'
<1>0. Wellformed'
  BY Sends
<1>1. CASE UNCHANGED <<link, wire>> /\ Return(c, failure)
  BY <1>0, <1>1, ReturnEnds, QuietSame, EndsWell
<1>2. CASE link' = "down" /\ wire' = <<>> /\ Return(c, failure)
  BY <1>0, <1>2, ReturnEnds, QuietLost, EndsWell
<1>3. CASE link' = "cut" /\ wire' = <<>> /\ GotoWith(c, next)
  <2>1. pc' = next /\ Awaits(Starts)'
    BY <1>3, GotoWithMoves, EmptyWire
  <2> QED BY <1>0, <1>3, <2>1 DEF WireShape, Between
<1>4. ASSUME NEW a \in replies, wire' = a.pkts, GotoWith([c EXCEPT !.sent = a.rows], next)
      PROVE  WireShape'
  <2>1. pc' = next
    BY <1>4, GotoWithMoves
  <2>2. /\ Awaits(Starts)'
        /\ wire'[1].kind = "HDR" => Tells(Tail(wire'), wire'[1].more)
    BY <1>4, Answered
  <2>3. next = "header" => ~wire'[1].out
    BY <1>4
  <2> QED BY <1>0, <2>1, <2>2, <2>3 DEF WireShape, Between
<1> QED BY <1>1, <1>2, <1>3, <1>4, Sends

\* The same for the requests that are answered without rows.
LEMMA AckShape ==
  ASSUME TypeOK, Wellformed, Quiet, NEW c \in Call, NEW busy, busy \/ (~more /\ wire = <<>>),
         NEW failure, UNCHANGED <<status, more, out>>,
         SendCmd(c, busy, AckReplies, "ack", failure)
  PROVE  WireShape'
<1>a. /\ \A a \in AckReplies : Complete(a)
      /\ busy \/ wire = <<>>
  BY AckComplete
<1>0. Wellformed'
  BY <1>a, Sends
<1>1. CASE UNCHANGED <<link, wire>> /\ Return(c, failure)
  BY <1>0, <1>1, ReturnEnds, QuietSame, EndsWell
<1>2. CASE link' = "down" /\ wire' = <<>> /\ Return(c, failure)
  BY <1>0, <1>2, ReturnEnds, QuietLost, EndsWell
<1>3. CASE ~busy /\ link' = "cut" /\ wire' = <<>> /\ GotoWith(c, "ack")
  <2>1. pc' = "ack" /\ Awaits({"OK", "ERR"})'
    BY <1>3, GotoWithMoves, EmptyWire
  <2> QED BY <1>0, <1>3, <2>1 DEF WireShape, Between
<1>4. ASSUME ~busy, NEW a \in AckReplies, wire' = a.pkts, GotoWith([c EXCEPT !.sent = a.rows], "ack")
      PROVE  WireShape'
  <2>1. pc' = "ack"
    BY <1>4, GotoWithMoves
  <2>2. wire'[1].kind \in {"OK", "ERR"} /\ Last(wire'[1]) /\ Complete(a)
    BY <1>4, AckComplete
  <2>3. Awaits({"OK", "ERR"})'
    BY <1>4, <2>2 DEF Awaits, Complete, Sound
  <2> QED BY <1>0, <1>4, <2>1, <2>2, <2>3 DEF WireShape, Between
<1> QED BY <1>a, <1>1, <1>2, <1>3, <1>4, Sends

LEMMA FetchShape ==
  ASSUME TypeOK, WireShape, pc \in {"first", "next"}, NEW rc, Fetch(rc), ~taint',
         Free \/ HeldBy(call.s), call.s \in att
  PROVE  /\ Wellformed' /\ Quiet'
         /\ status' = "STMT" => Tells(wire', more')
<1>1. Wellformed /\ Quiet /\ (status = "STMT" => Tells(wire, more))
  BY DEF WireShape, Between
<1>2. CASE UNCHANGED <<link, wire, status, more, out, st>>
  BY <1>1, <1>2, QuietSame
<1>3. ASSUME st[call.s] \in {"WAITING", "FETCHING"},
             \/ ReadFails /\ status' = "READY"
             \/ Read({"ERR"}) /\ TakeStatus /\ status' = "READY"
             \/ Read({"EOF"}) /\ rc = "NODATA" /\ status' = "READY" /\ more' = more
             \/ Read({"ROW"}) /\ UNCHANGED <<status, more, out>>
      PROVE  /\ Wellformed' /\ Quiet'
             /\ status' = "STMT" => Tells(wire', more')
  <2>1. status = "STMT"
    BY <1>3 DEF Free, HeldBy, Streams
  <2>2. CASE ReadFails /\ status' = "READY"
    BY <2>2, Fails, QuietLost
  <2>3. CASE Read({"ERR"}) /\ TakeStatus /\ status' = "READY"
    <3>1. /\ Wellformed' /\ wire' = <<>> /\ Last(wire[1]) /\ Head(wire) = wire[1]
      BY <1>1, <2>3, Takes
    <3>2. ~more'
      BY <2>3, <3>1, TakesStatus
    <3> QED BY <2>3, <3>1, <3>2 DEF Quiet
  <2>4. CASE Read({"EOF"}) /\ rc = "NODATA" /\ status' = "READY" /\ more' = more
    <3>1. /\ Wellformed' /\ wire # <<>> /\ wire[1].kind = "EOF"
          /\ IF Last(wire[1]) THEN wire' = <<>> ELSE Awaits(Starts)'
      BY <1>1, <2>4, Takes
    <3>2. wire[1].more = more
      <4>1. 1 \in DOMAIN wire /\ Reached(wire, 1)
        BY <3>1, TailParts DEF TypeOK, Reached
      <4> QED BY <1>1, <2>1, <3>1, <4>1 DEF Tells
    <3>3. wire[1].out = out
      BY <1>1, <2>1, <3>1 DEF Quiet, Held
    <3>4. ~Forgets(rc)
      BY Zenon DEF Fetch
    <3>5. ~out \/ more
      BY <1>3, <2>4, <3>4, Zenon DEF Forgets
    <3>6. more' <=> ~Last(wire[1])
      <4>1. (out \/ more) <=> ~Last(wire[1])
        BY <3>2, <3>3, Zenon DEF Last
      <4>2. more' = more
        BY <2>4
      <4> QED BY <3>5, <4>1, <4>2, Zenon
    <3> QED BY <2>4, <3>1, <3>6, QuietAfter
  <2>5. CASE Read({"ROW"}) /\ UNCHANGED <<status, more, out>>
    <3>1. /\ Wellformed' /\ wire # <<>> /\ wire[1].kind = "ROW" /\ wire' = Tail(wire)
          /\ Awaits(Parts)' /\ (wire' # <<>> => wire'[1].out = wire[1].out)
      BY <1>1, <2>5, Takes
    <3>2. Tells(Tail(wire), more)
      BY <1>1, <2>1, <3>1, TellsTail DEF TypeOK
    <3>3. Held'
      BY <1>1, <2>1, <2>5, <3>1 DEF Quiet, Held
    <3> QED BY <2>1, <2>5, <3>1, <3>2, <3>3, QuietRows
  <2> QED BY <1>3, <2>2, <2>3, <2>4, <2>5
<1> QED BY <1>2, <1>3 DEF Fetch

LEMMA FlushShape ==
  ASSUME NEW m, FlushEnds(m), status = "STMT", Wellformed',
         m => Awaits(Starts)', ~m => ~more' /\ wire' = <<>>,
         wire' # <<>> /\ wire'[1].kind = "ERR" => ~out'
  PROVE  WireShape'
<1>1. CASE m
  <2>1. AtAs("flushnext", call)
    BY <1>1, GotoMoves DEF FlushEnds, FlushStops
  <2> QED BY <1>1, <2>1 DEF AtAs, WireShape, Between
<1>2. CASE ~m
  <2>1. AtAs("execsend", call) /\ status' = "READY"
    BY <1>2, GotoMoves DEF FlushEnds, FlushStops
  <2> QED BY <1>2, <2>1 DEF AtAs, WireShape, Between, Quiet
<1> QED BY <1>1, <1>2

LEMMA WireStep ==
  ASSUME TypeOK, StreamInv, LostInv, WireInv, [Next]_vars, ~taint'
  PROVE  WireShape'
<1>0. call \in Call /\ CallInv
  BY DEF TypeOK, StreamInv
<1>a. ~taint => /\ WireShape /\ StreamShape /\ Wellformed
                /\ pc \in Between => Quiet
  BY DEF WireInv, StreamInv, WireShape
<1>1. ASSUME NEW o \in TextOps, NEW n \in 0..MaxN, TextCall(o, n)
      PROVE  WireShape'
  <2>1. pc = "idle" /\ ~taint /\ UNCHANGED <<status, more, out>>
    BY <1>1 DEF TextCall
  <2>2. Wellformed /\ Quiet
    BY <1>a, <2>1 DEF Between
  <2>3. CASE Ended /\ UNCHANGED <<link, wire>>
    BY <2>1, <2>2, <2>3, QuietSame, EndsWell
  <2>4. CASE SendCmd(NewCall(o, NoStmt, n), Busy,
                     IF o = "commit" THEN AckReplies ELSE TextReplies, "header", "throw")
    <3>a. \A a \in AckReplies : ~a.pkts[1].out
      BY AckComplete, Zenon DEF Last
    <3>1. \A a \in (IF o = "commit" THEN AckReplies ELSE TextReplies) :
            Complete(a) /\ ~a.pkts[1].out
      BY <3>a, AckComplete, TextComplete
    <3>2. Busy \/ wire = <<>>
      BY <2>2 DEF Quiet, Busy
    <3>3. NewCall(o, NoStmt, n) \in Call
      BY NewCallType
    <3> QED BY <2>1, <2>2, <2>4, <3>1, <3>2, <3>3, SentShape
  <2> QED BY <1>1, <2>3, <2>4, ReturnEnds DEF TextCall
<1>2. ASSUME NEW o \in StmtOps, NEW s \in Stmts, NEW n \in 0..MaxN, StmtCall(o, s, n)
      PROVE  WireShape'
  <2> DEFINE adopted == IF st[s] = "WAITING" /\ status = "STMT" THEN "FETCHING" ELSE st[s]
  <2>1. pc = "idle" /\ ~taint /\ UNCHANGED <<link, wire, status, more, out>>
    BY <1>2 DEF StmtCall, conn
  <2>2. Wellformed /\ Quiet /\ StreamShape /\ Wellformed' /\ Quiet'
    BY <1>a, <2>1, QuietSame DEF Between
  <2>3. CASE Ended
    BY <2>2, <2>3, EndsWell
  <2>4. CASE s \in att /\ adopted = "FETCHING" /\ pc' = "flush"
    <3>1. s \in Streams
      BY <2>4 DEF Streams
    <3>2. status = "STMT"
      BY <2>1, <2>2, <3>1 DEF StreamShape, Free, HeldBy
    <3>3. Awaits(Parts)' /\ Held'
      BY <2>1, <2>2, <3>2 DEF Quiet
    <3> QED BY <2>2, <2>4, <3>3 DEF WireShape, Between
  <2>5. CASE pc' = "execsend"
    BY <2>2, <2>5 DEF WireShape, Between
  <2> QED BY <1>2, <2>3, <2>4, <2>5, ReturnEnds, GotoWithMoves DEF StmtCall
<1>3. CASE PingCall
  <2>1. pc = "idle" /\ ~taint /\ UNCHANGED <<status, more, out>>
    BY <1>3 DEF PingCall
  <2>2. Wellformed /\ Quiet
    BY <1>a, <2>1 DEF Between
  <2>3. CASE Ended /\ UNCHANGED <<link, wire>>
    BY <2>1, <2>2, <2>3, QuietSame, EndsWell
  <2>4. CASE SendCmd(NewCall("ping", NoStmt, 0), Busy, AckReplies, "ack", "false")
    <3>1. Busy \/ (~more /\ wire = <<>>)
      BY <2>2 DEF Quiet, Busy
    <3>2. NewCall("ping", NoStmt, 0) \in Call
      BY ConnCallType DEF ConnOps
    <3> QED BY <2>1, <2>2, <2>4, <3>1, <3>2, AckShape
  <2> QED BY <1>3, <2>3, <2>4, ReturnEnds DEF PingCall
<1>4. CASE ResetCall
  <2>1. pc = "idle" /\ UNCHANGED <<link, wire, status, more, out>>
    BY <1>4 DEF ResetCall, conn
  <2>2. ~taint
    BY <1>4, Zenon DEF ResetCall
  <2>3. Wellformed' /\ Quiet'
    BY <1>a, <2>1, <2>2, QuietSame DEF Between
  <2>4. Ended \/ pc' = "resetsend"
    BY <1>4, ReturnEnds, GotoWithMoves DEF ResetCall, Busy
  <2> QED BY <2>3, <2>4, EndsWell DEF WireShape, Between
<1>5. CASE ReconnectCall
  <2>1. Ended /\ pc = "idle" /\ ~taint /\ UNCHANGED <<link, wire, status, more, out>>
    BY <1>5, ReturnEnds DEF ReconnectCall, conn
  <2> QED BY <1>a, <2>1, QuietSame, EndsWell DEF Between
<1>6. ASSUME Breaks, UNCHANGED <<status, more, out>>, WireShape
      PROVE  /\ Wellformed' /\ (Quiet => Quiet') /\ (Held => Held')
             /\ \A kinds : Awaits(kinds) => Awaits(kinds)'
             /\ \A m : Tells(wire, m) => Tells(wire', m)
             /\ wire' # <<>> => wire # <<>> /\ wire'[1] = wire[1]
             /\ wire' # <<>> => \A m : Tells(Tail(wire), m) => Tells(Tail(wire'), m)
  BY <1>6, BreakKeeps DEF WireShape, Quiet, Held
<1>7. CASE AbortCall
  <2>1. Ended /\ pc = "idle" /\ ~taint /\ UNCHANGED <<status, more, out>>
    BY <1>7, ReturnEnds DEF AbortCall
  <2>2. UNCHANGED <<link, wire>> \/ Breaks
    BY <1>7 DEF AbortCall
  <2> QED BY <1>a, <1>6, <2>1, <2>2, QuietSame, EndsWell DEF Between
<1>8. CASE CloseCall
  <2>1. Ended /\ link' = "closed" /\ wire' = <<>>
    BY <1>8, ReturnEnds DEF CloseCall
  <2> QED BY <2>1, EmptyWire, QuietLost, EndsWell
<1>9. CASE ConnectCall
  <2>1. Ended /\ pc = "idle" /\ ~taint /\ UNCHANGED <<status, wire>>
    BY <1>9, ReturnEnds DEF ConnectCall
  <2>2. CASE UNCHANGED <<link, more, out>>
    BY <1>a, <2>1, <2>2, QuietSame, EndsWell DEF Between
  <2>3. CASE link = "down" /\ ~more'
    <3>1. wire' = <<>> /\ status' = "READY"
      BY <2>1, <2>3 DEF LostInv
    <3>2. Wellformed' /\ Quiet'
      BY <2>3, <3>1 DEF Wellformed, Chain, Final, Quiet
    <3> QED BY <2>1, <3>2, EndsWell
  <2> QED BY <1>9, <2>2, <2>3 DEF ConnectCall
<1>10. CASE Header
  <2>1. pc = "header" /\ ~taint /\ status = "READY"
    BY <1>10 DEF Header, LostInv
  <2>2. Wellformed /\ Awaits(Starts) /\ (wire # <<>> => ~wire[1].out)
    BY <1>a, <2>1 DEF WireShape
  <2>3. CASE ReadFails /\ Ended
    BY <2>3, Fails, QuietLost, EndsWell
  <2>4. CASE ReadHeader({"ERR", "OK"}) /\ TakeStatus /\ Ended /\ status' = status
    <3>1. /\ Wellformed' /\ wire[1].kind \in {"ERR", "OK"} /\ Head(wire) = wire[1]
          /\ wire[1].kind = "OK" => IF Last(wire[1]) THEN wire' = <<>> ELSE Awaits(Starts)'
          /\ wire[1].kind = "OK" => ~wire[1].out
          /\ wire[1].kind = "ERR" => Last(wire[1]) /\ wire' = <<>>
      BY <2>2, <2>4, Takes DEF ReadHeader
    <3>2. more' <=> ~Last(wire[1])
      BY <2>4, <3>1, TakesStatus
    <3>3. Quiet'
      BY <2>1, <2>4, <3>1, <3>2, QuietAfter
    <3> QED BY <2>4, <3>1, <3>3, EndsWell
  <2>5. CASE ReadHeader({"HDR"}) /\ pc' = "store"
    <3>1. Wellformed' /\ Awaits(Parts)' /\ (wire' # <<>> => ~wire'[1].out)
      BY <2>2, <2>5, Takes DEF ReadHeader
    <3> QED BY <2>5, <3>1 DEF WireShape, Between
  <2>6. ~Misreads
    BY <2>2, Takes DEF Misreads, Fresh
  <2>7. \A k \in {"ERR", "OK"} : ReadHeader({k}) => ReadHeader({"ERR", "OK"})
    BY DEF ReadHeader, Read
  <2> QED BY <1>10, <2>3, <2>4, <2>5, <2>6, <2>7, ReturnEnds, GotoMoves DEF Header, AtAs
<1>11. CASE Store
  <2>1. pc = "store" /\ ~taint /\ status' = "READY"
    BY <1>11 DEF Store
  <2>2. Wellformed /\ (wire # <<>> => ~wire[1].out)
    BY <1>a, <2>1 DEF WireShape
  <2>3. CASE ReadFails /\ Ended
    BY <2>3, Fails, QuietLost, EndsWell
  <2>4. CASE Read({"ERR", "EOF"}) /\ TakeStatus /\ Ended
    <3>1. /\ Wellformed' /\ wire[1].kind \in {"ERR", "EOF"} /\ Head(wire) = wire[1] /\ ~wire[1].out
          /\ wire[1].kind = "EOF" => IF Last(wire[1]) THEN wire' = <<>> ELSE Awaits(Starts)'
          /\ wire[1].kind = "ERR" => Last(wire[1]) /\ wire' = <<>>
      BY <2>2, <2>4, Takes
    <3>2. more' <=> ~Last(wire[1])
      BY <2>4, <3>1, TakesStatus
    <3>3. Quiet'
      BY <2>1, <3>1, <3>2, QuietAfter
    <3> QED BY <2>4, <3>1, <3>3, EndsWell
  <2>5. CASE Read({"ROW"}) /\ pc' = "store"
    <3>1. Wellformed' /\ Awaits(Parts)' /\ (wire' # <<>> => ~wire'[1].out)
      BY <2>2, <2>5, Takes
    <3> QED BY <2>5, <3>1 DEF WireShape, Between
  <2>6. \A k \in {"ERR", "EOF"} : Read({k}) => Read({"ERR", "EOF"})
    BY DEF Read
  <2> QED BY <1>11, <2>3, <2>4, <2>5, <2>6, ReturnEnds, GotoWithMoves DEF Store
<1>12. CASE Flush
  <2>1. pc \in {"flush", "flushnext"} /\ ~taint
    BY <1>12 DEF Flush
  <2>2. /\ Wellformed /\ status = "STMT"
        /\ Awaits(IF pc = "flush" THEN Parts ELSE Starts)
        /\ pc = "flush" => Held
        /\ pc = "flushnext" /\ wire # <<>> /\ wire[1].kind = "ERR" => ~out
    BY <1>a, <2>1 DEF WireShape, StreamShape
  <2>3. CASE ReadFails /\ FlushEnds(MoreResults)
    <3>1. ~MoreResults => ~more'
      BY Zenon DEF MoreResults
    <3> QED BY <2>2, <2>3, <3>1, Fails, FlushShape
  <2>4. CASE Read({"ERR"}) /\ TakeStatus /\ FlushEnds(MoreResults)
    <3>1. /\ Wellformed' /\ wire' = <<>> /\ wire # <<>> /\ wire[1].kind = "ERR"
          /\ Last(wire[1]) /\ Head(wire) = wire[1]
      BY <2>2, <2>4, Takes
    <3>2. ~more' /\ out' = out
      BY <2>4, <3>1, TakesStatus
    <3>3. ~out
      <4>1. CASE pc = "flush"
        <5>1. ~wire[1].out
          BY <3>1, Zenon DEF Last
        <5> QED BY <2>2, <3>1, <4>1, <5>1 DEF Held
      <4> QED BY <2>1, <2>2, <3>1, <4>1
    <3>4. ~MoreResults
      BY <3>2, <3>3, Zenon DEF MoreResults
    <3> QED BY <2>2, <2>4, <3>1, <3>2, <3>4, FlushShape
  <2>5. CASE Read({"EOF", "OK"}) /\ TakeStatus /\ FlushEnds(MoreResults)
    <3>1. /\ Wellformed' /\ Head(wire) = wire[1] /\ wire[1].kind \in {"EOF", "OK"}
          /\ IF Last(wire[1]) THEN wire' = <<>> ELSE Awaits(Starts)'
          /\ wire' # <<>> /\ wire'[1].kind = "ERR" => ~wire[1].out
      BY <2>2, <2>5, Takes
    <3>2. more' = wire[1].more /\ out' = wire[1].out
      BY <2>5, <3>1, TakesStatus
    <3>3. MoreResults <=> ~Last(wire[1])
      BY <3>2, Zenon DEF MoreResults, Last
    <3>4. ~MoreResults => ~more'
      BY Zenon DEF MoreResults
    <3> QED BY <2>2, <2>5, <3>1, <3>2, <3>3, <3>4, FlushShape
  <2>6. CASE Read({"ROW"}) /\ AtAs("flush", call) /\ out' = out /\ pc = "flush"
    <3>1. /\ Wellformed' /\ Awaits(Parts)' /\ wire # <<>>
          /\ wire' # <<>> => wire'[1].out = wire[1].out
      BY <2>2, <2>6, Takes
    <3> QED BY <2>2, <2>6, <3>1 DEF AtAs, WireShape, Between, Held
  <2>9. CASE Read({"HDR"}) /\ TakeStatus /\ AtAs("flush", call)
    <3>1. /\ Wellformed' /\ Awaits(Parts)' /\ wire[1].kind = "HDR" /\ Head(wire) = wire[1]
          /\ wire' # <<>> => wire'[1].out = wire[1].out
      BY <2>2, <2>9, Takes
    <3>2. out' = wire[1].out
      BY <2>9, <3>1, TakesStatus
    <3> QED BY <2>9, <3>1, <3>2 DEF AtAs, WireShape, Between, Held
  <2>7. ~Read(IF pc = "flush" THEN {"OK", "HDR"} ELSE {"ROW", "EOF"})
    <3> SUFFICES ASSUME Read(IF pc = "flush" THEN {"OK", "HDR"} ELSE {"ROW", "EOF"})
                 PROVE  FALSE
      OBVIOUS
    <3>1. wire # <<>> /\ wire[1].kind \in (IF pc = "flush" THEN {"OK", "HDR"} ELSE {"ROW", "EOF"})
      BY <2>2, Takes
    <3> QED BY <2>1, <2>2, <3>1 DEF Awaits, Parts, Starts
  <2>8. \A k \in {"EOF", "OK"} : Read({k}) => Read({"EOF", "OK"})
    BY DEF Read
  <2> QED BY <1>12, <2>3, <2>4, <2>5, <2>6, <2>7, <2>8, <2>9, GotoMoves DEF Flush
<1>13. CASE ExecSend
  <2>1. /\ pc = "execsend" /\ UNCHANGED <<status, more, out>>
        /\ SendCmd(call, Busy, StmtReplies(Kind[call.s]), "exechdr", "throw")
    BY <1>13 DEF ExecSend
  <2>2. ~taint
    BY <1>13, Zenon DEF ExecSend
  <2>3. Wellformed /\ Quiet
    BY <1>a, <2>1, <2>2 DEF Between
  <2>4. Busy \/ wire = <<>>
    BY <2>3 DEF Quiet, Busy
  <2>5. call.s \in Stmts
    BY <1>0, <2>1 DEF CallInv, StmtPCs, TypeOK
  <2>6. \A a \in StmtReplies(Kind[call.s]) : Complete(a)
    BY <2>5, StmtComplete
  <2> QED BY <1>0, <2>1, <2>3, <2>4, <2>6, SentShape
<1>14. CASE ExecHeader
  <2>1. pc = "exechdr" /\ ~taint /\ status = "READY"
    BY <1>14 DEF ExecHeader, LostInv
  <2>2. /\ Wellformed /\ Awaits(Starts)
        /\ wire # <<>> /\ wire[1].kind = "HDR" => Tells(Tail(wire), wire[1].more)
    BY <1>a, <2>1 DEF WireShape
  <2>3. CASE ReadFails /\ Ended
    BY <2>3, Fails, QuietLost, EndsWell
  <2>4. CASE ReadHeader({"ERR", "OK"}) /\ TakeStatus /\ status' = status /\ (Ended \/ pc' = "first")
    <3>1. /\ Wellformed' /\ wire[1].kind \in {"ERR", "OK"} /\ Head(wire) = wire[1]
          /\ wire[1].kind = "OK" => IF Last(wire[1]) THEN wire' = <<>> ELSE Awaits(Starts)'
          /\ wire[1].kind = "OK" => ~wire[1].out
          /\ wire[1].kind = "ERR" => Last(wire[1]) /\ wire' = <<>>
      BY <2>2, <2>4, Takes DEF ReadHeader
    <3>2. more' <=> ~Last(wire[1])
      BY <2>4, <3>1, TakesStatus
    <3>3. Quiet'
      BY <2>1, <2>4, <3>1, <3>2, QuietAfter
    <3> QED BY <2>1, <2>4, <3>1, <3>3, EndsWell DEF WireShape, Between
  <2>5. CASE ReadHeader({"HDR"}) /\ TakeStatus /\ status' = "STMT"
             /\ (Ended \/ pc' \in {"first", "stmtstore"})
    <3>1. /\ Wellformed' /\ Awaits(Parts)' /\ Head(wire) = wire[1] /\ wire' = Tail(wire)
          /\ wire # <<>> /\ wire[1].kind = "HDR"
          /\ wire' # <<>> => wire'[1].out = wire[1].out
      BY <2>2, <2>5, Takes DEF ReadHeader
    <3>2. more' = wire[1].more /\ out' = wire[1].out
      BY <2>5, <3>1, TakesStatus
    <3>a. Held'
      BY <3>1, <3>2 DEF Held
    <3>3. Quiet' /\ Tells(wire', more') /\ Held'
      BY <2>2, <2>5, <3>1, <3>2, <3>a, QuietRows
    <3> QED BY <2>5, <3>1, <3>3, EndsWell DEF WireShape, Between
  <2>6. ~Misreads
    BY <2>2, Takes DEF Misreads, Fresh
  <2>7. \A k \in {"ERR", "OK"} : ReadHeader({k}) => ReadHeader({"ERR", "OK"})
    BY DEF ReadHeader, Read
  <2> QED BY <1>14, <2>3, <2>4, <2>5, <2>6, <2>7, ReturnEnds, GotoMoves DEF ExecHeader, AtAs
<1>15. CASE FirstFetch \/ NextFetch
  <2>1. /\ pc \in {"first", "next"} /\ call.s \in att
        /\ \E rc \in {"ROW", "NODATA", "ERROR"} : Fetch(rc)
    BY <1>0, <1>15 DEF FirstFetch, NextFetch, CallInv, StmtPCs
  <2>a. ~taint
    BY <2>1, Zenon DEF Fetch
  <2>2. WireShape /\ (Free \/ HeldBy(call.s))
    BY <1>a, <2>1, <2>a DEF StreamShape
  <2>3. Wellformed' /\ Quiet' /\ (status' = "STMT" => Tells(wire', more'))
    BY <2>1, <2>2, FetchShape
  <2>4. Ended \/ pc' = "next"
    <3>1. CASE FirstFetch
      BY <3>1, ReturnEnds, GotoWithMoves DEF FirstFetch
    <3>2. CASE NextFetch
      BY <3>2, ReturnEnds, GotoWithMoves DEF NextFetch
    <3> QED BY <1>15, <3>1, <3>2
  <2> QED BY <2>3, <2>4, EndsWell DEF WireShape, Between
<1>16. CASE StoreStmt
  <2>1. pc = "stmtstore"
    BY <1>16 DEF StoreStmt
  <2>2. CASE Read({"EOF"}) /\ more' = (Head(wire).more \/ out) /\ status' = "READY" /\ Ended /\ ~taint
    <3>1. /\ Wellformed' /\ Head(wire) = wire[1] /\ wire # <<>>
          /\ wire[1].kind = "EOF"
          /\ IF Last(wire[1]) THEN wire' = <<>> ELSE Awaits(Starts)'
      BY <1>a, <2>2, Takes
    <3>a. wire[1].out = out
      BY <1>a, <2>1, <2>2, <3>1 DEF WireShape, Held
    <3>2. more' <=> ~Last(wire[1])
      BY <2>2, <3>1, <3>a, Zenon DEF Last
    <3>3. Quiet'
      BY <2>2, <3>1, <3>2, QuietAfter
    <3> QED BY <2>2, <3>1, <3>3, EndsWell
  <2>3. CASE Read({"ROW"}) /\ pc' = "stmtstore" /\ out' = out /\ ~taint
    <3>1. Wellformed' /\ Awaits(Parts)' /\ wire # <<>> /\ (wire' # <<>> => wire'[1].out = wire[1].out)
      BY <1>a, <2>3, Takes
    <3>2. Held'
      BY <1>a, <2>1, <2>3, <3>1 DEF WireShape, Held
    <3> QED BY <2>3, <3>1, <3>2 DEF WireShape, Between
  <2> QED BY <1>16, <2>2, <2>3, ReturnEnds, GotoWithMoves DEF StoreStmt
<1>17. CASE Drain
  <2>1. pc = "drain" /\ ~taint
    BY <1>17 DEF Drain
  <2> QED BY <1>a, <2>1 DEF StreamShape
<1>18. CASE ResetSend
  <2>1. /\ pc = "resetsend" /\ ~taint /\ status' = "READY" /\ UNCHANGED <<more, out>>
        /\ SendCmd(call, more, AckReplies, "ack", "false")
    BY <1>18 DEF ResetSend
  <2>2. status = "READY" /\ Wellformed /\ Quiet
    BY <1>a, <2>1 DEF StreamShape, Free, Between
  <2>3. more \/ (~more /\ wire = <<>>)
    BY <2>2 DEF Quiet
  <2> QED BY <1>0, <2>1, <2>2, <2>3, AckShape
<1>19. CASE Ack
  <2>1. pc = "ack" /\ ~taint /\ UNCHANGED status
    BY <1>19 DEF Ack
  <2>2. /\ status = "READY" /\ Wellformed /\ ~more /\ Awaits({"OK", "ERR"})
        /\ wire # <<>> => Last(wire[1])
    BY <1>a, <2>1 DEF StreamShape, Free, WireShape
  <2>3. CASE ReadFails /\ Ended
    BY <2>3, Fails, QuietLost, EndsWell
  <2>4. CASE Read({"ERR"}) /\ TakeStatus /\ Ended
    <3>1. Wellformed' /\ wire' = <<>> /\ Last(wire[1]) /\ Head(wire) = wire[1]
      BY <2>2, <2>4, Takes
    <3>2. ~more'
      BY <2>4, <3>1, TakesStatus
    <3> QED BY <2>1, <2>2, <2>4, <3>1, <3>2, EndsWell DEF Quiet
  <2>5. CASE Read({"OK", "HDR", "ROW", "EOF"}) /\ Ended /\ more' = more
    <3>1. /\ Wellformed' /\ wire # <<>> /\ wire[1].kind \in {"OK", "HDR", "ROW", "EOF"}
          /\ wire[1].kind = "OK" /\ Last(wire[1]) => wire' = <<>>
      BY <2>2, <2>5, Takes
    <3>2. wire[1].kind = "OK" /\ Last(wire[1])
      BY <2>2, <3>1 DEF Awaits
    <3> QED BY <2>1, <2>2, <2>5, <3>1, <3>2, EndsWell DEF Quiet
  <2> QED BY <1>19, <2>3, <2>4, <2>5, ReturnEnds DEF Ack
<1>20. CASE Cut
  <2>1. Breaks /\ UNCHANGED <<status, more, out, pc>> /\ ~taint
    BY <1>20 DEF Cut
  <2>2. WireShape
    BY <1>a, <2>1
  <2> QED BY <1>6, <2>1, <2>2 DEF WireShape
<1>21. CASE UNCHANGED vars
  <2>1. UNCHANGED <<link, wire, status, more, out, pc>> /\ ~taint
    BY <1>21 DEF vars
  <2>2. WireShape
    BY <1>a, <2>1
  <2> QED BY <2>1, <2>2, QuietSame DEF WireShape, Held
<1> QED
  BY <1>1, <1>2, <1>3, <1>4, <1>5, <1>7, <1>8, <1>9, <1>10, <1>11, <1>12, <1>13,
     <1>14, <1>15, <1>16, <1>17, <1>18, <1>19, <1>20, <1>21
     DEF Next, Begin, Continue, Halted

LEMMA WireInductive == Spec => [](TypeOK /\ StreamInv /\ LostInv /\ WireInv)
<1>1. Init => WireInv
  <2> SUFFICES ASSUME Init PROVE WireShape
    BY DEF WireInv
  <2>1. wire = <<>> /\ pc = "idle" /\ status = "READY"
    BY DEF Init
  <2>2. ~more
    BY Zenon DEF Init
  <2> QED BY <2>1, <2>2 DEF WireShape, Wellformed, Chain, Final, Between, Quiet
<1>2. TypeOK /\ StreamInv /\ LostInv /\ WireInv /\ [Next]_vars => WireInv'
  BY WireStep DEF WireInv
<1> QED BY <1>1, <1>2, StreamInductive, LostInductive, PTL DEF Spec

\* Nothing of an earlier reply is on a connection that takes the next request, unless
\* one of the four uses that set taint has come before: the results that are announced,
\* those that follow OUT parameters unannounced and the rows of an open statement are
\* read or keep it busy (mthd_my_send_cmd, mthd_my_read_query_result, the flush of
\* mysql_stmt_execute, mysql_stmt_store_result).
THEOREM NothingLeft == Spec => []NothingLeftOver
<1>1. WireInv => NothingLeftOver
  BY DEF WireInv, WireShape, Between, Quiet, Busy, NothingLeftOver
<1> QED BY <1>1, WireInductive, PTL

\* No call takes a part of another request's reply for its own, whatever was left
\* half read, refused or cut off before, with the exception of what follows the four
\* uses that set taint.
THEOREM Matched == Spec => []RepliesMatch
<1>1. WireInv => RepliesMatch
  BY DEF WireInv, WireShape, Wellformed, Chain, Formed, Fresh, RepliesMatch
<1> QED BY <1>1, WireInductive, PTL

\* No call waits on a live connection for a packet that the server has no reason to
\* send.
THEOREM NeverStalls == Spec => []NoStall
<1>1. TypeOK /\ StreamInv /\ WireInv => NoStall
  <2> SUFFICES ASSUME TypeOK, StreamInv, WireInv, ~taint, link = "up",
                      \/ pc \in {"header", "store", "flush", "flushnext", "exechdr", "stmtstore", "ack"}
                      \/ pc \in {"first", "next"} /\ call.s \in Streams
               PROVE  wire # <<>>
    BY DEF NoStall
  <2>1. WireShape /\ StreamShape
    BY DEF WireInv, StreamInv
  <2>2. CASE pc \in {"first", "next"} /\ call.s \in Streams
    <3>1. status = "STMT"
      BY <2>1, <2>2 DEF StreamShape, Free, HeldBy
    <3> QED BY <2>1, <2>2, <3>1 DEF WireShape, Between, Quiet, Awaits
  <2> QED BY <2>1, <2>2 DEF WireShape, Awaits
<1> QED BY <1>1, WireInductive, PTL

-----------------------------------------------------------------------------
(* Results: what a call has read of its rows when it returns, and which     *)
(* calls crash, also after the calls that leave the wire out of step.       *)

\* The rows on the wire complete those that the call has read.
RowsLeft == Counts(wire, call.got, call.sent)

Untouched == call.got = 0 /\ call.junk = 0

\* The loop of fetches: rows alone, or what a failed first fetch left in the buffers.
Fetched ==
  \/ call.junk = 0 /\ st[call.s] = "FETCHING" /\ RowsLeft
  \/ call.junk = 1 /\ call.got = 0 /\ st[call.s] \in {"EXECUTED", "DONE"}

\* What a call has read so far, whatever was called before it.
CountInv ==
  /\ pc \in {"header", "store"} => call.s = NoStmt /\ call.junk = 0
  /\ pc = "store" => call.op # "commit" /\ RowsLeft
  /\ pc \in {"header", "flush", "flushnext", "execsend", "exechdr", "first"} => Untouched
  /\ pc \in {"header", "exechdr"} /\ wire # <<>> /\ Fresh(wire[1]) =>
       /\ wire[1].kind = "HDR" => Counts(Tail(wire), 0, call.sent)
       /\ call.op = "commit" => wire[1].kind \in {"OK", "ERR"}
  /\ pc = "first" => /\ st[call.s] \in {"EXECUTED", "WAITING"}
                     /\ st[call.s] = "WAITING" => RowsLeft
  /\ pc = "next" => Fetched /\ (call.op = "execn" => call.got + call.junk <= call.n)
  /\ WholeOrNothing /\ CrashCauses

-----------------------------------------------------------------------------
(* How a call ends.                                                        *)

LEMMA Returned ==
  ASSUME NEW c, NEW k, Return(c, k), k \notin {"result", "row", "crash"}
  PROVE  CountInv'
<1>1. pc' = "idle" /\ ret'.kind = k
  BY DEF Return
<1> QED BY <1>1 DEF CountInv, WholeOrNothing, CrashCauses

LEMMA ReturnedResult ==
  ASSUME NEW c, Return(c, "result"),
         \/ c.junk = 0 /\ c.got = IF c.op = "execn" /\ c.s # NoStmt /\ c.n < c.sent THEN c.n ELSE c.sent
         \/ c.junk = 0 /\ c.got = 0 /\ c.s = NoStmt
         \/ c.junk = 1 /\ c.got = 0 /\ c.s # NoStmt
  PROVE  CountInv'
<1>1. pc' = "idle" /\ ret'.kind = "result" /\ ret'.call = c
  BY DEF Return
<1> QED BY <1>1 DEF CountInv, WholeOrNothing, CrashCauses

LEMMA ReturnedRow ==
  ASSUME NEW c, Return(c, "row"), c.got + c.junk = 1, c.s = NoStmt => c.sent = 1
  PROVE  CountInv'
<1>1. pc' = "idle" /\ ret'.kind = "row" /\ ret'.call = c
  BY DEF Return
<1> QED BY <1>1 DEF CountInv, WholeOrNothing, CrashCauses

LEMMA ReturnedCrash ==
  ASSUME NEW c, Return(c, "crash"),
         \/ c.op = "exec0" /\ c.s = NoStmt
         \/ c.op = "exec1" /\ c.s = NoStmt /\ c.got = 0
         \/ c.op \in {"commit", "connect"} /\ link' = "closed"
         \/ c.op \in {"exec", "execn"} /\ ~ver'
  PROVE  CountInv'
<1>1. pc' = "crashed" /\ ret'.kind = "crash" /\ ret'.call = c
  BY DEF Return
<1> QED BY <1>1 DEF CountInv, WholeOrNothing, CrashCauses

\* A call that goes on has not returned anything.
LEMMA GoesOn ==
  ASSUME NEW c, NEW p, GotoWith(c, p), p # "crashed"
  PROVE  pc' = p /\ call' = c /\ WholeOrNothing' /\ CrashCauses'
BY DEF GotoWith, NoRet, WholeOrNothing, CrashCauses

-----------------------------------------------------------------------------
(* What the primitives do to the count.                                    *)

LEMMA TakesHead ==
  ASSUME TypeOK, NEW ks, Read(ks)
  PROVE  /\ wire # <<>> /\ wire[1] \in Packet /\ wire[1].kind \in ks
         /\ Head(wire) = wire[1] /\ wire' = Tail(wire)
BY TailParts DEF Read, Readable, TypeOK

\* The end of the rows is where the server has sent no more of them.
LEMMA AllRead ==
  ASSUME TypeOK, RowsLeft, Read({"EOF"})
  PROVE  call.got = call.sent
<1>1. wire # <<>> /\ wire[1].kind = "EOF"
  BY TakesHead
<1>2. 1 \in DOMAIN wire /\ Reached(wire, 1)
  BY <1>1, TailParts DEF TypeOK, Reached
<1>3. call.got \in Nat /\ call.sent \in Nat
  BY DEF TypeOK, Call
<1>4. call.got + 1 - 1 = call.sent
  BY <1>1, <1>2 DEF RowsLeft, Counts
<1> QED BY <1>3, <1>4

LEMMA OneMore ==
  ASSUME TypeOK, RowsLeft, Read({"ROW"})
  PROVE  Counts(wire', call.got + 1, call.sent) /\ call.got + 1 <= call.sent
<1>1. wire # <<>> /\ wire[1].kind = "ROW" /\ wire' = Tail(wire)
  BY TakesHead
<1>2. call.got \in Nat /\ call.sent \in Nat /\ wire \in Seq(Packet)
  BY DEF TypeOK, Call
<1> QED BY <1>1, <1>2, CountsTail DEF RowsLeft

\* The next packet that is not left of an earlier request starts the answer to c.
Heads(c) ==
  wire # <<>> /\ Fresh(wire[1]) =>
    /\ wire[1].kind = "HDR" => Counts(Tail(wire), 0, c.sent)
    /\ c.op = "commit" => wire[1].kind \in {"OK", "ERR"}

LEMMA StaleHead ==
  ASSUME NEW w \in Seq(Packet), w # <<>>
  PROVE  Stale(w) # <<>> /\ Stale(w) \in Seq(Packet) /\ ~Fresh(Stale(w)[1])
<1>1. DOMAIN w = 1..Len(w) /\ Len(w) \in Nat \ {0}
  BY TailParts
<1>2. 1 \in DOMAIN w
  BY <1>1
<1>3. Stale(w)[1] = [w[1] EXCEPT !.fresh = FALSE]
  BY <1>2 DEF Stale
<1>4. w[1] \in Packet
  BY TailParts
<1>5. ~Fresh(Stale(w)[1])
  BY <1>3, <1>4, Zenon DEF Fresh, Packet
<1>6. Stale(w) \in Seq(Packet)
  BY StaleType
<1>7. DOMAIN Stale(w) = DOMAIN w
  BY DEF Stale
<1>8. Stale(w) # <<>>
  BY <1>1, <1>6, <1>7, EmptySeq, LenProperties
<1> QED BY <1>5, <1>6, <1>8

LEMMA SentCounts ==
  ASSUME TypeOK, NEW c \in Call, NEW busy, NEW replies, \A a \in replies : Complete(a),
         c.op = "commit" => replies = AckReplies,
         NEW next \in {"header", "exechdr"}, NEW failure \in {"throw"},
         SendCmd(c, busy, replies, next, failure),
         c.got = 0 /\ c.junk = 0, next = "header" => c.s = NoStmt
  PROVE  CountInv'
<1>1. CASE Return(c, failure)
  BY <1>1, Returned
<1>2. ASSUME NEW x, GotoWith(x, next), x \in Call, x.op = c.op, x.s = c.s, x.got = 0, x.junk = 0,
             wire' # <<>> /\ Fresh(wire'[1]) =>
               /\ wire'[1].kind = "HDR" => Counts(Tail(wire'), 0, x.sent)
               /\ c.op = "commit" => wire'[1].kind \in {"OK", "ERR"}
      PROVE  CountInv'
  <2>1. pc' = next /\ call' = x /\ WholeOrNothing' /\ CrashCauses'
    BY <1>2, GoesOn
  <2> QED BY <1>2, <2>1 DEF CountInv, Untouched
<1>3. wire \in Seq(Packet)
  BY DEF TypeOK
<1>4. CASE wire' = Stale(wire) /\ GotoWith(c, next)
  <2>1. wire = <<>> => Stale(wire) = <<>>
    BY DEF Stale
  <2>2. ~(wire' # <<>> /\ Fresh(wire'[1]))
    BY <1>3, <1>4, <2>1, StaleHead
  <2> QED BY <1>2, <1>4, <2>2
<1>5. ASSUME NEW a \in replies, wire' = Stale(wire) \o a.pkts,
             GotoWith([c EXCEPT !.sent = a.rows], next)
      PROVE  CountInv'
  <2> DEFINE x == [c EXCEPT !.sent = a.rows]
  <2>1. Complete(a) /\ a \in Reply
    BY DEF Complete
  <2>2. a.pkts \in Seq(Packet) /\ a.rows \in Nat
    BY <2>1 DEF Reply
  <2>3. x \in Call /\ x.op = c.op /\ x.s = c.s /\ x.got = 0 /\ x.junk = 0 /\ x.sent = a.rows
    BY <2>2 DEF Call
  <2>4. GotoWith(x, next)
    BY <1>5
  <2> HIDE DEF x
  <2>5. CASE wire = <<>>
    <3>1. wire' = a.pkts
      <4>1. Stale(wire) = <<>>
        BY <2>5 DEF Stale
      <4> QED BY <1>5, <2>2, <4>1
    <3>2. wire'[1].kind = "HDR" => Counts(Tail(wire'), 0, x.sent)
      BY <2>1, <2>3, <3>1, Answered
    <3>3. c.op = "commit" => wire'[1].kind \in {"OK", "ERR"}
      BY <3>1, AckComplete
    <3> QED BY <1>2, <2>3, <2>4, <3>2, <3>3
  <2>6. CASE wire # <<>>
    <3>1. Stale(wire) # <<>> /\ Stale(wire) \in Seq(Packet) /\ ~Fresh(Stale(wire)[1])
      BY <1>3, <2>6, StaleHead
    <3>2. Len(Stale(wire)) \in Nat \ {0}
      BY <3>1, TailParts
    <3>3. wire'[1] = Stale(wire)[1]
      BY <1>5, <2>2, <3>1, <3>2, ConcatProperties
    <3>4. ~Fresh(wire'[1])
      BY <3>1, <3>3
    <3> QED BY <1>2, <2>3, <2>4, <3>4
  <2> QED BY <2>5, <2>6
<1> QED BY <1>1, <1>4, <1>5 DEF SendCmd

-----------------------------------------------------------------------------
(* Every step keeps the count.                                             *)

\* A step that leaves the call where it is and loses at most the end of the wire.
LEMMA CutCounts ==
  ASSUME TypeOK, CountInv, UNCHANGED <<wire, link>> \/ (Breaks /\ link = "up"),
         UNCHANGED <<ver, st, pc, call, ret>>
  PROVE  CountInv'
<1>1. /\ \A n, sent : Counts(wire, n, sent) => Counts(wire', n, sent)
      /\ wire' # <<>> => wire # <<>> /\ wire'[1] = wire[1]
      /\ wire' # <<>> => \A n, sent : Counts(Tail(wire), n, sent) => Counts(Tail(wire'), n, sent)
  BY BreakKeeps
<1>2. link = "closed" => link' = "closed"
  OBVIOUS
<1>3. RowsLeft => RowsLeft'
  BY <1>1 DEF RowsLeft
<1>4. Fetched => Fetched'
  BY <1>3 DEF Fetched
<1>5. WholeOrNothing' /\ CrashCauses'
  BY <1>2 DEF CountInv, WholeOrNothing, CrashCauses
<1>6. pc \in {"header", "exechdr"} /\ wire' # <<>> /\ Fresh(wire'[1]) =>
        /\ wire'[1].kind = "HDR" => Counts(Tail(wire'), 0, call.sent)
        /\ call.op = "commit" => wire'[1].kind \in {"OK", "ERR"}
  BY <1>1 DEF CountInv
<1> QED BY <1>3, <1>4, <1>5, <1>6 DEF CountInv, Untouched

LEMMA FirstCounts ==
  ASSUME TypeOK, CallInv, CountInv, FirstFetch
  PROVE  CountInv'
<1>0. /\ pc = "first" /\ Untouched /\ call.s \in Stmts /\ call.s # NoStmt
      /\ st[call.s] \in {"EXECUTED", "WAITING"} /\ (st[call.s] = "WAITING" => RowsLeft)
      /\ call \in Call /\ call.sent \in Nat /\ call.n \in Nat
  BY SessionAssumption DEF FirstFetch, CountInv, CallInv, StmtPCs, TypeOK, Call
<1>1. PICK rc \in {"ROW", "NODATA", "ERROR"} :
        /\ Fetch(rc)
        /\ \/ /\ call.op = "exec"
              /\ IF rc = "NODATA" THEN Return(call, "result") ELSE GotoWith(Appended(rc), "next")
           \/ /\ call.op = "execn"
              /\ IF call.n = 0 THEN Return(call, "result") ELSE GotoWith(Appended(rc), "next")
           \/ /\ call.op = "exec1"
              /\ IF rc = "NODATA" THEN Return(call, "throw") ELSE Return(Appended(rc), "row")
  BY DEF FirstFetch
<1>2. rc = "NODATA" => call.sent = 0
  BY <1>0, <1>1, AllRead DEF Fetch, Untouched
<1>3. rc = "ROW" => Counts(wire', 1, call.sent) /\ st'[call.s] = "FETCHING"
  <2> SUFFICES ASSUME rc = "ROW" PROVE Counts(wire', 1, call.sent) /\ st'[call.s] = "FETCHING"
    OBVIOUS
  <2>1. RowsLeft /\ Read({"ROW"}) /\ st' = [st EXCEPT ![call.s] = "FETCHING"]
    BY <1>0, <1>1 DEF Fetch
  <2>2. Counts(wire', call.got + 1, call.sent)
    BY <2>1, OneMore
  <2>3. call.got + 1 = 1
    BY <1>0 DEF Untouched
  <2> QED BY <1>0, <2>1, <2>2, <2>3 DEF TypeOK
<1>4. rc # "ROW" => st'[call.s] \in {"EXECUTED", "DONE"}
  BY <1>0, <1>1 DEF Fetch, TypeOK
<1>5. /\ Appended(rc).op = call.op /\ Appended(rc).s = call.s /\ Appended(rc).n = call.n
      /\ Appended(rc).sent = call.sent
      /\ Appended(rc).got = (IF rc = "ROW" THEN 1 ELSE 0)
      /\ Appended(rc).junk = (IF rc = "ROW" THEN 0 ELSE 1)
  BY <1>0 DEF Appended, Untouched, Call
<1>6. CASE /\ Return(call, "result")
           /\ (call.op = "exec" /\ rc = "NODATA") \/ (call.op = "execn" /\ call.n = 0)
  <2>1. call.got = IF call.op = "execn" /\ call.s # NoStmt /\ call.n < call.sent
                   THEN call.n ELSE call.sent
    BY <1>0, <1>2, <1>6 DEF Untouched
  <2> QED BY <1>0, <1>6, <2>1, ReturnedResult DEF Untouched
<1>7. CASE Return(call, "throw")
  BY <1>7, Returned
<1>8. CASE Return(Appended(rc), "row")
  BY <1>0, <1>5, <1>8, ReturnedRow
<1>9. CASE GotoWith(Appended(rc), "next") /\ (call.op = "execn" => call.n # 0)
  <2>1. pc' = "next" /\ call' = Appended(rc) /\ WholeOrNothing' /\ CrashCauses'
    BY <1>9, GoesOn
  <2>2. Fetched'
    BY <1>3, <1>4, <1>5, <2>1 DEF Fetched, RowsLeft
  <2>3. call'.op = "execn" => call'.got + call'.junk <= call'.n
    BY <1>0, <1>5, <1>9, <2>1
  <2> QED BY <2>1, <2>2, <2>3 DEF CountInv
<1> QED BY <1>1, <1>6, <1>7, <1>8, <1>9

LEMMA NextCounts ==
  ASSUME TypeOK, CallInv, CountInv, NextFetch
  PROVE  CountInv'
<1>0. /\ pc = "next" /\ Fetched /\ (call.op = "execn" => call.got + call.junk <= call.n)
      /\ call.s \in Stmts /\ call.s # NoStmt /\ call \in Call
      /\ call.sent \in Nat /\ call.got \in Nat /\ call.n \in Nat /\ call.junk \in Nat
  BY SessionAssumption DEF NextFetch, CountInv, CallInv, StmtPCs, TypeOK, Call
<1>1. PICK rc \in {"ROW", "NODATA", "ERROR"} :
        /\ Fetch(rc)
        /\ \/ rc = "NODATA" /\ Return(call, "result")
           \/ rc = "ERROR"  /\ Return(call, "throw")
           \/ /\ rc = "ROW"
              /\ IF Enough(call)
                 THEN Return(call, "result")
                 ELSE GotoWith(Appended(rc), "next")
  BY DEF NextFetch
<1>2. CASE rc = "ERROR"
  BY <1>1, <1>2, Returned
<1>3. CASE rc = "NODATA"
  <2>1. CASE call.junk = 0
    <3>1. RowsLeft /\ st[call.s] = "FETCHING"
      BY <1>0, <2>1 DEF Fetched
    <3>2. call.got = call.sent
      BY <1>1, <1>3, <3>1, AllRead DEF Fetch
    <3>3. ~(call.op = "execn" /\ call.n < call.sent)
      BY <1>0, <2>1, <3>2
    <3> QED BY <1>1, <1>3, <2>1, <3>2, <3>3, ReturnedResult
  <2>2. CASE call.junk # 0
    BY <1>0, <1>1, <1>3, <2>2, ReturnedResult DEF Fetched
  <2> QED BY <2>1, <2>2
<1>4. CASE rc = "ROW"
  <2>1. st[call.s] = "FETCHING" /\ Read({"ROW"}) /\ st' = [st EXCEPT ![call.s] = "FETCHING"]
    BY <1>0, <1>1, <1>4 DEF Fetch, Fetched
  <2>2. call.junk = 0 /\ RowsLeft
    BY <1>0, <2>1 DEF Fetched
  <2>3. Counts(wire', call.got + 1, call.sent) /\ call.got + 1 <= call.sent
    BY <2>1, <2>2, OneMore
  <2>4. CASE Enough(call)
    <3>1. call.op = "execn" /\ call.got = call.n /\ call.n < call.sent
      BY <1>0, <2>2, <2>3, <2>4 DEF Enough
    <3>2. Return(call, "result")
      BY <1>1, <1>4, <2>4
    <3> QED BY <1>0, <2>2, <3>1, <3>2, ReturnedResult
  <2>5. CASE ~Enough(call)
    <3>1. GotoWith(Appended(rc), "next")
      BY <1>1, <1>4, <2>5
    <3>2. /\ Appended(rc).op = call.op /\ Appended(rc).s = call.s /\ Appended(rc).n = call.n
          /\ Appended(rc).sent = call.sent
          /\ Appended(rc).got = call.got + 1 /\ Appended(rc).junk = 0
      BY <1>0, <1>4, <2>2 DEF Appended, Call
    <3>3. pc' = "next" /\ call' = Appended(rc) /\ WholeOrNothing' /\ CrashCauses'
      BY <3>1, GoesOn
    <3>4. st'[call.s] = "FETCHING"
      BY <1>0, <2>1 DEF TypeOK
    <3>5. Fetched'
      BY <2>3, <3>2, <3>3, <3>4 DEF Fetched, RowsLeft
    <3>6. call'.op = "execn" => call'.got + call'.junk <= call'.n
      BY <1>0, <2>2, <2>5, <3>2, <3>3 DEF Enough
    <3> QED BY <3>3, <3>5, <3>6 DEF CountInv
  <2> QED BY <2>4, <2>5
<1> QED BY <1>2, <1>3, <1>4

LEMMA CountStep ==
  ASSUME TypeOK, CallInv, CountInv, [Next]_vars
  PROVE  CountInv'
<1>0. call \in Call /\ call.got \in Nat /\ call.sent \in Nat /\ call.n \in Nat
  BY DEF TypeOK, Call
<1>a. ASSUME NEW p, Goto(p), p \in {"garbled", "drain", "resetsend", "ack", "stmtstore"}
      PROVE  CountInv'
  <2>1. pc' = p /\ WholeOrNothing' /\ CrashCauses'
    BY <1>a, GoesOn DEF Goto
  <2> QED BY <1>a, <2>1 DEF CountInv
<1>b. ASSUME NEW p, Goto(p), p \in {"flush", "flushnext", "execsend"}, Untouched
      PROVE  CountInv'
  <2>1. pc' = p /\ call' = call /\ WholeOrNothing' /\ CrashCauses'
    BY <1>b, GoesOn DEF Goto
  <2> QED BY <1>b, <2>1 DEF CountInv, Untouched
<1>c. ASSUME NEW x, NEW p, GotoWith(x, p), p \in {"drain", "resetsend", "ack", "stmtstore"}
      PROVE  CountInv'
  <2>1. pc' = p /\ WholeOrNothing' /\ CrashCauses'
    BY <1>c, GoesOn
  <2> QED BY <1>c, <2>1 DEF CountInv
<1>d. ASSUME NEW o, NEW s, NEW n
      PROVE  /\ NewCall(o, s, n).op = o /\ NewCall(o, s, n).s = s
             /\ NewCall(o, s, n).got = 0 /\ NewCall(o, s, n).junk = 0
  BY DEF NewCall
<1>1. ASSUME NEW o \in TextOps, NEW n \in 0..MaxN, TextCall(o, n)
      PROVE  CountInv'
  <2> DEFINE c == NewCall(o, NoStmt, n)
  <2>1. c.op = o /\ c.s = NoStmt /\ c.got = 0 /\ c.junk = 0 /\ c \in Call
    BY <1>d, NewCallType
  <2>2. ver' = ver
    BY <1>1 DEF TextCall
  <2>3. CASE link = "closed" /\ link' = link /\ Return(c, IF o = "commit" THEN "crash" ELSE "throw")
    <3>1. CASE o = "commit"
      BY <2>1, <2>3, <3>1, ReturnedCrash
    <3>2. CASE o # "commit"
      BY <2>3, <3>2, Returned
    <3> QED BY <3>1, <3>2
  <2>4. CASE ~ver /\ o # "commit" /\ Return(c, "crash")
    BY <2>1, <2>2, <2>4, ReturnedCrash DEF TextOps
  <2>5. CASE SendCmd(c, Busy, IF o = "commit" THEN AckReplies ELSE TextReplies, "header", "throw")
    <3> DEFINE replies == IF o = "commit" THEN AckReplies ELSE TextReplies
    <3>1. \A a \in replies : Complete(a)
      BY AckComplete, TextComplete
    <3>2. c.op = "commit" => replies = AckReplies
      BY <2>1
    <3>3. SendCmd(c, Busy, replies, "header", "throw")
      BY <2>5
    <3> HIDE DEF c, replies
    <3> QED BY <2>1, <3>1, <3>2, <3>3, SentCounts
  <2> QED BY <1>1, <2>3, <2>4, <2>5 DEF TextCall
<1>2. ASSUME NEW o \in StmtOps, NEW s \in Stmts, NEW n \in 0..MaxN, StmtCall(o, s, n)
      PROVE  CountInv'
  <2> DEFINE c == NewCall(o, s, n)
  <2>1. c.got = 0 /\ c.junk = 0
    BY <1>d
  <2>2. ASSUME NEW p \in {"flush", "execsend"}, GotoWith(c, p)
        PROVE  CountInv'
    <3>1. pc' = p /\ call' = c /\ WholeOrNothing' /\ CrashCauses'
      BY <2>2, GoesOn
    <3> QED BY <2>1, <3>1 DEF CountInv, Untouched
  <2>3. (\E k \in {"length", "throw"} : Return(c, k)) \/ (\E p \in {"flush", "execsend"} : GotoWith(c, p))
    BY <1>2 DEF StmtCall
  <2> QED BY <2>2, <2>3, Returned
<1>3. CASE PingCall
  <2> DEFINE c == NewCall("ping", NoStmt, 0)
  <2>1. \/ Return(c, "false") \/ GotoWith(c, "ack")
        \/ \E a \in AckReplies : GotoWith([c EXCEPT !.sent = a.rows], "ack")
    BY <1>3 DEF PingCall, SendCmd
  <2> QED BY <1>c, <2>1, Returned
<1>4. CASE ResetCall
  <2>1. \/ Return(NewCall("reset", NoStmt, 0), "false")
        \/ \E p \in {"drain", "resetsend"} : GotoWith(NewCall("reset", NoStmt, 0), p)
    BY <1>4 DEF ResetCall
  <2> QED BY <1>c, <2>1, Returned
<1>5. CASE ReconnectCall \/ AbortCall \/ CloseCall
  <2>1. \E x : \E k \in {"false", "true", "done"} : Return(x, k)
    BY <1>5 DEF ReconnectCall, AbortCall, CloseCall
  <2> QED BY <2>1, Returned
<1>6. CASE ConnectCall
  <2> DEFINE c == NewCall("connect", NoStmt, 0)
  <2>1. CASE link = "closed" /\ link' = link /\ Return(c, "crash")
    BY <1>d, <2>1, ReturnedCrash
  <2>2. CASE \E k \in {"throw", "done"} : Return(c, k)
    BY <2>2, Returned
  <2> QED BY <1>6, <2>1, <2>2 DEF ConnectCall
<1>7. CASE Header
  <2>1. pc = "header" /\ Untouched /\ call.s = NoStmt
    BY <1>7 DEF Header, CountInv
  <2>2. CASE Return(call, "throw")
    BY <2>2, Returned
  <2>3. CASE Return(call, NoResultSet(call.op))
    <3>1. call.op \in TextOps
      BY <2>1 DEF CallInv
    <3>2. CASE call.op = "exec0"
      BY <2>1, <2>3, <3>2, ReturnedCrash DEF NoResultSet
    <3>3. CASE call.op # "exec0"
      <4>1. NoResultSet(call.op) \notin {"result", "row", "crash"}
        BY <3>1, <3>3 DEF NoResultSet, TextOps
      <4> QED BY <2>3, <4>1, Returned
    <3> QED BY <3>2, <3>3
  <2>4. CASE ReadHeader({"HDR"}) /\ Goto("store")
    <3>1. wire # <<>> /\ wire[1].kind = "HDR" /\ Fresh(wire[1]) /\ wire' = Tail(wire)
      BY <2>4, TakesHead DEF ReadHeader, Fresh
    <3>2. Counts(Tail(wire), 0, call.sent) /\ call.op # "commit"
      BY <2>1, <3>1 DEF CountInv
    <3>3. pc' = "store" /\ call' = call /\ WholeOrNothing' /\ CrashCauses'
      BY <2>4, GoesOn DEF Goto
    <3>4. RowsLeft'
      BY <2>1, <3>1, <3>2, <3>3 DEF RowsLeft, Untouched
    <3> QED BY <2>1, <3>2, <3>3, <3>4 DEF CountInv, Untouched
  <2> QED BY <1>7, <1>a, <2>2, <2>3, <2>4 DEF Header, Misreads
<1>8. CASE Store
  <2>1. /\ pc = "store" /\ call.s = NoStmt /\ call.junk = 0 /\ call.op # "commit" /\ RowsLeft
        /\ call.op \in TextOps
    BY <1>8 DEF Store, CountInv, CallInv
  <2>2. CASE Return([call EXCEPT !.got = 0], StoreFailed(call.op))
    <3> DEFINE c == [call EXCEPT !.got = 0]
    <3>1. c.op = call.op /\ c.s = NoStmt /\ c.junk = 0 /\ c.got = 0
      BY <1>0, <2>1 DEF Call
    <3>2. CASE call.op \in {"exec", "execn"}
      BY <2>2, <3>1, <3>2, ReturnedResult DEF StoreFailed
    <3>3. CASE call.op \in {"exec0", "exec1"}
      BY <2>2, <3>1, <3>3, ReturnedCrash DEF StoreFailed
    <3> QED BY <2>1, <3>2, <3>3 DEF TextOps
  <2>3. CASE Read({"EOF"}) /\ Return(call, Stored(call))
    <3>1. call.got = call.sent
      BY <2>1, <2>3, AllRead
    <3>2. CASE Stored(call) = "result"
      BY <2>1, <2>3, <3>1, <3>2, ReturnedResult
    <3>3. CASE call.op = "exec1" /\ call.got = 1
      <4>1. Stored(call) = "row"
        BY <3>3 DEF Stored
      <4>2. call.got + call.junk = 1 /\ call.sent = 1
        BY <2>1, <3>1, <3>3
      <4> QED BY <2>3, <4>1, <4>2, ReturnedRow
    <3>4. CASE call.op = "exec1" /\ call.got = 0
      <4>1. Stored(call) = "crash"
        BY <3>4 DEF Stored
      <4> QED BY <2>1, <2>3, <3>4, <4>1, ReturnedCrash
    <3>5. CASE Stored(call) \notin {"result", "row", "crash"}
      BY <2>3, <3>5, Returned
    <3>6. \/ Stored(call) = "result" \/ Stored(call) \notin {"result", "row", "crash"}
          \/ call.op = "exec1" /\ call.got \in {0, 1}
      BY <2>1 DEF Stored, TextOps
    <3> QED BY <3>2, <3>3, <3>4, <3>5, <3>6
  <2>4. CASE Read({"ROW"}) /\ GotoWith([call EXCEPT !.got = @ + 1], "store")
    <3> DEFINE c == [call EXCEPT !.got = @ + 1]
    <3>1. c.op = call.op /\ c.s = NoStmt /\ c.junk = 0 /\ c.got = call.got + 1 /\ c.sent = call.sent
      BY <1>0, <2>1 DEF Call
    <3>2. Counts(wire', call.got + 1, call.sent)
      BY <2>1, <2>4, OneMore
    <3>3. pc' = "store" /\ call' = c /\ WholeOrNothing' /\ CrashCauses'
      BY <2>4, GoesOn
    <3> HIDE DEF c
    <3>4. RowsLeft'
      BY <3>1, <3>2, <3>3 DEF RowsLeft
    <3> QED BY <2>1, <3>1, <3>3, <3>4 DEF CountInv
  <2> QED BY <1>8, <2>2, <2>3, <2>4 DEF Store
<1>9. CASE Flush
  <2>1. Untouched
    BY <1>9 DEF Flush, CountInv
  <2>2. \A m : FlushEnds(m) => Goto("flushnext") \/ Goto("execsend")
    BY DEF FlushEnds, FlushStops
  <2>3. Goto("flush") \/ Goto("flushnext") \/ Goto("execsend") \/ Goto("garbled")
    BY <1>9, <2>2 DEF Flush
  <2> QED BY <1>a, <1>b, <2>1, <2>3
<1>10. CASE ExecSend
  <2>1. Untouched /\ call.op \in StmtOps /\ call.s \in Stmts
    BY <1>10 DEF ExecSend, CountInv, CallInv, StmtPCs, TypeOK
  <2>2. SendCmd(call, Busy, StmtReplies(Kind[call.s]), "exechdr", "throw")
    BY <1>10 DEF ExecSend
  <2>3. \A a \in StmtReplies(Kind[call.s]) : Complete(a)
    BY <2>1, StmtComplete
  <2>4. call.op # "commit"
    BY <2>1 DEF StmtOps
  <2> QED BY <1>0, <2>1, <2>2, <2>3, <2>4, SentCounts DEF Untouched
<1>11. CASE ExecHeader
  <2>1. pc = "exechdr" /\ Untouched /\ call.op \in StmtOps /\ call.s \in Stmts
    BY <1>11 DEF ExecHeader, CountInv, CallInv, StmtPCs, TypeOK
  <2>2. CASE Return(call, "throw") \/ Return(call, "length")
    BY <2>2, Returned
  <2>3. CASE Return(call, NoStmtResult(call.op))
    <3>1. NoStmtResult(call.op) \notin {"result", "row", "crash"}
      BY <2>1 DEF NoStmtResult, StmtOps
    <3> QED BY <2>3, <3>1, Returned
  <2>4. ASSUME Goto("first"), st'[call.s] \in {"EXECUTED", "WAITING"},
               st'[call.s] = "WAITING" => Counts(wire', 0, call.sent)
        PROVE  CountInv'
    <3>1. pc' = "first" /\ call' = call /\ WholeOrNothing' /\ CrashCauses'
      BY <2>4, GoesOn DEF Goto
    <3>2. st'[call.s] = "WAITING" => RowsLeft'
      BY <2>1, <2>4, <3>1 DEF RowsLeft, Untouched
    <3> QED BY <2>1, <2>4, <3>1, <3>2 DEF CountInv, Untouched
  <2>5. CASE st' = [st EXCEPT ![call.s] = "EXECUTED"] /\ Goto("first")
    <3>1. st'[call.s] = "EXECUTED"
      BY <2>1, <2>5 DEF TypeOK
    <3> QED BY <2>4, <2>5, <3>1
  <2>6. CASE ReadHeader({"HDR"}) /\ st' = [st EXCEPT ![call.s] = "WAITING"] /\ Goto("first")
    <3>1. wire # <<>> /\ wire[1].kind = "HDR" /\ Fresh(wire[1]) /\ wire' = Tail(wire)
      BY <2>6, TakesHead DEF ReadHeader, Fresh
    <3>2. Counts(wire', 0, call.sent)
      BY <2>1, <3>1 DEF CountInv
    <3>3. st'[call.s] = "WAITING"
      BY <2>1, <2>6 DEF TypeOK
    <3> QED BY <2>4, <2>6, <3>2, <3>3
  <2> QED BY <1>11, <1>a, <2>2, <2>3, <2>5, <2>6 DEF ExecHeader, Misreads
<1>12. CASE FirstFetch
  BY <1>12, FirstCounts
<1>13. CASE NextFetch
  BY <1>13, NextCounts
<1>14. CASE StoreStmt
  <2>1. \E x : Return(x, "length") \/ GotoWith(x, "stmtstore")
    BY <1>14 DEF StoreStmt
  <2> QED BY <1>c, <2>1, Returned
<1>15. CASE Drain
  BY <1>15, <1>a DEF Drain
<1>16. CASE ResetSend
  <2>1. \E x : Return(x, "false") \/ GotoWith(x, "ack")
    BY <1>16 DEF ResetSend, SendCmd
  <2> QED BY <1>c, <2>1, Returned
<1>17. CASE Ack
  <2>1. \E k \in {"false", "true"} : Return(call, k)
    BY <1>17 DEF Ack
  <2> QED BY <2>1, Returned
<1>18. CASE Cut
  BY <1>18, CutCounts DEF Cut, stmts
<1>19. CASE UNCHANGED vars
  BY <1>19, CutCounts DEF vars
<1> QED
  BY <1>1, <1>2, <1>3, <1>4, <1>5, <1>6, <1>7, <1>8, <1>9, <1>10, <1>11, <1>12, <1>13,
     <1>14, <1>15, <1>16, <1>17, <1>18, <1>19
     DEF Next, Begin, Continue, Halted

LEMMA CountInductive == Spec => []CountInv
<1>1. Init => CountInv
  BY DEF Init, CountInv, NoRet, WholeOrNothing, CrashCauses
<1>2. TypeOK /\ CallInv /\ CountInv /\ [Next]_vars => CountInv'
  BY CountStep
<1> QED BY <1>1, <1>2, LostInductive, PTL DEF Spec

\* A result that is handed back is all that was asked for, or empty because the store
\* of the text protocol failed, or the one row that a failed first fetch leaves: no call
\* returns a part of the rows, whenever the server fails or the connection breaks
\* (mysql_store_result, mysql_stmt_fetch and the loops of exec and execn).
THEOREM AllOrNothing == Spec => []WholeOrNothing
<1>1. CountInv => WholeOrNothing
  BY DEF CountInv
<1> QED BY <1>1, CountInductive, PTL

\* No call crashes but exec0(sql), exec1(sql) without a row, commit() and connect()
\* on a closed connection, and exec(sql) and execn after a failed connect().
THEOREM CrashesKnown == Spec => []CrashCauses
<1>1. CountInv => CrashCauses
  BY DEF CountInv
<1> QED BY <1>1, CountInductive, PTL
=============================================================================
