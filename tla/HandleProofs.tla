---------------------------- MODULE HandleProofs ----------------------------
(***************************************************************************)
(* Theorems about Handles, for any sets of connections, addresses and      *)
(* names.                                                                  *)
(***************************************************************************)
EXTENDS Handles, SequenceTheorems, TLAPS

USE HandlesAssumption

\* A statement that is added to a list is linked, and all others stay so.
LEMMA PushLinked ==
  ASSUME NEW s \in Stmts, NEW l \in Seq(Stmts)
  PROVE  LET p == <<s>> \o l
         IN  /\ p \in Seq(Stmts)
             /\ {p[i] : i \in DOMAIN p} = {s} \cup {l[i] : i \in DOMAIN l}
             /\ p[1] = s
             /\ \A i \in DOMAIN p : i # 1 => i - 1 \in DOMAIN l /\ p[i] = l[i - 1]
<1> DEFINE p == <<s>> \o l
<1>1. p \in Seq(Stmts) /\ DOMAIN p = 1 .. Len(l) + 1 /\ DOMAIN l = 1 .. Len(l) /\ Len(l) \in Nat
  OBVIOUS
<1>2. p[1] = s /\ \A i \in 1 .. Len(l) + 1 : i # 1 => p[i] = l[i - 1]
  OBVIOUS
<1>3. \A i \in DOMAIN l : i + 1 \in DOMAIN p /\ p[i + 1] = l[i]
  BY <1>1, <1>2
<1>4. {p[i] : i \in DOMAIN p} = {s} \cup {l[i] : i \in DOMAIN l}
  <2>1. ASSUME NEW i \in DOMAIN p PROVE p[i] \in {s} \cup {l[j] : j \in DOMAIN l}
    BY <1>1, <1>2
  <2>2. ASSUME NEW i \in DOMAIN l PROVE l[i] \in {p[j] : j \in DOMAIN p}
    BY <1>3
  <2>3. s \in {p[j] : j \in DOMAIN p}
    BY <1>1, <1>2
  <2> QED BY <2>1, <2>2, <2>3
<1>5. \A i \in DOMAIN p : i # 1 => i - 1 \in DOMAIN l /\ p[i] = l[i - 1]
  BY <1>1, <1>2
<1> QED BY <1>1, <1>2, <1>4, <1>5, Zenon

\* The statements of a registry are statements.
LEMMA RegisteredType ==
  ASSUME NEW r \in [Names -> Stmts \cup {NoStmt}]
  PROVE  Registered(r) \subseteq Stmts
BY DEF Registered

LEMMA EmptyRegistered == EmptyReg \in [Names -> Stmts \cup {NoStmt}] /\ Registered(EmptyReg) = {}
BY DEF Registered, EmptyReg

LEMMA ReleaseType ==
  ASSUME TypeOK, NEW gone
  PROVE  Release(gone) \in [Stmts -> {"unused", "live", "freed"}]
BY DEF TypeOK, Release

\* Inserting keeps what is there, and adds the new statement or nothing.
LEMMA InsertKeeps ==
  ASSUME NEW r \in [Names -> Stmts \cup {NoStmt}], NEW n \in Names, NEW s \in Stmts
  PROVE  /\ Insert(r, n, s) \in [Names -> Stmts \cup {NoStmt}]
         /\ Registered(r) \subseteq Registered(Insert(r, n, s))
         /\ Registered(Insert(r, n, s)) \subseteq Registered(r) \cup {s}
BY DEF Insert, Registered

\* The types are preserved by every call.
LEMMA TypeStep == TypeOK /\ [Next]_vars => TypeOK'
<1> SUFFICES ASSUME TypeOK, [Next]_vars PROVE TypeOK'
  OBVIOUS
<1> USE DEF TypeOK
<1>f. ASSUME Fault PROVE TypeOK'
  BY <1>f DEF Fault, conns, heap
<1>i. ASSUME NEW h \in Handles, Invalidate(h)
      PROVE  owner' \in [Stmts -> Handles \cup {NoHandle}] /\ list' \in [Handles -> Seq(Stmts)]
  BY <1>i DEF Invalidate
<1>a. ASSUME NEW h \in Handles, Allocate(h)
      PROVE  mem' \in [Handles -> {"unused", "open", "freed"}]
  BY <1>a DEF Allocate
<1>1. ASSUME NEW c \in Conns, Construct(c) \/ ConstructThrows(c) PROVE TypeOK'
  <2>1. PICK h \in Handles : Allocate(h) /\ handle' \in {handle, [handle EXCEPT ![c] = h]}
    BY <1>1 DEF Construct, ConstructThrows, conns
  <2>2. handle' \in [Conns -> Handles \cup {NoHandle}] /\ mem' \in [Handles -> {"unused", "open", "freed"}]
    BY <2>1, <1>a
  <2> QED BY <1>1, <2>2 DEF Construct, ConstructThrows, conns
<1>2. ASSUME NEW c \in Conns, SelfAssign(c) PROVE TypeOK'
  <2>1. handle' \in [Conns -> Handles \cup {NoHandle}]
    BY <1>2 DEF SelfAssign
  <2>2. reg' \in [Conns -> [Names -> Stmts \cup {NoStmt}]]
    BY <1>2, EmptyRegistered DEF SelfAssign
  <2>3. smem' \in [Stmts -> {"unused", "live", "freed"}]
    BY <1>2, ReleaseType DEF SelfAssign
  <2> QED BY <1>2, <2>1, <2>2, <2>3 DEF SelfAssign
<1>3. ASSUME NEW c \in Conns, NEW d \in Conns, MoveConstruct(c, d) \/ MoveAssign(c, d)
      PROVE  TypeOK'
  <2>1. mem' \in [Handles -> {"unused", "open", "freed"}]
    BY <1>3, <1>a DEF MoveConstruct, MoveAssign
  <2>2. Moved(c, d) => /\ handle' \in [Conns -> Handles \cup {NoHandle}]
                       /\ reg' \in [Conns -> [Names -> Stmts \cup {NoStmt}]]
    BY EmptyRegistered DEF Moved
  <2>3. smem' \in [Stmts -> {"unused", "live", "freed"}]
    BY <1>3, ReleaseType DEF MoveConstruct, MoveAssign
  <2>4. alive' \subseteq Conns
    BY <1>3 DEF MoveConstruct, MoveAssign
  <2>5. Moved(c, d) /\ UNCHANGED <<kept, owner, list, crashed>>
    BY <1>3 DEF MoveConstruct, MoveAssign
  <2> QED BY <2>1, <2>2, <2>3, <2>4, <2>5
<1>4. ASSUME NEW c \in Conns, Destroy(c) PROVE TypeOK'
  <2>1. CASE handle[c] # NoHandle /\ WalkFaults(handle[c])
    BY <1>4, <1>f, <2>1 DEF Destroy
  <2>2. CASE ~(handle[c] # NoHandle /\ WalkFaults(handle[c]))
    <3>1. /\ smem' = Release(Registered(reg[c]))
          /\ alive' = alive \ {c}
          /\ handle' = [handle EXCEPT ![c] = NoHandle]
          /\ reg' = [reg EXCEPT ![c] = EmptyReg]
          /\ UNCHANGED <<kept, crashed>>
      BY <1>4, <2>2 DEF Destroy
    <3>2. /\ mem' \in [Handles -> {"unused", "open", "freed"}]
          /\ owner' \in [Stmts -> Handles \cup {NoHandle}] /\ list' \in [Handles -> Seq(Stmts)]
      BY <1>4, <2>2, <1>i DEF Destroy, CloseHandle
    <3>3. reg' \in [Conns -> [Names -> Stmts \cup {NoStmt}]]
      BY <3>1, EmptyRegistered
    <3>4. smem' \in [Stmts -> {"unused", "live", "freed"}]
      BY <3>1, ReleaseType
    <3> QED BY <3>1, <3>2, <3>3, <3>4
  <2> QED BY <2>1, <2>2
<1>5. ASSUME NEW c \in Conns, Close(c) \/ Reset(c) \/ Reconnect(c) PROVE TypeOK'
  BY <1>5, <1>f, <1>i DEF Close, Reset, Reconnect, Usable, Present, CloseHandle, conns, heap, vars
<1>6. ASSUME NEW c \in Conns, NEW n \in Names, Prepare(c, n) PROVE TypeOK'
  <2>1. CASE LinkFaults(handle[c])
    BY <1>6, <1>f, <2>1 DEF Prepare
  <2>2. CASE ~LinkFaults(handle[c])
    <3>1. PICK s \in Stmts, prepares \in BOOLEAN :
            LET h == handle[c]
                r == IF prepares THEN Insert(reg[c], n, s) ELSE reg[c]
            IN  /\ smem[s] = "unused"
                /\ owner' = [owner EXCEPT ![s] = h]
                /\ list' = [list EXCEPT ![h] = <<s>> \o @]
                /\ reg' = [reg EXCEPT ![c] = r]
                /\ smem' = [Release(Registered(reg[c]) \ Registered(r))
                              EXCEPT ![s] = IF s \in Registered(r) THEN "live" ELSE "freed"]
                /\ UNCHANGED <<alive, handle, kept, mem, crashed>>
      BY <1>6, <2>2 DEF Prepare
    <3>2. handle[c] \in Handles
      BY <1>6 DEF Prepare, Usable
    <3>3. <<s>> \o list[handle[c]] \in Seq(Stmts)
      BY <3>2, PushLinked
    <3>4. reg' \in [Conns -> [Names -> Stmts \cup {NoStmt}]]
      BY <3>1, InsertKeeps
    <3>5. smem' \in [Stmts -> {"unused", "live", "freed"}]
      BY <3>1, ReleaseType
    <3>6. list' \in [Handles -> Seq(Stmts)] /\ owner' \in [Stmts -> Handles \cup {NoHandle}]
      BY <3>1, <3>2, <3>3
    <3> QED BY <3>1, <3>4, <3>5, <3>6
  <2> QED BY <2>1, <2>2
<1>7. ASSUME NEW c \in Conns, NEW n \in Names, Keep(c, n) PROVE TypeOK'
  BY <1>7 DEF Keep, Present, heap
<1>8. ASSUME NEW s \in Stmts, Drop(s) PROVE TypeOK'
  BY <1>8 DEF Drop
<1>9. CASE UNCHANGED vars
  BY <1>9 DEF vars, conns, heap
<1> QED BY <1>1, <1>2, <1>3, <1>4, <1>5, <1>6, <1>7, <1>8, <1>9 DEF Next

\* Every variable keeps its type through all calls of Connection, the ones
\* that end in undefined behaviour included.
THEOREM HandleTypes == Spec => []TypeOK
<1>1. Init => TypeOK
  <2> SUFFICES ASSUME Init PROVE TypeOK
    OBVIOUS
  <2>1. crashed \in BOOLEAN
    BY Zenon DEF Init
  <2>2. reg \in [Conns -> [Names -> Stmts \cup {NoStmt}]] /\ list \in [Handles -> Seq(Stmts)]
    BY EmptyRegistered DEF Init
  <2> QED BY <2>1, <2>2 DEF Init, TypeOK
<1> QED BY <1>1, TypeStep, PTL DEF Spec
-----------------------------------------------------------------------------
(* The invariant, action by action.                                        *)

LEMMA InvInit == Init => HandlesInv
<1> SUFFICES ASSUME Init PROVE HandlesInv
  OBVIOUS
<1>1. \A h \in Handles : Linked(h) = {} /\ list[h] = <<>>
  BY DEF Init, Linked
<1> QED BY <1>1 DEF Init, HandlesInv, OwnedOnce, ListExact, UsableStmts, FreedIsFirst, Blank, LinkedAreRegistered

\* The invariant does not speak of crashed.
LEMMA InvSame == HandlesInv /\ UNCHANGED <<conns, heap>> => HandlesInv'
BY DEF conns, heap, HandlesInv, OwnedOnce, ListExact, UsableStmts, FreedIsFirst, Blank, LinkedAreRegistered, Linked

LEMMA InvConstruct ==
  ASSUME TypeOK, HandlesInv, NEW c \in Conns, Construct(c) \/ ConstructThrows(c)
  PROVE  HandlesInv'
<1>1. PICK h \in Handles :
        /\ Allocate(h)
        /\ \/ alive' = alive /\ handle' = handle
           \/ c \notin alive /\ alive' = alive \cup {c} /\ handle' = [handle EXCEPT ![c] = h]
  BY DEF Construct, ConstructThrows, conns, Absent
<1>2. UNCHANGED <<reg, kept, smem, owner, list>>
  BY DEF Construct, ConstructThrows, conns
<1>3. mem[h] # "open" /\ mem' = [mem EXCEPT ![h] = "open"]
  BY <1>1 DEF Allocate
<1>4. \A d \in alive : handle[d] # h /\ handle'[d] = handle[d]
  BY <1>1, <1>3 DEF TypeOK, HandlesInv, OwnedOnce
<1>5. \A d \in alive' \ alive : Registered(reg[d]) = {} /\ handle'[d] = h
  BY <1>1, EmptyRegistered DEF TypeOK, HandlesInv, Blank
<1>6. list[h] = <<>> /\ \A s \in Stmts : smem[s] = "live" => owner[s] # h
  BY <1>3, HandlesAssumption DEF TypeOK, HandlesInv, ListExact, UsableStmts
<1>a. OwnedOnce'
  BY <1>1, <1>3, <1>4, <1>5 DEF TypeOK, HandlesInv, OwnedOnce
<1>b. ListExact'
  BY <1>2, <1>3 DEF TypeOK, HandlesInv, ListExact, Linked
<1>c. UsableStmts'
  <2>1. \A s \in Stmts : smem[s] = "live" /\ owner[s] # NoHandle => mem'[owner[s]] = "open"
    BY <1>3 DEF TypeOK, HandlesInv, UsableStmts
  <2>2. \A d \in alive' : \A s \in Registered(reg[d]) :
          d \in alive /\ smem[s] = "live" /\ \A e \in alive' \ {d} : s \notin Registered(reg[e])
    BY <1>5 DEF HandlesInv, UsableStmts
  <2> QED BY <1>2, <2>1, <2>2 DEF HandlesInv, UsableStmts, Registered
<1>d. FreedIsFirst'
  BY <1>2, <1>4, <1>5, <1>6 DEF HandlesInv, FreedIsFirst
<1>e. Blank'
  BY <1>1, <1>2 DEF TypeOK, HandlesInv, Blank, EmptyReg
<1>f. LinkedAreRegistered'
  BY <1>2, <1>4, <1>5, <1>6 DEF HandlesInv, LinkedAreRegistered, Registered
<1> QED BY <1>a, <1>b, <1>c, <1>d, <1>e, <1>f DEF HandlesInv

\* A pointer that has not been cleared is to an open handle, and the statement
\* is in its list.
LEMMA OwnersOpen ==
  ASSUME TypeOK, HandlesInv, NEW s \in Stmts, owner[s] # NoHandle
  PROVE  mem[owner[s]] = "open" /\ s \in Linked(owner[s])
BY DEF TypeOK, HandlesInv, ListExact, Linked

\* What a registry lets go of is not in the list of another connection.
LEMMA RegisteredApart ==
  ASSUME TypeOK, HandlesInv, NEW c \in alive, NEW d \in alive \ {c}, NEW s \in Registered(reg[c]),
         handle[d] # NoHandle
  PROVE  s \in Stmts /\ smem[s] = "live" /\ owner[s] # handle[d]
<1>1. s \in Stmts
  BY DEF TypeOK, Registered
<1>2. smem[s] = "live" /\ s \notin Registered(reg[d])
  BY DEF HandlesInv, UsableStmts
<1> QED BY <1>1, <1>2 DEF HandlesInv, LinkedAreRegistered

LEMMA InvMoveConstruct ==
  ASSUME TypeOK, HandlesInv, NEW c \in Conns, NEW d \in Conns, MoveConstruct(c, d)
  PROVE  HandlesInv'
<1>1. PICK h \in Handles : Allocate(h)
  BY DEF MoveConstruct
<1>2. mem[h] # "open" /\ mem' = [mem EXCEPT ![h] = "open"]
  BY <1>1 DEF Allocate
<1>3. c \notin alive /\ d \in alive /\ c # d /\ alive' = alive \cup {c} /\ UNCHANGED <<kept, smem, owner, list>>
  BY DEF MoveConstruct, Absent, Present
<1>4. /\ handle'[c] = handle[d] /\ handle'[d] = NoHandle
      /\ \A e \in Conns \ {c, d} : handle'[e] = handle[e]
  BY <1>3 DEF MoveConstruct, Moved, TypeOK
<1>5. /\ reg'[c] = reg[d] /\ reg'[d] = EmptyReg
      /\ \A e \in Conns \ {c, d} : reg'[e] = reg[e]
  BY <1>3 DEF MoveConstruct, Moved, TypeOK
<1>6. c \in Conns /\ d \in Conns /\ alive \subseteq Conns
  BY DEF TypeOK
<1>a. OwnedOnce'
  <2>1. \A k \in Handles : mem[k] = "open" => mem'[k] = "open"
    BY <1>2 DEF TypeOK
  <2>2. \A e \in alive' : handle'[e] # NoHandle =>
          handle'[e] \in Handles /\ mem[handle'[e]] = "open"
    BY <1>3, <1>4, <1>6 DEF TypeOK, HandlesInv, OwnedOnce
  <2>3. \A e \in alive', f \in alive' : e # f /\ handle'[e] # NoHandle => handle'[f] # handle'[e]
    BY <1>3, <1>4, <1>6 DEF HandlesInv, OwnedOnce
  <2> QED BY <2>1, <2>2, <2>3 DEF OwnedOnce
<1>b. ListExact'
  BY <1>2, <1>3 DEF TypeOK, HandlesInv, ListExact, Linked
<1>c. UsableStmts'
  <2>1. \A s \in Stmts : smem[s] = "live" /\ owner[s] # NoHandle => mem'[owner[s]] = "open"
    BY <1>2 DEF TypeOK, HandlesInv, UsableStmts
  <2>2. \A e \in alive' : Registered(reg'[e]) = IF e = c THEN Registered(reg[d]) ELSE
                                               IF e = d THEN {} ELSE Registered(reg[e])
    BY <1>3, <1>5, <1>6, EmptyRegistered
  <2>3. \A e \in alive' : \A s \in Registered(reg'[e]) :
          smem[s] = "live" /\ \A f \in alive' \ {e} : s \notin Registered(reg'[f])
    BY <1>3, <2>2 DEF HandlesInv, UsableStmts
  <2> QED BY <1>3, <2>1, <2>3 DEF HandlesInv, UsableStmts, Registered
<1>d. FreedIsFirst'
  BY <1>3, <1>4, <1>6 DEF HandlesInv, FreedIsFirst
<1>e. Blank'
  BY <1>3, <1>4, <1>5, <1>6 DEF TypeOK, HandlesInv, Blank, EmptyReg
<1>f. LinkedAreRegistered'
  BY <1>3, <1>4, <1>5, <1>6 DEF HandlesInv, LinkedAreRegistered, Registered
<1> QED BY <1>a, <1>b, <1>c, <1>d, <1>e, <1>f DEF HandlesInv

\* Copies of a statement come and go: the memory goes with the last of them, and
\* then no connection has it in its list.
LEMMA InvKeepDrop ==
  ASSUME TypeOK, HandlesInv,
         \/ \E c \in Conns, n \in Names : Keep(c, n)
         \/ \E s \in Stmts : Drop(s)
  PROVE  HandlesInv'
<1>1. ASSUME NEW c \in Conns, NEW n \in Names, Keep(c, n) PROVE HandlesInv'
  <2>1. /\ kept' = kept \cup {reg[c][n]} /\ UNCHANGED <<alive, handle, reg, mem, smem, owner, list>>
        /\ c \in alive /\ reg[c][n] \in Registered(reg[c])
    BY <1>1 DEF Keep, Present, heap, Registered
  <2>2. UsableStmts'
    <3>1. smem[reg[c][n]] = "live"
      BY <2>1 DEF HandlesInv, UsableStmts
    <3> QED BY <2>1, <3>1 DEF HandlesInv, UsableStmts, Registered
  <2> QED BY <2>1, <2>2 DEF HandlesInv, OwnedOnce, ListExact, FreedIsFirst, Blank, LinkedAreRegistered, Linked, Registered
<1>2. ASSUME NEW s \in Stmts, Drop(s) PROVE HandlesInv'
  <2>1. s \in kept /\ kept' = kept \ {s} /\ UNCHANGED <<alive, handle, reg, mem, owner, list>>
    BY <1>2 DEF Drop
  <2>2. CASE smem' = smem
    BY <2>1, <2>2 DEF HandlesInv, OwnedOnce, ListExact, UsableStmts, FreedIsFirst, Blank, LinkedAreRegistered, Linked, Registered
  <2>3. CASE smem' # smem
    <3>1. smem' = [smem EXCEPT ![s] = "freed"] /\ \A c \in alive : s \notin Registered(reg[c])
      BY <1>2, <2>3 DEF Drop
    <3>2. smem[s] = "live"
      BY <2>1 DEF HandlesInv, UsableStmts
    <3>3. \A c \in alive : handle[c] # NoHandle => owner[s] # handle[c]
      BY <3>1, <3>2 DEF HandlesInv, LinkedAreRegistered
    <3>4. \A c \in alive : handle[c] # NoHandle => \A i \in DOMAIN list[handle[c]] : list[handle[c]][i] # s
      <4> SUFFICES ASSUME NEW c \in alive, handle[c] # NoHandle, NEW i \in DOMAIN list[handle[c]]
                   PROVE  list[handle[c]][i] # s
        OBVIOUS
      <4>1. handle[c] \in Handles /\ list[handle[c]][i] \in Linked(handle[c])
        BY DEF TypeOK, Linked
      <4> QED BY <3>3, <4>1 DEF HandlesInv, ListExact
    <3>5. \A t \in Stmts \ {s} : smem'[t] = smem[t]
      BY <3>1 DEF TypeOK
    <3>6. smem'[s] = "freed"
      BY <3>1 DEF TypeOK
    <3>a. UsableStmts'
      <4>1. \A c \in alive : \A t \in Registered(reg[c]) : t \in Stmts \ {s}
        BY <3>1 DEF TypeOK, Registered
      <4>2. \A t \in kept' : t \in Stmts \ {s} /\ smem[t] = "live"
        BY <2>1 DEF TypeOK, HandlesInv, UsableStmts
      <4> QED BY <2>1, <3>5, <3>6, <4>1, <4>2 DEF HandlesInv, UsableStmts, Registered
    <3>b. FreedIsFirst'
      <4> SUFFICES ASSUME NEW c \in alive, handle[c] # NoHandle, NEW i \in DOMAIN list[handle[c]],
                          smem'[list[handle[c]][i]] = "freed"
                   PROVE  i = 1
        BY <2>1 DEF FreedIsFirst
      <4>1. list[handle[c]][i] \in Stmts \ {s}
        BY <3>4 DEF TypeOK
      <4> QED BY <3>5, <4>1 DEF HandlesInv, FreedIsFirst
    <3>c. Blank' /\ LinkedAreRegistered'
      BY <2>1, <3>2, <3>5, <3>6 DEF HandlesInv, Blank, LinkedAreRegistered, Registered, EmptyReg
    <3> QED BY <2>1, <3>a, <3>b, <3>c DEF HandlesInv, OwnedOnce, ListExact, Linked
  <2> QED BY <2>2, <2>3
<1> QED BY <1>1, <1>2

-----------------------------------------------------------------------------
(* Calls in which a registry lets its statements go.                       *)

LEMMA ReleaseFacts ==
  ASSUME TypeOK, HandlesInv, NEW c \in alive, smem' = Release(Registered(reg[c]))
  PROVE  /\ \A s \in Stmts : smem'[s] \in {smem[s], "freed"}
         /\ \A s \in Stmts : smem'[s] # smem[s] => s \in Registered(reg[c])
         /\ \A s \in kept : smem'[s] = "live"
         /\ \A d \in alive \ {c} : \A s \in Registered(reg[d]) : smem'[s] = "live"
<1>1. \A s \in Stmts : smem'[s] = IF s \in Registered(reg[c]) \ kept THEN "freed" ELSE smem[s]
  BY DEF Release
<1>2. \A d \in alive \ {c} : \A s \in Registered(reg[d]) :
        s \in Stmts /\ smem[s] = "live" /\ s \notin Registered(reg[c])
  BY DEF TypeOK, HandlesInv, UsableStmts, Registered
<1>3. \A s \in kept : s \in Stmts /\ smem[s] = "live"
  BY DEF TypeOK, HandlesInv, UsableStmts
<1> QED BY <1>1, <1>2, <1>3

LEMMA FreedElsewhere ==
  ASSUME TypeOK, HandlesInv, NEW c \in alive, smem' = Release(Registered(reg[c])),
         NEW d \in alive \ {c}, handle[d] # NoHandle, NEW i \in DOMAIN list[handle[d]],
         smem'[list[handle[d]][i]] = "freed"
  PROVE  i = 1
<1> DEFINE s == list[handle[d]][i]
<1>1. handle[d] \in Handles /\ s \in Stmts /\ s \in Linked(handle[d])
  BY DEF TypeOK, Linked
<1>2. owner[s] = handle[d]
  BY <1>1 DEF HandlesInv, ListExact
<1>3. s \notin Registered(reg[c])
  BY <1>2, RegisteredApart
<1>4. smem[s] = "freed"
  BY <1>1, <1>3, ReleaseFacts
<1> QED BY <1>4 DEF HandlesInv, FreedIsFirst

LEMMA InvMoveAssign ==
  ASSUME TypeOK, HandlesInv, NEW c \in Conns, NEW d \in Conns, MoveAssign(c, d)
  PROVE  HandlesInv'
<1>1. c \in alive /\ d \in alive /\ c # d /\ UNCHANGED <<alive, kept, mem, owner, list>>
  BY DEF MoveAssign, Present
<1>2. /\ handle'[c] = handle[d] /\ handle'[d] = NoHandle
      /\ \A e \in Conns \ {c, d} : handle'[e] = handle[e]
  BY <1>1 DEF MoveAssign, Moved, TypeOK
<1>3. /\ reg'[c] = reg[d] /\ reg'[d] = EmptyReg
      /\ \A e \in Conns \ {c, d} : reg'[e] = reg[e]
  BY <1>1 DEF MoveAssign, Moved, TypeOK
<1>4. smem' = Release(Registered(reg[c]))
  BY DEF MoveAssign
<1>5. /\ \A s \in Stmts : smem'[s] \in {smem[s], "freed"}
      /\ \A s \in Stmts : smem'[s] # smem[s] => s \in Registered(reg[c])
      /\ \A s \in kept : smem'[s] = "live"
      /\ \A e \in alive \ {c} : \A s \in Registered(reg[e]) : smem'[s] = "live"
  BY <1>1, <1>4, ReleaseFacts
<1>6. alive \subseteq Conns
  BY DEF TypeOK
<1>a. OwnedOnce'
  BY <1>1, <1>2, <1>6 DEF HandlesInv, OwnedOnce
<1>b. ListExact'
  BY <1>1 DEF HandlesInv, ListExact, Linked
<1>c. UsableStmts'
  <2>1. \A s \in Stmts : smem'[s] = "live" /\ owner[s] # NoHandle => mem[owner[s]] = "open"
    BY <1>5 DEF HandlesInv, UsableStmts
  <2>2. \A e \in alive : Registered(reg'[e]) = IF e = c THEN Registered(reg[d]) ELSE
                                              IF e = d THEN {} ELSE Registered(reg[e])
    BY <1>1, <1>3, <1>6, EmptyRegistered
  <2>3. \A e \in alive : \A s \in Registered(reg'[e]) :
          smem'[s] = "live" /\ \A f \in alive \ {e} : s \notin Registered(reg'[f])
    BY <1>1, <1>5, <2>2 DEF HandlesInv, UsableStmts
  <2> QED BY <1>1, <1>5, <2>1, <2>3 DEF UsableStmts, Registered
<1>d. FreedIsFirst'
  <2> SUFFICES ASSUME NEW e \in alive, handle'[e] # NoHandle, NEW i \in DOMAIN list[handle'[e]],
                      smem'[list[handle'[e]][i]] = "freed"
               PROVE  i = 1
    BY <1>1 DEF FreedIsFirst
  <2>1. PICK f \in alive \ {c} : handle'[e] = handle[f]
    BY <1>1, <1>2, <1>6
  <2> QED BY <1>1, <1>4, <2>1, FreedElsewhere
<1>e. Blank'
  BY <1>1, <1>2, <1>3, <1>5 DEF TypeOK, HandlesInv, Blank, EmptyReg
<1>f. LinkedAreRegistered'
  BY <1>1, <1>2, <1>3, <1>5, <1>6 DEF HandlesInv, LinkedAreRegistered, Registered
<1> QED BY <1>a, <1>b, <1>c, <1>d, <1>e, <1>f DEF HandlesInv

LEMMA InvSelfAssign ==
  ASSUME TypeOK, HandlesInv, NEW c \in Conns, SelfAssign(c)
  PROVE  HandlesInv'
<1>1. c \in alive /\ UNCHANGED <<alive, kept, mem, owner, list>>
  BY DEF SelfAssign, Present
<1>2. handle'[c] = NoHandle /\ \A e \in Conns \ {c} : handle'[e] = handle[e]
  BY <1>1 DEF SelfAssign, TypeOK
<1>3. alive \subseteq Conns
  BY DEF TypeOK
<1>4. CASE UNCHANGED <<reg, smem>>
  <2>1. \A e \in Conns \ alive : handle'[e] = NoHandle
    BY <1>1, <1>2 DEF HandlesInv, Blank
  <2>2. Blank'
    BY <1>1, <1>4, <2>1 DEF HandlesInv, Blank, EmptyReg
  <2>3. UsableStmts' /\ ListExact'
    BY <1>1, <1>4 DEF HandlesInv, ListExact, UsableStmts, Linked, Registered
  <2>4. OwnedOnce' /\ FreedIsFirst' /\ LinkedAreRegistered'
    BY <1>1, <1>2, <1>3, <1>4 DEF HandlesInv, OwnedOnce, FreedIsFirst, LinkedAreRegistered, Registered
  <2> QED BY <2>2, <2>3, <2>4 DEF HandlesInv
<1>5. CASE reg' = [reg EXCEPT ![c] = EmptyReg] /\ smem' = Release(Registered(reg[c]))
  <2>1. reg'[c] = EmptyReg /\ \A e \in Conns \ {c} : reg'[e] = reg[e]
    BY <1>5 DEF TypeOK
  <2>2. /\ \A s \in Stmts : smem'[s] \in {smem[s], "freed"}
        /\ \A s \in Stmts : smem'[s] # smem[s] => s \in Registered(reg[c])
        /\ \A s \in kept : smem'[s] = "live"
        /\ \A e \in alive \ {c} : \A s \in Registered(reg[e]) : smem'[s] = "live"
    BY <1>1, <1>5, ReleaseFacts
  <2>a. OwnedOnce' /\ ListExact'
    BY <1>1, <1>2, <1>3 DEF HandlesInv, OwnedOnce, ListExact, Linked
  <2>b. UsableStmts'
    <3>1. \A s \in Stmts : smem'[s] = "live" /\ owner[s] # NoHandle => mem[owner[s]] = "open"
      BY <2>2 DEF HandlesInv, UsableStmts
    <3>2. \A e \in alive : Registered(reg'[e]) = IF e = c THEN {} ELSE Registered(reg[e])
      BY <1>1, <1>3, <2>1, EmptyRegistered
    <3>3. \A e \in alive : \A s \in Registered(reg'[e]) :
            smem'[s] = "live" /\ \A f \in alive \ {e} : s \notin Registered(reg'[f])
      BY <2>2, <3>2 DEF HandlesInv, UsableStmts
    <3> QED BY <1>1, <2>2, <3>1, <3>3 DEF UsableStmts, Registered
  <2>c. FreedIsFirst'
    <3> SUFFICES ASSUME NEW e \in alive, handle'[e] # NoHandle, NEW i \in DOMAIN list[handle'[e]],
                        smem'[list[handle'[e]][i]] = "freed"
                 PROVE  i = 1
      BY <1>1 DEF FreedIsFirst
    <3>1. e \in alive \ {c} /\ handle'[e] = handle[e]
      BY <1>2, <1>3
    <3> QED BY <1>1, <1>5, <3>1, FreedElsewhere
  <2>d. Blank'
    <3>1. \A e \in Conns \ alive : handle'[e] = NoHandle /\ reg'[e] = [n \in Names |-> NoStmt]
      BY <1>1, <1>2, <2>1 DEF HandlesInv, Blank, EmptyReg
    <3>2. \A s \in Stmts : smem'[s] = "unused" => owner[s] = NoHandle
      BY <2>2 DEF HandlesInv, Blank
    <3> QED BY <1>1, <3>1, <3>2 DEF Blank, EmptyReg
  <2>e. LinkedAreRegistered'
    BY <1>1, <1>2, <1>3, <2>1, <2>2 DEF HandlesInv, LinkedAreRegistered, Registered
  <2> QED BY <2>a, <2>b, <2>c, <2>d, <2>e DEF HandlesInv
<1> QED BY <1>4, <1>5 DEF SelfAssign

-----------------------------------------------------------------------------
(* Calls that clear the list of a handle.                                  *)

LEMMA InvalidateFacts ==
  ASSUME TypeOK, HandlesInv, NEW h \in Handles, Invalidate(h)
  PROVE  /\ list'[h] = <<>> /\ \A k \in Handles \ {h} : list'[k] = list[k]
         /\ \A s \in Stmts : owner'[s] = IF owner[s] = h THEN NoHandle ELSE owner[s]
         /\ \A k \in Handles : Linked(k)' = {s \in Stmts : owner'[s] = k}
<1>1. list'[h] = <<>> /\ \A k \in Handles \ {h} : list'[k] = list[k]
  BY DEF Invalidate, TypeOK
<1>2. \A s \in Stmts : owner'[s] = IF owner[s] = h THEN NoHandle ELSE owner[s]
  BY DEF Invalidate, HandlesInv, ListExact
<1>3. Linked(h)' = {}
  BY <1>1 DEF Linked
<1>4. ASSUME NEW k \in Handles PROVE Linked(k)' = {s \in Stmts : owner'[s] = k}
  <2>1. CASE k = h
    BY <1>2, <1>3, <2>1, HandlesAssumption
  <2>2. CASE k # h
    <3>1. Linked(k)' = Linked(k)
      BY <1>1, <2>2 DEF Linked
    <3>2. \A s \in Stmts : owner'[s] = k <=> owner[s] = k
      BY <1>2, <2>2, HandlesAssumption
    <3> QED BY <3>1, <3>2 DEF HandlesInv, ListExact
  <2> QED BY <2>1, <2>2
<1> QED BY <1>1, <1>2, <1>4

LEMMA InvReset ==
  ASSUME TypeOK, HandlesInv, NEW h \in Handles, Invalidate(h), UNCHANGED <<conns, mem, smem>>
  PROVE  HandlesInv'
<1>1. UNCHANGED <<alive, handle, reg, kept, mem, smem>>
  BY DEF conns
<1>2. /\ list'[h] = <<>> /\ \A k \in Handles \ {h} : list'[k] = list[k]
      /\ \A s \in Stmts : owner'[s] = IF owner[s] = h THEN NoHandle ELSE owner[s]
      /\ \A k \in Handles : Linked(k)' = {s \in Stmts : owner'[s] = k}
  BY InvalidateFacts
<1>a. OwnedOnce' /\ Blank'
  BY <1>1, <1>2 DEF HandlesInv, OwnedOnce, Blank, EmptyReg
<1>b. ListExact'
  BY <1>1, <1>2 DEF HandlesInv, ListExact
<1>c. UsableStmts'
  BY <1>1, <1>2 DEF HandlesInv, UsableStmts, Registered
<1>d. FreedIsFirst'
  BY <1>1, <1>2 DEF TypeOK, HandlesInv, FreedIsFirst
<1>e. LinkedAreRegistered'
  BY <1>1, <1>2 DEF HandlesInv, LinkedAreRegistered, Registered
<1> QED BY <1>a, <1>b, <1>c, <1>d, <1>e DEF HandlesInv

LEMMA InvClose ==
  ASSUME TypeOK, HandlesInv, NEW c \in alive, handle[c] # NoHandle, CloseHandle(handle[c]),
         handle' = [handle EXCEPT ![c] = NoHandle], UNCHANGED <<alive, reg, kept, smem>>
  PROVE  HandlesInv'
<1> DEFINE h == handle[c]
<1>1. c \in Conns /\ h \in Handles /\ Invalidate(h) /\ mem' = [mem EXCEPT ![h] = "freed"] /\ alive \subseteq Conns
  BY DEF TypeOK, CloseHandle
<1>2. /\ list'[h] = <<>> /\ \A k \in Handles \ {h} : list'[k] = list[k]
      /\ \A s \in Stmts : owner'[s] = IF owner[s] = h THEN NoHandle ELSE owner[s]
      /\ \A k \in Handles : Linked(k)' = {s \in Stmts : owner'[s] = k}
  BY <1>1, InvalidateFacts
<1>3. handle'[c] = NoHandle /\ \A d \in Conns \ {c} : handle'[d] = handle[d]
  BY <1>1 DEF TypeOK
<1>4. mem'[h] = "freed" /\ \A k \in Handles \ {h} : mem'[k] = mem[k]
  BY <1>1 DEF TypeOK
<1>5. \A d \in alive \ {c} : handle[d] # NoHandle => handle[d] \in Handles \ {h} /\ mem[handle[d]] = "open"
  BY <1>1 DEF TypeOK, HandlesInv, OwnedOnce
<1>a. OwnedOnce'
  BY <1>1, <1>3, <1>4, <1>5 DEF HandlesInv, OwnedOnce
<1>b. ListExact'
  BY <1>2, <1>4 DEF HandlesInv, ListExact
<1>c. UsableStmts'
  <2>1. \A s \in Stmts : smem[s] = "live" /\ owner'[s] # NoHandle => mem'[owner'[s]] = "open"
    BY <1>2, <1>4 DEF TypeOK, HandlesInv, UsableStmts
  <2> QED BY <2>1 DEF HandlesInv, UsableStmts, Registered
<1>d. FreedIsFirst'
  BY <1>1, <1>2, <1>3, <1>5 DEF HandlesInv, FreedIsFirst
<1>e. Blank'
  BY <1>1, <1>2, <1>3 DEF HandlesInv, Blank, EmptyReg
<1>f. LinkedAreRegistered'
  BY <1>1, <1>2, <1>3, <1>5 DEF HandlesInv, LinkedAreRegistered, Registered
<1> QED BY <1>a, <1>b, <1>c, <1>d, <1>e, <1>f DEF HandlesInv

LEMMA InvDestroy ==
  ASSUME TypeOK, HandlesInv, NEW c \in alive, UNCHANGED kept,
         IF handle[c] = NoHandle THEN UNCHANGED <<mem, owner, list>> ELSE CloseHandle(handle[c]),
         smem' = Release(Registered(reg[c])), alive' = alive \ {c},
         handle' = [handle EXCEPT ![c] = NoHandle], reg' = [reg EXCEPT ![c] = EmptyReg]
  PROVE  HandlesInv'
<1> DEFINE h == handle[c]
<1>1. c \in Conns /\ alive \subseteq Conns /\ h \in Handles \cup {NoHandle}
  BY DEF TypeOK
<1>2. /\ \A k \in Handles \ {h} : list'[k] = list[k] /\ mem'[k] = mem[k]
      /\ h \in Handles => list'[h] = <<>>
      /\ \A s \in Stmts : owner'[s] = IF owner[s] = h THEN NoHandle ELSE owner[s]
      /\ \A k \in Handles : Linked(k)' = {s \in Stmts : owner'[s] = k}
  <2>1. CASE h = NoHandle
    <3>1. UNCHANGED <<mem, owner, list>>
      BY <2>1
    <3> QED BY <2>1, <3>1, HandlesAssumption DEF HandlesInv, ListExact, Linked
  <2>2. CASE h # NoHandle
    <3>1. h \in Handles /\ Invalidate(h) /\ mem' = [mem EXCEPT ![h] = "freed"]
      BY <1>1, <2>2 DEF CloseHandle
    <3>2. \A k \in Handles \ {h} : mem'[k] = mem[k]
      BY <3>1 DEF TypeOK
    <3> QED BY <3>1, <3>2, InvalidateFacts
  <2> QED BY <2>1, <2>2
<1>3. /\ handle'[c] = NoHandle /\ reg'[c] = EmptyReg
      /\ \A d \in Conns \ {c} : handle'[d] = handle[d] /\ reg'[d] = reg[d]
  BY <1>1 DEF TypeOK
<1>4. \A d \in alive' : d \in alive \ {c} /\ d \in Conns
  BY <1>1
<1>5. \A d \in alive \ {c} : handle[d] # NoHandle => handle[d] \in Handles \ {h} /\ mem[handle[d]] = "open"
  BY <1>1 DEF TypeOK, HandlesInv, OwnedOnce
<1>6. /\ \A s \in Stmts : smem'[s] \in {smem[s], "freed"}
      /\ \A s \in kept : smem'[s] = "live"
      /\ \A d \in alive \ {c} : \A s \in Registered(reg[d]) : smem'[s] = "live"
  BY ReleaseFacts
<1>a. OwnedOnce'
  BY <1>2, <1>3, <1>4, <1>5 DEF HandlesInv, OwnedOnce
<1>b. ListExact'
  <2>1. ASSUME NEW k \in Handles, mem'[k] # "open" PROVE list'[k] = <<>>
    BY <1>2, <2>1 DEF HandlesInv, ListExact
  <2> QED BY <1>2, <2>1 DEF ListExact
<1>c. UsableStmts'
  <2>1. \A s \in Stmts : smem'[s] = "live" /\ owner'[s] # NoHandle => mem'[owner'[s]] = "open"
    <3> SUFFICES ASSUME NEW s \in Stmts, smem'[s] = "live", owner'[s] # NoHandle
                 PROVE  mem'[owner'[s]] = "open"
      OBVIOUS
    <3>1. smem[s] = "live" /\ owner'[s] = owner[s] /\ owner[s] # h
      BY <1>2, <1>6
    <3>2. owner[s] \in Handles \ {h} /\ mem[owner[s]] = "open"
      BY <3>1 DEF TypeOK, HandlesInv, UsableStmts
    <3> QED BY <1>2, <3>1, <3>2
  <2>2. \A d \in alive' : \A s \in Registered(reg'[d]) :
          smem'[s] = "live" /\ \A e \in alive' \ {d} : s \notin Registered(reg'[e])
    BY <1>3, <1>4, <1>6 DEF HandlesInv, UsableStmts
  <2> QED BY <1>6, <2>1, <2>2 DEF UsableStmts, Registered
<1>d. FreedIsFirst'
  <2> SUFFICES ASSUME NEW d \in alive \ {c}, handle[d] # NoHandle, NEW i \in DOMAIN list[handle[d]],
                      smem'[list[handle[d]][i]] = "freed"
               PROVE  i = 1
    BY <1>2, <1>3, <1>4, <1>5 DEF FreedIsFirst
  <2> QED BY FreedElsewhere
<1>e. Blank'
  <2>1. \A d \in Conns \ alive' : handle'[d] = NoHandle /\ reg'[d] = [n \in Names |-> NoStmt]
    BY <1>3 DEF HandlesInv, Blank, EmptyReg
  <2>2. \A s \in Stmts : smem'[s] = "unused" => owner'[s] = NoHandle
    BY <1>2, <1>6 DEF HandlesInv, Blank
  <2> QED BY <2>1, <2>2 DEF Blank, EmptyReg
<1>f. LinkedAreRegistered'
  <2> SUFFICES ASSUME NEW d \in alive \ {c}, handle[d] # NoHandle, NEW s \in Stmts,
                      smem'[s] = "live", owner'[s] = handle[d]
               PROVE  s \in Registered(reg[d])
    BY <1>3, <1>4 DEF LinkedAreRegistered, Registered
  <2>1. owner[s] = handle[d] /\ smem[s] = "live"
    BY <1>2, <1>6
  <2> QED BY <2>1 DEF HandlesInv, LinkedAreRegistered
<1> QED BY <1>a, <1>b, <1>c, <1>d, <1>e, <1>f DEF HandlesInv

-----------------------------------------------------------------------------
LEMMA InvPrepare ==
  ASSUME TypeOK, HandlesInv, NEW c \in Conns, NEW n \in Names, Prepare(c, n), ~LinkFaults(handle[c])
  PROVE  HandlesInv'
<1>0. PICK h \in Handles : h = handle[c]
  BY DEF Prepare, Usable, Present, TypeOK
<1>1. c \in alive /\ h = handle[c] /\ mem[h] = "open" /\ alive \subseteq Conns
  BY <1>0, HandlesAssumption DEF Prepare, Usable, Present, TypeOK, HandlesInv, OwnedOnce
<1>2. PICK s \in Stmts, prepares \in BOOLEAN :
        LET r == IF prepares THEN Insert(reg[c], n, s) ELSE reg[c]
        IN  /\ smem[s] = "unused"
            /\ owner' = [owner EXCEPT ![s] = h]
            /\ list' = [list EXCEPT ![h] = <<s>> \o @]
            /\ reg' = [reg EXCEPT ![c] = r]
            /\ smem' = [Release(Registered(reg[c]) \ Registered(r))
                          EXCEPT ![s] = IF s \in Registered(r) THEN "live" ELSE "freed"]
            /\ UNCHANGED <<alive, handle, kept, mem, crashed>>
  BY <1>0 DEF Prepare
<1> DEFINE r == IF prepares THEN Insert(reg[c], n, s) ELSE reg[c]
<1>3. UNCHANGED <<alive, handle, kept, mem>>
  BY <1>2
<1>4. /\ reg'[c] = r /\ \A d \in Conns \ {c} : reg'[d] = reg[d]
      /\ Registered(reg[c]) \subseteq Registered(r) /\ Registered(r) \subseteq Registered(reg[c]) \cup {s}
  <2>1. reg' = [reg EXCEPT ![c] = r] /\ reg[c] \in [Names -> Stmts \cup {NoStmt}]
    BY <1>2 DEF TypeOK
  <2>2. Registered(reg[c]) \subseteq Registered(r) /\ Registered(r) \subseteq Registered(reg[c]) \cup {s}
    BY <2>1, InsertKeeps
  <2> QED BY <2>1, <2>2 DEF TypeOK
<1>5. /\ smem'[s] = IF s \in Registered(r) THEN "live" ELSE "freed"
      /\ \A t \in Stmts \ {s} : smem'[t] = smem[t]
  BY <1>2, <1>4 DEF Release
<1>6. owner'[s] = h /\ \A t \in Stmts \ {s} : owner'[t] = owner[t]
  BY <1>2 DEF TypeOK
<1>7. list'[h] = <<s>> \o list[h] /\ \A k \in Handles \ {h} : list'[k] = list[k]
  BY <1>1, <1>2 DEF TypeOK
<1>8. /\ Linked(h)' = {s} \cup Linked(h) /\ \A k \in Handles \ {h} : Linked(k)' = Linked(k)
      /\ \A i \in DOMAIN list'[h] : i # 1 => i - 1 \in DOMAIN list[h] /\ list'[h][i] = list[h][i - 1]
  <2>1. list[h] \in Seq(Stmts)
    BY <1>1 DEF TypeOK
  <2> DEFINE p == <<s>> \o list[h]
  <2>0. /\ {p[i] : i \in DOMAIN p} = {s} \cup {list[h][i] : i \in DOMAIN list[h]}
        /\ \A i \in DOMAIN p : i # 1 => i - 1 \in DOMAIN list[h] /\ p[i] = list[h][i - 1]
    BY <2>1, PushLinked
  <2>2. /\ {list'[h][i] : i \in DOMAIN list'[h]} = {s} \cup {list[h][i] : i \in DOMAIN list[h]}
        /\ \A i \in DOMAIN list'[h] : i # 1 => i - 1 \in DOMAIN list[h] /\ list'[h][i] = list[h][i - 1]
    <3> HIDE DEF p
    <3>1. list'[h] = p
      BY <1>7 DEF p
    <3> QED BY <2>0, <3>1, Zenon
  <2>3. \A k \in Handles \ {h} : Linked(k)' = Linked(k)
    BY <1>7 DEF Linked
  <2>4. Linked(h)' = {s} \cup Linked(h)
    BY <2>2 DEF Linked
  <2> QED BY <2>2, <2>3, <2>4
<1>9. /\ s \notin kept /\ owner[s] = NoHandle
      /\ \A d \in alive : s \notin Registered(reg[d])
  BY <1>2 DEF HandlesInv, UsableStmts, Blank
<1>a. OwnedOnce' /\ Blank'
  <2>1. OwnedOnce'
    BY <1>3 DEF HandlesInv, OwnedOnce
  <2>2. \A d \in Conns \ alive' : handle'[d] = NoHandle /\ reg'[d] = [m \in Names |-> NoStmt]
    BY <1>1, <1>3, <1>4 DEF HandlesInv, Blank, EmptyReg
  <2>3. \A t \in Stmts : smem'[t] = "unused" => owner'[t] = NoHandle
    BY <1>5, <1>6 DEF HandlesInv, Blank
  <2> QED BY <2>1, <2>2, <2>3 DEF Blank, EmptyReg
<1>b. ListExact'
  <2>1. \A k \in Handles : Linked(k)' = {t \in Stmts : owner'[t] = k}
    <3>1. Linked(h)' = {t \in Stmts : owner'[t] = h}
      BY <1>1, <1>6, <1>8 DEF HandlesInv, ListExact
    <3>2. ASSUME NEW k \in Handles \ {h} PROVE Linked(k)' = {t \in Stmts : owner'[t] = k}
      <4>1. \A t \in Stmts : owner'[t] = k <=> owner[t] = k
        BY <1>6, <1>9, HandlesAssumption
      <4>2. Linked(k)' = Linked(k) /\ Linked(k) = {t \in Stmts : owner[t] = k}
        BY <1>8 DEF HandlesInv, ListExact
      <4> QED BY <4>1, <4>2
    <3> QED BY <3>1, <3>2
  <2>2. \A k \in Handles : mem'[k] # "open" => list'[k] = <<>>
    BY <1>1, <1>3, <1>7 DEF HandlesInv, ListExact
  <2> QED BY <2>1, <2>2 DEF ListExact
<1>c. UsableStmts'
  <2>1. \A t \in Stmts : smem'[t] = "live" /\ owner'[t] # NoHandle => mem'[owner'[t]] = "open"
    BY <1>1, <1>3, <1>5, <1>6 DEF HandlesInv, UsableStmts
  <2>2. \A t \in kept' : smem'[t] = "live"
    BY <1>3, <1>5, <1>9 DEF TypeOK, HandlesInv, UsableStmts
  <2>3. \A d \in alive : Registered(reg'[d]) = IF d = c THEN Registered(r) ELSE Registered(reg[d])
    BY <1>1, <1>4
  <2>4. \A d \in alive : \A t \in Registered(reg'[d]) : smem'[t] = "live"
    <3> SUFFICES ASSUME NEW d \in alive, NEW t \in Registered(reg'[d]) PROVE smem'[t] = "live"
      OBVIOUS
    <3>1. CASE t = s
      BY <1>5, <1>9, <2>3, <3>1
    <3>2. CASE t # s
      <4>1. t \in Registered(reg[d])
        BY <1>4, <2>3, <3>2
      <4> QED BY <1>5, <3>2, <4>1 DEF TypeOK, Registered, HandlesInv, UsableStmts
    <3> QED BY <3>1, <3>2
  <2>5. \A d \in alive : \A t \in Registered(reg'[d]) : \A e \in alive \ {d} : t \notin Registered(reg'[e])
    BY <1>4, <1>9, <2>3 DEF HandlesInv, UsableStmts
  <2> QED BY <1>3, <2>1, <2>2, <2>4, <2>5 DEF UsableStmts, Registered
<1>d. FreedIsFirst'
  <2> SUFFICES ASSUME NEW d \in alive, handle[d] # NoHandle, NEW i \in DOMAIN list'[handle[d]],
                      smem'[list'[handle[d]][i]] = "freed", i # 1
               PROVE  FALSE
    BY <1>3 DEF FreedIsFirst
  <2>1. CASE d = c
    <3>1. i - 1 \in DOMAIN list[h] /\ list'[h][i] = list[h][i - 1] /\ list[h] \in Seq(Stmts)
      BY <1>1, <1>8, <2>1 DEF TypeOK
    <3>2. list[h][i - 1] \in Linked(h) /\ list[h][i - 1] \in Stmts
      BY <3>1 DEF Linked
    <3>3. list[h][i - 1] # s
      BY <1>1, <1>9, <3>2, HandlesAssumption DEF HandlesInv, ListExact
    <3>4. smem[list[h][i - 1]] = "freed"
      BY <1>1, <1>5, <2>1, <3>1, <3>2, <3>3
    <3>5. i - 1 = 1
      BY <1>1, <3>1, <3>4 DEF HandlesInv, FreedIsFirst
    <3>6. list[h] # <<>> /\ Head(list[h]) = list[h][1]
      BY <3>1, <3>5
    <3> QED BY <1>1, <3>4, <3>5, <3>6 DEF LinkFaults
  <2>2. CASE d # c
    <3>1. handle[d] \in Handles \ {h} /\ list'[handle[d]] = list[handle[d]]
      <4>1. handle[d] # h /\ handle[d] \in Handles
        BY <1>1, <2>2 DEF TypeOK, HandlesInv, OwnedOnce
      <4> QED BY <1>7, <4>1
    <3>2. list[handle[d]][i] \in Linked(handle[d]) /\ list[handle[d]][i] \in Stmts
      BY <3>1 DEF TypeOK, Linked
    <3>3. list[handle[d]][i] # s
      BY <1>9, <3>1, <3>2, HandlesAssumption DEF HandlesInv, ListExact
    <3> QED BY <1>5, <3>1, <3>2, <3>3 DEF HandlesInv, FreedIsFirst
  <2> QED BY <2>1, <2>2
<1>e. LinkedAreRegistered'
  <2> SUFFICES ASSUME NEW d \in alive, handle[d] # NoHandle, NEW t \in Stmts,
                      smem'[t] = "live", owner'[t] = handle[d]
               PROVE  t \in Registered(reg'[d])
    BY <1>3 DEF LinkedAreRegistered, Registered
  <2>1. CASE t = s
    <3>1. d = c
      BY <1>1, <1>6, <2>1 DEF HandlesInv, OwnedOnce
    <3> QED BY <1>4, <1>5, <2>1, <3>1
  <2>2. CASE t # s
    <3>1. t \in Registered(reg[d]) /\ d \in Conns
      BY <1>1, <1>5, <1>6, <2>2 DEF HandlesInv, LinkedAreRegistered
    <3>2. CASE d = c
      BY <1>4, <3>1, <3>2
    <3>3. CASE d # c
      BY <1>4, <3>1, <3>3
    <3> QED BY <3>2, <3>3
  <2> QED BY <2>1, <2>2
<1> QED BY <1>a, <1>b, <1>c, <1>d, <1>e DEF HandlesInv

-----------------------------------------------------------------------------
LEMMA InvStep == TypeOK /\ HandlesInv /\ [Next]_vars => HandlesInv'
<1> SUFFICES ASSUME TypeOK, HandlesInv, [Next]_vars PROVE HandlesInv'
  OBVIOUS
<1>f. ASSUME Fault PROVE HandlesInv'
  BY <1>f, InvSame DEF Fault
<1>1. ASSUME NEW c \in Conns, Construct(c) \/ ConstructThrows(c) PROVE HandlesInv'
  BY <1>1, InvConstruct
<1>2. ASSUME NEW c \in Conns, SelfAssign(c) PROVE HandlesInv'
  BY <1>2, InvSelfAssign
<1>3. ASSUME NEW c \in Conns, NEW d \in Conns, MoveConstruct(c, d) \/ MoveAssign(c, d)
      PROVE  HandlesInv'
  BY <1>3, InvMoveConstruct, InvMoveAssign
<1>4. ASSUME NEW c \in Conns, Destroy(c) PROVE HandlesInv'
  BY <1>4, <1>f, InvDestroy DEF Destroy, Present
<1>5. ASSUME NEW c \in Conns, Close(c) PROVE HandlesInv'
  BY <1>5, <1>f, InvClose DEF Close, Usable, Present
<1>6. ASSUME NEW c \in Conns, Reset(c) PROVE HandlesInv'
  BY <1>6, <1>f, InvReset DEF Reset, Usable, TypeOK
<1>7. ASSUME NEW c \in Conns, Reconnect(c) PROVE HandlesInv'
  BY <1>7, <1>f, InvSame DEF Reconnect, vars, conns, heap
<1>8. ASSUME NEW c \in Conns, NEW n \in Names, Prepare(c, n) PROVE HandlesInv'
  <2>1. CASE LinkFaults(handle[c])
    BY <1>8, <1>f, <2>1 DEF Prepare
  <2> QED BY <1>8, <2>1, InvPrepare
<1>9. CASE (\E c \in Conns, n \in Names : Keep(c, n)) \/ \E s \in Stmts : Drop(s)
  BY <1>9, InvKeepDrop
<1>10. CASE UNCHANGED vars
  BY <1>10, InvSame DEF vars, conns, heap
<1> QED BY <1>1, <1>2, <1>3, <1>4, <1>5, <1>6, <1>7, <1>8, <1>9, <1>10 DEF Next

\* The invariant that ties Connection objects, handles, statements and lists
\* together holds through every sequence of calls.
THEOREM Ownership == Spec => []HandlesInv
BY InvInit, InvStep, HandleTypes, PTL DEF Spec

\* No handle is owned twice, closed twice or used after it has been closed.
THEOREM HandlesOwnedOnce == Spec => []OwnedOnce
BY Ownership, PTL DEF HandlesInv

\* The list of a handle has the statements that point to it, and no others.
THEOREM ListsExact == Spec => []ListExact
BY Ownership, PTL DEF HandlesInv

\* A statement that can be executed is in memory and points to an open handle
\* or to none.
THEOREM StmtsUsable == Spec => []UsableStmts
BY Ownership, PTL DEF HandlesInv

\* In the list of a connection only the statement added last can be freed.
THEOREM OnlyFirstFreed == Spec => []FreedIsFirst
BY Ownership, PTL DEF HandlesInv
=============================================================================
