------------------------------ MODULE Handles ------------------------------
(***************************************************************************)
(* The objects behind mcxx::Connection: Connection objects, the MYSQL       *)
(* handle each of them owns, the MYSQL_STMT objects that prepare() makes,   *)
(* and the list through which a handle reaches its statements.  A step is   *)
(* a whole call of one thread.                                             *)
(*                                                                         *)
(* Every MYSQL and MYSQL_STMT has an address of its own (Handles, Stmts):   *)
(* memory that has been freed is not handed out again, and touching it is   *)
(* undefined behaviour, after which nothing is modelled (crashed).          *)
(***************************************************************************)
EXTENDS Naturals, Sequences

CONSTANTS
  Conns,      \* Connection objects
  Handles,    \* addresses of MYSQL objects
  Stmts,      \* addresses of MYSQL_STMT objects
  Names,      \* names given to prepare()
  NoHandle, NoStmt      \* NULL

ASSUME HandlesAssumption == NoHandle \notin Handles /\ NoStmt \notin Stmts

VARIABLES
  alive,      \* the Connection objects whose lifetime has begun and not ended
  handle,     \* db_handle
  reg,        \* prepared_statements: the statement under each name
  mem,        \* the memory of each MYSQL: "unused", "open" or "freed"
  smem,       \* the same of each MYSQL_STMT
  owner,      \* stmt->mysql
  list,       \* mysql->stmts, the statement added last first
  kept,       \* statements of which the caller holds a copy of the shared_ptr
  crashed     \* freed memory has been touched

vars == <<alive, handle, reg, mem, smem, owner, list, kept, crashed>>
conns == <<alive, handle, reg, kept>>
heap == <<mem, smem, owner, list>>

EmptyReg == [n \in Names |-> NoStmt]
Registered(r) == {r[n] : n \in Names} \ {NoStmt}
Linked(h) == {list[h][i] : i \in DOMAIN list[h]}
Owned == {handle[c] : c \in alive} \ {NoHandle}

Init ==
  /\ alive = {}
  /\ handle = [c \in Conns |-> NoHandle]
  /\ reg = [c \in Conns |-> EmptyReg]
  /\ mem = [h \in Handles |-> "unused"]
  /\ smem = [s \in Stmts |-> "unused"]
  /\ owner = [s \in Stmts |-> NoHandle]
  /\ list = [h \in Handles |-> <<>>]
  /\ kept = {}
  /\ crashed = FALSE

-----------------------------------------------------------------------------
(* Steps of the connector.                                                 *)

\* calloc of mysql_init, the default member initializer of db_handle.
Allocate(h) == mem[h] = "unused" /\ mem' = [mem EXCEPT ![h] = "open"]

\* The loops over mysql->stmts go through the LIST nodes inside the MYSQL_STMTs.
WalkFaults(h) == \E s \in Linked(h) : smem[s] = "freed"

\* list_add writes to the node at the root.
LinkFaults(h) == list[h] # <<>> /\ smem[Head(list[h])] = "freed"

Fault == crashed' = TRUE /\ UNCHANGED <<conns, heap>>

\* A mutant: the pointers of the statements stay.
InvalidateList(h) == list' = [list EXCEPT ![h] = <<>>] /\ UNCHANGED owner

\* ma_invalidate_stmts: every statement of the list forgets its handle.
Invalidate(h) ==
  /\ owner' = [s \in Stmts |-> IF s \in Linked(h) THEN NoHandle ELSE owner[s]]
  /\ list' = [list EXCEPT ![h] = <<>>]

\* Mutants: a copy does not count; the memory is neither freed nor reachable.
ReleaseAll(gone) == [s \in Stmts |-> IF s \in gone THEN "freed" ELSE smem[s]]
ReleaseLeaks(gone) == [s \in Stmts |-> IF s \in gone THEN "leaked" ELSE smem[s]]

\* A registry lets go of its shared_ptrs.  With the last one goes the memory:
\* the deleter is delete, not mysql_stmt_close, so the node stays in the list.
Release(gone) == [s \in Stmts |-> IF s \in gone \ kept THEN "freed" ELSE smem[s]]

-----------------------------------------------------------------------------
(* Construction, moves, destruction.                                       *)

Present(c) == ~crashed /\ c \in alive
Absent(c) == ~crashed /\ c \notin alive
Usable(c) == Present(c) /\ handle[c] # NoHandle

\* Connection(), and the constructors that connect when they succeed.
Construct(c) ==
  /\ Absent(c)
  /\ \E h \in Handles : Allocate(h) /\ handle' = [handle EXCEPT ![c] = h]
  /\ alive' = alive \cup {c}
  /\ UNCHANGED <<reg, kept, smem, owner, list, crashed>>

\* A constructor that throws: no destructor runs.
ConstructThrows(c) ==
  /\ Absent(c)
  /\ \E h \in Handles : Allocate(h)
  /\ UNCHANGED <<conns, smem, owner, list, crashed>>

\* A mutant: the source keeps its handle.
MovedShared(c, d) ==
  /\ handle' = [handle EXCEPT ![c] = handle[d]]
  /\ reg' = [reg EXCEPT ![c] = reg[d], ![d] = EmptyReg]

\* What is left of an object that has been moved from.
Moved(c, d) ==
  /\ handle' = [handle EXCEPT ![c] = handle[d], ![d] = NoHandle]
  /\ reg' = [reg EXCEPT ![c] = reg[d], ![d] = EmptyReg]

\* The move constructor: the default member initializer makes a handle, which
\* the body overwrites.
MoveConstruct(c, d) ==
  /\ Absent(c) /\ Present(d)
  /\ \E h \in Handles : Allocate(h)
  /\ alive' = alive \cup {c}
  /\ Moved(c, d)
  /\ UNCHANGED <<kept, smem, owner, list, crashed>>

\* operator=: the handle of the target is not closed, its statements are freed.
MoveAssign(c, d) ==
  /\ c # d /\ Present(c) /\ Present(d)
  /\ Moved(c, d)
  /\ smem' = Release(Registered(reg[c]))
  /\ UNCHANGED <<alive, kept, mem, owner, list, crashed>>

\* operator= from itself: the handle goes; what a container keeps of itself is
\* unspecified, all or nothing.
SelfAssign(c) ==
  /\ Present(c)
  /\ handle' = [handle EXCEPT ![c] = NoHandle]
  /\ \/ UNCHANGED <<reg, smem>>
     \/ reg' = [reg EXCEPT ![c] = EmptyReg] /\ smem' = Release(Registered(reg[c]))
  /\ UNCHANGED <<alive, kept, mem, owner, list, crashed>>

\* mysql_close.
CloseHandle(h) == mem' = [mem EXCEPT ![h] = "freed"] /\ Invalidate(h)

\* ~Connection: the handle is closed first, the members go after.
Destroy(c) ==
  /\ Present(c)
  /\ IF handle[c] # NoHandle /\ WalkFaults(handle[c])
       THEN Fault
       ELSE /\ IF handle[c] = NoHandle THEN UNCHANGED <<mem, owner, list>>
                                       ELSE CloseHandle(handle[c])
            /\ smem' = Release(Registered(reg[c]))
            /\ alive' = alive \ {c}
            /\ handle' = [handle EXCEPT ![c] = NoHandle]
            /\ reg' = [reg EXCEPT ![c] = EmptyReg]
            /\ UNCHANGED <<kept, crashed>>

-----------------------------------------------------------------------------
(* Calls on a connection that has a handle.                                *)

\* close(): the registry stays.
Close(c) ==
  /\ Usable(c)
  /\ IF WalkFaults(handle[c])
       THEN Fault
       ELSE /\ CloseHandle(handle[c])
            /\ handle' = [handle EXCEPT ![c] = NoHandle]
            /\ UNCHANGED <<alive, reg, kept, smem, crashed>>

\* reset(), when the server agrees.
Reset(c) ==
  /\ Usable(c)
  /\ IF WalkFaults(handle[c])
       THEN Fault
       ELSE Invalidate(handle[c]) /\ UNCHANGED <<conns, mem, smem, crashed>>

\* A reconnection, called for or automatic, with MYSQL_OPT_RECONNECT: the
\* states of the statements are changed, and the list is moved to a temporary
\* handle and back.
Reconnect(c) ==
  /\ Usable(c)
  /\ IF WalkFaults(handle[c]) THEN Fault ELSE UNCHANGED vars

\* A mutant: insert_or_assign.
InsertOrAssign(r, n, s) == [r EXCEPT ![n] = s]

\* What prepare() leaves in the registry: insert does not replace.
Insert(r, n, s) == IF r[n] = NoStmt THEN [r EXCEPT ![n] = s] ELSE r

\* prepare(): the statement is linked before its SQL is sent; when that fails,
\* or the name is taken, the shared_ptr made for it is the last one.
Prepare(c, n) ==
  LET h == handle[c]
  IN  /\ Usable(c)
      /\ IF LinkFaults(h)
           THEN Fault
           ELSE \E s \in Stmts, prepares \in BOOLEAN :
                  LET r == IF prepares THEN Insert(reg[c], n, s) ELSE reg[c]
                  IN  /\ smem[s] = "unused"
                      /\ owner' = [owner EXCEPT ![s] = h]
                      /\ list' = [list EXCEPT ![h] = <<s>> \o @]
                      /\ reg' = [reg EXCEPT ![c] = r]
                      /\ smem' = [Release(Registered(reg[c]) \ Registered(r))
                                    EXCEPT ![s] = IF s \in Registered(r) THEN "live" ELSE "freed"]
                      /\ UNCHANGED <<alive, handle, kept, mem, crashed>>

\* The caller copies the prepped_stmt that prepped() refers to.
Keep(c, n) ==
  /\ Present(c) /\ reg[c][n] # NoStmt
  /\ kept' = kept \cup {reg[c][n]}
  /\ UNCHANGED <<alive, handle, reg, heap, crashed>>

\* ... and lets the copy go.
Drop(s) ==
  /\ ~crashed /\ s \in kept
  /\ kept' = kept \ {s}
  /\ smem' = IF \E c \in alive : s \in Registered(reg[c]) THEN smem
             ELSE [smem EXCEPT ![s] = "freed"]
  /\ UNCHANGED <<alive, handle, reg, mem, owner, list, crashed>>

-----------------------------------------------------------------------------
Next ==
  \/ \E c \in Conns : \/ Construct(c) \/ ConstructThrows(c) \/ SelfAssign(c) \/ Destroy(c)
                      \/ Close(c) \/ Reset(c) \/ Reconnect(c)
  \/ \E c, d \in Conns : MoveConstruct(c, d) \/ MoveAssign(c, d)
  \/ \E c \in Conns, n \in Names : Prepare(c, n) \/ Keep(c, n)
  \/ \E s \in Stmts : Drop(s)

Spec == Init /\ [][Next]_vars

-----------------------------------------------------------------------------
TypeOK ==
  /\ alive \subseteq Conns
  /\ handle \in [Conns -> Handles \cup {NoHandle}]
  /\ reg \in [Conns -> [Names -> Stmts \cup {NoStmt}]]
  /\ mem \in [Handles -> {"unused", "open", "freed"}]
  /\ smem \in [Stmts -> {"unused", "live", "freed"}]
  /\ owner \in [Stmts -> Handles \cup {NoHandle}]
  /\ list \in [Handles -> Seq(Stmts)]
  /\ kept \subseteq Stmts
  /\ crashed \in BOOLEAN

\* A handle has one owner at most, and is open as long as it has one: through
\* moves, close() and destructors it is closed once and not used afterwards.
OwnedOnce ==
  \A c \in alive : handle[c] # NoHandle =>
    mem[handle[c]] = "open" /\ \A d \in alive \ {c} : handle[d] # handle[c]

\* The pointer from a statement to its handle and the list from the handle to
\* its statements agree, whatever has been freed in between; a handle that is
\* not open has no statements.
ListExact ==
  \A h \in Handles :
    /\ Linked(h) = {s \in Stmts : owner[s] = h}
    /\ mem[h] # "open" => list[h] = <<>>

\* A statement that can still be executed, because it is registered or because
\* the caller has kept a copy, is in memory, is registered once, and points to
\* no handle that has been closed, also after its connection has gone.
UsableStmts ==
  /\ \A c \in alive : \A s \in Registered(reg[c]) :
       smem[s] = "live" /\ \A d \in alive \ {c} : s \notin Registered(reg[d])
  /\ \A s \in kept : smem[s] = "live"
  /\ \A s \in Stmts : smem[s] = "live" /\ owner[s] # NoHandle => mem[owner[s]] = "open"

\* Of the statements in the list of a connection only the one added last can
\* have been freed (a prepare() that failed or whose name was taken): the next
\* prepare() faults on it, and no other call leaves a freed one behind.
FreedIsFirst ==
  \A c \in alive : handle[c] # NoHandle =>
    \A i \in DOMAIN list[handle[c]] : smem[list[handle[c]][i]] = "freed" => i = 1

\* What makes the last three inductive: the statements that still point to the
\* handle of a connection are in its registry, and what is not in use is blank.
Blank ==
  /\ \A c \in Conns \ alive : handle[c] = NoHandle /\ reg[c] = EmptyReg
  /\ \A s \in Stmts : smem[s] = "unused" => owner[s] = NoHandle
LinkedAreRegistered ==
  \A c \in alive : handle[c] # NoHandle =>
    \A s \in Stmts : smem[s] = "live" /\ owner[s] = handle[c] => s \in Registered(reg[c])
HandlesInv ==
  OwnedOnce /\ ListExact /\ UsableStmts /\ FreedIsFirst /\ Blank /\ LinkedAreRegistered

-----------------------------------------------------------------------------
(* What the manual of the connector asks of its callers.                   *)

\* mysql_stmt_init.3, "needs to be freed with mysql_stmt_close": a statement
\* that is freed is in no list.
FreedIsUnlinked == \A h \in Handles : \A s \in Linked(h) : smem[s] # "freed"
=============================================================================
