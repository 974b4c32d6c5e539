---------------------------- MODULE SqliteFile -----------------------------
(***************************************************************************)
(* One SQLite database file and the connections to it, in the mode         *)
(* postlite opens it: rollback journal, go-sqlite3's busy timeout.  The    *)
(* library is not part of the repository: this is its behaviour as         *)
(* server.go uses it.  A connection holds no lock, SHARED, RESERVED (one   *)
(* writer beside the readers) or PENDING (a writer that waits for the      *)
(* readers to leave and lets no new one in); EXCLUSIVE lasts only as long  *)
(* as the commit itself.                                                   *)
(***************************************************************************)
EXTENDS Naturals, FiniteSets

CONSTANTS
    Session,    \* connections, one per session of the server
    Work        \* units of work a statement may write

Locks == {"none", "shared", "reserved", "pending"}

File == [durable : SUBSET Work,                \* committed
         lock    : [Session -> Locks],
         block   : [Session -> BOOLEAN],       \* BEGIN was executed
         pending : [Session -> SUBSET Work]]   \* written, not committed

created == [durable |-> {},
            lock    |-> [s \in Session |-> "none"],
            block   |-> [s \in Session |-> FALSE],
            pending |-> [s \in Session |-> {}]]

others(f, s, locks) == {o \in Session \ {s} : f.lock[o] \in locks}

\* A lock strong enough for reading, for writing.
holds(f, s, lock) ==
    IF lock = "shared" THEN f.lock[s] # "none" ELSE f.lock[s] \in {"reserved", "pending"}

obtainable(f, s, lock) ==
    \/ holds(f, s, lock)
    \/ lock = "shared" /\ others(f, s, {"pending"}) = {}
    \/ lock = "reserved" /\ others(f, s, {"reserved", "pending"}) = {}

raised(f, s, lock) == IF holds(f, s, lock) THEN f ELSE [f EXCEPT !.lock[s] = lock]

\* A statement that ended in autocommit mode, or a transaction, gives up its locks.
left(f, s) == [f EXCEPT !.lock[s] = "none", !.block[s] = FALSE, !.pending[s] = {}]

\* Only a transaction that changed something needs the file for itself.
committable(f, s) == f.pending[s] = {} \/ others(f, s, Locks \ {"none"}) = {}
committed(f, s) == [left(f, s) EXCEPT !.durable = @ \cup f.pending[s]]

\* A statement that failed is undone; its transaction, if any, keeps its locks.
undone(f, s) == IF f.block[s] THEN f ELSE left(f, s)
=============================================================================
