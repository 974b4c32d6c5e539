---------------------------- MODULE SqliteConn -----------------------------
(***************************************************************************)
(* The pinned SQLite connection, as far as a session depends on it.  The   *)
(* library is not part of the repository: this is its behaviour as         *)
(* server.go uses it.  Stored data is a set of units of work; a connection *)
(* is its open transaction, if any, the work pending in it, the work as of *)
(* each open savepoint (innermost last), and what is durable in the file.  *)
(***************************************************************************)
EXTENDS Sequences, Naturals

CONSTANTS
    Work,       \* units of work; a write beyond them changes no row
    MaxSaves,   \* bound on nested savepoints
    Faults      \* how a legal statement may fail, a subset of FaultKinds

\* "error": the statement fails and its own changes are undone (constraint,
\* busy, missing table).  "abort": SQLite also rolls the transaction back
\* (disk full, I/O error, ON CONFLICT ROLLBACK).
FaultKinds == {"error", "abort"}

ASSUME SqliteAssumption == MaxSaves \in Nat /\ Faults \subseteq FaultKinds

Database == [tx      : {"none", "begin", "savepoint"},
             pending : SUBSET Work,
             saves   : Seq(SUBSET Work),
             durable : SUBSET Work]

inTx(d) == d.tx # "none"

\* A fresh connection to the file, also what a rollback leaves.
opened(durable) == [tx |-> "none", pending |-> {}, saves |-> <<>>, durable |-> durable]

rolledBack(d) == opened(d.durable)
committed(d)  == opened(d.durable \cup d.pending)

fresh(d) == Work \ (d.pending \cup d.durable)

\* A write goes to the open transaction or, in autocommit mode, to the file.
written(d, w) ==
    IF inTx(d) THEN [d EXCEPT !.pending = @ \cup {w}]
               ELSE [d EXCEPT !.durable = @ \cup {w}]

\* A savepoint outside a transaction opens one; releasing the outermost
\* savepoint of such a transaction commits it.
saved(d) ==
    [d EXCEPT !.tx = IF inTx(d) THEN @ ELSE "savepoint",
              !.saves = Append(@, d.pending)]

released(d) ==
    IF d.tx = "savepoint" /\ Len(d.saves) = 1
    THEN committed(d)
    ELSE [d EXCEPT !.saves = SubSeq(@, 1, Len(@) - 1)]

\* Rolling back to a savepoint keeps the transaction and the savepoint open.
rewound(d) == [d EXCEPT !.pending = d.saves[Len(d.saves)]]

\* What a statement leaves when it succeeds; {} when SQLite refuses it.
successes(d, sql) ==
    CASE sql = "begin"      -> IF inTx(d) THEN {} ELSE {[d EXCEPT !.tx = "begin"]}
      [] sql = "commit"     -> IF inTx(d) THEN {committed(d)} ELSE {}
      [] sql = "rollback"   -> IF inTx(d) THEN {rolledBack(d)} ELSE {}
      [] sql = "savepoint"  -> {saved(d)}
      [] sql = "release"    -> IF d.saves # <<>> THEN {released(d)} ELSE {}
      [] sql = "rollbackto" -> IF d.saves # <<>> THEN {rewound(d)} ELSE {}
      [] sql = "write"      -> IF fresh(d) = {} THEN {d} ELSE {written(d, w) : w \in fresh(d)}
      [] sql = "read"       -> {d}
      [] OTHER              -> {}

\* What a statement leaves when it fails.  A ROLLBACK that is legal succeeds.
failures(d, sql) ==
    IF successes(d, sql) = {} THEN {d}
    ELSE IF sql = "rollback" THEN {}
    ELSE (IF "error" \in Faults THEN {d} ELSE {})
           \cup (IF "abort" \in Faults /\ inTx(d) THEN {rolledBack(d)} ELSE {})

\* Whether preparing the text may succeed, and may fail (a missing table).
preparing(sql) ==
    IF sql = "invalid" THEN {FALSE}
    ELSE IF "error" \in Faults THEN BOOLEAN ELSE {TRUE}

\* The results of running a statement: whether it succeeds and what it leaves.
run(d, sql) ==
    IF sql = "savepoint" /\ Len(d.saves) >= MaxSaves THEN {}
    ELSE {[ok |-> TRUE, db |-> e] : e \in successes(d, sql)}
           \cup {[ok |-> FALSE, db |-> e] : e \in failures(d, sql)}
=============================================================================
