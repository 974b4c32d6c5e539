------------------------------ MODULE Command ------------------------------
(***************************************************************************)
(* How a session classifies a statement (command.go) and moves its         *)
(* transaction status (server.go).  A statement is a record: the leading   *)
(* keyword as leadingKeyword returns it (the first field of the text,      *)
(* upper-cased, so "COMMIT;" keeps its semicolon), whether the word        *)
(* RETURNING occurs in the text, and what SQLite makes of the text.  The   *)
(* first two are all the server ever looks at; the third is what happens.  *)
(***************************************************************************)

\* What a statement is to SQLite.  "invalid" fails to prepare (START
\* TRANSACTION and ABORT are such: SQLite has neither).  "rollbackto" and
\* "release" name the innermost savepoint.
SqlKinds == {"begin", "commit", "rollback", "savepoint", "release",
             "rollbackto", "write", "read", "empty", "invalid"}

QueryText == [kw : STRING, returning : BOOLEAN, sql : SqlKinds]

TxStatuses == {"I", "T", "E"}

isTxBegin(kw)    == kw \in {"BEGIN", "START"}
isTxCommit(kw)   == kw \in {"COMMIT", "END"}
isTxRollback(kw) == kw \in {"ROLLBACK", "ABORT"}

\* The two tests every failed-block check makes together.
endsBlock(kw) == isTxCommit(kw) \/ isTxRollback(kw)

isRowReturning(q) ==
    \/ q.kw \in {"SELECT", "VALUES", "WITH", "SHOW", "EXPLAIN", "TABLE", "PRAGMA"}
    \/ q.returning

\* Mutant: END is not taken for a COMMIT.
noteCompletedNoEnd(status, kw) ==
    IF isTxBegin(kw) THEN "T" ELSE IF kw \in {"COMMIT", "ROLLBACK"} THEN "I" ELSE status

\* The status after a statement with this keyword completed.
noteCompleted(status, kw) ==
    IF isTxBegin(kw) THEN "T"
    ELSE IF endsBlock(kw) THEN "I"
    ELSE status

\* The status after a query-level error, shared by failSimple and failExtended.
failBlock(status) == IF status = "T" THEN "E" ELSE status
=============================================================================
