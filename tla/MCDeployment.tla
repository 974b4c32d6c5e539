---------------------------- MODULE MCDeployment ---------------------------
(***************************************************************************)
(* Instances of Deployment: what clients send.                             *)
(***************************************************************************)
EXTENDS Deployment

one(kw, sql) == [kw |-> kw, returning |-> FALSE, sqls |-> <<sql>>]

BEGIN     == one("BEGIN", "begin")
COMMIT    == one("COMMIT", "commit")
ROLLBACK  == one("ROLLBACK", "rollback")
INSERT    == one("INSERT", "write")
RETURNING == [kw |-> "INSERT", returning |-> TRUE, sqls |-> <<"write">>]
SELECT    == one("SELECT", "read")

\* "BEGIN; INSERT ..." begins with the word "BEGIN;".
SCRIPT == [kw |-> "BEGIN;", returning |-> FALSE, sqls |-> <<"begin", "write">>]

MCTexts == {BEGIN, COMMIT, ROLLBACK, INSERT, RETURNING, SELECT, SCRIPT}
=============================================================================
