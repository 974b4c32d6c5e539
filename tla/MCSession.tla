----------------------------- MODULE MCSession -----------------------------
(* Statements, bounds and symmetry for the model checking of Session.        *)
EXTENDS Refinement, TLC, FiniteSets

\* kw is the leading keyword as the server reads it, sql what SQLite does.
text(kw, returning, sql) == [kw |-> kw, returning |-> returning, sql |-> sql]

Begin      == text("BEGIN", FALSE, "begin")
Commit     == text("COMMIT", FALSE, "commit")
End        == text("END", FALSE, "commit")
Rollback   == text("ROLLBACK", FALSE, "rollback")
Insert     == text("INSERT", FALSE, "write")
InsertRet  == text("INSERT", TRUE, "write")
Select     == text("SELECT", FALSE, "read")
Empty      == text("", FALSE, "empty")
Abort      == text("ABORT", FALSE, "invalid")
Start      == text("START", FALSE, "invalid")
Savepoint  == text("SAVEPOINT", FALSE, "savepoint")
Release    == text("RELEASE", FALSE, "release")
RollbackTo == text("ROLLBACK", FALSE, "rollbackto")
CommitSemi == text("COMMIT;", FALSE, "commit")

\* Verbs as a driver sends them, and all the ways to spell transaction control.
PlainSimple    == {Begin, Commit, End, Rollback, Insert, Select, Empty, Abort, Start}
PlainExtended  == {Insert, InsertRet, Select}
ASSUME PlainAssumption == plainClient(PlainSimple, PlainExtended)

EverySimple    == PlainSimple \cup {InsertRet, Savepoint, Release, RollbackTo, CommitSemi}
TxExtended     == {Begin, Commit, InsertRet}
Block          == {Begin, Commit}
Semicolons     == {Begin, Commit, CommitSemi, Insert}
Returning      == {InsertRet}
Writes         == {InsertRet, Insert}

AllFaults == FaultKinds
NoFaults  == {}

Symmetry == Permutations(Handles) \cup Permutations(Cursors) \cup Permutations(Work)
              \cup Permutations(Params)
=============================================================================
