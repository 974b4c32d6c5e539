----------------------------- MODULE Refinement ----------------------------
(***************************************************************************)
(* A session as its client sees it.  A failed block has no work left that  *)
(* could become durable, whatever SQLite still holds, and a closed         *)
(* connection is the next one not yet begun.                               *)
(***************************************************************************)
EXTENDS Session

\* A client whose statements are to SQLite what their first word is to the
\* server, that uses no savepoint and sends transaction control in Query
\* messages only.
plainClient(simple, extended) ==
    /\ \A q \in simple :
          /\ q.sql \notin {"savepoint", "release", "rollbackto"}
          /\ q.sql = "begin" => isTxBegin(q.kw)
          /\ q.sql = "commit" => isTxCommit(q.kw)
          /\ q.sql = "rollback" => isTxRollback(q.kw)
          /\ q.sql \in {"begin", "commit", "rollback"} => ~isRowReturning(q)
          /\ isTxBegin(q.kw) => q.sql \in {"begin", "invalid"}
          /\ endsBlock(q.kw) => q.sql \in {"commit", "rollback", "invalid"}
    /\ \A q \in extended :
          /\ q.sql \in {"write", "read", "empty", "invalid"}
          /\ ~isTxBegin(q.kw) /\ ~endsBlock(q.kw)

PlainClient == plainClient(SimpleQueries, ExtendedQueries)

up == phase = "loop"

Client == INSTANCE Backend WITH
    status  <- IF up THEN txStatus ELSE "I",
    block   <- IF up /\ txStatus = "T" THEN db.pending ELSE {},
    durable <- db.durable,
    reply   <- IF up THEN wire ELSE "ready",
    told    <- IF up THEN told ELSE "I"

\* Every behaviour of the session is one the client-visible specification
\* allows: statuses change only as they may, a block's work becomes durable all
\* at once at its COMMIT or never, and nothing is sent between an error and the
\* answer to Sync.
ImplementsBackend == Client!Spec
=============================================================================
