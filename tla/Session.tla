------------------------------ MODULE Session ------------------------------
(***************************************************************************)
(* One client connection of the server: the message loop serveConn and its *)
(* handlers (server.go), after the startup sequence has pinned a SQLite    *)
(* connection to it.  An action is the handling of one message, and the    *)
(* client may send any message at any time.  A reply that cannot be        *)
(* written ends the connection, which ReceiveError stands for.             *)
(*                                                                         *)
(* Beside the Conn's own fields the state holds what a defect would leave  *)
(* behind: the sqlite3_stmt handles not yet finalized and the sql.Rows not *)
(* yet closed, which a pinned connection waits for when it is closed.      *)
(***************************************************************************)
EXTENDS Command, SqliteConn, Functions

CONSTANTS
    StmtNames, PortalNames, \* names a client uses; "" is one of them
    Params,                 \* parameter lists a Bind may carry
    Nulls,                  \* the all-NULL list Describe of a statement binds
    SimpleQueries,          \* statements sent in Query messages
    ExtendedQueries,        \* statements sent in Parse messages
    Handles,                \* pool of sqlite3_stmt handles
    Cursors,                \* pool of sql.Rows
    NoRows                  \* the nil *sql.Rows

ASSUME SessionAssumption ==
    /\ SimpleQueries \subseteq QueryText
    /\ ExtendedQueries \subseteq QueryText
    /\ NoRows \notin Cursors
    /\ Nulls \notin Params

VARIABLES
    phase,         \* "loop" in serveConn, "closed" after Conn.Close, "blocked" in it
    txStatus,      \* Conn.txStatus
    skipUntilSync, \* Conn.skipUntilSync
    stmts,         \* Conn.stmts: name -> prepared statement
    portals,       \* Conn.portals: name -> bound portal
    db,            \* the pinned SQLite connection
    bound,         \* sqlite3_stmt not finalized -> the arguments bound to it
    open,          \* the sql.Rows not closed
    wire,          \* history: last reply was ReadyForQuery, ErrorResponse or another
    told           \* history: the status in the last ReadyForQuery

conn  == <<phase, txStatus, skipUntilSync>>
named == <<stmts, portals, bound, open>>
seen  == <<wire, told>>
vars  == <<conn, named, db, seen>>

Statement == [query : ExtendedQueries, stmt : Handles]

\* A boundPortal.  The last four fields are history: how many runs of the
\* statement completed for this binding, whether one completed with arguments
\* other than params, whether one failed, and whether the client was sent
\* CommandComplete for it.
Portal == [query : ExtendedQueries, stmt : Handles, params : Params,
           executed : BOOLEAN, execErr : BOOLEAN, rows : Cursors \cup {NoRows},
           runs : 0..2, strayed : BOOLEAN, failed : BOOLEAN, acked : BOOLEAN]

TypeOK ==
    /\ phase \in {"loop", "closed", "blocked"}
    /\ txStatus \in TxStatuses
    /\ skipUntilSync \in BOOLEAN
    /\ DOMAIN stmts \subseteq StmtNames /\ stmts \in [DOMAIN stmts -> Statement]
    /\ DOMAIN portals \subseteq PortalNames /\ portals \in [DOMAIN portals -> Portal]
    /\ db \in Database
    /\ DOMAIN bound \subseteq Handles /\ bound \in [DOMAIN bound -> Params \cup {Nulls}]
    /\ open \subseteq Cursors
    /\ wire \in {"ready", "busy", "failed"}
    /\ told \in TxStatuses

\* The maps of a Conn: m[k] = v, and delete(m, k).
Put(m, k, v) == [x \in DOMAIN m \cup {k} |-> IF x = k THEN v ELSE m[x]]
Without(m, k) == Restrict(m, DOMAIN m \ {k})
emptyMap == [x \in {} |-> x]

\* The rows of the portal named p, closed before the name is reused or deleted.
\* Mutant: they are left open.
rowsOfLeaked(p) == {}

rowsOf(p) == IF p \in DOMAIN portals THEN {portals[p].rows} ELSE {}

------------------------------------------------------------------------------
(* Replies.                                                                  *)

ReadyForQuery(status) == wire' = "ready" /\ told' = status

Answer == wire' = "busy" /\ UNCHANGED <<told, skipUntilSync>>

\* Mutant: an error of the extended protocol leaves the block open.
failExtendedKeepsBlock ==
    skipUntilSync' = TRUE /\ wire' = "failed" /\ UNCHANGED <<txStatus, told>>

\* failExtended: the rest of the batch is discarded until Sync.
failExtended ==
    /\ txStatus' = failBlock(txStatus)
    /\ skipUntilSync' = TRUE
    /\ wire' = "failed"
    /\ UNCHANGED told

\* Mutant: COMMIT of a failed block is honoured as such.
rollbackFailedCommits ==
    /\ db' = IF inTx(db) THEN committed(db) ELSE db
    /\ txStatus' = "I"

\* rollbackFailed: ROLLBACK is issued whether or not SQLite still has the
\* transaction, and its error is ignored.
rollbackFailed ==
    /\ db' = IF inTx(db) THEN rolledBack(db) ELSE db
    /\ txStatus' = "I"

\* Mutant: the rest of a failed batch is handled.
receivingAlways == phase = "loop"

\* The guard of every handler but Sync.
receiving == phase = "loop" /\ ~skipUntilSync

------------------------------------------------------------------------------
(* The simple query protocol.                                                *)

QueryEmpty(q) ==
    /\ q.sql = "empty"
    /\ ReadyForQuery(txStatus)
    /\ UNCHANGED <<txStatus, db>>

QueryInFailedBlock(q) ==
    /\ q.sql # "empty" /\ txStatus = "E"
    /\ IF endsBlock(q.kw) THEN rollbackFailed ELSE UNCHANGED <<txStatus, db>>
    /\ ReadyForQuery(txStatus')

execSimpleQuery(q) ==
    /\ q.sql # "empty" /\ txStatus # "E" /\ ~isRowReturning(q)
    /\ \E r \in run(db, q.sql) :
          /\ db' = r.db
          /\ txStatus' = IF r.ok THEN noteCompleted(txStatus, q.kw) ELSE failBlock(txStatus)
    /\ ReadyForQuery(txStatus')

streamSimpleQuery(q) ==
    /\ q.sql # "empty" /\ txStatus # "E" /\ isRowReturning(q)
    /\ \E r \in run(db, q.sql) :
          /\ db' = r.db
          /\ txStatus' = IF r.ok THEN txStatus ELSE failBlock(txStatus)
    /\ ReadyForQuery(txStatus')

handleQueryMessage(q) ==
    /\ receiving
    /\ \/ QueryEmpty(q) \/ QueryInFailedBlock(q)
       \/ execSimpleQuery(q) \/ streamSimpleQuery(q)
    /\ UNCHANGED <<phase, skipUntilSync, named>>

------------------------------------------------------------------------------
(* The extended query protocol.                                              *)

\* A statement object no map or portal refers to.
freshHandle(h) ==
    /\ h \notin DOMAIN bound
    /\ \A p \in DOMAIN portals : portals[p].stmt # h

\* Mutant: a replaced statement is not finalized.
finalizedNever(n) == bound

\* The handles left when the statement named n, if any, is finalized.
finalized(n) == IF n \in DOMAIN stmts THEN Without(bound, stmts[n].stmt) ELSE bound

\* The new statement is prepared before the old one is finalized; a portal
\* bound to the old one keeps its pointer.
handleParseMessage(n, q) ==
    /\ receiving
    /\ \E ok \in preparing(q.sql) :
         IF ok
         THEN \E h \in Handles :
                /\ freshHandle(h)
                /\ bound' = Put(finalized(n), h, Nulls)
                /\ stmts' = Put(stmts, n, [query |-> q, stmt |-> h])
                /\ Answer /\ UNCHANGED txStatus
         ELSE failExtended /\ UNCHANGED <<stmts, bound>>
    /\ UNCHANGED <<phase, portals, open, db>>

newPortal(s, params) ==
    [query |-> s.query, stmt |-> s.stmt, params |-> params,
     executed |-> FALSE, execErr |-> FALSE, rows |-> NoRows,
     runs |-> 0, strayed |-> FALSE, failed |-> FALSE, acked |-> FALSE]

handleBindMessage(n, p, params) ==
    /\ receiving
    /\ IF n \in DOMAIN stmts
       THEN /\ open' = open \ rowsOf(p)
            /\ portals' = Put(portals, p, newPortal(stmts[n], params))
            /\ Answer /\ UNCHANGED txStatus
       ELSE failExtended /\ UNCHANGED <<open, portals>>
    /\ UNCHANGED <<phase, stmts, bound, db>>

\* describeStatement binds NULLs to the shared sqlite3_stmt and resets it.  A name
\* that is unknown and an object type that is neither 'S' nor 'P' fail alike.
describeStatement(n) ==
    /\ receiving
    /\ \/ /\ n \in DOMAIN stmts
          /\ bound' = [bound EXCEPT ![stmts[n].stmt] = Nulls]
          /\ Answer /\ UNCHANGED txStatus
       \/ /\ n \notin DOMAIN stmts \/ "error" \in Faults
          /\ failExtended /\ UNCHANGED bound
    /\ UNCHANGED <<phase, stmts, portals, open, db>>

\* One run of c's statement is over; args are those SQLite had bound.
ran(c, args) ==
    [c EXCEPT !.runs    = IF @ < 2 THEN @ + 1 ELSE 2,
              !.strayed = IF args = c.params THEN @ ELSE TRUE]

failedPortal(c) == [c EXCEPT !.executed = TRUE, !.execErr = TRUE, !.failed = TRUE]

\* A result of boundPortal.execute: whether it succeeds, and the portal,
\* database, bound arguments and open rows it leaves.
result(ok, c, d, args, rows) ==
    [ok |-> ok, portal |-> c, db |-> d, bound |-> args, open |-> rows]

\* The first execution.  A statement that returns rows is bound and not stepped;
\* one that was finalized meanwhile cannot run.
firstExecution(c) ==
    LET start == [c EXCEPT !.executed = TRUE]
        args  == [bound EXCEPT ![c.stmt] = c.params]
        error == {result(FALSE, failedPortal(c), db, bound, open)}
    IN  IF c.stmt \notin DOMAIN bound THEN error
        ELSE IF isRowReturning(c.query)
        THEN {result(TRUE, [start EXCEPT !.rows = r], db, args, open \cup {r}) : r \in Cursors \ open}
               \cup (IF "error" \in Faults THEN error ELSE {})
        ELSE {IF r.ok THEN result(TRUE, ran(start, c.params), r.db, args, open)
                      ELSE result(FALSE, failedPortal(c), r.db, args, open) : r \in run(db, c.query.sql)}

\* Mutant: Execute does not share the execution of Describe.
executeAgain(c) == firstExecution(c)

\* Only the first call does anything.
execute(c) ==
    IF c.executed THEN {result(~c.execErr, c, db, bound, open)} ELSE firstExecution(c)

\* In a failed block a portal is described without being executed.
describePortal(p) ==
    /\ receiving
    /\ \/ /\ p \notin DOMAIN portals
          /\ failExtended /\ UNCHANGED <<portals, bound, open, db>>
       \/ /\ p \in DOMAIN portals /\ txStatus = "E"
          /\ IF endsBlock(portals[p].query.kw) THEN Answer /\ UNCHANGED txStatus ELSE failExtended
          /\ UNCHANGED <<portals, bound, open, db>>
       \/ /\ p \in DOMAIN portals /\ txStatus # "E"
          /\ \E x \in execute(portals[p]) :
               /\ portals' = [portals EXCEPT ![p] = x.portal]
               /\ db' = x.db /\ bound' = x.bound /\ open' = x.open
               /\ IF x.ok THEN Answer /\ UNCHANGED txStatus ELSE failExtended
    /\ UNCHANGED <<phase, stmts>>

\* Streaming the rows of a started portal, then closing them.  Stepping a
\* finalized statement returns no row and no error.  A failure while streaming
\* is not recorded in the portal.
stream(x) ==
    LET c      == x.portal
        closed == [c EXCEPT !.rows = NoRows]
        rest   == x.open \ {c.rows}
    IN  IF c.rows = NoRows \/ ~x.ok THEN {x}
        ELSE IF c.stmt \notin DOMAIN x.bound THEN {result(TRUE, closed, x.db, x.bound, rest)}
        ELSE {IF r.ok THEN result(TRUE, ran(closed, x.bound[c.stmt]), r.db, x.bound, rest)
                      ELSE result(FALSE, [closed EXCEPT !.failed = TRUE], r.db, x.bound, rest)
                : r \in run(x.db, c.query.sql)}

handleExecuteMessage(p) ==
    /\ receiving
    /\ \/ /\ p \notin DOMAIN portals
          /\ failExtended /\ UNCHANGED <<portals, bound, open, db>>
       \/ /\ p \in DOMAIN portals /\ txStatus = "E"
          /\ IF endsBlock(portals[p].query.kw) THEN rollbackFailed /\ Answer
                                               ELSE failExtended /\ UNCHANGED db
          /\ UNCHANGED <<portals, bound, open>>
       \/ /\ p \in DOMAIN portals /\ txStatus # "E"
          /\ \E x \in UNION {stream(s) : s \in execute(portals[p])} :
               /\ portals' = [portals EXCEPT ![p] = [x.portal EXCEPT !.acked = @ \/ x.ok]]
               /\ db' = x.db /\ bound' = x.bound /\ open' = x.open
               /\ IF x.ok THEN txStatus' = noteCompleted(txStatus, portals[p].query.kw) /\ Answer
                          ELSE failExtended
    /\ UNCHANGED <<phase, stmts>>

closeStatement(n) ==
    /\ receiving
    /\ bound' = finalized(n)
    /\ stmts' = Without(stmts, n)
    /\ Answer
    /\ UNCHANGED <<phase, txStatus, portals, open, db>>

closePortal(p) ==
    /\ receiving
    /\ open' = open \ rowsOf(p)
    /\ portals' = Without(portals, p)
    /\ Answer
    /\ UNCHANGED <<phase, txStatus, stmts, bound, db>>

Sync ==
    /\ phase = "loop"
    /\ skipUntilSync' = FALSE
    /\ ReadyForQuery(txStatus)
    /\ UNCHANGED <<phase, txStatus, named, db>>

\* Any message but Sync while discarding, Query and Terminate included; and
\* Flush, which has nothing to flush.
Discard == phase = "loop" /\ skipUntilSync /\ UNCHANGED vars
Flush   == receiving /\ UNCHANGED vars

------------------------------------------------------------------------------
(* The end of a connection and the next one.                                 *)

\* Conn.Close: the rows of the portals, the statements, then the pinned
\* connection, which waits for rows still open.  Closing it rolls back, unless a
\* statement not finalized keeps the connection alive.
Close ==
    LET rowsLeft  == open \ {portals[p].rows : p \in DOMAIN portals}
        stmtsLeft == DOMAIN bound \ {stmts[n].stmt : n \in DOMAIN stmts}
    IN  /\ phase' = IF rowsLeft = {} THEN "closed" ELSE "blocked"
        /\ db' = IF rowsLeft = {} /\ stmtsLeft = {} THEN rolledBack(db) ELSE db
        /\ open' = rowsLeft
        /\ bound' = Restrict(bound, stmtsLeft)
        /\ stmts' = emptyMap /\ portals' = emptyMap
        /\ UNCHANGED <<txStatus, skipUntilSync, seen>>

Terminate == receiving /\ Close

\* The client is gone, or a reply could not be written.
ReceiveError == phase = "loop" /\ Close

\* Mutant: a new Conn's txStatus is left at its zero value.
newConnZero ==
    /\ phase = "closed"
    /\ phase' = "loop" /\ txStatus' = "" /\ skipUntilSync' = FALSE
    /\ db' = opened(db.durable)
    /\ stmts' = emptyMap /\ portals' = emptyMap /\ bound' = emptyMap /\ open' = {}
    /\ wire' = "ready" /\ told' = "I"

\* Another connection to the same file.
newConn ==
    /\ phase = "closed"
    /\ phase' = "loop" /\ txStatus' = "I" /\ skipUntilSync' = FALSE
    /\ db' = opened(db.durable)
    /\ stmts' = emptyMap /\ portals' = emptyMap /\ bound' = emptyMap /\ open' = {}
    /\ wire' = "ready" /\ told' = "I"

Init ==
    /\ phase = "loop" /\ txStatus = "I" /\ skipUntilSync = FALSE
    /\ stmts = emptyMap /\ portals = emptyMap
    /\ db = opened({})
    /\ bound = emptyMap /\ open = {}
    /\ wire = "ready" /\ told = "I"

Next ==
    \/ \E q \in SimpleQueries : handleQueryMessage(q)
    \/ \E n \in StmtNames, q \in ExtendedQueries : handleParseMessage(n, q)
    \/ \E n \in StmtNames, p \in PortalNames, a \in Params : handleBindMessage(n, p, a)
    \/ \E n \in StmtNames : describeStatement(n) \/ closeStatement(n)
    \/ \E p \in PortalNames : describePortal(p) \/ handleExecuteMessage(p) \/ closePortal(p)
    \/ Sync \/ Discard \/ Flush
    \/ Terminate \/ ReceiveError \/ newConn

Spec == Init /\ [][Next]_vars

------------------------------------------------------------------------------
(* Properties.                                                               *)

\* Every open sql.Rows belongs to exactly one portal and every sqlite3_stmt not
\* finalized to exactly one name, so Conn.Close finds them all.
RowsTracked ==
    /\ open = {portals[p].rows : p \in DOMAIN portals} \ {NoRows}
    /\ \A p, r \in DOMAIN portals :
          portals[p].rows = portals[r].rows => p = r \/ portals[p].rows = NoRows

StmtsTracked ==
    /\ DOMAIN bound = {stmts[n].stmt : n \in DOMAIN stmts}
    /\ \A m, n \in DOMAIN stmts : stmts[m].stmt = stmts[n].stmt => m = n

ResourcesTracked == RowsTracked /\ StmtsTracked

\* Conn.Close never waits for rows, and leaves neither a transaction (and its
\* lock on the file) nor a statement behind.
CloseReleases ==
    /\ phase # "blocked"
    /\ phase = "closed" => db = opened(db.durable) /\ DOMAIN bound = {}

\* "It is executed at most once" (boundPortal): however Describe and Execute of
\* a portal are repeated and interleaved with those of portals sharing its
\* statement, the statement is run to completion at most once for a Bind.
EffectAtMostOnce == \A p \in DOMAIN portals : portals[p].runs <= 1

\* In a failed block no message but one that ends it touches the database, none
\* makes work durable, and ending the block discards all of its work.
FailedBlockDiscarded ==
    [][txStatus = "E" =>
         /\ db'.durable = db.durable
         /\ txStatus' = "E" /\ phase' = "loop" => db' = db
         /\ txStatus' # "E" => db' = opened(db.durable)]_vars

\* After an ErrorResponse of the extended protocol no message has an effect
\* until the ReadyForQuery that answers Sync, unless the connection ends.
ErrorBarrier ==
    [][wire = "failed" /\ phase = "loop" /\ phase' = "loop" =>
         wire' \in {"failed", "ready"} /\ UNCHANGED <<txStatus, named, db>>]_vars

\* What ReadyForQuery reports is the state of SQLite's transaction: 'T' inside a
\* block, 'I' outside.  True of a client that ends statements as the server
\* expects and sends transaction control in Query messages.
TxHonest ==
    phase = "loop" /\ wire = "ready" =>
        /\ told = "I" => ~inTx(db)
        /\ told = "T" => inTx(db)

\* "Statements with side effects run exactly once" (boundPortal), read as what a
\* CommandComplete says: the portal did run and did not fail,
AckedRan         == \A p \in DOMAIN portals : portals[p].acked => portals[p].runs = 1 /\ ~portals[p].failed
\* and it ran with the parameters of its own Bind.
AckedOwnParams   == \A p \in DOMAIN portals : portals[p].acked => ~portals[p].strayed
=============================================================================
