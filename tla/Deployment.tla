----------------------------- MODULE Deployment -----------------------------
(***************************************************************************)
(* The sessions of one server over one SQLite file, each with a connection *)
(* of its own (server.go opens and pins one per client).  They meet in     *)
(* SQLite's lock: a statement waits for it up to the busy timeout and then *)
(* fails.  A client sends Query messages; a text may hold several          *)
(* statements, which SQLite runs one by one.  A client may vanish at any   *)
(* point, and so may the whole server; the file stays.                     *)
(***************************************************************************)
EXTENDS Command, SqliteFile, Sequences

CONSTANTS
    Texts,      \* what a client may send
    Plain,      \* sessions whose client sends one statement at a time
    NoText      \* a session with nothing in hand

\* BEGIN IMMEDIATE is a "begin" and a "write" that changes no row.
StatementKinds == {"begin", "commit", "rollback", "write", "read"}

Text == [kw : STRING, returning : BOOLEAN, sqls : Seq(StatementKinds)]

\* A unit is its session's until a reply settles its fate.  "unknown": the
\* connection broke while a text was being handled, or the client sends several
\* statements at a time and cannot tell.
Fates == {"kept", "dropped", "unknown"}

ASSUME DeploymentAssumption ==
    /\ \A q \in Texts : q \in Text /\ q.sqls # <<>>
    /\ Plain \subseteq Session
    /\ NoText \notin Texts
    /\ ({"unused"} \cup Fates) \cap Session = {}

\* A text of one statement begins with the word SQLite knows it by: no
\* semicolon sticks to it, and RETURNING is not in a BEGIN, COMMIT or ROLLBACK.
ASSUME SingleAssumption ==
    \A q \in Texts : Len(q.sqls) = 1 =>
        /\ isTxBegin(q.kw) <=> q.sqls[1] = "begin"
        /\ isTxCommit(q.kw) <=> q.sqls[1] = "commit"
        /\ isTxRollback(q.kw) <=> q.sqls[1] = "rollback"
        /\ isRowReturning(q) => q.sqls[1] \in {"read", "write"}

VARIABLES
    file,     \* the database file, its locks and open transactions
    txStatus, \* Conn.txStatus
    pc,       \* "down", "wait" for a message, "ask" for a lock, "have" it, "reply"
    text,     \* the text of the Query being handled
    todo,     \* its statements that have not run
    error,    \* whether one of them failed
    told      \* history: what the clients know of the units of work they wrote

vars == <<file, txStatus, pc, text, todo, error, told>>

TypeOK ==
    /\ file \in File
    /\ txStatus \in [Session -> TxStatuses]
    /\ pc \in [Session -> {"down", "wait", "ask", "have", "reply"}]
    /\ text \in [Session -> Texts \cup {NoText}]
    /\ todo \in [Session -> Seq(StatementKinds)]
    /\ \A s \in Session : (text[s] = NoText) <=> (pc[s] \in {"down", "wait"})
    /\ \A s \in Session : (todo[s] = <<>>) <=> (pc[s] \notin {"ask", "have"})
    /\ error \in [Session -> BOOLEAN]
    /\ told \in [Work -> {"unused"} \cup Session \cup Fates]

Init ==
    /\ file = created
    /\ txStatus = [s \in Session |-> "I"]
    /\ pc = [s \in Session |-> "down"]
    /\ text = [s \in Session |-> NoText]
    /\ todo = [s \in Session |-> <<>>]
    /\ error = [s \in Session |-> FALSE]
    /\ told = [w \in Work |-> "unused"]

Turn(s, next) == pc' = [pc EXCEPT ![s] = next]

unused == {w \in Work : told[w] = "unused"}
nextUnit == CHOOSE w \in unused : TRUE   \* they are all alike

\* The client of s learns what became of its open work.
Learn(s, fate) ==
    told' = [w \in Work |-> IF told[w] # s THEN told[w]
                            ELSE IF s \in Plain THEN fate ELSE "unknown"]

------------------------------------------------------------------------------
(* Connections.                                                              *)

\* The startup opens the file and reads its schema, which a pending writer
\* forbids: the client is then refused, and may try again.
Connect(s) ==
    /\ pc[s] = "down"
    /\ obtainable(file, s, "shared")
    /\ Turn(s, "wait")
    /\ UNCHANGED <<file, txStatus, text, todo, error, told>>

Gone(s) ==
    /\ Turn(s, "down")
    /\ txStatus' = [txStatus EXCEPT ![s] = "I"]
    /\ text' = [text EXCEPT ![s] = NoText]
    /\ error' = [error EXCEPT ![s] = FALSE]
    /\ UNCHANGED todo

\* Mutant: a connection that ends is not closed.
CloseForgotten(s) == UNCHANGED file

\* Conn.Close, which makes SQLite roll back.
Close(s) == file' = left(file, s)

\* A client that leaves between two Queries knows its block was not committed.
Leave(s) == pc[s] = "wait" /\ Close(s) /\ Gone(s) /\ Learn(s, "dropped")

\* One that leaves during a Query is noticed when the reply cannot be written.
Vanish(s) == pc[s] = "reply" /\ Close(s) /\ Gone(s) /\ Learn(s, "unknown")

\* The server dies.  What was committed is in the file; the journal of an
\* unfinished commit is rolled back by the next process to open it.
Crash ==
    /\ \E s \in Session : pc[s] # "down"
    /\ file' = [created EXCEPT !.durable = file.durable]
    /\ pc' = [s \in Session |-> "down"]
    /\ text' = [s \in Session |-> NoText]
    /\ todo' = [s \in Session |-> <<>>]
    /\ txStatus' = [s \in Session |-> "I"]
    /\ error' = [s \in Session |-> FALSE]
    /\ told' = [w \in Work |->
                  IF told[w] \notin Session THEN told[w]
                  ELSE IF pc[told[w]] = "wait" /\ told[w] \in Plain THEN "dropped"
                  ELSE "unknown"]

------------------------------------------------------------------------------
(* A Query.                                                                  *)

\* Mutant: ending a failed block commits it.
rollbackFailedCommits(s) == file' = IF file.block[s] THEN committed(file, s) ELSE file

\* Mutant: SQLite's transaction is forgotten.
rollbackFailedForgets(s) == UNCHANGED file

rollbackFailed(s) == file' = IF file.block[s] THEN left(file, s) ELSE file

\* A failed block: only its end is honoured, and answered at once.
QueryInFailedBlock(s, q) ==
    /\ pc[s] = "wait" /\ txStatus[s] = "E"
    /\ IF endsBlock(q.kw)
       THEN /\ rollbackFailed(s)
            /\ txStatus' = [txStatus EXCEPT ![s] = "I"]
            /\ Learn(s, "dropped")
       ELSE UNCHANGED <<file, txStatus, told>>
    /\ UNCHANGED <<pc, text, todo, error>>

\* Exec runs every statement of the text; of a text whose result is streamed,
\* QueryContext prepares all and steps the last.
statementsRun(q) == IF isRowReturning(q) THEN <<q.sqls[Len(q.sqls)]>> ELSE q.sqls

handleQueryMessage(s, q) ==
    /\ pc[s] = "wait" /\ txStatus[s] # "E"
    /\ Turn(s, "ask")
    /\ text' = [text EXCEPT ![s] = q]
    /\ todo' = [todo EXCEPT ![s] = statementsRun(q)]
    /\ UNCHANGED <<file, txStatus, error, told>>

\* The lock the statement at hand begins with.
lockOf(sql) ==
    CASE sql = "read" -> "shared"
      [] sql = "write" -> "reserved"
      [] OTHER -> "none"

\* COMMIT, and the end of a write outside a block.
committing(s) ==
    \/ pc[s] = "ask" /\ Head(todo[s]) = "commit" /\ file.block[s]
    \/ pc[s] = "have" /\ Head(todo[s]) = "write" /\ ~file.block[s]

asks(s, lock) == pc[s] = "ask" /\ lockOf(Head(todo[s])) = lock

\* BEGIN inside a transaction, COMMIT and ROLLBACK outside one are errors.
legal(s, sql) ==
    CASE sql = "begin" -> ~file.block[s]
      [] sql \in {"commit", "rollback"} -> file.block[s]
      [] OTHER -> TRUE

\* Mutant: the reply is sent after the first statement.
SucceedAtOnce(s) ==
    /\ todo' = [todo EXCEPT ![s] = Tail(@)]
    /\ Turn(s, "reply")
    /\ UNCHANGED error

\* The first statement of the text succeeded; the next one follows, or the reply.
Succeed(s) ==
    /\ todo' = [todo EXCEPT ![s] = Tail(@)]
    /\ Turn(s, IF Len(todo[s]) = 1 THEN "reply" ELSE "ask")
    /\ UNCHANGED error

\* It failed: the rest of the text does not run.
Fail(s, f) ==
    /\ todo' = [todo EXCEPT ![s] = <<>>]
    /\ error' = [error EXCEPT ![s] = TRUE]
    /\ Turn(s, "reply")
    /\ file' = undone(f, s)

Refuse(s) ==
    /\ pc[s] = "ask" /\ ~legal(s, Head(todo[s]))
    /\ Fail(s, file)
    /\ UNCHANGED <<txStatus, text, told>>

\* BEGIN and ROLLBACK need no lock.
Control(s) ==
    /\ asks(s, "none") /\ legal(s, Head(todo[s])) /\ Head(todo[s]) # "commit"
    /\ file' = IF Head(todo[s]) = "begin" THEN [file EXCEPT !.block[s] = TRUE]
                                          ELSE left(file, s)
    /\ Succeed(s)
    /\ UNCHANGED <<txStatus, text, told>>

\* The statement has its lock and its effect.  A write takes a unit of work,
\* if one is left, and else changes no row.
Acquire(s) ==
    \E lock \in {"shared", "reserved"} :
        /\ asks(s, lock) /\ legal(s, Head(todo[s])) /\ obtainable(file, s, lock)
        /\ IF Head(todo[s]) = "write" /\ unused # {}
           THEN /\ file' = [raised(file, s, lock) EXCEPT !.pending[s] = @ \cup {nextUnit}]
                /\ told' = [told EXCEPT ![nextUnit] = s]
           ELSE file' = raised(file, s, lock) /\ UNCHANGED told
        /\ Turn(s, "have")
        /\ UNCHANGED <<txStatus, text, todo, error>>

\* It has the lock and fails nevertheless: a constraint, a missing table.
Violate(s) ==
    \E lock \in {"shared", "reserved"} :
        /\ asks(s, lock) /\ legal(s, Head(todo[s])) /\ obtainable(file, s, lock)
        /\ Fail(s, raised(file, s, lock))
        /\ UNCHANGED <<txStatus, text, told>>

\* A statement that does not commit ends; outside a block its lock goes.
Finish(s) ==
    /\ pc[s] = "have" /\ ~committing(s)
    /\ file' = undone(file, s)
    /\ Succeed(s)
    /\ UNCHANGED <<txStatus, text, told>>

Persist(s) ==
    /\ committing(s) /\ committable(file, s)
    /\ file' = committed(file, s)
    /\ Succeed(s)
    /\ UNCHANGED <<txStatus, text, told>>

\* The readers are in the way: no new one gets in until the transaction ends.
Claim(s) ==
    /\ committing(s) /\ ~committable(file, s) /\ file.lock[s] = "reserved"
    /\ file' = [file EXCEPT !.lock[s] = "pending"]
    /\ UNCHANGED <<txStatus, pc, text, todo, error, told>>

\* Mutant: there is no busy timeout.
BusyNever(s) == FALSE /\ UNCHANGED vars

\* SQLITE_BUSY: the lock is not to be had, and the statement has waited for
\* the timeout, or may not wait because its connection reads already.
Busy(s) ==
    /\ \/ /\ pc[s] = "ask" /\ legal(s, Head(todo[s]))
          /\ \E lock \in {"shared", "reserved"} : asks(s, lock) /\ ~obtainable(file, s, lock)
       \/ committing(s) /\ ~committable(file, s) /\ file.lock[s] = "pending"
    /\ Fail(s, file)
    /\ UNCHANGED <<txStatus, text, told>>

\* The end of execSimpleQuery or streamSimpleQuery.
statusAfter(s) ==
    IF error[s] THEN failBlock(txStatus[s])
    ELSE IF isRowReturning(text[s]) THEN txStatus[s]
    ELSE noteCompleted(txStatus[s], text[s].kw)

Reply(s) ==
    /\ pc[s] = "reply"
    /\ txStatus' = [txStatus EXCEPT ![s] = statusAfter(s)]
    /\ IF txStatus'[s] = "I"
       THEN Learn(s, IF error[s] \/ isTxRollback(text[s].kw) THEN "dropped" ELSE "kept")
       ELSE UNCHANGED told
    /\ Turn(s, "wait")
    /\ text' = [text EXCEPT ![s] = NoText]
    /\ error' = [error EXCEPT ![s] = FALSE]
    /\ UNCHANGED <<file, todo>>

------------------------------------------------------------------------------

queriesOf(s) == IF s \in Plain THEN {q \in Texts : Len(q.sqls) = 1} ELSE Texts

Send(s) == \E q \in queriesOf(s) : handleQueryMessage(s, q) \/ QueryInFailedBlock(s, q)

\* What the server and SQLite do by themselves.
Step(s) ==
    \/ Refuse(s) \/ Control(s) \/ Acquire(s) \/ Violate(s) \/ Finish(s)
    \/ Persist(s) \/ Claim(s) \/ Busy(s) \/ Reply(s)

Next ==
    \/ \E s \in Session : Connect(s) \/ Leave(s) \/ Vanish(s) \/ Send(s) \/ Step(s)
    \/ Crash

\* A goroutine with something to do does it, and a lock is waited for no
\* longer than the busy timeout.  Clients owe nothing.
Spec == Init /\ [][Next]_vars /\ \A s \in Session : WF_vars(Step(s))

------------------------------------------------------------------------------
(* Properties.                                                               *)

holdsNothing(s) == file.lock[s] = "none" /\ ~file.block[s] /\ file.pending[s] = {}

\* What a client was told of its work is and stays true, whatever the other
\* sessions do, whoever disconnects and whenever the server dies: work
\* acknowledged outside a block, or by COMMIT, is in the file; work that was
\* rolled back, refused, or failed for the lock (server.go failSimple,
\* rollbackFailed) is neither there nor on its way there.
ToldTruth ==
    \A w \in Work :
        /\ told[w] = "kept" => w \in file.durable
        /\ told[w] = "dropped" =>
              w \notin file.durable /\ \A s \in Session : w \notin file.pending[s]

\* A plain session (one whose texts' first words say what the texts do) that told
\* its client 'I', and any session that is gone, holds no lock and no transaction:
\* nobody waits for a client that believes it has nothing open (server.go
\* noteCompleted, rollbackFailed, Close).
IdleHoldsNothing ==
    \A s \in Session :
        pc[s] = "down" \/ (pc[s] = "wait" /\ txStatus[s] = "I" /\ s \in Plain) => holdsNothing(s)

\* The same of every client, also one that sends several statements in a
\* text: protocol_test.go:139 wants 'T' inside the block and 'I' once ended.
StatusShowsBlock ==
    \A s \in Session : pc[s] = "wait" /\ txStatus[s] = "I" => ~file.block[s]

\* Every Query is answered, though the locks of clients that never end their
\* blocks are in its way, unless the connection goes first (server.go
\* execSimpleQuery, streamSimpleQuery under SQLite's busy timeout).
Answered == \A s \in Session : pc[s] = "ask" ~> pc[s] \in {"wait", "down"}

EndBlock(s) ==
    txStatus[s] # "I"
    /\ \E q \in queriesOf(s) :
          endsBlock(q.kw) /\ (handleQueryMessage(s, q) \/ QueryInFailedBlock(s, q))

\* If clients keep ending the blocks they know of, by COMMIT or ROLLBACK, every
\* lock is given back, also after a COMMIT that failed for the lock
\* (server.go handleQueryMessage, rollbackFailed).
LocksReleased ==
    (\A s \in Session : SF_vars(EndBlock(s))) =>
        \A s \in Plain : file.lock[s] # "none" ~> file.lock[s] = "none"
=============================================================================
