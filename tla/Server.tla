------------------------------- MODULE Server ------------------------------
(***************************************************************************)
(* The server's lifecycle: the accept loop, a goroutine per connection,    *)
(* and Close, which cmd/postlite calls on a signal.  They share the mutex, *)
(* the map of tracked connections, the context and the error group.  What  *)
(* a session's handlers do is abstracted to whether they are in memory, in *)
(* a SQL call or replying; Session has the rest.                           *)
(***************************************************************************)
EXTENDS Startup

CONSTANTS
    Conns,   \* connections that clients may open, each once
    None     \* no connection

ASSUME ServerAssumption == None \notin Conns

VARIABLES
    password,  \* whether a password is configured
    listening, \* the listener is open
    canceled,  \* the server's context is cancelled
    mu,        \* the mutex is held (by Close's sweep; other holders are atomic)
    conns,     \* Server.conns
    acceptor,  \* the accept goroutine: [pc, conn]
    closer,    \* where Close is; "running" before the signal
    sweep,     \* connections Close has yet to close
    sweeping,  \* the one it is closing
    groupErr,  \* the error group's first error is set
    sock,      \* connection -> its socket, on the server's side
    peer,      \* connection -> whether the client is still there
    work,      \* connection -> where its goroutine is
    sess,      \* connection -> its startup progress
    crashed    \* the process died of a panic or a fatal runtime error

server  == <<listening, canceled, mu, conns, closer, sweep, sweeping, groupErr>>
sockets == <<sock, peer>>
gos     == <<work, sess>>
vars    == <<password, server, acceptor, sockets, gos, crashed>>

TypeOK ==
    /\ password \in BOOLEAN /\ listening \in BOOLEAN /\ canceled \in BOOLEAN
    /\ mu \in BOOLEAN /\ groupErr \in BOOLEAN /\ crashed \in BOOLEAN
    /\ conns \subseteq Conns /\ sweep \subseteq Conns /\ sweeping \in Conns \cup {None}
    /\ acceptor \in [pc : {"accept", "track", "spawn", "failed", "done"}, conn : Conns \cup {None}]
    /\ closer \in {"running", "listener", "cancel", "lock", "sweep", "wait", "done"}
    /\ sock \in [Conns -> {"none", "backlog", "open", "closed"}]
    /\ peer \in [Conns -> BOOLEAN]
    /\ work \in [Conns -> {"none", "receive", "handler", "sql", "reply", "ended", "gone"}]
    /\ sess \in [Conns -> Progress]

Init ==
    /\ password \in BOOLEAN
    /\ listening = TRUE /\ canceled = FALSE /\ mu = FALSE /\ groupErr = FALSE
    /\ crashed = FALSE
    /\ conns = {} /\ sweep = {} /\ sweeping = None
    /\ acceptor = [pc |-> "accept", conn |-> None]
    /\ closer = "running"
    /\ sock = [c \in Conns |-> "none"] /\ peer = [c \in Conns |-> TRUE]
    /\ work = [c \in Conns |-> "none"] /\ sess = [c \in Conns |-> fresh]

------------------------------------------------------------------------------
(* Clients.                                                                  *)

Dial(c) ==
    /\ ~crashed /\ listening /\ sock[c] = "none"
    /\ sock' = [sock EXCEPT ![c] = "backlog"]
    /\ UNCHANGED <<password, server, acceptor, peer, gos, crashed>>

Leave(c) ==
    /\ ~crashed /\ sock[c] # "none" /\ peer[c]
    /\ peer' = [peer EXCEPT ![c] = FALSE]
    /\ UNCHANGED <<password, server, acceptor, sock, gos, crashed>>

------------------------------------------------------------------------------
(* serve: accept, track, spawn.                                              *)

Accept ==
    /\ ~crashed /\ acceptor.pc = "accept" /\ listening
    /\ \E c \in Conns :
          /\ sock[c] = "backlog"
          /\ sock' = [sock EXCEPT ![c] = "open"]
          /\ acceptor' = [pc |-> "track", conn |-> c]
    /\ UNCHANGED <<password, server, peer, gos, crashed>>

serveFails ==
    /\ acceptor' = [acceptor EXCEPT !.pc = "failed"]
    /\ UNCHANGED <<password, server, sockets, gos, crashed>>

AcceptClosed == ~crashed /\ acceptor.pc = "accept" /\ ~listening /\ serveFails

\* Accepting may fail for other reasons (too many open files).
AcceptError == ~crashed /\ acceptor.pc = "accept" /\ listening /\ serveFails

\* Mutant: the connection is served before it is tracked.
TrackLate ==
    /\ ~crashed /\ acceptor.pc = "track"
    /\ work' = [work EXCEPT ![acceptor.conn] = "receive"]
    /\ acceptor' = [acceptor EXCEPT !.pc = "spawn"]
    /\ UNCHANGED <<password, server, sockets, sess, crashed>>

Track ==
    /\ ~crashed /\ acceptor.pc = "track" /\ ~mu
    /\ conns' = conns \cup {acceptor.conn}
    /\ acceptor' = [acceptor EXCEPT !.pc = "spawn"]
    /\ UNCHANGED <<password, listening, canceled, mu, closer, sweep, sweeping, groupErr, sockets, gos, crashed>>

Spawn ==
    /\ ~crashed /\ acceptor.pc = "spawn"
    /\ work' = [work EXCEPT ![acceptor.conn] = "receive"]
    /\ acceptor' = [pc |-> "accept", conn |-> None]
    /\ UNCHANGED <<password, server, sockets, sess, crashed>>

\* The goroutine started by Open returns serve's error if the context is
\* cancelled by then, and nil otherwise.
ServeReturns ==
    /\ ~crashed /\ acceptor.pc = "failed"
    /\ groupErr' = canceled
    /\ acceptor' = [acceptor EXCEPT !.pc = "done"]
    /\ UNCHANGED <<password, listening, canceled, mu, conns, closer, sweep, sweeping, sockets, gos, crashed>>

Acceptor == Accept \/ AcceptClosed \/ Track \/ Spawn \/ ServeReturns

------------------------------------------------------------------------------
(* A connection's goroutine: serveConn, then CloseClientConnection.          *)

goto(c, pc) == work' = [work EXCEPT ![c] = pc]

Receive(c) ==
    /\ ~crashed /\ work[c] = "receive" /\ sock[c] = "open" /\ peer[c]
    /\ goto(c, "handler")
    /\ UNCHANGED <<password, server, acceptor, sockets, sess, crashed>>

ReceiveError(c) ==
    /\ ~crashed /\ work[c] = "receive" /\ (sock[c] = "closed" \/ ~peer[c])
    /\ goto(c, "ended")
    /\ UNCHANGED <<password, server, acceptor, sockets, sess, crashed>>

StartupStep(c) ==
    /\ ~crashed /\ work[c] = "handler" /\ sess[c].stage # "loop"
    /\ \E k \in startupSteps(sess[c], password, canceled) :
          /\ sess' = [sess EXCEPT ![c] = k]
          /\ goto(c, CASE k.stage = "ended" -> "ended"
                       [] k.stage = "setup" -> "handler"
                       [] OTHER             -> "reply")
    /\ UNCHANGED <<password, server, acceptor, sockets, crashed>>

\* A message that needs no SQL, which a Sync or an empty Query answers with
\* ReadyForQuery whoever asks, one that does, or Terminate and the unexpected.
\* On a closed connection the call returns at once; without any it panics.
HandleMessage(c) ==
    /\ ~crashed /\ work[c] = "handler" /\ sess[c].stage = "loop"
    /\ \/ /\ goto(c, "reply") /\ UNCHANGED crashed
          /\ \E r \in {sess[c].ready, TRUE} : sess' = [sess EXCEPT ![c].ready = r]
       \/ goto(c, "ended") /\ UNCHANGED <<sess, crashed>>
       \/ sess[c].pinned = "open" /\ goto(c, "sql") /\ UNCHANGED <<sess, crashed>>
       \/ sess[c].pinned = "nil" /\ crashed' = TRUE /\ UNCHANGED <<work, sess>>
    /\ UNCHANGED <<password, server, acceptor, sockets>>

SqlReturns(c) ==
    /\ ~crashed /\ work[c] = "sql"
    /\ goto(c, "reply")
    /\ UNCHANGED <<password, server, acceptor, sockets, sess, crashed>>

Reply(c) ==
    /\ ~crashed /\ work[c] = "reply"
    /\ \/ sock[c] = "open" /\ goto(c, "receive")
       \/ (sock[c] = "closed" \/ ~peer[c]) /\ goto(c, "ended")
    /\ UNCHANGED <<password, server, acceptor, sockets, sess, crashed>>

\* Conn.Close on c: the pinned connection, if any, then the socket.
closeConn(c) ==
    /\ sock' = [sock EXCEPT ![c] = "closed"]
    /\ sess' = [sess EXCEPT ![c].pinned = IF @ = "open" THEN "closed" ELSE @]

\* Mutant: only the map entry is removed.
CloseClientConnectionForgets(c) ==
    /\ ~crashed /\ work[c] = "ended" /\ ~mu
    /\ conns' = conns \ {c}
    /\ goto(c, "gone")
    /\ UNCHANGED <<password, listening, canceled, mu, closer, sweep, sweeping, groupErr, acceptor, sock, sess, peer, crashed>>

CloseClientConnection(c) ==
    /\ ~crashed /\ work[c] = "ended" /\ ~mu
    /\ conns' = conns \ {c}
    /\ closeConn(c)
    /\ goto(c, "gone")
    /\ UNCHANGED <<password, listening, canceled, mu, closer, sweep, sweeping, groupErr, acceptor, peer, crashed>>

\* What the goroutine does by itself; Receive waits for the client.
Goroutine(c) ==
    \/ ReceiveError(c) \/ StartupStep(c) \/ HandleMessage(c) \/ SqlReturns(c)
    \/ Reply(c) \/ CloseClientConnection(c)

------------------------------------------------------------------------------
(* Close.                                                                    *)

Signal ==
    /\ ~crashed /\ closer = "running"
    /\ closer' = "listener"
    /\ UNCHANGED <<password, listening, canceled, mu, conns, sweep, sweeping, groupErr, acceptor, sockets, gos, crashed>>

\* Mutant: the sockets of connections never tracked are lost sight of.
CloseListenerTracked ==
    /\ ~crashed /\ closer = "listener"
    /\ closer' = "cancel"
    /\ listening' = FALSE
    /\ sock' = [c \in conns |-> sock[c]]
    /\ UNCHANGED <<password, canceled, mu, conns, sweep, sweeping, groupErr, acceptor, peer, gos, crashed>>

\* Connections nobody accepted are reset.
CloseListener ==
    /\ ~crashed /\ closer = "listener"
    /\ closer' = "cancel"
    /\ listening' = FALSE
    /\ sock' = [c \in Conns |-> IF sock[c] = "backlog" THEN "closed" ELSE sock[c]]
    /\ UNCHANGED <<password, canceled, mu, conns, sweep, sweeping, groupErr, acceptor, peer, gos, crashed>>

Cancel ==
    /\ ~crashed /\ closer = "cancel"
    /\ closer' = "lock"
    /\ canceled' = TRUE
    /\ UNCHANGED <<password, listening, mu, conns, sweep, sweeping, groupErr, acceptor, sockets, gos, crashed>>

\* CloseClientConnections holds the mutex for the whole sweep.
LockConns ==
    /\ ~crashed /\ closer = "lock" /\ ~mu
    /\ closer' = "sweep"
    /\ mu' = TRUE /\ sweep' = conns
    /\ UNCHANGED <<password, listening, canceled, conns, sweeping, groupErr, acceptor, sockets, gos, crashed>>

\* Conn.Close on a tracked connection begins by ranging over its portals and
\* statements and closing their rows, without regard to a handler that may be
\* using them: the process may stop (a map written while it is ranged over, a
\* nil sql.Rows) or may not.  The pinned connection takes no more calls.
SweepBegin(c) ==
    /\ ~crashed /\ closer = "sweep" /\ sweeping = None /\ c \in sweep
    /\ \/ /\ sweeping' = c
          /\ sess' = [sess EXCEPT ![c].pinned = IF @ = "open" THEN "closed" ELSE @]
          /\ UNCHANGED crashed
       \/ /\ work[c] \in {"handler", "sql"} /\ sess[c].stage = "loop"
          /\ crashed' = TRUE /\ UNCHANGED <<sweeping, sess>>
    /\ UNCHANGED <<password, listening, canceled, mu, conns, closer, sweep, groupErr, acceptor, sockets, work>>

\* It waits for a SQL call in flight before it closes the socket.
SweepEnd ==
    /\ ~crashed /\ sweeping # None /\ work[sweeping] # "sql"
    /\ sock' = [sock EXCEPT ![sweeping] = "closed"]
    /\ sweep' = sweep \ {sweeping} /\ sweeping' = None
    /\ UNCHANGED <<password, listening, canceled, mu, conns, closer, groupErr, acceptor, peer, gos, crashed>>

\* Mutant: the mutex is not released.
UnlockConnsNever ==
    /\ ~crashed /\ closer = "sweep" /\ sweep = {}
    /\ closer' = "wait"
    /\ conns' = {}
    /\ UNCHANGED <<password, listening, canceled, mu, sweep, sweeping, groupErr, acceptor, sockets, gos, crashed>>

UnlockConns ==
    /\ ~crashed /\ closer = "sweep" /\ sweep = {}
    /\ closer' = "wait"
    /\ mu' = FALSE /\ conns' = {}
    /\ UNCHANGED <<password, listening, canceled, sweep, sweeping, groupErr, acceptor, sockets, gos, crashed>>

\* Mutant: Close does not wait for the goroutines.
WaitNot ==
    /\ ~crashed /\ closer = "wait"
    /\ closer' = "done"
    /\ UNCHANGED <<password, listening, canceled, mu, conns, sweep, sweeping, groupErr, acceptor, sockets, gos, crashed>>

Wait ==
    /\ ~crashed /\ closer = "wait"
    /\ acceptor.pc = "done" /\ \A c \in Conns : work[c] \in {"none", "gone"}
    /\ closer' = "done"
    /\ UNCHANGED <<password, listening, canceled, mu, conns, sweep, sweeping, groupErr, acceptor, sockets, gos, crashed>>

Closing ==
    \/ CloseListener \/ Cancel \/ LockConns \/ SweepEnd \/ UnlockConns \/ Wait
    \/ \E c \in Conns : SweepBegin(c)

------------------------------------------------------------------------------

Next ==
    \/ \E c \in Conns : Dial(c) \/ Leave(c) \/ Receive(c) \/ Goroutine(c)
    \/ Acceptor \/ AcceptError \/ Signal \/ Closing

\* Goroutines are scheduled and SQL calls return.  Nothing is assumed of clients
\* or of the signal.
Fairness ==
    /\ WF_vars(Acceptor)
    /\ WF_vars(Closing)
    /\ \A c \in Conns : WF_vars(Goroutine(c))

Spec == Init /\ [][Next]_vars /\ Fairness

\* The same with clients that leave sooner or later.
LeavingSpec == Spec /\ \A c \in Conns : WF_vars(Leave(c))

------------------------------------------------------------------------------
(* Properties.                                                               *)

live(c) == work[c] \notin {"none", "gone"}

\* Until Close has swept, every connection being served is one the sweep will
\* find in Server.conns ("Track live connections", serve).
Tracked ==
    closer \notin {"wait", "done"} => \A c \in Conns : live(c) => c \in conns

\* A connection whose goroutine is gone has released its socket and its SQLite
\* connection, whichever of Close and the goroutine closed it, and when.
ReleasedOnExit ==
    \A c \in Conns : work[c] = "gone" => sock[c] = "closed" /\ sess[c].pinned # "open"

\* When Close returns nothing the server started is left: no goroutine, no open
\* socket, no SQLite connection.
CloseWaits ==
    closer = "done" => \A c \in Conns :
        ~live(c) /\ sock[c] \in {"none", "closed"} /\ sess[c].pinned # "open"

\* "Authenticate before anything else" (handleStartupMessage): over any sequence
\* of startup packets and messages, no SQLite connection is opened for, and no SQL
\* call made for, a client that has not answered the challenge.
AuthFirst ==
    \A c \in Conns : password /\ (sess[c].pinned # "nil" \/ work[c] = "sql") => sess[c].authed

\* Close returns: the sweep, the handlers in flight and the accept loop never
\* wait for each other for ever.
ShutdownCompletes == closer # "running" ~> closer = "done" \/ crashed

\* A client that is told ReadyForQuery has a SQLite connection, and has answered
\* the challenge.  Not so after a CancelRequest, which is to be acknowledged "by
\* closing cleanly" (serveConnStartup) and is answered as a session is.
ReadyHonest ==
    \A c \in Conns : sess[c].ready => sess[c].pinned # "nil" /\ (password => sess[c].authed)

\* A clean shutdown reports no error: cancelling the context is how serve is
\* meant to stop ("return error unless context canceled", Open).
CleanExit == closer = "done" => ~groupErr
=============================================================================
