------------------------------ MODULE Startup ------------------------------
(***************************************************************************)
(* The startup sequence of one connection, from the first packet to the    *)
(* message loop: serveConnStartup, handleStartupMessage,                   *)
(* handleSSLRequestMessage and authenticate.  Pure: the operators take the *)
(* progress of a connection and return what handling one packet, or one    *)
(* step of the setup, may make of it.  A reply that cannot be written ends *)
(* the connection, which the server's own receive and reply steps cover.   *)
(***************************************************************************)

\* "startup" waits for a startup packet, "password" for the client's answer to
\* the challenge; "setup" is past the pinning of a SQLite connection; "loop" is
\* the message loop; "ended" means serveConn has returned.
Stages == {"startup", "password", "setup", "loop", "ended"}

\* pinned: Conn.conn is nil, a usable connection, or one already closed.
\* wanted: the startup packet named an acceptable database.
\* authed: the password exchange succeeded.  ready: ReadyForQuery was sent, at the
\* end of the setup or by the message loop.
Progress == [stage : Stages, wanted : BOOLEAN, authed : BOOLEAN, ready : BOOLEAN,
             pinned : {"nil", "open", "closed"}]

fresh == [stage |-> "startup", wanted |-> FALSE, authed |-> FALSE, ready |-> FALSE,
          pinned |-> "nil"]

ended(k) == [k EXCEPT !.stage = "ended"]

\* After authentication.  Without an acceptable database the client is sent an
\* error and handleStartupMessage returns nil, so the loop is entered with
\* nothing pinned.  Opening or pinning may fail, and does once the server's
\* context is cancelled.
validate(k, canceled) ==
    IF ~k.wanted THEN {[k EXCEPT !.stage = "loop"]}
    ELSE {ended(k)} \cup (IF canceled THEN {}
                          ELSE {[k EXCEPT !.stage = "setup", !.pinned = "open"]})

\* Mutant: the connection is set up while the challenge is outstanding.
authenticateLate(k, password, canceled) ==
    validate(k, canceled) \cup (IF password THEN {[k EXCEPT !.stage = "password"]} ELSE {})

\* authenticate, up to the challenge; the salt may not be had.
authenticate(k, password, canceled) ==
    IF password THEN {ended(k), [k EXCEPT !.stage = "password"]} ELSE validate(k, canceled)

\* A startup packet with or without an acceptable database, an SSLRequest (which
\* is declined, and another packet awaited), a CancelRequest, or anything else.
serveConnStartup(k, password, canceled) ==
    (UNION {authenticate([k EXCEPT !.wanted = w], password, canceled) : w \in BOOLEAN})
      \cup {k, [k EXCEPT !.stage = "loop"], ended(k)}

\* The rest of authenticate: the right answer, or a wrong or unexpected one.
passwordMessage(k, canceled) ==
    {ended(k)} \cup validate([k EXCEPT !.authed = TRUE], canceled)

\* Attaching pg_catalog, creating its tables and views, and the final replies.
setup(k, canceled) ==
    {ended(k)} \cup (IF canceled \/ k.pinned # "open" THEN {}
                     ELSE {[k EXCEPT !.stage = "loop", !.ready = TRUE]})

\* What handling the packet at hand, or finishing the setup, may lead to.
startupSteps(k, password, canceled) ==
    CASE k.stage = "startup"  -> serveConnStartup(k, password, canceled)
      [] k.stage = "password" -> passwordMessage(k, canceled)
      [] k.stage = "setup"    -> setup(k, canceled)
=============================================================================
