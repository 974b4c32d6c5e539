---------------------------- MODULE ServerProofs ---------------------------
(***************************************************************************)
(* Theorems of Server, for every set of connections.                       *)
(***************************************************************************)
EXTENDS Server, TLAPS

\* A connection the accept loop has not handed to a goroutine is untouched: no
\* goroutine, nothing pinned.  The one in the accept loop's hands is open, or
\* was closed under it, and no other open socket is without a goroutine.
handed(c) == work[c] # "none"
inHand(c) == acceptor.pc \in {"track", "spawn"} /\ acceptor.conn = c

Untouched ==
    \A c \in Conns : ~handed(c) =>
        /\ sess[c] = fresh
        /\ sock[c] = "open" => inHand(c)

HandOver ==
    acceptor.pc \in {"track", "spawn"} =>
        /\ acceptor.conn \in Conns /\ ~handed(acceptor.conn)
        /\ sock[acceptor.conn] \in {"open", "closed"}

Unserved == \A c \in Conns : sock[c] \in {"none", "backlog"} => ~handed(c)

\* The connection about to get its goroutine is tracked, unless Close has swept.
TrackedFirst ==
    acceptor.pc = "spawn" /\ closer \notin {"wait", "done"} => acceptor.conn \in conns

\* Once the listener is closed nobody waits behind it.
NoBacklog ==
    /\ ~listening => \A c \in Conns : sock[c] # "backlog"
    /\ closer \notin {"running", "listener"} => ~listening

\* A goroutine whose startup failed does nothing more.
Serving ==
    \A c \in Conns :
        work[c] \in {"receive", "handler", "sql", "reply"} => sess[c].stage # "ended"

\* Close returns after the accept loop.
AcceptorDone == closer = "done" => acceptor.pc = "done"

\* AuthFirst by way of the SQLite connection: SQL calls are made on one.
AuthInv ==
    \A c \in Conns :
        /\ password /\ sess[c].pinned # "nil" => sess[c].authed
        /\ work[c] = "sql" => sess[c].pinned # "nil"

\* The inductive invariant.
ServerInv ==
    /\ TypeOK /\ Untouched /\ HandOver /\ Unserved /\ TrackedFirst /\ NoBacklog
    /\ Serving /\ AcceptorDone /\ Tracked /\ ReleasedOnExit /\ CloseWaits /\ AuthInv

------------------------------------------------------------------------------
(* The startup of one connection.                                            *)

\* What AuthInv says of one connection's progress.
honest(k) == password /\ k.pinned # "nil" => k.authed

\* Past authentication: the message loop, the setup with a connection pinned,
\* or the end.
LEMMA ValidateHonest ==
    ASSUME NEW k \in Progress, honest(k), password => k.authed,
           NEW x \in validate(k, canceled)
    PROVE  x \in Progress /\ honest(x)
<1>1. CASE x = [k EXCEPT !.stage = "loop"]
  BY <1>1 DEF Progress, Stages, honest
<1>2. CASE x = ended(k)
  BY <1>2 DEF ended, Progress, Stages, honest
<1>3. CASE x = [k EXCEPT !.stage = "setup", !.pinned = "open"]
  BY <1>3 DEF Progress, Stages, honest
<1> QED  BY <1>1, <1>2, <1>3 DEF validate

\* Every packet of the startup keeps authentication first.
LEMMA StartupHonest ==
    ASSUME NEW k \in Progress, honest(k), password \in BOOLEAN,
           k.stage \notin {"loop", "ended"},
           NEW x \in startupSteps(k, password, canceled)
    PROVE  x \in Progress /\ honest(x)
<1>1. ASSUME NEW j \in Progress, honest(j), NEW s \in Stages
      PROVE  [j EXCEPT !.stage = s] \in Progress /\ honest([j EXCEPT !.stage = s])
  BY <1>1 DEF Progress, honest
<1>2. ASSUME NEW j \in Progress, honest(j) PROVE ended(j) \in Progress /\ honest(ended(j))
  BY <1>1, <1>2 DEF ended, Stages
<1>3. CASE k.stage = "startup"
  <2>1. x \in serveConnStartup(k, password, canceled)
    BY <1>3 DEF startupSteps
  <2>2. CASE x \in {k, [k EXCEPT !.stage = "loop"], ended(k)}
    BY <1>1, <1>2, <2>2 DEF Stages
  <2>3. ASSUME NEW w \in BOOLEAN, x \in authenticate([k EXCEPT !.wanted = w], password, canceled)
        PROVE  x \in Progress /\ honest(x)
    <3> DEFINE j == [k EXCEPT !.wanted = w]
    <3>1. j \in Progress /\ honest(j)
      BY DEF Progress, honest
    <3>2. CASE password
      <4>1. x \in {ended(j), [j EXCEPT !.stage = "password"]}
        BY <2>3, <3>2 DEF authenticate
      <4> HIDE DEF j
      <4> QED  BY <1>1, <1>2, <3>1, <4>1 DEF Stages
    <3>3. CASE ~password
      <4>1. x \in validate(j, canceled)
        BY <2>3, <3>3 DEF authenticate
      <4> HIDE DEF j
      <4> QED  BY <3>1, <3>3, <4>1, ValidateHonest
    <3> QED  BY <3>2, <3>3
  <2>4. \/ \E w \in BOOLEAN : x \in authenticate([k EXCEPT !.wanted = w], password, canceled)
        \/ x \in {k, [k EXCEPT !.stage = "loop"], ended(k)}
    BY <2>1, Zenon DEF serveConnStartup
  <2> QED  BY <2>2, <2>3, <2>4
<1>4. CASE k.stage = "password"
  <2> DEFINE j == [k EXCEPT !.authed = TRUE]
  <2>1. j \in Progress /\ honest(j) /\ j.authed
    BY DEF Progress, honest
  <2>2. x = ended(k) \/ x \in validate(j, canceled)
    BY <1>4 DEF startupSteps, passwordMessage
  <2> HIDE DEF j
  <2> QED  BY <1>2, <2>1, <2>2, ValidateHonest
<1>5. CASE k.stage = "setup"
  <2>1. x = ended(k) \/ (k.pinned = "open" /\ x = [k EXCEPT !.stage = "loop", !.ready = TRUE])
    BY <1>5 DEF startupSteps, setup
  <2>2. CASE k.pinned = "open" /\ x = [k EXCEPT !.stage = "loop", !.ready = TRUE]
    BY <2>2 DEF Progress, Stages, honest
  <2> QED  BY <1>2, <2>1, <2>2
<1> QED  BY <1>3, <1>4, <1>5 DEF Progress, Stages

\* A connection whose pinned SQLite connection is closed.
released(k) == [k EXCEPT !.pinned = IF @ = "open" THEN "closed" ELSE @]

\* What releaseConn leaves of a connection's progress is as honest as before, and
\* not open.
LEMMA ReleasedHonest ==
    ASSUME NEW k \in Progress, honest(k)
    PROVE  /\ released(k) \in Progress /\ honest(released(k))
           /\ released(k).pinned # "open"
           /\ k.pinned # "nil" => released(k).pinned # "nil"
           /\ released(k).stage = k.stage
           /\ k = fresh => released(k) = fresh
<1>1. CASE k.pinned = "open"
  BY <1>1 DEF released, Progress, honest, fresh
<1>2. CASE k.pinned # "open"
  <2>1. released(k) = k
    BY <1>2 DEF released, Progress
  <2> QED  BY <1>2, <2>1
<1> QED  BY <1>1, <1>2

------------------------------------------------------------------------------
(* Preservation: a lemma per action, a step per part of the invariant that the   *)
(* action can disturb.                                                        *)

\* A goroutine that moves on, with its socket as it was; its client may have been
\* told ReadyForQuery.
LEMMA MoveKept ==
    ASSUME ServerInv, NEW c \in Conns, NEW pc \in {"receive", "handler", "sql", "reply", "ended"},
           NEW r \in BOOLEAN,
           work[c] \in {"receive", "handler", "sql", "reply"},
           pc = "sql" => sess[c].pinned # "nil",
           goto(c, pc),
           sess' = [sess EXCEPT ![c].ready = r],
           crashed' \in BOOLEAN,
           UNCHANGED <<password, server, acceptor, sockets>>
    PROVE  ServerInv'
<1> USE DEF ServerInv, goto, server, sockets, gos
<1>1. PICK k \in Progress : /\ sess' = [sess EXCEPT ![c] = k]
                            /\ k.pinned = sess[c].pinned /\ k.stage = sess[c].stage
                            /\ k.authed = sess[c].authed
  <2> DEFINE k == [sess[c] EXCEPT !.ready = r]
  <2>1. sess[c] \in Progress
    BY DEF TypeOK
  <2>2. /\ k \in Progress
        /\ k.pinned = sess[c].pinned /\ k.stage = sess[c].stage /\ k.authed = sess[c].authed
    BY <2>1 DEF Progress
  <2>3. sess' = [sess EXCEPT ![c] = k]
    OBVIOUS
  <2> QED  BY <2>2, <2>3
<1>2. TypeOK'
  BY <1>1 DEF TypeOK
<1>3. Untouched'
  BY <1>1 DEF TypeOK, Untouched, handed, inHand
<1>4. HandOver'
  BY DEF HandOver, handed
<1>5. Unserved'
  BY DEF Unserved, handed
<1>6. Serving'
  BY <1>1 DEF TypeOK, Serving
<1>7. Tracked'
  BY DEF Tracked, live
<1>8. ReleasedOnExit'
  BY <1>1 DEF TypeOK, ReleasedOnExit
<1>9. CloseWaits'
  BY DEF CloseWaits, live
<1>10. AuthInv'
  BY <1>1 DEF TypeOK, AuthInv
<1>11. (TrackedFirst /\ NoBacklog /\ AcceptorDone)'
  BY DEF TrackedFirst, NoBacklog, AcceptorDone
<1> QED  BY <1>2, <1>3, <1>4, <1>5, <1>6, <1>7, <1>8, <1>9, <1>10, <1>11

\* The same with the session as it was.
LEMMA MoveOnlyKept ==
    ASSUME ServerInv, NEW c \in Conns, NEW pc \in {"receive", "handler", "sql", "reply", "ended"},
           work[c] \in {"receive", "handler", "sql", "reply"},
           pc = "sql" => sess[c].pinned # "nil",
           goto(c, pc),
           crashed' \in BOOLEAN,
           UNCHANGED <<password, server, acceptor, sockets, sess>>
    PROVE  ServerInv'
<1> DEFINE r == sess[c].ready
<1>1. sess \in [Conns -> Progress] /\ sess[c] \in Progress
  BY DEF ServerInv, TypeOK
<1>2. [sess[c] EXCEPT !.ready = r] = sess[c] /\ r \in BOOLEAN
  BY <1>1 DEF Progress
<1>3. [sess EXCEPT ![c].ready = r] = [sess EXCEPT ![c] = [sess[c] EXCEPT !.ready = r]]
  BY <1>1
<1>4. sess' = [sess EXCEPT ![c].ready = r]
  BY <1>1, <1>2, <1>3
<1> HIDE DEF r
<1> QED  BY <1>2, <1>4, MoveKept

\* A client that dials waits behind the listener, untouched.
LEMMA DialKept ==
    ASSUME ServerInv, NEW c \in Conns, Dial(c)
    PROVE  ServerInv'
<1> USE DEF ServerInv, Dial, server, sockets, gos
<1>1. TypeOK'
  BY DEF TypeOK
<1>2. Untouched'
  BY DEF Untouched, handed, inHand
<1>3. HandOver'
  BY DEF HandOver, handed
<1>4. Unserved'
  BY DEF Unserved, handed
<1>5. NoBacklog'
  BY DEF NoBacklog
<1>6. ReleasedOnExit'
  BY DEF ReleasedOnExit
<1>7. CloseWaits'
  BY DEF NoBacklog, CloseWaits
<1>8. (TrackedFirst /\ Serving /\ AcceptorDone /\ Tracked /\ AuthInv)'
  BY DEF TrackedFirst, Serving, AcceptorDone, Tracked, AuthInv, live
<1> QED  BY <1>1, <1>2, <1>3, <1>4, <1>5, <1>6, <1>7, <1>8

\* The client's leaving is noticed by nobody yet.
LEMMA LeaveKept ==
    ASSUME ServerInv, NEW c \in Conns, Leave(c)
    PROVE  ServerInv'
<1> USE DEF ServerInv, Leave, server, sockets, gos
<1>1. TypeOK'
  BY DEF TypeOK
<1>2. (Untouched /\ HandOver /\ Unserved /\ TrackedFirst /\ NoBacklog /\
       Serving /\ AcceptorDone /\ Tracked /\ ReleasedOnExit /\ CloseWaits /\
       AuthInv)'
  BY DEF Untouched, HandOver, Unserved, TrackedFirst, NoBacklog, Serving,
       AcceptorDone, Tracked, ReleasedOnExit, CloseWaits, AuthInv, handed,
       inHand, live
<1> QED  BY <1>1, <1>2

\* The accepted connection is the one in the accept loop's hands.
LEMMA AcceptKept ==
    ASSUME ServerInv, Accept
    PROVE  ServerInv'
<1> USE DEF ServerInv, Accept, server, sockets, gos
<1>1. TypeOK'
  BY DEF TypeOK
<1>2. Untouched'
  BY DEF Untouched, handed, inHand
<1>3. HandOver'
  BY DEF TypeOK, HandOver, Unserved, handed
<1>4. Unserved'
  BY DEF Unserved, handed
<1>5. TrackedFirst'
  BY DEF TrackedFirst
<1>6. NoBacklog'
  BY DEF NoBacklog
<1>7. AcceptorDone'
  BY DEF AcceptorDone
<1>8. ReleasedOnExit'
  BY DEF ReleasedOnExit
<1>9. CloseWaits'
  BY DEF CloseWaits
<1>10. (Serving /\ Tracked /\ AuthInv)'
  BY DEF Serving, Tracked, AuthInv, live
<1> QED  BY <1>1, <1>2, <1>3, <1>4, <1>5, <1>6, <1>7, <1>8, <1>9, <1>10

\* With nothing in its hands the accept loop may fail.
LEMMA ServeFailsKept ==
    ASSUME ServerInv, acceptor.pc = "accept",
           serveFails
    PROVE  ServerInv'
<1> USE DEF ServerInv, serveFails, server, sockets, gos
<1>1. TypeOK'
  BY DEF TypeOK
<1>2. Untouched'
  BY DEF Untouched, handed, inHand
<1>3. HandOver'
  BY DEF HandOver
<1>4. TrackedFirst'
  BY DEF TrackedFirst
<1>5. AcceptorDone'
  BY DEF AcceptorDone
<1>6. (Unserved /\ NoBacklog /\ Serving /\ Tracked /\ ReleasedOnExit /\
       CloseWaits /\ AuthInv)'
  BY DEF Unserved, NoBacklog, Serving, Tracked, ReleasedOnExit, CloseWaits,
       AuthInv, handed, live
<1> QED  BY <1>1, <1>2, <1>3, <1>4, <1>5, <1>6

\* Tracking comes before the goroutine.
LEMMA TrackKept ==
    ASSUME ServerInv, Track
    PROVE  ServerInv'
<1> USE DEF ServerInv, Track, server, sockets, gos
<1>1. TypeOK'
  BY DEF TypeOK, HandOver
<1>2. Untouched'
  BY DEF Untouched, handed, inHand
<1>3. HandOver'
  BY DEF HandOver, handed
<1>4. TrackedFirst'
  BY DEF TrackedFirst
<1>5. AcceptorDone'
  BY DEF AcceptorDone
<1>6. Tracked'
  BY DEF Tracked, live
<1>7. (Unserved /\ NoBacklog /\ Serving /\ ReleasedOnExit /\ CloseWaits /\
       AuthInv)'
  BY DEF Unserved, NoBacklog, Serving, ReleasedOnExit, CloseWaits, AuthInv,
       handed, live
<1> QED  BY <1>1, <1>2, <1>3, <1>4, <1>5, <1>6, <1>7

\* The goroutine starts with a fresh session, tracked unless Close has swept.
LEMMA SpawnKept ==
    ASSUME ServerInv, Spawn
    PROVE  ServerInv'
<1> USE DEF ServerInv, Spawn, server, sockets, gos
<1>1. TypeOK'
  BY DEF TypeOK
<1>2. Untouched'
  BY DEF TypeOK, Untouched, handed, inHand
<1>3. HandOver'
  BY DEF HandOver
<1>4. Unserved'
  BY DEF HandOver, Unserved, handed
<1>5. TrackedFirst'
  BY DEF TrackedFirst
<1>6. Serving'
  BY DEF Untouched, HandOver, Serving, fresh
<1>7. AcceptorDone'
  BY DEF AcceptorDone
<1>8. Tracked'
  BY DEF TrackedFirst, Tracked, live
<1>9. ReleasedOnExit'
  BY DEF ReleasedOnExit
<1>10. CloseWaits'
  BY DEF AcceptorDone, CloseWaits
<1>11. (NoBacklog /\ AuthInv)'
  BY DEF NoBacklog, AuthInv
<1> QED  BY <1>1, <1>2, <1>3, <1>4, <1>5, <1>6, <1>7, <1>8, <1>9, <1>10, <1>11

\* The accept loop returns.
LEMMA ServeReturnsKept ==
    ASSUME ServerInv, ServeReturns
    PROVE  ServerInv'
<1> USE DEF ServerInv, ServeReturns, server, sockets, gos
<1>1. TypeOK'
  BY DEF TypeOK
<1>2. Untouched'
  BY DEF Untouched, handed, inHand
<1>3. HandOver'
  BY DEF HandOver
<1>4. TrackedFirst'
  BY DEF TrackedFirst
<1>5. AcceptorDone'
  BY DEF AcceptorDone
<1>6. (Unserved /\ NoBacklog /\ Serving /\ Tracked /\ ReleasedOnExit /\
       CloseWaits /\ AuthInv)'
  BY DEF Unserved, NoBacklog, Serving, Tracked, ReleasedOnExit, CloseWaits,
       AuthInv, handed, live
<1> QED  BY <1>1, <1>2, <1>3, <1>4, <1>5, <1>6

\* A packet of the startup, or the setup, keeps authentication first.
LEMMA StartupStepKept ==
    ASSUME ServerInv, NEW c \in Conns, StartupStep(c)
    PROVE  ServerInv'
<1> USE DEF ServerInv, goto
<1>1. PICK k \in startupSteps(sess[c], password, canceled) :
          /\ sess' = [sess EXCEPT ![c] = k]
          /\ goto(c, CASE k.stage = "ended" -> "ended"
                       [] k.stage = "setup" -> "handler"
                       [] OTHER             -> "reply")
  BY DEF StartupStep
<1>2. PICK pc \in {"ended", "handler", "reply"} :
          goto(c, pc) /\ (k.stage = "ended" => pc = "ended")
  BY <1>1
<1>3. /\ work[c] = "handler"
      /\ UNCHANGED <<password, listening, canceled, mu, conns, closer, sweep, sweeping,
                     groupErr, acceptor, sock, peer, crashed>>
  BY DEF StartupStep, server, sockets
<1>4. k \in Progress /\ honest(k)
  BY StartupHonest DEF StartupStep, TypeOK, AuthInv, Serving, honest
<1>5. TypeOK'
  BY <1>1, <1>3, <1>4 DEF TypeOK
<1>6. Untouched'
  BY <1>1, <1>3 DEF Untouched, handed, inHand
<1>7. HandOver'
  BY <1>1, <1>3 DEF HandOver, handed
<1>8. Unserved'
  BY <1>1, <1>3 DEF Unserved, handed
<1>9. Serving'
  BY <1>1 DEF TypeOK, Serving
<1>10. Tracked'
  BY <1>1, <1>3 DEF Tracked, live
<1>11. ReleasedOnExit'
  BY <1>1, <1>3 DEF ReleasedOnExit
<1>12. CloseWaits'
  BY <1>3 DEF CloseWaits, live
<1>13. AuthInv'
  BY <1>1, <1>3, <1>4 DEF AuthInv, honest
<1>14. (TrackedFirst /\ NoBacklog /\ AcceptorDone)'
  BY <1>3 DEF TrackedFirst, NoBacklog, AcceptorDone
<1> QED  BY <1>5, <1>6, <1>7, <1>8, <1>9, <1>10, <1>11, <1>12, <1>13, <1>14

\* The goroutine releases what its connection held before it is gone.
LEMMA CloseClientConnectionKept ==
    ASSUME ServerInv, NEW c \in Conns, CloseClientConnection(c)
    PROVE  ServerInv'
<1> USE DEF ServerInv, CloseClientConnection, goto, closeConn
<1>1. sess' = [sess EXCEPT ![c] = released(sess[c])]
  BY DEF CloseClientConnection, closeConn, released, TypeOK
<1>2. /\ released(sess[c]) \in Progress /\ honest(released(sess[c]))
      /\ released(sess[c]).pinned # "open"
      /\ released(sess[c]).stage = sess[c].stage
  BY ReleasedHonest DEF TypeOK, AuthInv, honest
<1>3. TypeOK'
  BY <1>1, <1>2 DEF TypeOK
<1>4. Untouched'
  BY DEF Untouched, handed, inHand
<1>5. HandOver'
  BY DEF HandOver, handed
<1>6. Unserved'
  BY DEF Unserved, handed
<1>7. TrackedFirst'
  BY DEF HandOver, TrackedFirst, handed
<1>8. NoBacklog'
  BY DEF NoBacklog
<1>9. Serving'
  BY DEF Serving
<1>10. Tracked'
  BY DEF TypeOK, Tracked, live
<1>11. ReleasedOnExit'
  BY DEF TypeOK, ReleasedOnExit
<1>12. CloseWaits'
  BY DEF CloseWaits, live
<1>13. AuthInv'
  BY DEF AuthInv
<1>14. AcceptorDone'
  BY DEF AcceptorDone
<1> QED  BY <1>3, <1>4, <1>5, <1>6, <1>7, <1>8, <1>9, <1>10, <1>11, <1>12,
       <1>13, <1>14

\* Close begins.
LEMMA SignalKept ==
    ASSUME ServerInv, Signal
    PROVE  ServerInv'
<1> USE DEF ServerInv, Signal, server, sockets, gos
<1>1. TypeOK'
  BY DEF TypeOK
<1>2. TrackedFirst'
  BY DEF TrackedFirst
<1>3. NoBacklog'
  BY DEF NoBacklog
<1>4. AcceptorDone'
  BY DEF AcceptorDone
<1>5. Tracked'
  BY DEF Tracked, live
<1>6. CloseWaits'
  BY DEF CloseWaits
<1>7. (Untouched /\ HandOver /\ Unserved /\ Serving /\ ReleasedOnExit /\
       AuthInv)'
  BY DEF Untouched, HandOver, Unserved, Serving, ReleasedOnExit, AuthInv,
       handed, inHand
<1> QED  BY <1>1, <1>2, <1>3, <1>4, <1>5, <1>6, <1>7

\* Close closes the listener; nobody waits behind it any more.
LEMMA CloseListenerKept ==
    ASSUME ServerInv, CloseListener
    PROVE  ServerInv'
<1> USE DEF ServerInv, CloseListener, server, sockets, gos
<1>1. TypeOK'
  BY DEF TypeOK
<1>2. Untouched'
  BY DEF Untouched, handed, inHand
<1>3. HandOver'
  BY DEF HandOver, handed
<1>4. Unserved'
  BY DEF Unserved, handed
<1>5. TrackedFirst'
  BY DEF TrackedFirst
<1>6. NoBacklog'
  BY DEF NoBacklog
<1>7. AcceptorDone'
  BY DEF AcceptorDone
<1>8. Tracked'
  BY DEF Tracked, live
<1>9. ReleasedOnExit'
  BY DEF ReleasedOnExit
<1>10. CloseWaits'
  BY DEF CloseWaits
<1>11. (Serving /\ AuthInv)'
  BY DEF Serving, AuthInv
<1> QED  BY <1>1, <1>2, <1>3, <1>4, <1>5, <1>6, <1>7, <1>8, <1>9, <1>10, <1>11

\* Close cancels the context.
LEMMA CancelKept ==
    ASSUME ServerInv, Cancel
    PROVE  ServerInv'
<1> USE DEF ServerInv, Cancel, server, sockets, gos
<1>1. TypeOK'
  BY DEF TypeOK
<1>2. TrackedFirst'
  BY DEF TrackedFirst
<1>3. NoBacklog'
  BY DEF NoBacklog
<1>4. AcceptorDone'
  BY DEF AcceptorDone
<1>5. Tracked'
  BY DEF Tracked, live
<1>6. CloseWaits'
  BY DEF CloseWaits
<1>7. (Untouched /\ HandOver /\ Unserved /\ Serving /\ ReleasedOnExit /\
       AuthInv)'
  BY DEF Untouched, HandOver, Unserved, Serving, ReleasedOnExit, AuthInv,
       handed, inHand
<1> QED  BY <1>1, <1>2, <1>3, <1>4, <1>5, <1>6, <1>7

\* Close takes the mutex for the sweep.
LEMMA LockConnsKept ==
    ASSUME ServerInv, LockConns
    PROVE  ServerInv'
<1> USE DEF ServerInv, LockConns, server, sockets, gos
<1>1. TypeOK'
  BY DEF TypeOK
<1>2. TrackedFirst'
  BY DEF TrackedFirst
<1>3. NoBacklog'
  BY DEF NoBacklog
<1>4. AcceptorDone'
  BY DEF AcceptorDone
<1>5. Tracked'
  BY DEF Tracked, live
<1>6. CloseWaits'
  BY DEF CloseWaits
<1>7. (Untouched /\ HandOver /\ Unserved /\ Serving /\ ReleasedOnExit /\
       AuthInv)'
  BY DEF Untouched, HandOver, Unserved, Serving, ReleasedOnExit, AuthInv,
       handed, inHand
<1> QED  BY <1>1, <1>2, <1>3, <1>4, <1>5, <1>6, <1>7

\* The sweep closes a tracked connection's SQLite connection, or dies of it.
LEMMA SweepBeginKept ==
    ASSUME ServerInv, NEW c \in Conns, SweepBegin(c)
    PROVE  ServerInv'
<1> USE DEF ServerInv, SweepBegin, server, sockets, gos
<1>1. PICK k \in {sess[c], released(sess[c])} : sess' = [sess EXCEPT ![c] = k]
  BY DEF SweepBegin, released, TypeOK
<1>2. /\ k \in Progress /\ honest(k) /\ k.stage = sess[c].stage
      /\ sess[c].pinned # "open" => k.pinned # "open"
      /\ sess[c].pinned # "nil" => k.pinned # "nil"
      /\ sess[c] = fresh => k = fresh
  BY ReleasedHonest DEF TypeOK, AuthInv, honest
<1>3. TypeOK'
  BY <1>1, <1>2 DEF TypeOK
<1>4. Untouched'
  BY <1>1, <1>2 DEF Untouched, handed, inHand
<1>5. Serving'
  BY <1>1, <1>2 DEF Serving
<1>6. ReleasedOnExit'
  BY <1>1, <1>2 DEF ReleasedOnExit
<1>7. CloseWaits'
  BY DEF CloseWaits
<1>8. AuthInv'
  BY <1>1, <1>2 DEF AuthInv, honest
<1>9. (HandOver /\ Unserved /\ TrackedFirst /\ NoBacklog /\ AcceptorDone /\
       Tracked)'
  BY DEF HandOver, Unserved, TrackedFirst, NoBacklog, AcceptorDone, Tracked,
       handed, live
<1> QED  BY <1>3, <1>4, <1>5, <1>6, <1>7, <1>8, <1>9

\* The sweep closes its socket.
LEMMA SweepEndKept ==
    ASSUME ServerInv, SweepEnd
    PROVE  ServerInv'
<1> USE DEF ServerInv, SweepEnd, server, sockets, gos
<1>1. TypeOK'
  BY DEF TypeOK
<1>2. Untouched'
  BY DEF Untouched, handed, inHand
<1>3. HandOver'
  BY DEF HandOver, handed
<1>4. Unserved'
  BY DEF Unserved, handed
<1>5. NoBacklog'
  BY DEF NoBacklog
<1>6. ReleasedOnExit'
  BY DEF ReleasedOnExit
<1>7. CloseWaits'
  BY DEF CloseWaits, live
<1>8. (TrackedFirst /\ Serving /\ AcceptorDone /\ Tracked /\ AuthInv)'
  BY DEF TrackedFirst, Serving, AcceptorDone, Tracked, AuthInv, live
<1> QED  BY <1>1, <1>2, <1>3, <1>4, <1>5, <1>6, <1>7, <1>8

\* After the sweep nothing need be tracked.
LEMMA UnlockConnsKept ==
    ASSUME ServerInv, UnlockConns
    PROVE  ServerInv'
<1> USE DEF ServerInv, UnlockConns, server, sockets, gos
<1>1. TypeOK'
  BY DEF TypeOK
<1>2. TrackedFirst'
  BY DEF TrackedFirst
<1>3. NoBacklog'
  BY DEF NoBacklog
<1>4. AcceptorDone'
  BY DEF AcceptorDone
<1>5. Tracked'
  BY DEF Tracked
<1>6. CloseWaits'
  BY DEF CloseWaits
<1>7. (Untouched /\ HandOver /\ Unserved /\ Serving /\ ReleasedOnExit /\
       AuthInv)'
  BY DEF Untouched, HandOver, Unserved, Serving, ReleasedOnExit, AuthInv,
       handed, inHand
<1> QED  BY <1>1, <1>2, <1>3, <1>4, <1>5, <1>6, <1>7

\* Close returns when the goroutines are gone and the accept loop is done.
LEMMA WaitKept ==
    ASSUME ServerInv, Wait
    PROVE  ServerInv'
<1> USE DEF ServerInv, Wait, server, sockets, gos
<1>1. TypeOK'
  BY DEF TypeOK
<1>2. TrackedFirst'
  BY DEF TrackedFirst
<1>3. NoBacklog'
  BY DEF NoBacklog
<1>4. AcceptorDone'
  BY DEF AcceptorDone
<1>5. Tracked'
  BY DEF Tracked
<1>6. CloseWaits'
  BY DEF TypeOK, Untouched, NoBacklog, ReleasedOnExit, CloseWaits, handed,
       inHand, live, fresh
<1>7. (Untouched /\ HandOver /\ Unserved /\ Serving /\ ReleasedOnExit /\
       AuthInv)'
  BY DEF Untouched, HandOver, Unserved, Serving, ReleasedOnExit, AuthInv,
       handed, inHand
<1> QED  BY <1>1, <1>2, <1>3, <1>4, <1>5, <1>6, <1>7

------------------------------------------------------------------------------
(* The theorems.                                                             *)

\* The invariant holds before the server is opened.
LEMMA InitInv == Init => ServerInv
<1> SUFFICES ASSUME Init PROVE ServerInv
  OBVIOUS
<1>1. fresh \in Progress
  BY DEF fresh, Progress, Stages
<1>2. TypeOK /\ Untouched /\ HandOver /\ Unserved
  BY <1>1 DEF Init, TypeOK, Untouched, HandOver, Unserved, handed, inHand
<1>3. TrackedFirst /\ NoBacklog /\ Serving /\ AcceptorDone
  BY DEF Init, TrackedFirst, NoBacklog, Serving, AcceptorDone
<1>4. Tracked /\ ReleasedOnExit /\ CloseWaits /\ AuthInv
  BY DEF Init, Tracked, ReleasedOnExit, CloseWaits, AuthInv, live, fresh
<1> QED  BY <1>2, <1>3, <1>4 DEF ServerInv

\* A goroutine of a connection keeps the invariant, whichever step it takes.
LEMMA GoroutineKept ==
    ASSUME ServerInv, NEW c \in Conns, Receive(c) \/ Goroutine(c)
    PROVE  ServerInv'
<1>1. CASE Receive(c) \/ ReceiveError(c) \/ SqlReturns(c) \/ Reply(c)
  <2>1. PICK pc \in {"receive", "handler", "reply", "ended"} : goto(c, pc)
    BY <1>1 DEF Receive, ReceiveError, SqlReturns, Reply
  <2>2. /\ work[c] \in {"receive", "handler", "sql", "reply"}
        /\ crashed' \in BOOLEAN
        /\ UNCHANGED <<password, server, acceptor, sockets, sess>>
    BY <1>1 DEF Receive, ReceiveError, SqlReturns, Reply, ServerInv, TypeOK
  <2> QED  BY <2>1, <2>2, MoveOnlyKept
<1>2. CASE HandleMessage(c)
  <2>1. /\ work[c] = "handler" /\ crashed' \in BOOLEAN
        /\ UNCHANGED <<password, server, acceptor, sockets>>
    BY <1>2 DEF HandleMessage, ServerInv, TypeOK
  <2>2. CASE goto(c, "reply") /\ \E r \in {sess[c].ready, TRUE} : sess' = [sess EXCEPT ![c].ready = r]
    <3>1. {sess[c].ready, TRUE} \subseteq BOOLEAN
      BY DEF ServerInv, TypeOK, Progress
    <3>2. PICK r \in BOOLEAN : sess' = [sess EXCEPT ![c].ready = r]
      BY <2>2, <3>1
    <3> QED  BY <2>1, <2>2, <3>2, MoveKept
  <2>3. CASE UNCHANGED sess /\ UNCHANGED work
    <3>1. goto(c, "handler")
      BY <2>1, <2>3 DEF goto, ServerInv, TypeOK
    <3> QED  BY <2>1, <2>3, <3>1, MoveOnlyKept
  <2>4. CASE UNCHANGED sess /\ goto(c, "ended")
    BY <2>1, <2>4, MoveOnlyKept
  <2>5. CASE UNCHANGED sess /\ sess[c].pinned = "open" /\ goto(c, "sql")
    BY <2>1, <2>5, MoveOnlyKept
  <2> QED  BY <1>2, <2>2, <2>3, <2>4, <2>5 DEF HandleMessage
<1>3. CASE StartupStep(c)
  BY <1>3, StartupStepKept
<1>4. CASE CloseClientConnection(c)
  BY <1>4, CloseClientConnectionKept
<1> QED  BY <1>1, <1>2, <1>3, <1>4 DEF Goroutine

\* Every step keeps it.
LEMMA StepInv == ServerInv /\ [Next]_vars => ServerInv'
<1> SUFFICES ASSUME ServerInv, [Next]_vars PROVE ServerInv'
  OBVIOUS
<1>1. ASSUME NEW c \in Conns, Dial(c) \/ Leave(c) \/ Receive(c) \/ Goroutine(c)
      PROVE  ServerInv'
  BY <1>1, DialKept, LeaveKept, GoroutineKept
<1>2. CASE Acceptor \/ AcceptError
  <2>1. CASE AcceptClosed \/ AcceptError
    BY <2>1, ServeFailsKept DEF AcceptClosed, AcceptError
  <2> QED
    BY <1>2, <2>1, AcceptKept, TrackKept, SpawnKept, ServeReturnsKept DEF Acceptor
<1>3. CASE Signal
  BY <1>3, SignalKept
<1>4. CASE Closing
  <2>1. ASSUME NEW c \in Conns, SweepBegin(c) PROVE ServerInv'
    BY <2>1, SweepBeginKept
  <2> QED
    BY <1>4, <2>1, CloseListenerKept, CancelKept, LockConnsKept, SweepEndKept,
       UnlockConnsKept, WaitKept DEF Closing
<1>5. CASE UNCHANGED vars
  <2> USE <1>5 DEF vars, server, sockets, gos
  <2>1. (TypeOK /\ Untouched /\ HandOver /\ Unserved /\ TrackedFirst /\ NoBacklog)'
    BY DEF ServerInv, TypeOK, Untouched, HandOver, Unserved, TrackedFirst, NoBacklog,
           handed, inHand
  <2>2. (Serving /\ AcceptorDone /\ Tracked /\ ReleasedOnExit /\ CloseWaits /\ AuthInv)'
    BY DEF ServerInv, Serving, AcceptorDone, Tracked, ReleasedOnExit, CloseWaits,
           AuthInv, live
  <2> QED  BY <2>1, <2>2 DEF ServerInv
<1> QED  BY <1>1, <1>2, <1>3, <1>4, <1>5 DEF Next

\* The inductive invariant holds of every behaviour, whatever the clients do
\* and whenever the signal comes (server.go serve, serveConn, Close).
THEOREM Invariance == Spec => []ServerInv
  BY InitInv, StepInv, PTL DEF Spec

\* The server's state is well typed.
THEOREM TypeCorrect == Spec => []TypeOK
<1>1. ServerInv => TypeOK
  BY DEF ServerInv
<1> QED  BY <1>1, Invariance, PTL

\* Until Close has swept, it will find every connection being served
\* (server.go serve, CloseClientConnections).
THEOREM Tracking == Spec => []Tracked
<1>1. ServerInv => Tracked
  BY DEF ServerInv
<1> QED  BY <1>1, Invariance, PTL

\* A goroutine that is gone has closed its socket and its SQLite connection
\* (server.go CloseClientConnection, Conn.Close).
THEOREM Releasing == Spec => []ReleasedOnExit
<1>1. ServerInv => ReleasedOnExit
  BY DEF ServerInv
<1> QED  BY <1>1, Invariance, PTL

\* Close leaves nothing behind (server.go Close).
THEOREM Waiting == Spec => []CloseWaits
<1>1. ServerInv => CloseWaits
  BY DEF ServerInv
<1> QED  BY <1>1, Invariance, PTL

\* No SQLite connection is opened for, and no SQL call made for, a client that has
\* not authenticated (server.go serveConnStartup, authenticate).
THEOREM Authenticating == Spec => []AuthFirst
<1>1. ServerInv => AuthFirst
  BY DEF ServerInv, AuthInv, AuthFirst
<1> QED  BY <1>1, Invariance, PTL
=============================================================================
