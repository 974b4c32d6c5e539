--------------------------- MODULE SessionProofs ---------------------------
(***************************************************************************)
(* Theorems of Session, for every set of names, statements, parameters and *)
(* units of work, and any failures of SQLite; and of Refinement: to a      *)
(* plain client, the session says what is true of SQLite's transaction,    *)
(* and is the session Backend promises.                                    *)
(***************************************************************************)
EXTENDS Refinement, TLAPS, SequenceTheorems

\* Outside a transaction nothing is pending.
quiet(d) == ~inTx(d) => d.pending = {} /\ d.saves = <<>>
Quiet == quiet(db)

\* A portal with open rows has been executed and has not run; one that ran has
\* been executed, once.
sound(c) ==
    /\ c.runs <= 1
    /\ c.runs # 0 => c.executed /\ c.rows = NoRows
    /\ c.rows # NoRows => c.executed
PortalsSound == \A p \in DOMAIN portals : sound(portals[p])

\* While a reply of the extended protocol was an error, messages are skipped.
Silenced == phase = "loop" /\ wire = "failed" => skipUntilSync

\* The inductive invariant.
SessionInv ==
    TypeOK /\ ResourcesTracked /\ CloseReleases /\ Quiet /\ PortalsSound /\ Silenced

------------------------------------------------------------------------------
(* The pinned connection.                                                    *)

\* A quiet connection outside a transaction is one just opened.
LEMMA QuietOpened ==
    ASSUME NEW d \in Database, quiet(d), ~inTx(d)
    PROVE  d = opened(d.durable)
  BY DEF quiet, inTx, opened, Database

\* What running a statement leaves is a database, and nothing is pending in it
\* outside a transaction.
LEMMA RunResult ==
    ASSUME NEW d \in Database, quiet(d), NEW sql, NEW r \in run(d, sql)
    PROVE  r.ok \in BOOLEAN /\ r.db \in Database /\ quiet(r.db)
<1> DEFINE good(e) == e \in Database /\ quiet(e)
<1>1. good(d)
  OBVIOUS
<1>2. good(rolledBack(d)) /\ good(committed(d))
  BY DEF rolledBack, committed, opened, Database, quiet
<1>3. ASSUME NEW w \in fresh(d) PROVE good(written(d, w))
  BY <1>3 DEF written, fresh, inTx, quiet, Database
<1>4. good(saved(d))
  <2>1. Append(d.saves, d.pending) \in Seq(SUBSET Work)
    BY DEF Database
  <2>2. saved(d) \in Database
    BY <2>1 DEF saved, Database
  <2>3. saved(d).tx # "none"
    BY DEF saved, Database, inTx
  <2> QED  BY <2>2, <2>3 DEF quiet, inTx
<1>5. ASSUME d.saves # <<>> PROVE good(released(d)) /\ good(rewound(d))
  <2>1. inTx(d)
    BY <1>5 DEF quiet
  <2>2. Len(d.saves) \in 1..Len(d.saves)
    BY <1>5, EmptySeq DEF Database
  <2>3. d.saves[Len(d.saves)] \in SUBSET Work
    BY <2>2 DEF Database
  <2>4. good(rewound(d))
    BY <2>1, <2>3 DEF rewound, inTx, quiet, Database
  <2>5. SubSeq(d.saves, 1, Len(d.saves) - 1) \in Seq(SUBSET Work)
    BY <2>2 DEF Database
  <2>6. good(released(d))
    BY <1>2, <2>1, <2>5 DEF released, inTx, quiet, Database
  <2> QED  BY <2>4, <2>6
<1>6. good([d EXCEPT !.tx = "begin"])
  BY DEF Database, inTx, quiet
<1>7. ASSUME NEW e \in successes(d, sql) PROVE good(e)
  BY <1>1, <1>2, <1>3, <1>4, <1>5, <1>6, <1>7 DEF successes
<1>8. ASSUME NEW e \in failures(d, sql) PROVE good(e)
  BY <1>1, <1>2, <1>8 DEF failures
<1>9. PICK e \in successes(d, sql) \cup failures(d, sql) :
           r \in {[ok |-> ok, db |-> e] : ok \in BOOLEAN}
  BY DEF run
<1>10. r.ok \in BOOLEAN /\ r.db = e
  BY <1>9
<1> QED
  BY <1>7, <1>8, <1>9, <1>10

------------------------------------------------------------------------------
(* The maps of a Conn.                                                       *)

\* Deleting keys.
LEMMA RestrictMap ==
    ASSUME NEW S, NEW m, m \in [DOMAIN m -> S], NEW D \in SUBSET DOMAIN m
    PROVE  /\ Restrict(m, D) \in [D -> S]
           /\ DOMAIN Restrict(m, D) = D
           /\ \A x \in D : Restrict(m, D)[x] = m[x]
  BY DEF Restrict

\* The map of a new Conn.
LEMMA EmptyMap ==
    ASSUME NEW S
    PROVE  DOMAIN emptyMap = {} /\ emptyMap \in [{} -> S]
  BY DEF emptyMap

------------------------------------------------------------------------------
(* Executing a portal and streaming its rows.                                *)

\* y is what handling a portal c leaves: well typed, sound, the same statements,
\* and of the rows only c's own are opened or closed.
settled(c, y) ==
    /\ y.ok \in BOOLEAN /\ y.portal \in Portal /\ sound(y.portal)
    /\ y.db \in Database /\ quiet(y.db)
    /\ DOMAIN y.bound = DOMAIN bound /\ y.bound \in [DOMAIN bound -> Params \cup {Nulls}]
    /\ y.open \subseteq Cursors
    /\ y.open = (open \ {c.rows}) \cup ({y.portal.rows} \ {NoRows})
    /\ y.portal.rows \notin open \ {c.rows}

\* A portal that has not run and is run once is well typed and sound.
LEMMA RanSound ==
    ASSUME NEW c \in Portal, c.runs = 0, c.executed, c.rows = NoRows, NEW args
    PROVE  ran(c, args) \in Portal /\ sound(ran(c, args)) /\ ran(c, args).rows = NoRows
<1> DEFINE s == IF args = c.params THEN c.strayed ELSE TRUE
<1>1. s \in BOOLEAN
  BY DEF Portal
<1>2. ran(c, args) = [c EXCEPT !.runs = 1, !.strayed = s]
  BY DEF ran, Portal
<1> HIDE DEF s
<1>3. [c EXCEPT !.runs = 1, !.strayed = s] \in Portal
  <2>1. ASSUME NEW n \in 0..2 PROVE [c EXCEPT !.runs = n, !.strayed = s] \in Portal
    BY <1>1 DEF Portal
  <2> QED  BY <2>1
<1>4. /\ ran(c, args).runs = 1
      /\ ran(c, args).rows = c.rows
      /\ ran(c, args).executed = c.executed
  BY <1>2 DEF Portal
<1> QED  BY <1>2, <1>3, <1>4 DEF sound

\* Executing a portal settles it, whether or not it was executed before.
LEMMA ExecuteSettles ==
    ASSUME TypeOK, Quiet, NEW c \in Portal, sound(c), NEW x \in execute(c),
           c.rows # NoRows => c.rows \in open
    PROVE  settled(c, x)
<1> USE SessionAssumption
<1>1. NoRows \notin open
  BY DEF TypeOK
<1>2. CASE c.executed
  <2>1. x = result(~c.execErr, c, db, bound, open)
    BY <1>2 DEF execute
  <2> QED  BY <1>1, <2>1 DEF settled, result, Portal, TypeOK, Quiet
<1>3. CASE ~c.executed
  <2>1. c.rows = NoRows /\ c.runs = 0
    BY <1>3 DEF sound, Portal
  <2>2. x \in firstExecution(c)
    BY <1>3 DEF execute
  <2>3. ASSUME x = result(FALSE, failedPortal(c), db, bound, open)
        PROVE  settled(c, x)
    <3>1. failedPortal(c) \in Portal /\ sound(failedPortal(c))
      BY <2>1 DEF failedPortal, Portal, sound
    <3>2. failedPortal(c).rows = NoRows
      BY <2>1 DEF failedPortal, Portal
    <3> QED  BY <1>1, <2>1, <2>3, <3>1, <3>2 DEF settled, result, TypeOK, Quiet
  <2>4. CASE c.stmt \notin DOMAIN bound
    BY <2>2, <2>3, <2>4 DEF firstExecution
  <2>5. CASE c.stmt \in DOMAIN bound
    <3> DEFINE start == [c EXCEPT !.executed = TRUE]
               args  == [bound EXCEPT ![c.stmt] = c.params]
    <3>1. DOMAIN args = DOMAIN bound /\ args \in [DOMAIN bound -> Params \cup {Nulls}]
      BY <2>5 DEF Portal, TypeOK
    <3>2. ASSUME NEW r \in Cursors \ open,
                 x = result(TRUE, [start EXCEPT !.rows = r], db, args, open \cup {r})
          PROVE  settled(c, x)
      <4>1. [start EXCEPT !.rows = r] \in Portal /\ sound([start EXCEPT !.rows = r])
        BY <2>1, <3>2 DEF Portal, sound
      <4>2. [start EXCEPT !.rows = r].rows = r
        BY DEF Portal
      <4> HIDE DEF start, args
      <4> QED  BY <1>1, <2>1, <3>1, <3>2, <4>1, <4>2 DEF settled, result, TypeOK, Quiet
    <3>3. ASSUME NEW r \in run(db, c.query.sql), x = result(TRUE, ran(start, c.params), r.db, args, open)
          PROVE  settled(c, x)
      <4>1. r.db \in Database /\ quiet(r.db)
        BY RunResult DEF TypeOK, Quiet
      <4>2. ran(start, c.params) \in Portal /\ sound(ran(start, c.params))
        <5>1. start \in Portal /\ start.runs = 0 /\ start.executed /\ start.rows = NoRows
          BY <2>1 DEF Portal
        <5> HIDE DEF start
        <5> QED  BY <5>1, RanSound DEF Portal
      <4>3. ran(start, c.params).rows = NoRows
        BY <2>1 DEF ran, Portal
      <4> HIDE DEF start, args
      <4> QED  BY <1>1, <2>1, <3>1, <3>3, <4>1, <4>2, <4>3 DEF settled, result, TypeOK
    <3>4. ASSUME NEW r \in run(db, c.query.sql), x = result(FALSE, failedPortal(c), r.db, args, open)
          PROVE  settled(c, x)
      <4>1. r.db \in Database /\ quiet(r.db)
        BY RunResult DEF TypeOK, Quiet
      <4>2. failedPortal(c) \in Portal /\ sound(failedPortal(c)) /\ failedPortal(c).rows = NoRows
        BY <2>1 DEF failedPortal, Portal, sound
      <4> HIDE DEF args
      <4> QED  BY <1>1, <2>1, <3>1, <3>4, <4>1, <4>2 DEF settled, result, TypeOK
    <3> QED
      BY <2>2, <2>3, <2>5, <3>2, <3>3, <3>4 DEF firstExecution
  <2> QED  BY <2>4, <2>5
<1> QED  BY <1>2, <1>3

\* Streaming a portal that was executed settles it.
LEMMA StreamSettles ==
    ASSUME TypeOK, Quiet, NEW c \in Portal, NEW x, settled(c, x), NEW y \in stream(x),
           c.rows # NoRows => c.rows \in open
    PROVE  settled(c, y)
<1> USE SessionAssumption
<1>1. NoRows \notin open
  BY DEF TypeOK
<1> DEFINE d      == x.portal
           closed == [d EXCEPT !.rows = NoRows]
           rest   == x.open \ {d.rows}
<1>2. d \in Portal /\ sound(d) /\ x.db \in Database /\ quiet(x.db)
  BY DEF settled
<1>3. CASE d.rows = NoRows \/ ~x.ok
  BY <1>3 DEF stream
<1>4. CASE d.rows # NoRows /\ x.ok
  <2>1. d.runs = 0 /\ d.executed
    BY <1>2, <1>4 DEF sound
  <2>2. rest \subseteq Cursors /\ rest = open \ {c.rows} /\ NoRows \notin rest
    BY <1>1, <1>4 DEF settled, TypeOK
  <2>3. closed \in Portal /\ closed.runs = 0 /\ closed.executed /\ closed.rows = NoRows
    BY <1>2, <2>1 DEF Portal
  <2>4. sound(closed)
    BY <2>3 DEF sound
  <2>5. DOMAIN x.bound = DOMAIN bound /\ x.bound \in [DOMAIN bound -> Params \cup {Nulls}]
    BY DEF settled
  <2>6. y \in IF d.stmt \notin DOMAIN x.bound THEN {result(TRUE, closed, x.db, x.bound, rest)}
              ELSE {IF r.ok THEN result(TRUE, ran(closed, x.bound[d.stmt]), r.db, x.bound, rest)
                            ELSE result(FALSE, [closed EXCEPT !.failed = TRUE], r.db, x.bound, rest)
                      : r \in run(x.db, d.query.sql)}
    BY <1>4 DEF stream
  <2>7. ASSUME NEW ok \in BOOLEAN, NEW e \in Portal, sound(e), e.rows = NoRows,
               NEW b \in Database, quiet(b), y = result(ok, e, b, x.bound, rest)
        PROVE  settled(c, y)
    <3> HIDE DEF rest, d
    <3> QED  BY <2>2, <2>5, <2>7 DEF settled, result
  <2>8. ASSUME NEW r \in run(x.db, d.query.sql)
        PROVE  r.db \in Database /\ quiet(r.db)
    BY <1>2, <2>8, RunResult
  <2>9. ran(closed, x.bound[d.stmt]) \in Portal /\ sound(ran(closed, x.bound[d.stmt]))
          /\ ran(closed, x.bound[d.stmt]).rows = NoRows
    <3> HIDE DEF closed
    <3> QED  BY <2>3, RanSound
  <2>10. [closed EXCEPT !.failed = TRUE] \in Portal /\ sound([closed EXCEPT !.failed = TRUE])
           /\ [closed EXCEPT !.failed = TRUE].rows = NoRows
    <3> HIDE DEF closed
    <3> DEFINE f == [closed EXCEPT !.failed = TRUE]
    <3>1. f \in Portal
      BY <2>3 DEF Portal
    <3>2. f.rows = closed.rows /\ f.runs = closed.runs
      BY <2>3 DEF Portal
    <3> HIDE DEF f
    <3>3. sound(f)
      BY <2>3, <3>2 DEF sound
    <3> QED  BY <2>3, <3>1, <3>2, <3>3 DEF f
  <2> HIDE DEF d, closed, rest
  <2> QED
    BY <1>2, <2>3, <2>4, <2>6, <2>7, <2>8, <2>9, <2>10
<1> QED  BY <1>3, <1>4

------------------------------------------------------------------------------
(* The rows and the statements stay tracked.                                 *)

\* Storing a portal under a name whose rows were closed.
LEMMA StorePortal ==
    ASSUME TypeOK, RowsTracked, PortalsSound, NEW p \in PortalNames, NEW c \in Portal, sound(c),
           portals' = Put(portals, p, c),
           c.rows \notin open \ rowsOf(p),
           open' = (open \ rowsOf(p)) \cup ({c.rows} \ {NoRows})
    PROVE  /\ DOMAIN portals' \subseteq PortalNames /\ portals' \in [DOMAIN portals' -> Portal]
           /\ open' \subseteq Cursors
           /\ RowsTracked' /\ PortalsSound'
<1> USE SessionAssumption
<1>1. /\ portals' \in [DOMAIN portals \cup {p} -> Portal]
      /\ DOMAIN portals' = DOMAIN portals \cup {p}
      /\ portals'[p] = c
      /\ \A r \in DOMAIN portals \ {p} : portals'[r] = portals[r]
  <2>1. portals \in [DOMAIN portals -> Portal]
    BY DEF TypeOK
  <2> QED  BY <2>1 DEF Put
<1>2. /\ DOMAIN portals' \subseteq PortalNames
      /\ portals' \in [DOMAIN portals' -> Portal]
      /\ open' \subseteq Cursors
  BY <1>1 DEF TypeOK, Portal
<1>3. PortalsSound'
  BY <1>1 DEF PortalsSound
<1>4. \A r \in DOMAIN portals \ {p} :
         portals[r].rows # NoRows => portals[r].rows \in open \ rowsOf(p)
  BY DEF RowsTracked, rowsOf
<1>5. open' = {portals'[r].rows : r \in DOMAIN portals'} \ {NoRows}
  <2>1. open \ rowsOf(p) = {portals[r].rows : r \in DOMAIN portals \ {p}} \ {NoRows}
    BY <1>4 DEF RowsTracked, rowsOf
  <2> QED  BY <1>1, <2>1
<1>6. \A r, t \in DOMAIN portals' :
         portals'[r].rows = portals'[t].rows => r = t \/ portals'[r].rows = NoRows
  BY <1>1, <1>4 DEF RowsTracked
<1> QED  BY <1>2, <1>3, <1>5, <1>6 DEF RowsTracked

\* Deleting a portal whose rows were closed.
LEMMA DropPortal ==
    ASSUME TypeOK, RowsTracked, PortalsSound, NEW p \in PortalNames,
           portals' = Without(portals, p), open' = open \ rowsOf(p)
    PROVE  /\ DOMAIN portals' \subseteq PortalNames /\ portals' \in [DOMAIN portals' -> Portal]
           /\ open' \subseteq Cursors
           /\ RowsTracked' /\ PortalsSound'
<1>1. /\ portals' \in [DOMAIN portals \ {p} -> Portal]
      /\ DOMAIN portals' = DOMAIN portals \ {p}
      /\ \A r \in DOMAIN portals \ {p} : portals'[r] = portals[r]
  <2>1. portals \in [DOMAIN portals -> Portal] /\ DOMAIN portals \ {p} \in SUBSET DOMAIN portals
    BY DEF TypeOK
  <2> QED  BY <2>1, RestrictMap DEF Without
<1>2. \A r \in DOMAIN portals \ {p} :
         portals[r].rows # NoRows => portals[r].rows \in open \ rowsOf(p)
  BY DEF RowsTracked, rowsOf
<1>3. open \ rowsOf(p) = {portals[r].rows : r \in DOMAIN portals \ {p}} \ {NoRows}
  BY <1>2 DEF RowsTracked, rowsOf
<1>4. RowsTracked'
  BY <1>1, <1>3 DEF RowsTracked
<1> QED  BY <1>1, <1>4 DEF TypeOK, PortalsSound

\* Finalizing the statement of a name leaves those of the other names.
LEMMA FinalizedStmts ==
    ASSUME TypeOK, StmtsTracked, NEW n
    PROVE  /\ finalized(n) \in [DOMAIN finalized(n) -> Params \cup {Nulls}]
           /\ DOMAIN finalized(n) = {stmts[m].stmt : m \in DOMAIN stmts \ {n}}
           /\ DOMAIN finalized(n) \subseteq DOMAIN bound
<1>1. CASE n \in DOMAIN stmts
  <2>1. finalized(n) \in [DOMAIN bound \ {stmts[n].stmt} -> Params \cup {Nulls}]
          /\ DOMAIN finalized(n) = DOMAIN bound \ {stmts[n].stmt}
    BY <1>1, RestrictMap DEF TypeOK, finalized, Without
  <2> QED  BY <1>1, <2>1 DEF StmtsTracked
<1>2. CASE n \notin DOMAIN stmts
  BY <1>2 DEF finalized, StmtsTracked, TypeOK
<1> QED  BY <1>1, <1>2

\* Storing a new statement under a name whose statement was finalized.
LEMMA StoreStmt ==
    ASSUME TypeOK, StmtsTracked, NEW n \in StmtNames, NEW q \in ExtendedQueries,
           NEW h \in Handles, h \notin DOMAIN bound,
           bound' = Put(finalized(n), h, Nulls),
           stmts' = Put(stmts, n, [query |-> q, stmt |-> h])
    PROVE  /\ DOMAIN stmts' \subseteq StmtNames /\ stmts' \in [DOMAIN stmts' -> Statement]
           /\ DOMAIN bound' \subseteq Handles /\ bound' \in [DOMAIN bound' -> Params \cup {Nulls}]
           /\ StmtsTracked'
<1> DEFINE s == [query |-> q, stmt |-> h]
<1>1. s \in Statement /\ s.stmt = h
  BY DEF Statement
<1> HIDE DEF s
<1>2. /\ stmts' \in [DOMAIN stmts \cup {n} -> Statement]
      /\ DOMAIN stmts' = DOMAIN stmts \cup {n}
      /\ stmts'[n] = s
      /\ \A m \in DOMAIN stmts \ {n} : stmts'[m] = stmts[m]
  <2>1. stmts' = Put(stmts, n, s)
    BY DEF s
  <2>2. stmts \in [DOMAIN stmts -> Statement]
    BY DEF TypeOK
  <2> QED  BY <1>1, <2>1, <2>2 DEF Put
<1>3. /\ bound' \in [DOMAIN finalized(n) \cup {h} -> Params \cup {Nulls}]
      /\ DOMAIN bound' = DOMAIN finalized(n) \cup {h}
  <2>1. Nulls \in Params \cup {Nulls}
    OBVIOUS
  <2>2. finalized(n) \in [DOMAIN finalized(n) -> Params \cup {Nulls}]
    BY FinalizedStmts
  <2> QED  BY <2>1, <2>2 DEF Put
<1>4. DOMAIN bound' = {stmts[m].stmt : m \in DOMAIN stmts \ {n}} \cup {h}
  BY <1>3, FinalizedStmts
<1>5. DOMAIN bound' = {stmts'[m].stmt : m \in DOMAIN stmts'}
  BY <1>1, <1>2, <1>4
<1>6. \A m \in DOMAIN stmts : stmts[m].stmt # h
  BY DEF StmtsTracked
<1>7. \A m, k \in DOMAIN stmts' : stmts'[m].stmt = stmts'[k].stmt => m = k
  BY <1>1, <1>2, <1>6 DEF StmtsTracked
<1> QED  BY <1>2, <1>3, <1>5, <1>7, FinalizedStmts DEF TypeOK, StmtsTracked

\* Deleting a name whose statement was finalized.
LEMMA DropStmt ==
    ASSUME TypeOK, StmtsTracked, NEW n \in StmtNames,
           bound' = finalized(n), stmts' = Without(stmts, n)
    PROVE  /\ DOMAIN stmts' \subseteq StmtNames /\ stmts' \in [DOMAIN stmts' -> Statement]
           /\ DOMAIN bound' \subseteq Handles /\ bound' \in [DOMAIN bound' -> Params \cup {Nulls}]
           /\ StmtsTracked'
<1>1. /\ stmts' \in [DOMAIN stmts \ {n} -> Statement]
      /\ DOMAIN stmts' = DOMAIN stmts \ {n}
      /\ \A m \in DOMAIN stmts \ {n} : stmts'[m] = stmts[m]
  <2>1. stmts \in [DOMAIN stmts -> Statement] /\ DOMAIN stmts \ {n} \in SUBSET DOMAIN stmts
    BY DEF TypeOK
  <2> QED  BY <2>1, RestrictMap DEF Without
<1>2. DOMAIN bound' = {stmts'[m].stmt : m \in DOMAIN stmts'}
  <2>1. DOMAIN bound' = {stmts[m].stmt : m \in DOMAIN stmts \ {n}}
    BY FinalizedStmts
  <2> QED  BY <1>1, <2>1
<1> QED  BY <1>1, <1>2, FinalizedStmts DEF TypeOK, StmtsTracked

------------------------------------------------------------------------------
(* Each message preserves the invariant.                                     *)

\* The parts of the invariant about the messages, about the named objects, and
\* about the pinned connection.
Polite ==
    /\ txStatus \in TxStatuses /\ skipUntilSync \in BOOLEAN
    /\ wire \in {"ready", "busy", "failed"} /\ told \in TxStatuses
    /\ wire = "failed" => skipUntilSync

PortalsKept ==
    /\ DOMAIN portals \subseteq PortalNames /\ portals \in [DOMAIN portals -> Portal]
    /\ open \subseteq Cursors
    /\ RowsTracked /\ PortalsSound

StmtsKept ==
    /\ DOMAIN stmts \subseteq StmtNames /\ stmts \in [DOMAIN stmts -> Statement]
    /\ DOMAIN bound \subseteq Handles /\ bound \in [DOMAIN bound -> Params \cup {Nulls}]
    /\ StmtsTracked

DatabaseKept == db \in Database /\ quiet(db)

\* A step that ends in the message loop and keeps those parts keeps the invariant.
LEMMA LoopInv ==
    ASSUME phase' = "loop", Polite', PortalsKept', StmtsKept', DatabaseKept'
    PROVE  SessionInv'
  BY DEF SessionInv, TypeOK, ResourcesTracked, CloseReleases, Quiet, Silenced,
         Polite, PortalsKept, StmtsKept, DatabaseKept

\* The invariant gives those parts in the message loop.
LEMMA LoopParts ==
    ASSUME SessionInv, phase = "loop"
    PROVE  Polite /\ PortalsKept /\ StmtsKept /\ DatabaseKept
  BY DEF SessionInv, TypeOK, ResourcesTracked, Quiet, Silenced,
         Polite, PortalsKept, StmtsKept, DatabaseKept

\* Every reply keeps the flags consistent.
LEMMA Replies ==
    ASSUME Polite, \/ failExtended
                   \/ Answer /\ txStatus' \in TxStatuses
                   \/ ReadyForQuery(txStatus') /\ txStatus' \in TxStatuses /\ skipUntilSync' \in BOOLEAN
    PROVE  Polite'
  BY DEF Polite, failExtended, Answer, ReadyForQuery, failBlock, TxStatuses

\* The statuses the server moves to are statuses.
LEMMA Statuses ==
    ASSUME NEW s \in TxStatuses, NEW kw
    PROVE  noteCompleted(s, kw) \in TxStatuses /\ failBlock(s) \in TxStatuses
  BY DEF noteCompleted, failBlock, TxStatuses

\* Rolling back, and opening a connection, leave nothing pending.
LEMMA RolledBackKept ==
    ASSUME NEW d \in Database
    PROVE  /\ rolledBack(d) \in Database /\ quiet(rolledBack(d))
           /\ opened(d.durable) \in Database /\ quiet(opened(d.durable))
           /\ rolledBack(d) = opened(d.durable) /\ opened(d.durable).durable = d.durable
  BY DEF rolledBack, opened, Database, quiet, inTx

\* Leaving a failed block rolls the connection back.
LEMMA rollbackFailedKept ==
    ASSUME DatabaseKept, rollbackFailed
    PROVE  DatabaseKept' /\ txStatus' \in TxStatuses
<1>1. db' = rolledBack(db) \/ db' = db
  BY DEF rollbackFailed
<1> QED  BY <1>1, RolledBackKept DEF DatabaseKept, rollbackFailed, TxStatuses

\* A Query message: a statement, a failed block left, or nothing.
LEMMA QueryKept ==
    ASSUME SessionInv, NEW q \in SimpleQueries, handleQueryMessage(q)
    PROVE  SessionInv'
<1>1. phase = "loop" /\ Polite /\ PortalsKept /\ StmtsKept /\ DatabaseKept
  BY LoopParts DEF handleQueryMessage, receiving
<1>2. phase' = "loop" /\ PortalsKept' /\ StmtsKept'
  BY <1>1 DEF handleQueryMessage, named, PortalsKept, StmtsKept, RowsTracked, StmtsTracked, PortalsSound
<1>3. ASSUME NEW r \in run(db, q.sql) PROVE r.db \in Database /\ quiet(r.db)
  BY <1>1, RunResult DEF DatabaseKept
<1>4. DatabaseKept' /\ txStatus' \in TxStatuses
  <2>1. CASE QueryEmpty(q)
    BY <1>1, <2>1 DEF QueryEmpty, DatabaseKept, Polite
  <2>2. CASE QueryInFailedBlock(q)
    BY <1>1, <2>2, rollbackFailedKept DEF QueryInFailedBlock, DatabaseKept, Polite
  <2>3. CASE execSimpleQuery(q)
    BY <1>1, <1>3, <2>3, Statuses DEF execSimpleQuery, DatabaseKept, Polite
  <2>4. CASE streamSimpleQuery(q)
    BY <1>1, <1>3, <2>4, Statuses DEF streamSimpleQuery, DatabaseKept, Polite
  <2> QED  BY <2>1, <2>2, <2>3, <2>4 DEF handleQueryMessage
<1>5. ReadyForQuery(txStatus')
  <2>1. CASE QueryEmpty(q)
    BY <2>1 DEF QueryEmpty, ReadyForQuery
  <2> QED  BY <2>1 DEF handleQueryMessage, QueryInFailedBlock, execSimpleQuery, streamSimpleQuery
<1>6. skipUntilSync' \in BOOLEAN
  BY <1>1 DEF handleQueryMessage, Polite
<1>7. Polite'
  BY <1>1, <1>4, <1>5, <1>6, Replies
<1> QED  BY <1>2, <1>4, <1>7, LoopInv

\* A Parse message: a statement is replaced, or the batch fails.
LEMMA ParseKept ==
    ASSUME SessionInv, NEW n \in StmtNames, NEW q \in ExtendedQueries, handleParseMessage(n, q)
    PROVE  SessionInv'
<1>1. phase = "loop" /\ Polite /\ PortalsKept /\ StmtsKept /\ DatabaseKept
  BY LoopParts DEF handleParseMessage, receiving
<1>2. phase' = "loop" /\ PortalsKept' /\ DatabaseKept'
  BY <1>1 DEF handleParseMessage, PortalsKept, RowsTracked, PortalsSound, DatabaseKept
<1>3. Polite' /\ StmtsKept'
  <2>1. CASE failExtended /\ UNCHANGED <<stmts, bound>>
    BY <1>1, <2>1, Replies DEF StmtsKept, StmtsTracked
  <2>2. CASE ~(failExtended /\ UNCHANGED <<stmts, bound>>)
    <3>1. PICK h \in Handles :
             /\ h \notin DOMAIN bound
             /\ bound' = Put(finalized(n), h, Nulls)
             /\ stmts' = Put(stmts, n, [query |-> q, stmt |-> h])
             /\ Answer /\ UNCHANGED txStatus
      BY <2>2 DEF handleParseMessage, freshHandle
    <3>2. TypeOK /\ StmtsTracked
      BY DEF SessionInv, ResourcesTracked
    <3>3. StmtsKept'
      BY <3>1, <3>2, StoreStmt DEF StmtsKept
    <3>4. Polite'
      BY <1>1, <3>1, Replies DEF Polite
    <3> QED  BY <3>3, <3>4
  <2> QED  BY <2>1, <2>2
<1> QED  BY <1>2, <1>3, LoopInv

\* A Bind message: a portal is replaced, or the batch fails.
LEMMA BindKept ==
    ASSUME SessionInv, NEW n \in StmtNames, NEW p \in PortalNames, NEW a \in Params,
           handleBindMessage(n, p, a)
    PROVE  SessionInv'
<1> USE SessionAssumption
<1>1. phase = "loop" /\ Polite /\ PortalsKept /\ StmtsKept /\ DatabaseKept
  BY LoopParts DEF handleBindMessage, receiving
<1>2. phase' = "loop" /\ StmtsKept' /\ DatabaseKept'
  BY <1>1 DEF handleBindMessage, StmtsKept, StmtsTracked, DatabaseKept
<1>3. CASE n \in DOMAIN stmts
  <2> DEFINE c == newPortal(stmts[n], a)
  <2>1. c \in Portal /\ sound(c) /\ c.rows = NoRows
    <3>1. stmts[n].query \in ExtendedQueries /\ stmts[n].stmt \in Handles
      BY <1>1, <1>3 DEF StmtsKept, Statement
    <3> QED  BY <3>1 DEF newPortal, Portal, sound
  <2>2. TypeOK /\ RowsTracked /\ PortalsSound
    BY DEF SessionInv, ResourcesTracked
  <2>3. open' = open \ rowsOf(p) /\ portals' = Put(portals, p, c) /\ Answer /\ UNCHANGED txStatus
    BY <1>3 DEF handleBindMessage
  <2>4. c.rows \notin open /\ {c.rows} \ {NoRows} = {}
    BY <2>1, <2>2 DEF TypeOK
  <2> HIDE DEF c
  <2>5. PortalsKept'
    BY <2>1, <2>2, <2>3, <2>4, StorePortal DEF PortalsKept
  <2>6. Polite'
    BY <1>1, <2>3, Replies DEF Polite
  <2> QED  BY <1>2, <2>5, <2>6, LoopInv
<1>4. CASE n \notin DOMAIN stmts
  <2>1. failExtended /\ UNCHANGED <<open, portals>>
    BY <1>4 DEF handleBindMessage
  <2>2. PortalsKept' /\ Polite'
    BY <1>1, <2>1, Replies DEF PortalsKept, RowsTracked, PortalsSound
  <2> QED  BY <1>2, <2>2, LoopInv
<1> QED  BY <1>3, <1>4

\* A Describe message naming a statement: its arguments become NULL.
LEMMA DescribeStatementKept ==
    ASSUME SessionInv, NEW n \in StmtNames, describeStatement(n)
    PROVE  SessionInv'
<1>1. phase = "loop" /\ Polite /\ PortalsKept /\ StmtsKept /\ DatabaseKept
  BY LoopParts DEF describeStatement, receiving
<1>2. phase' = "loop" /\ PortalsKept' /\ DatabaseKept' /\ stmts' = stmts
  BY <1>1 DEF describeStatement, PortalsKept, RowsTracked, PortalsSound, DatabaseKept
<1>3. Polite'
  BY <1>1, Replies DEF describeStatement, Polite
<1>4. DOMAIN bound' = DOMAIN bound /\ bound' \in [DOMAIN bound -> Params \cup {Nulls}]
  BY <1>1 DEF describeStatement, StmtsKept
<1>5. StmtsKept'
  BY <1>1, <1>2, <1>4 DEF StmtsKept, StmtsTracked
<1> QED  BY <1>2, <1>3, <1>5, LoopInv

\* A Close message naming a statement.
LEMMA CloseStatementKept ==
    ASSUME SessionInv, NEW n \in StmtNames, closeStatement(n)
    PROVE  SessionInv'
<1>1. phase = "loop" /\ Polite /\ PortalsKept /\ StmtsKept /\ DatabaseKept
  BY LoopParts DEF closeStatement, receiving
<1>2. phase' = "loop" /\ PortalsKept' /\ DatabaseKept'
  BY <1>1 DEF closeStatement, PortalsKept, RowsTracked, PortalsSound, DatabaseKept
<1>3. Polite'
  BY <1>1, Replies DEF closeStatement, Polite
<1>4. StmtsKept'
  <2>1. TypeOK /\ StmtsTracked
    BY DEF SessionInv, ResourcesTracked
  <2> QED  BY <2>1, DropStmt DEF closeStatement, StmtsKept
<1> QED  BY <1>2, <1>3, <1>4, LoopInv

\* A Close message naming a portal.
LEMMA ClosePortalKept ==
    ASSUME SessionInv, NEW p \in PortalNames, closePortal(p)
    PROVE  SessionInv'
<1>1. phase = "loop" /\ Polite /\ PortalsKept /\ StmtsKept /\ DatabaseKept
  BY LoopParts DEF closePortal, receiving
<1>2. phase' = "loop" /\ StmtsKept' /\ DatabaseKept'
  BY <1>1 DEF closePortal, StmtsKept, StmtsTracked, DatabaseKept
<1>3. Polite'
  BY <1>1, Replies DEF closePortal, Polite
<1>4. PortalsKept'
  <2>1. TypeOK /\ RowsTracked /\ PortalsSound
    BY DEF SessionInv, ResourcesTracked
  <2> QED  BY <2>1, DropPortal DEF closePortal, PortalsKept
<1> QED  BY <1>2, <1>3, <1>4, LoopInv

\* Storing the portal that an execution settled.
LEMMA ExecutedKept ==
    ASSUME SessionInv, phase = "loop", NEW p \in DOMAIN portals, NEW y, settled(portals[p], y),
           NEW c \in Portal, sound(c), c.rows = y.portal.rows,
           portals' = [portals EXCEPT ![p] = c],
           db' = y.db, bound' = y.bound, open' = y.open, stmts' = stmts
    PROVE  PortalsKept' /\ StmtsKept' /\ DatabaseKept'
<1>1. PortalsKept /\ StmtsKept
  BY LoopParts
<1>2. TypeOK /\ RowsTracked /\ PortalsSound /\ p \in PortalNames
  BY <1>1 DEF SessionInv, ResourcesTracked, PortalsKept
<1>3. portals' = Put(portals, p, c)
  BY <1>2 DEF Put, TypeOK
<1>4. rowsOf(p) = {portals[p].rows}
  BY DEF rowsOf
<1>5. PortalsKept'
  BY <1>2, <1>3, <1>4, StorePortal DEF PortalsKept, settled
<1>6. StmtsKept'
  BY <1>1 DEF StmtsKept, StmtsTracked, settled
<1> QED  BY <1>5, <1>6 DEF DatabaseKept, settled

\* A portal's own rows are open.
LEMMA PortalRows ==
    ASSUME SessionInv, NEW p \in DOMAIN portals
    PROVE  /\ portals[p] \in Portal /\ sound(portals[p])
           /\ portals[p].rows # NoRows => portals[p].rows \in open
  BY DEF SessionInv, TypeOK, ResourcesTracked, RowsTracked, PortalsSound

\* A Describe message naming a portal: it may be executed.
LEMMA DescribePortalKept ==
    ASSUME SessionInv, NEW p \in PortalNames, describePortal(p)
    PROVE  SessionInv'
<1>1. phase = "loop" /\ Polite /\ PortalsKept /\ StmtsKept /\ DatabaseKept
  BY LoopParts DEF describePortal, receiving
<1>2. phase' = "loop" /\ stmts' = stmts
  BY <1>1 DEF describePortal
<1>3. Polite'
  <2> DEFINE replied == failExtended \/ (Answer /\ UNCHANGED txStatus)
  <2>1. replied
    <3>1. CASE p \notin DOMAIN portals
      BY <3>1 DEF describePortal
    <3>2. CASE p \in DOMAIN portals /\ txStatus = "E"
      BY <3>2 DEF describePortal
    <3>3. CASE p \in DOMAIN portals /\ txStatus # "E"
      <4>1. PICK x \in execute(portals[p]) : IF x.ok THEN Answer /\ UNCHANGED txStatus ELSE failExtended
        BY <3>3 DEF describePortal
      <4>2. CASE x.ok
        BY <4>1, <4>2
      <4>3. CASE ~x.ok
        BY <4>1, <4>3
      <4> QED  BY <4>2, <4>3
    <3> QED  BY <3>1, <3>2, <3>3
  <2> QED  BY <1>1, <2>1, Replies DEF Polite
<1>4. CASE UNCHANGED <<portals, bound, open, db>>
  <2>1. PortalsKept' /\ StmtsKept' /\ DatabaseKept'
    BY <1>1, <1>2, <1>4 DEF PortalsKept, StmtsKept, DatabaseKept, RowsTracked, StmtsTracked, PortalsSound
  <2> QED  BY <1>2, <1>3, <2>1, LoopInv
<1>5. CASE ~UNCHANGED <<portals, bound, open, db>>
  <2>1. p \in DOMAIN portals
    BY <1>5 DEF describePortal
  <2>2. PICK x \in execute(portals[p]) :
           /\ portals' = [portals EXCEPT ![p] = x.portal]
           /\ db' = x.db /\ bound' = x.bound /\ open' = x.open
    BY <1>5 DEF describePortal
  <2>3. settled(portals[p], x)
    BY <2>1, PortalRows, ExecuteSettles DEF SessionInv
  <2>4. x.portal \in Portal /\ sound(x.portal)
    BY <2>3 DEF settled
  <2>5. PortalsKept' /\ StmtsKept' /\ DatabaseKept'
    BY <1>1, <1>2, <2>1, <2>2, <2>3, <2>4, ExecutedKept
  <2> QED  BY <1>2, <1>3, <2>5, LoopInv
<1> QED  BY <1>4, <1>5

\* An Execute message: the portal is executed and its rows are streamed, or a
\* failed block is left, or the batch fails.
LEMMA ExecuteKept ==
    ASSUME SessionInv, NEW p \in PortalNames, handleExecuteMessage(p)
    PROVE  SessionInv'
<1>1. phase = "loop" /\ Polite /\ PortalsKept /\ StmtsKept /\ DatabaseKept
  BY LoopParts DEF handleExecuteMessage, receiving
<1>2. phase' = "loop" /\ stmts' = stmts
  BY <1>1 DEF handleExecuteMessage
<1>3. CASE UNCHANGED <<portals, bound, open>>
             /\ ((failExtended /\ UNCHANGED db) \/ (rollbackFailed /\ Answer))
  <2>1. PortalsKept' /\ StmtsKept'
    BY <1>1, <1>2, <1>3 DEF PortalsKept, StmtsKept, RowsTracked, StmtsTracked, PortalsSound
  <2>2. DatabaseKept' /\ Polite'
    BY <1>1, <1>3, Replies, rollbackFailedKept DEF DatabaseKept
  <2> QED  BY <1>2, <2>1, <2>2, LoopInv
<1>4. ASSUME p \in DOMAIN portals, NEW s \in execute(portals[p]), NEW x \in stream(s),
             portals' = [portals EXCEPT ![p] = [x.portal EXCEPT !.acked = @ \/ x.ok]],
             db' = x.db, bound' = x.bound, open' = x.open,
             IF x.ok THEN txStatus' = noteCompleted(txStatus, portals[p].query.kw) /\ Answer
                     ELSE failExtended
      PROVE  SessionInv'
  <2>1. settled(portals[p], s)
    BY <1>4, PortalRows, ExecuteSettles DEF SessionInv
  <2>2. settled(portals[p], x)
    BY <1>4, <2>1, PortalRows, StreamSettles DEF SessionInv
  <2> DEFINE acked == x.portal.acked \/ x.ok
             c     == [x.portal EXCEPT !.acked = acked]
  <2>3. acked \in BOOLEAN /\ x.portal \in Portal /\ sound(x.portal)
    BY <2>2 DEF settled
  <2>4. portals' = [portals EXCEPT ![p] = c]
    BY <1>4
  <2> HIDE DEF acked
  <2>5. c \in Portal /\ c.runs = x.portal.runs /\ c.rows = x.portal.rows
          /\ c.executed = x.portal.executed
    BY <2>3 DEF Portal
  <2> HIDE DEF c
  <2>6. sound(c)
    BY <2>3, <2>5 DEF sound
  <2>7. PortalsKept' /\ StmtsKept' /\ DatabaseKept'
    BY <1>1, <1>2, <1>4, <2>2, <2>4, <2>5, <2>6, ExecutedKept
  <2>8. Polite'
    BY <1>1, <1>4, Replies, Statuses DEF Polite
  <2> QED  BY <1>2, <2>7, <2>8, LoopInv
<1>5. CASE p \in DOMAIN portals /\ txStatus # "E"
  <2> DEFINE stored(x) ==
               /\ portals' = [portals EXCEPT ![p] = [x.portal EXCEPT !.acked = @ \/ x.ok]]
               /\ db' = x.db /\ bound' = x.bound /\ open' = x.open
               /\ IF x.ok THEN txStatus' = noteCompleted(txStatus, portals[p].query.kw) /\ Answer
                          ELSE failExtended
  <2>1. \E x \in UNION {stream(s) : s \in execute(portals[p])} : stored(x)
    BY <1>5 DEF handleExecuteMessage
  <2>2. ASSUME NEW s \in execute(portals[p]), NEW x \in stream(s), stored(x)
        PROVE  SessionInv'
    BY <1>4, <1>5, <2>2
  <2> HIDE DEF stored
  <2> QED  BY <2>1, <2>2
<1>6. CASE p \notin DOMAIN portals
  BY <1>3, <1>6 DEF handleExecuteMessage
<1>7. CASE p \in DOMAIN portals /\ txStatus = "E"
  <2>1. IF endsBlock(portals[p].query.kw) THEN rollbackFailed /\ Answer ELSE failExtended /\ UNCHANGED db
    BY <1>7 DEF handleExecuteMessage
  <2>2. UNCHANGED <<portals, bound, open>>
    BY <1>7 DEF handleExecuteMessage
  <2> QED  BY <1>3, <2>1, <2>2
<1> QED  BY <1>5, <1>6, <1>7

\* Sync ends the skipping of messages.
LEMMA SyncKept ==
    ASSUME SessionInv, Sync
    PROVE  SessionInv'
<1>1. phase = "loop" /\ Polite /\ PortalsKept /\ StmtsKept /\ DatabaseKept
  BY LoopParts DEF Sync
<1>2. phase' = "loop" /\ PortalsKept' /\ StmtsKept' /\ DatabaseKept'
  BY <1>1 DEF Sync, named, PortalsKept, StmtsKept, DatabaseKept, RowsTracked, StmtsTracked, PortalsSound
<1>3. Polite'
  BY <1>1 DEF Sync, ReadyForQuery, Polite
<1> QED  BY <1>2, <1>3, LoopInv

\* The objects of a Conn without any names.
LEMMA NothingNamed ==
    ASSUME stmts' = emptyMap, portals' = emptyMap, DOMAIN bound' = {},
           bound' \in [DOMAIN bound' -> Params \cup {Nulls}], open' = {}
    PROVE  PortalsKept' /\ StmtsKept'
  BY EmptyMap DEF PortalsKept, StmtsKept, RowsTracked, StmtsTracked, PortalsSound

\* Conn.Close finds every row and statement, so it ends, rolls the transaction
\* back and leaves nothing behind.
LEMMA CloseKept ==
    ASSUME SessionInv, phase = "loop", Close
    PROVE  SessionInv'
<1> DEFINE rowsLeft  == open \ {portals[p].rows : p \in DOMAIN portals}
           stmtsLeft == DOMAIN bound \ {stmts[n].stmt : n \in DOMAIN stmts}
<1>1. Polite /\ PortalsKept /\ StmtsKept /\ DatabaseKept
  BY LoopParts
<1>2. rowsLeft = {} /\ stmtsLeft = {}
  BY <1>1 DEF PortalsKept, StmtsKept, RowsTracked, StmtsTracked
<1>3. /\ phase' = "closed" /\ db' = rolledBack(db)
      /\ open' = {} /\ bound' = Restrict(bound, {})
      /\ stmts' = emptyMap /\ portals' = emptyMap
      /\ UNCHANGED <<txStatus, skipUntilSync, seen>>
  BY <1>2 DEF Close
<1>4. DOMAIN bound' = {} /\ bound' \in [DOMAIN bound' -> Params \cup {Nulls}]
  BY <1>3 DEF Restrict
<1>5. PortalsKept' /\ StmtsKept'
  BY <1>3, <1>4, NothingNamed
<1>6. Polite'
  BY <1>1, <1>3 DEF Polite, seen
<1>7. DatabaseKept' /\ db' = opened(db'.durable)
  BY <1>1, <1>3, RolledBackKept DEF DatabaseKept
<1> QED
  BY <1>3, <1>4, <1>5, <1>6, <1>7
  DEF SessionInv, TypeOK, ResourcesTracked, CloseReleases, Quiet, Silenced,
      Polite, PortalsKept, StmtsKept, DatabaseKept

\* A new connection starts with nothing named.
LEMMA NewConnKept ==
    ASSUME SessionInv, newConn
    PROVE  SessionInv'
<1>1. DOMAIN bound' = {} /\ bound' \in [DOMAIN bound' -> Params \cup {Nulls}]
  BY EmptyMap DEF newConn
<1>2. PortalsKept' /\ StmtsKept'
  BY <1>1, NothingNamed DEF newConn
<1>3. DatabaseKept'
  BY RolledBackKept DEF newConn, DatabaseKept, SessionInv, TypeOK
<1>4. Polite' /\ phase' = "loop"
  BY DEF newConn, Polite, TxStatuses
<1> QED  BY <1>2, <1>3, <1>4, LoopInv

------------------------------------------------------------------------------
(* The theorems.                                                             *)

\* The invariant holds of a new session.
LEMMA InitInv == Init => SessionInv
<1> SUFFICES ASSUME Init PROVE SessionInv
  OBVIOUS
<1>1. DOMAIN emptyMap = {} /\ emptyMap \in [DOMAIN emptyMap -> Params \cup {Nulls}]
  BY EmptyMap
<1>2. db \in Database /\ db.tx = "none" /\ db.pending = {} /\ db.saves = <<>>
  BY DEF Init, opened, Database
<1>3. TypeOK
  BY <1>1, <1>2, EmptyMap DEF Init, TypeOK, TxStatuses
<1>4. ResourcesTracked /\ PortalsSound
  BY <1>1 DEF Init, ResourcesTracked, RowsTracked, StmtsTracked, PortalsSound
<1>5. CloseReleases /\ Quiet /\ Silenced
  BY <1>2 DEF Init, CloseReleases, Quiet, quiet, Silenced
<1> QED  BY <1>3, <1>4, <1>5 DEF SessionInv

\* Every message keeps it.
LEMMA StepInv == SessionInv /\ [Next]_vars => SessionInv'
<1> SUFFICES ASSUME SessionInv, [Next]_vars PROVE SessionInv'
  OBVIOUS
<1>1. CASE \E q \in SimpleQueries : handleQueryMessage(q)
  BY <1>1, QueryKept
<1>2. CASE \E n \in StmtNames, q \in ExtendedQueries : handleParseMessage(n, q)
  BY <1>2, ParseKept
<1>3. CASE \E n \in StmtNames, p \in PortalNames, a \in Params : handleBindMessage(n, p, a)
  BY <1>3, BindKept
<1>4. CASE \E n \in StmtNames : describeStatement(n) \/ closeStatement(n)
  BY <1>4, DescribeStatementKept, CloseStatementKept
<1>5. CASE \E p \in PortalNames : describePortal(p) \/ handleExecuteMessage(p) \/ closePortal(p)
  BY <1>5, DescribePortalKept, ExecuteKept, ClosePortalKept
<1>6. CASE Sync
  BY <1>6, SyncKept
<1>7. CASE Terminate \/ ReceiveError
  BY <1>7, CloseKept DEF Terminate, ReceiveError, receiving
<1>8. CASE newConn
  BY <1>8, NewConnKept
<1>9. CASE UNCHANGED vars
  BY <1>9 DEF vars, conn, named, seen, SessionInv, TypeOK, ResourcesTracked, RowsTracked,
              StmtsTracked, CloseReleases, Quiet, PortalsSound, Silenced
<1> QED
  BY <1>1, <1>2, <1>3, <1>4, <1>5, <1>6, <1>7, <1>8, <1>9 DEF Next, Discard, Flush

\* The invariant holds in every reachable state.
THEOREM Invariance == Spec => []SessionInv
  BY InitInv, StepInv, PTL DEF Spec

\* Every variable of a session keeps its type.
THEOREM TypeCorrect == Spec => []TypeOK
<1>1. SessionInv => TypeOK
  BY DEF SessionInv
<1> QED  BY <1>1, Invariance, PTL

\* Every open sql.Rows belongs to one portal and every sqlite3_stmt to one name,
\* whatever messages replace, execute and close them.
THEOREM Tracking == Spec => []ResourcesTracked
<1>1. SessionInv => ResourcesTracked
  BY DEF SessionInv
<1> QED  BY <1>1, Invariance, PTL

\* Conn.Close never waits for rows and leaves no transaction behind.
THEOREM Release == Spec => []CloseReleases
<1>1. SessionInv => CloseReleases
  BY DEF SessionInv
<1> QED  BY <1>1, Invariance, PTL

\* A statement is run to completion at most once for a Bind.
THEOREM AtMostOnce == Spec => []EffectAtMostOnce
<1>1. SessionInv => EffectAtMostOnce
  BY DEF SessionInv, PortalsSound, sound, EffectAtMostOnce
<1> QED  BY <1>1, Invariance, PTL

\* What a step may do in a failed block.
discarding ==
    /\ db'.durable = db.durable
    /\ txStatus' = "E" /\ phase' = "loop" => db' = db
    /\ txStatus' # "E" => db' = opened(db.durable)

\* Leaving a failed block discards its work.
LEMMA rollbackFailedDiscards ==
    ASSUME SessionInv, rollbackFailed
    PROVE  discarding
<1>1. db \in Database /\ quiet(db)
  BY DEF SessionInv, TypeOK, Quiet
<1>2. CASE inTx(db)
  BY <1>1, <1>2, RolledBackKept DEF rollbackFailed, discarding
<1>3. CASE ~inTx(db)
  BY <1>1, <1>3, QuietOpened DEF rollbackFailed, discarding
<1> QED  BY <1>2, <1>3

\* A failed block is left only by a message that ends it, or with the connection.
LEMMA FailedBlockStep ==
    ASSUME SessionInv, Next, txStatus = "E"
    PROVE  discarding
<1>1. ASSUME txStatus' = "E", db' = db PROVE discarding
  BY <1>1 DEF discarding
<1>2. failExtended => txStatus' = "E"
  BY DEF failExtended, failBlock
<1>3. CASE \E q \in SimpleQueries : handleQueryMessage(q)
  <2>1. PICK q \in SimpleQueries : QueryEmpty(q) \/ QueryInFailedBlock(q)
    BY <1>3 DEF handleQueryMessage, execSimpleQuery, streamSimpleQuery
  <2>2. (txStatus' = "E" /\ db' = db) \/ rollbackFailed
    BY <2>1 DEF QueryEmpty, QueryInFailedBlock
  <2> QED  BY <1>1, <2>2, rollbackFailedDiscards
<1>4. CASE \E n \in StmtNames, q \in ExtendedQueries : handleParseMessage(n, q)
  BY <1>1, <1>2, <1>4 DEF handleParseMessage
<1>5. CASE \E n \in StmtNames, p \in PortalNames, a \in Params : handleBindMessage(n, p, a)
  BY <1>1, <1>2, <1>5 DEF handleBindMessage
<1>6. CASE \E n \in StmtNames : describeStatement(n) \/ closeStatement(n)
  BY <1>1, <1>2, <1>6 DEF describeStatement, closeStatement
<1>7. CASE \E p \in PortalNames : describePortal(p) \/ closePortal(p)
  BY <1>1, <1>2, <1>7 DEF describePortal, closePortal
<1>8. CASE \E p \in PortalNames : handleExecuteMessage(p)
  <2>1. PICK p \in PortalNames : handleExecuteMessage(p)
    BY <1>8
  <2>2. CASE p \notin DOMAIN portals
    BY <1>1, <1>2, <2>1, <2>2 DEF handleExecuteMessage
  <2>3. CASE p \in DOMAIN portals
    <3>1. IF endsBlock(portals[p].query.kw) THEN rollbackFailed /\ Answer ELSE failExtended /\ UNCHANGED db
      BY <2>1, <2>3 DEF handleExecuteMessage
    <3> QED  BY <1>1, <1>2, <3>1, rollbackFailedDiscards
  <2> QED  BY <2>2, <2>3
<1>9. CASE Sync \/ Discard \/ Flush
  BY <1>1, <1>9 DEF Sync, Discard, Flush, vars, conn
<1>10. CASE Terminate \/ ReceiveError
  <2>1. Close
    BY <1>10 DEF Terminate, ReceiveError
  <2>2. txStatus' = "E" /\ phase' # "loop" /\ (db' = db \/ db' = rolledBack(db))
    BY <2>1 DEF Close
  <2> QED  BY <2>2, RolledBackKept DEF SessionInv, TypeOK, discarding
<1>11. CASE newConn
  <2>1. db' = opened(db.durable) /\ txStatus' # "E"
    BY <1>11 DEF newConn
  <2> QED  BY <2>1, RolledBackKept DEF SessionInv, TypeOK, discarding
<1> QED
  BY <1>3, <1>4, <1>5, <1>6, <1>7, <1>8, <1>9, <1>10, <1>11 DEF Next

\* No message but one that ends it touches the database in a failed block, none
\* makes work durable, and ending the block discards all of its work.
THEOREM FailedBlock == Spec => FailedBlockDiscarded
<1>1. SessionInv /\ [Next]_vars => [txStatus = "E" => discarding]_vars
  BY FailedBlockStep
<1>2. [txStatus = "E" => discarding]_vars
        => [txStatus = "E" =>
              /\ db'.durable = db.durable
              /\ txStatus' = "E" /\ phase' = "loop" => db' = db
              /\ txStatus' # "E" => db' = opened(db.durable)]_vars
  BY DEF discarding
<1> QED  BY <1>1, <1>2, Invariance, PTL DEF Spec, FailedBlockDiscarded

\* After an ErrorResponse of the extended protocol nothing is handled but Sync.
LEMMA BarrierStep ==
    ASSUME SessionInv, Next, wire = "failed", phase = "loop", phase' = "loop"
    PROVE  wire' \in {"failed", "ready"} /\ UNCHANGED <<txStatus, named, db>>
<1>1. ~receiving
  BY DEF SessionInv, Silenced, receiving
<1>2. Sync \/ Discard \/ ReceiveError
  BY <1>1 DEF Next, handleQueryMessage, handleParseMessage, handleBindMessage, describeStatement,
              closeStatement, describePortal, handleExecuteMessage, closePortal, Flush, Terminate, newConn
<1>3. ~Close
  BY DEF Close
<1>4. CASE Sync
  BY <1>4 DEF Sync, ReadyForQuery, named
<1>5. CASE Discard
  BY <1>5 DEF Discard, vars, conn, seen, named
<1> QED  BY <1>2, <1>3, <1>4, <1>5 DEF ReceiveError

\* The messages after a failed one are skipped until Sync is answered.
THEOREM Barrier == Spec => ErrorBarrier
<1>1. SessionInv /\ [Next]_vars =>
        [wire = "failed" /\ phase = "loop" /\ phase' = "loop" =>
           wire' \in {"failed", "ready"} /\ UNCHANGED <<txStatus, named, db>>]_vars
  BY BarrierStep
<1> QED  BY <1>1, Invariance, PTL DEF Spec, ErrorBarrier

------------------------------------------------------------------------------
(* What a plain client sees.                                                  *)

\* The status is SQLite's, but for a failed block, of which SQLite may have
\* anything left; and ReadyForQuery said so.
Honest ==
    phase = "loop" =>
        /\ txStatus = "I" => ~inTx(db)
        /\ txStatus = "T" => inTx(db)
        /\ wire = "ready" => told = txStatus

------------------------------------------------------------------------------
(* What a statement does to the transaction.                                 *)

\* A statement succeeds or fails.
LEMMA RunOk ==
    ASSUME NEW d, NEW sql, NEW r \in run(d, sql)
    PROVE  r.ok \in BOOLEAN
<1>1. PICK e \in successes(d, sql) \cup failures(d, sql) :
           r \in {[ok |-> ok, db |-> e] : ok \in BOOLEAN}
  BY DEF run
<1> QED  BY <1>1

\* A failed statement leaves the database as it was, or rolled back.
LEMMA FailedRun ==
    ASSUME NEW d \in Database, NEW sql, NEW r \in run(d, sql), ~r.ok
    PROVE  r.db = d \/ (inTx(d) /\ r.db = rolledBack(d))
<1>1. r.db \in failures(d, sql)
  BY DEF run
<1> QED  BY <1>1 DEF failures

\* A statement that succeeded did what it is for.
LEMMA SucceededRun ==
    ASSUME NEW d \in Database, NEW sql, NEW r \in run(d, sql), r.ok
    PROVE  r.db \in successes(d, sql)
  BY DEF run

\* A write changes one unit of work at most, in the open transaction or in the
\* file; a read changes none.
LEMMA DataRun ==
    ASSUME NEW d \in Database, NEW sql \in {"write", "read", "empty", "invalid"},
           NEW r \in run(d, sql), r.ok
    PROVE  \/ r.db = d
           \/ \E w \in fresh(d) : r.db = written(d, w)
<1>1. r.db \in successes(d, sql)
  BY SucceededRun
<1> QED  BY <1>1 DEF successes

\* A write adds one unit of work.
LEMMA WrittenDb ==
    ASSUME NEW d \in Database, NEW w \in fresh(d)
    PROVE  /\ inTx(written(d, w)) <=> inTx(d)
           /\ inTx(d) => /\ written(d, w).pending = d.pending \cup {w}
                         /\ written(d, w).durable = d.durable
           /\ ~inTx(d) => /\ written(d, w).pending = d.pending
                          /\ written(d, w).durable = d.durable \cup {w}
  BY DEF written, inTx, Database, fresh

\* What handling a portal does to the database is what running its statement
\* once does, or nothing.
ranOnce(c, x) ==
    x.db = db \/ \E r \in run(db, c.query.sql) : r.ok = x.ok /\ r.db = x.db

\* Executing a portal: rows that are left to stream have done nothing yet.
LEMMA ExecuteRan ==
    ASSUME NEW c \in Portal, sound(c), NEW x \in execute(c)
    PROVE  /\ ranOnce(c, x)
           /\ x.portal.rows # NoRows => x.db = db
           /\ x.portal.query = c.query
<1>1. CASE c.executed
  BY <1>1 DEF execute, result, ranOnce
<1>2. CASE ~c.executed
  <2> DEFINE start == [c EXCEPT !.executed = TRUE]
             args  == [bound EXCEPT ![c.stmt] = c.params]
             error == result(FALSE, failedPortal(c), db, bound, open)
  <2>1. x \in firstExecution(c) /\ c.rows = NoRows /\ c.runs = 0
    BY <1>2 DEF execute, sound, Portal
  <2>2. error.db = db /\ error.portal.query = c.query
    BY DEF result, failedPortal, Portal
  <2>3. CASE x = error
    BY <2>2, <2>3 DEF ranOnce
  <2>4. ASSUME NEW rows \in Cursors \ open,
               x = result(TRUE, [start EXCEPT !.rows = rows], db, args, open \cup {rows})
        PROVE  x.db = db /\ x.portal.query = c.query
    <3>1. [start EXCEPT !.rows = rows].query = c.query
      BY DEF Portal
    <3> HIDE DEF start, args
    <3> QED  BY <2>4, <3>1 DEF result
  <2>5. ASSUME NEW r \in run(db, c.query.sql),
               x = IF r.ok THEN result(TRUE, ran(start, c.params), r.db, args, open)
                           ELSE result(FALSE, failedPortal(c), r.db, args, open)
        PROVE  ranOnce(c, x) /\ x.portal.rows = NoRows /\ x.portal.query = c.query
    <3>1. r.ok \in BOOLEAN
      BY RunOk
    <3>2. start \in Portal /\ start.rows = NoRows /\ start.query = c.query
      BY <2>1 DEF Portal
    <3> HIDE DEF start
    <3>3. /\ ran(start, c.params).rows = NoRows /\ ran(start, c.params).query = c.query
      BY <3>2 DEF ran, Portal
    <3>4. failedPortal(c).rows = NoRows /\ failedPortal(c).query = c.query
      BY <2>1 DEF failedPortal, Portal
    <3> QED  BY <2>5, <3>1, <3>3, <3>4 DEF result, ranOnce
  <2>6. \/ x = error
        \/ \E rows \in Cursors \ open :
              x = result(TRUE, [start EXCEPT !.rows = rows], db, args, open \cup {rows})
        \/ \E r \in run(db, c.query.sql) :
              x = IF r.ok THEN result(TRUE, ran(start, c.params), r.db, args, open)
                          ELSE result(FALSE, failedPortal(c), r.db, args, open)
    BY <2>1, Zenon DEF firstExecution
  <2> HIDE DEF start, args, error
  <2> QED  BY <2>3, <2>4, <2>5, <2>6 DEF ranOnce
<1> QED  BY <1>1, <1>2

\* Streaming the rows of an execution.
LEMMA StreamRan ==
    ASSUME NEW c, NEW s, ranOnce(c, s), s.portal.rows # NoRows => s.db = db,
           s.portal.query = c.query, NEW x \in stream(s)
    PROVE  ranOnce(c, x)
<1>1. CASE s.portal.rows = NoRows \/ ~s.ok
  BY <1>1 DEF stream
<1>2. CASE s.portal.rows # NoRows /\ s.ok
  <2> DEFINE closed == [s.portal EXCEPT !.rows = NoRows]
             rest   == s.open \ {s.portal.rows}
  <2>1. CASE x = result(TRUE, closed, s.db, s.bound, rest)
    BY <1>2, <2>1 DEF result, ranOnce
  <2>2. ASSUME NEW r \in run(db, c.query.sql), NEW args, NEW e, NEW f,
               x = IF r.ok THEN result(TRUE, e, r.db, args, rest)
                           ELSE result(FALSE, f, r.db, args, rest)
        PROVE  ranOnce(c, x)
    BY <2>2, RunOk DEF result, ranOnce
  <2>3. x \in IF s.portal.stmt \notin DOMAIN s.bound
              THEN {result(TRUE, closed, s.db, s.bound, rest)}
              ELSE {IF r.ok THEN result(TRUE, ran(closed, s.bound[s.portal.stmt]), r.db, s.bound, rest)
                            ELSE result(FALSE, [closed EXCEPT !.failed = TRUE], r.db, s.bound, rest)
                      : r \in run(db, c.query.sql)}
    BY <1>2 DEF stream
  <2> HIDE DEF closed, rest
  <2> QED  BY <2>1, <2>2, <2>3
<1> QED  BY <1>1, <1>2

------------------------------------------------------------------------------
(* The moves of the transaction and its status, to a plain client.           *)

idle == txStatus' = txStatus /\ db' = db

wrote == txStatus # "E" /\ txStatus' = txStatus /\ \E w \in fresh(db) : db' = written(db, w)

began == txStatus = "I" /\ txStatus' = "T" /\ db' = [db EXCEPT !.tx = "begin"]

ended ==
    /\ txStatus # "I" /\ txStatus' = "I"
    /\ \/ txStatus = "T" /\ db' = committed(db)
       \/ inTx(db) /\ db' = rolledBack(db)
       \/ ~inTx(db) /\ db' = db

effected == idle \/ wrote \/ began \/ ended

failing ==
    /\ txStatus' = failBlock(txStatus)
    /\ db' = db \/ (txStatus = "T" /\ db' = rolledBack(db))

\* The facts every step starts from.
LEMMA Start ==
    ASSUME SessionInv, Honest, phase = "loop"
    PROVE  /\ txStatus \in {"I", "T", "E"} /\ db \in Database /\ quiet(db)
           /\ txStatus = "I" => ~inTx(db)
           /\ txStatus = "T" => inTx(db)
  BY DEF SessionInv, TypeOK, Quiet, Honest, TxStatuses

\* A statement that ran is a move: its keyword says what it is to SQLite.
LEMMA QueryMoves ==
    ASSUME SessionInv, Honest, PlainClient, NEW q \in SimpleQueries, handleQueryMessage(q)
    PROVE  (effected \/ failing) /\ ReadyForQuery(txStatus')
<1>1. phase = "loop"
  BY DEF handleQueryMessage, receiving
<1>2. /\ txStatus \in {"I", "T", "E"} /\ db \in Database /\ quiet(db)
      /\ txStatus = "I" => ~inTx(db)
      /\ txStatus = "T" => inTx(db)
  BY <1>1, Start
<1>3. /\ q.sql \in SqlKinds \ {"savepoint", "release", "rollbackto"}
      /\ q.sql = "begin" => isTxBegin(q.kw)
      /\ q.sql = "commit" => isTxCommit(q.kw)
      /\ q.sql = "rollback" => isTxRollback(q.kw)
      /\ q.sql \in {"begin", "commit", "rollback"} => ~isRowReturning(q)
      /\ isTxBegin(q.kw) => q.sql \in {"begin", "invalid"}
      /\ endsBlock(q.kw) => q.sql \in {"commit", "rollback", "invalid"}
  BY SessionAssumption DEF PlainClient, plainClient, QueryText
<1>4. CASE QueryEmpty(q)
  BY <1>4 DEF QueryEmpty, effected, idle, ReadyForQuery
<1>5. CASE QueryInFailedBlock(q)
  BY <1>5 DEF QueryInFailedBlock, rollbackFailed, effected, idle, ended
<1>6. ASSUME NEW r \in run(db, q.sql), r.ok, db' = r.db, txStatus # "E", q.sql # "empty",
             \/ txStatus' = noteCompleted(txStatus, q.kw)
             \/ isRowReturning(q) /\ txStatus' = txStatus
      PROVE  effected
  <2>1. db' \in successes(db, q.sql)
    BY <1>2, <1>6, SucceededRun
  <2>2. CASE q.sql = "begin"
    <3>1. ~inTx(db) /\ db' = [db EXCEPT !.tx = "begin"]
      BY <2>1, <2>2 DEF successes
    <3> QED  BY <1>2, <1>3, <1>6, <2>2, <3>1 DEF noteCompleted, effected, began
  <2>3. CASE q.sql = "commit"
    <3>1. inTx(db) /\ db' = committed(db)
      BY <2>1, <2>3 DEF successes
    <3>2. txStatus' = "I"
      BY <1>3, <1>6, <2>3 DEF noteCompleted, endsBlock, isTxBegin, isTxCommit
    <3> QED  BY <1>2, <1>6, <3>1, <3>2 DEF effected, ended
  <2>4. CASE q.sql = "rollback"
    <3>1. inTx(db) /\ db' = rolledBack(db)
      BY <2>1, <2>4 DEF successes
    <3>2. txStatus' = "I"
      BY <1>3, <1>6, <2>4 DEF noteCompleted, endsBlock, isTxBegin, isTxRollback
    <3> QED  BY <1>2, <1>6, <3>1, <3>2 DEF effected, ended
  <2>5. CASE q.sql \in {"write", "read", "invalid"}
    <3>1. q.sql # "invalid"
      BY <2>1 DEF successes
    <3>2. txStatus' = txStatus
      BY <1>3, <1>6, <2>5, <3>1 DEF noteCompleted
    <3>3. db' = db \/ \E w \in fresh(db) : db' = written(db, w)
      BY <1>2, <1>6, <2>5, DataRun
    <3> QED  BY <1>6, <3>2, <3>3 DEF effected, idle, wrote
  <2> QED  BY <1>3, <1>6, <2>2, <2>3, <2>4, <2>5 DEF SqlKinds
<1>7. ASSUME NEW r \in run(db, q.sql), ~r.ok, db' = r.db, txStatus # "E",
             txStatus' = failBlock(txStatus)
      PROVE  failing
  <2>1. db' = db \/ (inTx(db) /\ db' = rolledBack(db))
    BY <1>2, <1>7, FailedRun
  <2> QED  BY <1>2, <1>7, <2>1 DEF failing
<1>8. CASE execSimpleQuery(q)
  BY <1>6, <1>7, <1>8, RunOk DEF execSimpleQuery
<1>9. CASE streamSimpleQuery(q)
  BY <1>6, <1>7, <1>9, RunOk DEF streamSimpleQuery
<1>10. CASE QueryInFailedBlock(q) \/ execSimpleQuery(q) \/ streamSimpleQuery(q)
  <2>1. ReadyForQuery(txStatus')
    BY <1>10 DEF QueryInFailedBlock, execSimpleQuery, streamSimpleQuery
  <2> QED  BY <1>5, <1>8, <1>9, <1>10, <2>1
<1> QED  BY <1>4, <1>10 DEF handleQueryMessage

\* A statement of a portal, in a block that has not failed.
LEMMA PortalMoves ==
    ASSUME SessionInv, Honest, PlainClient, phase = "loop", txStatus # "E",
           NEW c \in Portal, NEW x, ranOnce(c, x), db' = x.db,
           x.ok \in BOOLEAN,
           IF x.ok THEN txStatus' = txStatus \/ txStatus' = noteCompleted(txStatus, c.query.kw)
                   ELSE txStatus' = failBlock(txStatus)
    PROVE  IF x.ok THEN effected ELSE failing
<1>1. /\ txStatus \in {"I", "T", "E"} /\ db \in Database /\ quiet(db)
      /\ txStatus = "I" => ~inTx(db)
      /\ txStatus = "T" => inTx(db)
  BY Start
<1>2. /\ c.query.sql \in {"write", "read", "empty", "invalid"}
      /\ ~isTxBegin(c.query.kw) /\ ~endsBlock(c.query.kw)
  BY DEF PlainClient, plainClient, Portal
<1>3. x.db = db \/ \E r \in run(db, c.query.sql) : r.ok = x.ok /\ r.db = x.db
  BY DEF ranOnce
<1>4. CASE x.ok
  <2>1. txStatus' = txStatus
    BY <1>2, <1>4 DEF noteCompleted
  <2>2. db' = db \/ \E w \in fresh(db) : db' = written(db, w)
    BY <1>1, <1>2, <1>3, <1>4, DataRun
  <2> QED  BY <1>4, <2>1, <2>2 DEF effected, idle, wrote
<1>5. CASE ~x.ok
  <2>1. db' = db \/ (inTx(db) /\ db' = rolledBack(db))
    BY <1>1, <1>3, <1>5, FailedRun
  <2> QED  BY <1>1, <1>5, <2>1 DEF failing
<1> QED  BY <1>4, <1>5

\* A message of the extended protocol has an effect and is answered, or fails.
LEMMA DescribeMoves ==
    ASSUME SessionInv, Honest, PlainClient, NEW p \in PortalNames, describePortal(p)
    PROVE  (effected /\ Answer) \/ (failing /\ failExtended)
<1>1. phase = "loop"
  BY DEF describePortal, receiving
<1>2. CASE p \notin DOMAIN portals
  BY <1>2 DEF describePortal, failExtended, failing
<1>3. CASE p \in DOMAIN portals /\ txStatus = "E"
  BY <1>3 DEF describePortal, failExtended, failing, effected, idle
<1>4. CASE p \in DOMAIN portals /\ txStatus # "E"
  <2>1. PICK x \in execute(portals[p]) :
           db' = x.db /\ IF x.ok THEN Answer /\ UNCHANGED txStatus ELSE failExtended
    BY <1>4 DEF describePortal
  <2>2. portals[p] \in Portal /\ ranOnce(portals[p], x) /\ x.ok \in BOOLEAN
    <3>1. TypeOK /\ Quiet
      BY DEF SessionInv
    <3> QED  BY <1>4, <2>1, <3>1, PortalRows, ExecuteRan, ExecuteSettles DEF settled
  <2>3. IF x.ok THEN effected ELSE failing
    BY <1>1, <1>4, <2>1, <2>2, PortalMoves DEF failExtended
  <2> QED  BY <2>1, <2>2, <2>3
<1> QED  BY <1>2, <1>3, <1>4

\* So does an Execute, which may also end a failed block.
LEMMA ExecuteMoves ==
    ASSUME SessionInv, Honest, PlainClient, NEW p \in PortalNames, handleExecuteMessage(p)
    PROVE  (effected /\ Answer) \/ (failing /\ failExtended)
<1>1. phase = "loop"
  BY DEF handleExecuteMessage, receiving
<1>2. CASE p \notin DOMAIN portals
  BY <1>2 DEF handleExecuteMessage, failExtended, failing
<1>3. CASE p \in DOMAIN portals /\ txStatus = "E"
  <2>1. (rollbackFailed /\ Answer) \/ (failExtended /\ db' = db)
    BY <1>3 DEF handleExecuteMessage
  <2> QED  BY <1>3, <2>1 DEF rollbackFailed, failExtended, failing, effected, ended
<1>4. CASE p \in DOMAIN portals /\ txStatus # "E"
  <2> DEFINE replied(x) ==
               db' = x.db /\ IF x.ok THEN txStatus' = noteCompleted(txStatus, portals[p].query.kw) /\ Answer
                                     ELSE failExtended
  <2>1. \E x \in UNION {stream(s) : s \in execute(portals[p])} : replied(x)
    BY <1>4 DEF handleExecuteMessage
  <2>2. ASSUME NEW s \in execute(portals[p]), NEW x \in stream(s), replied(x)
        PROVE  (effected /\ Answer) \/ (failing /\ failExtended)
    <3>1. TypeOK /\ Quiet
      BY DEF SessionInv
    <3>2. /\ portals[p] \in Portal /\ sound(portals[p])
          /\ portals[p].rows # NoRows => portals[p].rows \in open
      BY <1>4, PortalRows
    <3>3. settled(portals[p], s)
      BY <3>1, <3>2, ExecuteSettles
    <3>4. x.ok \in BOOLEAN
      BY <3>1, <3>2, <3>3, StreamSettles DEF settled
    <3>5. ranOnce(portals[p], x)
      BY <3>2, ExecuteRan, StreamRan
    <3>6. IF x.ok THEN effected ELSE failing
      BY <1>1, <1>4, <2>2, <3>2, <3>4, <3>5, PortalMoves DEF failExtended
    <3> QED  BY <2>2, <3>4, <3>6
  <2> HIDE DEF replied
  <2> QED  BY <2>1, <2>2
<1> QED  BY <1>2, <1>3, <1>4

\* The messages that name statements and portals run nothing.
LEMMA NamingMoves ==
    ASSUME \/ \E n \in StmtNames, q \in ExtendedQueries : handleParseMessage(n, q)
           \/ \E n \in StmtNames, p \in PortalNames, a \in Params : handleBindMessage(n, p, a)
           \/ \E n \in StmtNames : describeStatement(n) \/ closeStatement(n)
           \/ \E p \in PortalNames : closePortal(p)
    PROVE  /\ receiving /\ phase' = phase
           /\ (effected /\ Answer) \/ (failing /\ failExtended)
<1>1. failExtended /\ db' = db => failing
  BY DEF failExtended, failing
<1>2. txStatus' = txStatus /\ db' = db => effected
  BY DEF effected, idle
<1> QED
  BY <1>1, <1>2 DEF handleParseMessage, handleBindMessage, describeStatement, closeStatement, closePortal

------------------------------------------------------------------------------
(* The status stays honest.                                                  *)

\* Every move keeps the status what SQLite's is.
LEMMA MoveHonest ==
    ASSUME SessionInv, Honest, phase = "loop", effected \/ failing,
           ReadyForQuery(txStatus') \/ wire' # "ready"
    PROVE  Honest'
<1>1. /\ txStatus \in {"I", "T", "E"} /\ db \in Database /\ quiet(db)
      /\ txStatus = "I" => ~inTx(db)
      /\ txStatus = "T" => inTx(db)
  BY Start
<1>2. ~inTx(committed(db)) /\ ~inTx(rolledBack(db)) /\ inTx([db EXCEPT !.tx = "begin"])
  BY <1>1 DEF committed, rolledBack, opened, inTx, Database
<1>3. \A w \in fresh(db) : inTx(written(db, w)) <=> inTx(db)
  BY <1>1, WrittenDb
<1>4. (txStatus' = "I" => ~inTx(db')) /\ (txStatus' = "T" => inTx(db'))
  <2>1. CASE effected
    BY <1>1, <1>2, <1>3, <2>1 DEF effected, idle, wrote, began, ended
  <2>2. CASE failing
    BY <1>1, <2>2 DEF failing, failBlock
  <2> QED  BY <2>1, <2>2
<1>5. wire' = "ready" => told' = txStatus'
  BY DEF ReadyForQuery
<1>6. inTx(db)' <=> inTx(db')
  BY DEF inTx
<1> QED  BY <1>4, <1>5, <1>6 DEF Honest

\* What every message but Terminate does to the status, the transaction and the
\* conversation.
LEMMA Moves ==
    ASSUME SessionInv, Honest, PlainClient, Next
    PROVE  \/ /\ phase = "loop" /\ phase' = "loop"
              /\ \/ wire # "failed" /\ (effected \/ failing) /\ ReadyForQuery(txStatus')
                 \/ wire # "failed" /\ effected /\ Answer
                 \/ wire # "failed" /\ failing /\ failExtended
                 \/ idle /\ ReadyForQuery(txStatus')
           \/ phase = "loop" /\ Close
           \/ newConn
           \/ UNCHANGED vars
<1>1. receiving => phase = "loop" /\ wire # "failed"
  BY DEF receiving, SessionInv, Silenced
<1>2. CASE \E q \in SimpleQueries : handleQueryMessage(q)
  BY <1>1, <1>2, QueryMoves DEF handleQueryMessage
<1>3. CASE \/ \E n \in StmtNames, q \in ExtendedQueries : handleParseMessage(n, q)
           \/ \E n \in StmtNames, p \in PortalNames, a \in Params : handleBindMessage(n, p, a)
           \/ \E n \in StmtNames : describeStatement(n) \/ closeStatement(n)
           \/ \E p \in PortalNames : closePortal(p)
  BY <1>1, <1>3, NamingMoves
<1>4. CASE \E p \in PortalNames : describePortal(p)
  BY <1>1, <1>4, DescribeMoves DEF describePortal
<1>5. CASE \E p \in PortalNames : handleExecuteMessage(p)
  BY <1>1, <1>5, ExecuteMoves DEF handleExecuteMessage
<1>6. CASE Sync
  BY <1>6 DEF Sync, idle, ReadyForQuery
<1>7. CASE Terminate \/ ReceiveError
  BY <1>1, <1>7 DEF Terminate, ReceiveError
<1>8. CASE Discard \/ Flush
  BY <1>8 DEF Discard, Flush
<1> QED
  BY <1>2, <1>3, <1>4, <1>5, <1>6, <1>7, <1>8 DEF Next

\* Every step keeps the status honest.
LEMMA HonestStep ==
    ASSUME SessionInv, Honest, PlainClient, [Next]_vars
    PROVE  Honest'
<1>1. CASE phase = "loop" /\ (effected \/ failing) /\ (ReadyForQuery(txStatus') \/ wire' # "ready")
  BY <1>1, MoveHonest
<1>2. CASE phase = "loop" /\ Close
  <2>1. phase' # "loop"
    BY <1>2 DEF Close
  <2> QED  BY <2>1 DEF Honest
<1>3. CASE newConn
  BY <1>3 DEF newConn, Honest, opened, inTx
<1>4. CASE UNCHANGED vars
  BY <1>4 DEF vars, conn, seen, Honest, inTx
<1>5. Answer \/ failExtended => wire' # "ready"
  BY DEF Answer, failExtended
<1> QED  BY <1>1, <1>2, <1>3, <1>4, <1>5, Moves DEF effected

\* What ReadyForQuery reports to a plain client is the state of SQLite's
\* transaction: 'T' inside a block, 'I' outside.
THEOREM Honesty ==
    ASSUME PlainClient
    PROVE  Spec => []TxHonest
<1>1. Init => Honest
  BY DEF Init, Honest, opened, inTx
<1>2. SessionInv /\ Honest /\ [Next]_vars => Honest'
  BY HonestStep
<1>3. Honest => TxHonest
  BY DEF Honest, TxHonest
<1> QED  BY <1>1, <1>2, <1>3, Invariance, PTL DEF Spec

------------------------------------------------------------------------------
(* The session implements what its client may see.                           *)

\* A move that had an effect is one of the client-visible effects.
LEMMA EffectMaps ==
    ASSUME SessionInv, Honest, phase = "loop", phase' = "loop", effected
    PROVE  Client!Effect
<1>1. /\ txStatus \in {"I", "T", "E"} /\ db \in Database /\ quiet(db)
      /\ txStatus = "I" => ~inTx(db)
      /\ txStatus = "T" => inTx(db)
  BY Start
<1> USE DEF up
<1>2. CASE idle
  BY <1>2 DEF idle, Client!Effect, Client!Nothing, Client!data
<1>3. CASE wrote
  <2>1. PICK w \in fresh(db) : db' = written(db, w)
    BY <1>3 DEF wrote
  <2>2. w \in Work /\ w \notin db.pending /\ w \notin db.durable
    BY DEF fresh
  <2>3. CASE txStatus = "T"
    <3>1. db'.pending = db.pending \cup {w} /\ db'.durable = db.durable
      BY <1>1, <2>1, <2>3, WrittenDb
    <3>2. Client!Write
      BY <1>3, <2>2, <2>3, <3>1 DEF wrote, Client!Write
    <3> QED  BY <3>2 DEF Client!Effect
  <2>4. CASE txStatus = "I"
    <3>1. db'.durable = db.durable \cup {w}
      BY <1>1, <2>1, <2>4, WrittenDb
    <3>2. Client!Autocommit
      BY <1>3, <2>2, <2>4, <3>1 DEF wrote, Client!Autocommit
    <3> QED  BY <3>2 DEF Client!Effect
  <2> QED  BY <1>1, <1>3, <2>3, <2>4 DEF wrote
<1>4. CASE began
  <2>1. db'.pending = {} /\ db'.durable = db.durable
    BY <1>1, <1>4 DEF began, quiet, Database
  <2>2. Client!Begin
    BY <1>4, <2>1 DEF began, Client!Begin
  <2> QED  BY <2>2 DEF Client!Effect
<1>5. CASE ended
  <2>1. CASE txStatus = "T" /\ db' = committed(db)
    <3>1. db'.durable = db.durable \cup db.pending
      BY <2>1 DEF committed, opened
    <3>2. Client!Commit
      BY <1>5, <2>1, <3>1 DEF ended, Client!Commit
    <3> QED  BY <3>2 DEF Client!Effect
  <2>2. CASE db' = rolledBack(db) \/ db' = db
    <3>1. db'.durable = db.durable
      BY <2>2 DEF rolledBack, opened
    <3>2. Client!Rollback
      BY <1>5, <3>1 DEF ended, Client!Rollback
    <3> QED  BY <3>2 DEF Client!Effect
  <2> QED  BY <1>5, <2>1, <2>2 DEF ended
<1> QED  BY <1>2, <1>3, <1>4, <1>5 DEF effected

\* A failure dooms the block, or changes nothing.
LEMMA FailureMaps ==
    ASSUME SessionInv, Honest, phase = "loop", phase' = "loop", failing
    PROVE  Client!Fail
<1>1. txStatus \in {"I", "T", "E"}
  BY Start
<1> USE DEF up
<1>2. db'.durable = db.durable
  BY DEF failing, rolledBack, opened
<1>3. CASE txStatus = "T"
  BY <1>2, <1>3 DEF failing, failBlock, Client!Fail, Client!Abort
<1>4. CASE txStatus # "T"
  BY <1>2, <1>4 DEF failing, failBlock, Client!Fail, Client!Nothing, Client!data
<1> QED  BY <1>3, <1>4

\* Every step of the session is a step its client may see, or is not seen.
LEMMA StepMaps ==
    ASSUME SessionInv, Honest, PlainClient, [Next]_vars
    PROVE  [Client!Next]_(Client!vars)
<1> USE DEF up
<1>1. CASE phase = "loop" /\ phase' = "loop" /\ wire # "failed"
             /\ (effected \/ failing) /\ ReadyForQuery(txStatus')
  <2>1. Client!Effect \/ Client!Fail
    BY <1>1, EffectMaps, FailureMaps
  <2>2. Client!Simple
    BY <1>1, <2>1 DEF ReadyForQuery, Client!Simple, Client!Ready
  <2> QED  BY <2>2 DEF Client!Next
<1>2. CASE phase = "loop" /\ phase' = "loop" /\ wire # "failed" /\ effected /\ Answer
  <2>1. Client!Extended
    BY <1>2, EffectMaps DEF Answer, Client!Extended
  <2> QED  BY <2>1 DEF Client!Next
<1>3. CASE phase = "loop" /\ phase' = "loop" /\ wire # "failed" /\ failing /\ failExtended
  <2>1. Client!Error
    BY <1>3, FailureMaps DEF failExtended, Client!Error
  <2> QED  BY <2>1 DEF Client!Next
<1>4. CASE phase = "loop" /\ phase' = "loop" /\ idle /\ ReadyForQuery(txStatus')
  <2>1. Client!Sync
    BY <1>4 DEF idle, ReadyForQuery, Client!Sync, Client!Nothing, Client!data, Client!Ready
  <2> QED  BY <2>1 DEF Client!Next
<1>5. CASE phase = "loop" /\ Close
  <2>1. phase' # "loop"
    BY <1>5 DEF Close
  <2>2. db'.durable = db.durable
    BY <1>5 DEF Close, rolledBack, opened
  <2>3. Client!Disconnect
    BY <2>1, <2>2 DEF Client!Disconnect
  <2> QED  BY <2>3 DEF Client!Next
<1>6. CASE newConn
  <2>1. db'.durable = db.durable
    BY <1>6 DEF newConn, opened
  <2>2. UNCHANGED Client!vars
    BY <1>6, <2>1 DEF newConn, Client!vars, Client!data
  <2> QED  BY <2>2
<1>7. CASE UNCHANGED vars
  BY <1>7 DEF vars, conn, seen, Client!vars, Client!data
<1> QED  BY <1>1, <1>2, <1>3, <1>4, <1>5, <1>6, <1>7, Moves

\* To a plain client a session is the one Backend promises: its statuses change
\* only as they may, a block's work becomes durable all at once at its COMMIT or
\* never, and nothing is sent between an error and the answer to Sync.
THEOREM Implementation ==
    ASSUME PlainClient
    PROVE  Spec => ImplementsBackend
<1>1. Init => Honest
  BY DEF Init, Honest, opened, inTx
<1>2. Init => Client!Init
  BY DEF Init, up, opened, Client!Init
<1>3. SessionInv /\ Honest /\ [Next]_vars => Honest' /\ [Client!Next]_(Client!vars)
  BY HonestStep, StepMaps
<1> QED  BY <1>1, <1>2, <1>3, Invariance, PTL DEF Spec, ImplementsBackend, Client!Spec
=============================================================================
