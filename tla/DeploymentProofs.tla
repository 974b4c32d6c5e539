-------------------------- MODULE DeploymentProofs -------------------------
(***************************************************************************)
(* Theorems of Deployment, for every set of sessions, texts and units of   *)
(* work: what a client that sends one statement at a time was told is      *)
(* true, and a session that is idle, or gone, holds nothing.               *)
(***************************************************************************)
EXTENDS Deployment, TLAPS, SequenceTheorems

\* A lock is had for a read or a write, and only a handled text can have failed.
running(s) ==
    /\ pc[s] = "have" => Head(todo[s]) \in {"read", "write"}
    /\ error[s] => pc[s] = "reply"

\* A plain session's text is one statement, and is not run in a failed block.
single(s) ==
    /\ pc[s] \in {"ask", "have", "reply"} => Len(text[s].sqls) = 1 /\ txStatus[s] # "E"
    /\ pc[s] \in {"ask", "have"} => todo[s] = text[s].sqls

\* Outside a block a session has nothing but for the statement at hand, and of
\* that only a write leaves work pending.
autocommit(s) ==
    ~file.block[s] =>
        /\ pc[s] # "have" => file.lock[s] = "none" /\ file.pending[s] = {}
        /\ pc[s] = "have" /\ Head(todo[s]) # "write" => file.pending[s] = {}

\* The status a plain session shows, or is about to show, is SQLite's.
coming(s) == IF pc[s] = "reply" THEN statusAfter(s) ELSE txStatus[s]
statusTrue(s) == file.block[s] <=> coming(s) # "I"

\* A connection that is gone has nothing open, and its client is told.
downClean(s) ==
    pc[s] = "down" =>
        /\ ~file.block[s] /\ txStatus[s] = "I"
        /\ \A w \in Work : told[w] # s

\* Pending work is its session's, until a client that cannot tell is told so.
pendingOwned(s) ==
    \A w \in file.pending[s] :
        /\ told[w] \in {s, "unknown"}
        /\ s \in Plain => told[w] = s /\ w \notin file.durable

\* The work a plain session's client awaits the fate of: pending while the block
\* or the statement lasts, and after that committed exactly if the reply will
\* say so.
ends(s) == error[s] \/ isTxRollback(text[s].kw)
workTracked(s) ==
    \A w \in Work : told[w] = s =>
        /\ pc[s] # "reply" \/ file.block[s] => w \in file.pending[s]
        /\ pc[s] = "reply" /\ ~file.block[s] => (w \in file.durable <=> ~ends(s))

sessionInv(s) ==
    /\ running(s) /\ autocommit(s) /\ downClean(s) /\ pendingOwned(s)
    /\ s \in Plain => single(s) /\ statusTrue(s) /\ workTracked(s)

\* What was never written, or was dropped, is not in the file; what was kept is.
FatesTrue ==
    \A w \in Work :
        /\ told[w] \in {"unused", "dropped"} => w \notin file.durable
        /\ told[w] = "kept" => w \in file.durable

\* The inductive invariant.
DeploymentInv == TypeOK /\ (\A s \in Session : sessionInv(s)) /\ FatesTrue

------------------------------------------------------------------------------
(* The file.                                                                 *)

\* g is f but for what connection s holds, and what it committed.
LEMMA LeftFile ==
    ASSUME NEW f \in File, NEW s \in Session
    PROVE  /\ left(f, s) \in File
           /\ left(f, s).durable = f.durable
           /\ left(f, s).lock = [f.lock EXCEPT ![s] = "none"]
           /\ left(f, s).block = [f.block EXCEPT ![s] = FALSE]
           /\ left(f, s).pending = [f.pending EXCEPT ![s] = {}]
<1> DEFINE lock == [f.lock EXCEPT ![s] = "none"]
           block == [f.block EXCEPT ![s] = FALSE]
           pending == [f.pending EXCEPT ![s] = {}]
<1>1. left(f, s) = [f EXCEPT !.lock = lock, !.block = block, !.pending = pending]
  BY Zenon DEF left
<1>2. /\ lock \in [Session -> Locks]
      /\ block \in [Session -> BOOLEAN]
      /\ pending \in [Session -> SUBSET Work]
  BY DEF File, Locks
<1> HIDE DEF lock, block, pending
<1>3. /\ left(f, s) \in File
      /\ left(f, s).durable = f.durable /\ left(f, s).lock = lock
      /\ left(f, s).block = block /\ left(f, s).pending = pending
  BY <1>1, <1>2 DEF File
<1> QED  BY <1>3 DEF lock, block, pending

\* A commit makes the session's work durable, ends its block and frees its lock.
LEMMA CommittedFile ==
    ASSUME NEW f \in File, NEW s \in Session
    PROVE  /\ committed(f, s) \in File
           /\ committed(f, s).durable = f.durable \cup f.pending[s]
           /\ committed(f, s).lock = [f.lock EXCEPT ![s] = "none"]
           /\ committed(f, s).block = [f.block EXCEPT ![s] = FALSE]
           /\ committed(f, s).pending = [f.pending EXCEPT ![s] = {}]
<1> DEFINE d == f.durable \cup f.pending[s]
<1>1. d \in SUBSET Work
  BY DEF File
<1>2. committed(f, s) = [left(f, s) EXCEPT !.durable = d]
  BY LeftFile DEF committed, File
<1> HIDE DEF d
<1>3. committed(f, s) \in File /\ committed(f, s).durable = d
  BY <1>1, <1>2, LeftFile DEF File
<1>4. /\ committed(f, s).lock = left(f, s).lock
      /\ committed(f, s).block = left(f, s).block
      /\ committed(f, s).pending = left(f, s).pending
  BY <1>2, LeftFile DEF File
<1> QED  BY <1>3, <1>4, LeftFile DEF d

\* Taking a lock changes nobody else's lock and no data.
LEMMA RaisedFile ==
    ASSUME NEW f \in File, NEW s \in Session, NEW lock \in {"shared", "reserved"}
    PROVE  /\ raised(f, s, lock) \in File
           /\ raised(f, s, lock).durable = f.durable
           /\ raised(f, s, lock).block = f.block
           /\ raised(f, s, lock).pending = f.pending
           /\ \A o \in Session \ {s} : raised(f, s, lock).lock[o] = f.lock[o]
<1>1. [f EXCEPT !.lock[s] = lock] = [f EXCEPT !.lock = [f.lock EXCEPT ![s] = lock]]
  BY DEF File
<1>2. [f.lock EXCEPT ![s] = lock] \in [Session -> Locks]
  BY DEF File, Locks
<1> QED  BY <1>1, <1>2 DEF raised, File

\* A statement over leaves a block as it is, and outside a block no lock and no
\* work.
LEMMA UndoneFile ==
    ASSUME NEW f \in File, NEW s \in Session
    PROVE  /\ undone(f, s) \in File
           /\ undone(f, s).durable = f.durable
           /\ undone(f, s).block = f.block
           /\ f.block[s] => undone(f, s) = f
           /\ ~f.block[s] => undone(f, s).lock[s] = "none" /\ undone(f, s).pending[s] = {}
           /\ \A o \in Session \ {s} :
                 undone(f, s).lock[o] = f.lock[o] /\ undone(f, s).pending[o] = f.pending[o]
<1>1. CASE f.block[s]
  BY <1>1 DEF undone
<1>2. CASE ~f.block[s]
  <2>1. undone(f, s) = left(f, s)
    BY <1>2 DEF undone
  <2>2. [f.block EXCEPT ![s] = FALSE] = f.block
    BY <1>2 DEF File
  <2>3. /\ left(f, s) \in File /\ left(f, s).durable = f.durable
        /\ left(f, s).block = f.block
    BY <2>2, LeftFile
  <2>4. /\ left(f, s).lock[s] = "none" /\ left(f, s).pending[s] = {}
        /\ \A o \in Session \ {s} :
              left(f, s).lock[o] = f.lock[o] /\ left(f, s).pending[o] = f.pending[o]
    <3>1. f.lock \in [Session -> Locks] /\ f.pending \in [Session -> SUBSET Work]
      BY DEF File
    <3>2. /\ left(f, s).lock = [f.lock EXCEPT ![s] = "none"]
          /\ left(f, s).pending = [f.pending EXCEPT ![s] = {}]
      BY LeftFile
    <3> QED  BY <3>1, <3>2
  <2> QED  BY <1>2, <2>1, <2>3, <2>4
<1> QED  BY <1>1, <1>2

------------------------------------------------------------------------------
(* One session at a time.                                                    *)

\* A step of s: the others keep their state, the file gains what s had pending
\* at most, and only unused work and work of s changes hands.
stepOf(s) ==
    /\ \A o \in Session \ {s} :
          /\ pc'[o] = pc[o] /\ text'[o] = text[o] /\ todo'[o] = todo[o]
          /\ error'[o] = error[o] /\ txStatus'[o] = txStatus[o]
          /\ file'.lock[o] = file.lock[o] /\ file'.block[o] = file.block[o]
          /\ file'.pending[o] = file.pending[o]
    /\ file.durable \subseteq file'.durable
    /\ file'.durable \subseteq file.durable \cup file.pending[s]
    /\ \A w \in Work :
          told'[w] = told[w] \/ (told[w] \in {"unused", s} /\ told'[w] \in {s} \cup Fates)

\* Such a step disturbs nobody but s.
LEMMA OthersKept ==
    ASSUME DeploymentInv, TypeOK', NEW s \in Session, stepOf(s),
           NEW o \in Session \ {s}
    PROVE  sessionInv(o)'
<1> USE DeploymentAssumption
<1>1. sessionInv(o)
  BY DEF DeploymentInv
<1>2. running(o)' /\ autocommit(o)' /\ (o \in Plain => (single(o) => single(o)'))
  BY <1>1 DEF sessionInv, running, autocommit, single, stepOf
<1>3. ASSUME NEW w \in Work PROVE told'[w] = o <=> told[w] = o
  BY DEF stepOf, Fates
<1>4. downClean(o)'
  BY <1>1, <1>3 DEF sessionInv, downClean, stepOf
<1>5. ASSUME NEW w \in Work, w \in file.pending[s] PROVE told[w] \in {s, "unknown"}
  BY <1>5 DEF DeploymentInv, sessionInv, pendingOwned
<1>6. ASSUME NEW w \in Work, told[w] = o PROVE w \in file'.durable <=> w \in file.durable
  BY <1>5, <1>6 DEF stepOf, Fates
<1>7. pendingOwned(o)'
  <2> SUFFICES ASSUME NEW w \in file'.pending[o]
               PROVE  /\ told'[w] \in {o, "unknown"}
                      /\ o \in Plain => told'[w] = o /\ w \notin file'.durable
    BY DEF pendingOwned
  <2>1. w \in file.pending[o] /\ w \in Work
    BY DEF stepOf, DeploymentInv, TypeOK, File
  <2>2. /\ told[w] \in {o, "unknown"}
        /\ o \in Plain => told[w] = o /\ w \notin file.durable
    BY <1>1, <2>1 DEF sessionInv, pendingOwned
  <2> QED  BY <1>3, <1>6, <2>1, <2>2 DEF stepOf, Fates
<1>8. CASE o \in Plain
  <2>1. statusTrue(o)'
    BY <1>1, <1>8 DEF sessionInv, statusTrue, coming, statusAfter, stepOf
  <2>2. workTracked(o)'
    BY <1>1, <1>3, <1>6, <1>8 DEF sessionInv, workTracked, ends, stepOf
  <2> QED  BY <1>1, <1>2, <1>4, <1>7, <1>8, <2>1, <2>2 DEF sessionInv
<1> QED  BY <1>2, <1>4, <1>7, <1>8 DEF sessionInv

\* Nor does it change what the clients know to be true.
LEMMA FatesKept ==
    ASSUME DeploymentInv, NEW s \in Session, stepOf(s), UNCHANGED told
    PROVE  FatesTrue'
<1> USE DeploymentAssumption
<1>1. ASSUME NEW w \in file.pending[s] PROVE told[w] \notin {"unused", "dropped"}
  BY <1>1 DEF DeploymentInv, sessionInv, pendingOwned, Fates
<1> QED  BY <1>1 DEF DeploymentInv, FatesTrue, stepOf

\* It is left to look at s itself.
LEMMA StepKept ==
    ASSUME DeploymentInv, NEW s \in Session, stepOf(s), TypeOK', FatesTrue',
           (running(s) /\ autocommit(s) /\ downClean(s) /\ pendingOwned(s))',
           s \in Plain => (single(s) /\ statusTrue(s) /\ workTracked(s))'
    PROVE  DeploymentInv'
<1>1. sessionInv(s)'
  BY DEF sessionInv
<1> QED  BY <1>1, OthersKept DEF DeploymentInv

------------------------------------------------------------------------------
(* The statements of a text.                                                 *)

\* What is left of the statements.
LEMMA TodoTail ==
    ASSUME DeploymentInv, NEW s \in Session, pc[s] \in {"ask", "have"}
    PROVE  /\ todo[s] \in Seq(StatementKinds) /\ todo[s] # <<>>
           /\ Head(todo[s]) \in StatementKinds
           /\ Tail(todo[s]) \in Seq(StatementKinds)
           /\ Len(todo[s]) = 1 <=> Tail(todo[s]) = <<>>
<1>1. todo[s] \in Seq(StatementKinds) /\ todo[s] # <<>>
  BY DEF DeploymentInv, TypeOK
<1>2. /\ Head(todo[s]) \in StatementKinds /\ Tail(todo[s]) \in Seq(StatementKinds)
      /\ Len(Tail(todo[s])) = Len(todo[s]) - 1 /\ Len(todo[s]) \in Nat
  BY <1>1, HeadTailProperties
<1>3. Tail(todo[s]) = <<>> <=> Len(Tail(todo[s])) = 0
  BY <1>2, EmptySeq
<1> QED  BY <1>1, <1>2, <1>3

\* The one statement of a plain session, and the status its success leads to.
afterSuccess(s) ==
    IF isRowReturning(text[s]) THEN txStatus[s] ELSE noteCompleted(txStatus[s], text[s].kw)

\* The statement of a plain session: its keyword says what it is to SQLite, and
\* the status is SQLite's before it and will be after it.
LEMMA PlainStatement ==
    ASSUME DeploymentInv, NEW s \in Plain, pc[s] \in {"ask", "have"}
    PROVE  /\ text[s] \in Texts /\ Len(todo[s]) = 1 /\ Len(text[s].sqls) = 1
           /\ txStatus[s] \in {"I", "T"} /\ (file.block[s] <=> txStatus[s] = "T")
           /\ Head(todo[s]) = "begin" => afterSuccess(s) = "T"
           /\ Head(todo[s]) \in {"commit", "rollback"} => afterSuccess(s) = "I"
           /\ Head(todo[s]) \in {"read", "write"} => afterSuccess(s) = txStatus[s]
           /\ isTxRollback(text[s].kw) <=> Head(todo[s]) = "rollback"
           /\ ~error[s]
<1> USE DeploymentAssumption
<1>1. text[s] \in Texts /\ txStatus[s] \in TxStatuses
  BY DEF DeploymentInv, TypeOK
<1>2. /\ Len(text[s].sqls) = 1 /\ txStatus[s] # "E" /\ todo[s] = text[s].sqls
      /\ file.block[s] <=> txStatus[s] # "I"
      /\ ~error[s]
  BY DEF DeploymentInv, sessionInv, single, statusTrue, coming, running
<1>3. todo[s] \in Seq(StatementKinds)
  BY TodoTail
<1>4. Head(todo[s]) = text[s].sqls[1]
  BY <1>2, <1>3
<1>5. /\ isTxBegin(text[s].kw) <=> Head(todo[s]) = "begin"
      /\ isTxCommit(text[s].kw) <=> Head(todo[s]) = "commit"
      /\ isTxRollback(text[s].kw) <=> Head(todo[s]) = "rollback"
      /\ isRowReturning(text[s]) => Head(todo[s]) \in {"read", "write"}
  BY <1>1, <1>2, <1>4, SingleAssumption
<1> QED
  BY <1>1, <1>2, <1>5 DEF TxStatuses, afterSuccess, noteCompleted, endsBlock

\* g is what a statement of s may leave of the file: the other connections have
\* what they had, and nothing but pending work of s is committed.
leaves(s, g) ==
    /\ g \in File
    /\ \A o \in Session \ {s} :
          /\ g.lock[o] = file.lock[o] /\ g.block[o] = file.block[o]
          /\ g.pending[o] = file.pending[o]
    /\ file.durable \subseteq g.durable
    /\ g.durable \subseteq file.durable \cup file.pending[s]
    /\ ~g.block[s] => g.lock[s] = "none" /\ g.pending[s] = {}

\* A statement succeeds: the next one of the text follows, or the reply.
LEMMA SucceedKept ==
    ASSUME DeploymentInv, NEW s \in Session, pc[s] \in {"ask", "have"},
           Succeed(s), leaves(s, file'), UNCHANGED <<txStatus, text, told>>,
           file'.block[s] =>
              file'.pending[s] \subseteq file.pending[s] /\ file'.durable = file.durable,
           s \in Plain =>
              /\ file'.block[s] <=> afterSuccess(s) # "I"
              /\ \A w \in Work : told[w] = s =>
                    /\ file'.block[s] => w \in file'.pending[s]
                    /\ ~file'.block[s] =>
                          (w \in file'.durable <=> Head(todo[s]) # "rollback")
    PROVE  DeploymentInv'
<1> USE DeploymentAssumption
<1>1. /\ todo' = [todo EXCEPT ![s] = Tail(todo[s])]
      /\ pc' = [pc EXCEPT ![s] = IF Len(todo[s]) = 1 THEN "reply" ELSE "ask"]
      /\ UNCHANGED error
  BY DEF Succeed, Turn, DeploymentInv, TypeOK
<1>2. TypeOK'
  BY <1>1, TodoTail DEF leaves, DeploymentInv, TypeOK
<1>3. stepOf(s)
  BY <1>1 DEF leaves, stepOf, DeploymentInv, TypeOK
<1>4. FatesTrue'
  BY <1>3, FatesKept
<1>5. pc'[s] \in {"ask", "reply"} /\ todo'[s] = Tail(todo[s])
  BY <1>1 DEF DeploymentInv, TypeOK
<1>6. running(s)'
  BY <1>1, <1>5 DEF running, DeploymentInv, sessionInv
<1>7. autocommit(s)' /\ downClean(s)'
  BY <1>5 DEF autocommit, downClean, leaves
<1>8. pendingOwned(s)'
  BY DEF pendingOwned, DeploymentInv, sessionInv, leaves
<1>9. ASSUME s \in Plain PROVE (single(s) /\ statusTrue(s) /\ workTracked(s))'
  <2>1. pc'[s] = "reply" /\ Len(text[s].sqls) = 1 /\ txStatus[s] # "E" /\ ~error[s]
    BY <1>1, <1>9, PlainStatement DEF DeploymentInv, TypeOK
  <2>2. single(s)'
    BY <2>1 DEF single
  <2>3. coming(s)' = afterSuccess(s)
    BY <1>1, <2>1 DEF coming, statusAfter, afterSuccess
  <2>4. statusTrue(s)'
    BY <1>9, <2>3 DEF statusTrue
  <2>5. ends(s)' <=> Head(todo[s]) = "rollback"
    BY <1>1, <1>9, <2>1, PlainStatement DEF ends
  <2>6. workTracked(s)'
    BY <1>9, <2>1, <2>5 DEF workTracked
  <2> QED  BY <2>2, <2>4, <2>6
<1> QED  BY <1>2, <1>3, <1>4, <1>6, <1>7, <1>8, <1>9, StepKept

\* A statement fails, with lock, block and work as in f before it is undone.
LEMMA FailKept ==
    ASSUME DeploymentInv, NEW s \in Session, pc[s] \in {"ask", "have"},
           NEW f \in File, f.durable = file.durable, f.block = file.block,
           f.pending = file.pending,
           \A o \in Session \ {s} : f.lock[o] = file.lock[o],
           Fail(s, f), UNCHANGED <<txStatus, text, told>>
    PROVE  DeploymentInv'
<1> USE DeploymentAssumption
<1>1. /\ todo' = [todo EXCEPT ![s] = <<>>] /\ error' = [error EXCEPT ![s] = TRUE]
      /\ pc' = [pc EXCEPT ![s] = "reply"]
  BY DEF Fail, Turn
<1>2. pc'[s] = "reply" /\ error'[s] /\ todo'[s] = <<>>
  BY <1>1 DEF DeploymentInv, TypeOK
<1>3. /\ file' \in File /\ file'.durable = file.durable /\ file'.block = file.block
      /\ file.block[s] => file'.pending[s] = file.pending[s]
      /\ ~file.block[s] => file'.lock[s] = "none" /\ file'.pending[s] = {}
      /\ \A o \in Session \ {s} :
            file'.lock[o] = file.lock[o] /\ file'.pending[o] = file.pending[o]
  BY UndoneFile DEF Fail
<1>4. TypeOK'
  <2>1. <<>> \in Seq(StatementKinds)
    OBVIOUS
  <2> QED  BY <1>1, <1>3, <2>1 DEF DeploymentInv, TypeOK
<1>5. stepOf(s)
  BY <1>1, <1>3 DEF stepOf, DeploymentInv, TypeOK
<1>6. FatesTrue'
  BY <1>5, FatesKept
<1>7. running(s)' /\ autocommit(s)' /\ downClean(s)'
  BY <1>2, <1>3 DEF running, autocommit, downClean
<1>8. pendingOwned(s)'
  BY <1>3 DEF pendingOwned, DeploymentInv, sessionInv
<1>9. ASSUME s \in Plain PROVE (single(s) /\ statusTrue(s) /\ workTracked(s))'
  <2>1. /\ Len(text[s].sqls) = 1 /\ txStatus[s] \in {"I", "T"}
        /\ file.block[s] <=> txStatus[s] = "T"
    BY <1>9, PlainStatement
  <2>2. single(s)'
    BY <1>2, <2>1 DEF single
  <2>3. coming(s)' = IF txStatus[s] = "T" THEN "E" ELSE "I"
    BY <1>2, <2>1 DEF coming, statusAfter, failBlock
  <2>4. statusTrue(s)'
    BY <1>3, <2>1, <2>3 DEF statusTrue
  <2>5. ASSUME NEW w \in Work, told[w] = s PROVE w \in file.pending[s] /\ w \notin file.durable
    BY <1>9, <2>5 DEF DeploymentInv, sessionInv, workTracked, pendingOwned
  <2>6. workTracked(s)'
    BY <1>2, <1>3, <2>5 DEF workTracked, ends
  <2> QED  BY <2>2, <2>4, <2>6
<1> QED  BY <1>4, <1>5, <1>6, <1>7, <1>8, <1>9, StepKept

\* A unit of a plain session whose statement runs is pending, not in the file.
LEMMA PlainPending ==
    ASSUME DeploymentInv, NEW s \in Plain, pc[s] \in {"wait", "ask", "have"},
           NEW w \in Work, told[w] = s
    PROVE  w \in file.pending[s] /\ w \notin file.durable
<1>1. sessionInv(s)
  BY DeploymentAssumption DEF DeploymentInv
<1> QED  BY <1>1 DEF sessionInv, workTracked, pendingOwned

\* A statement SQLite refuses at once keeps the invariant.
LEMMA RefuseKept ==
    ASSUME DeploymentInv, NEW s \in Session, Refuse(s)
    PROVE  DeploymentInv'
<1>1. file \in File
  BY DEF DeploymentInv, TypeOK
<1> QED  BY <1>1, FailKept DEF Refuse

\* So does one that violates a constraint, after it took its lock,
LEMMA ViolateKept ==
    ASSUME DeploymentInv, NEW s \in Session, Violate(s)
    PROVE  DeploymentInv'
<1>1. PICK lock \in {"shared", "reserved"} :
          asks(s, lock) /\ Fail(s, raised(file, s, lock))
  BY DEF Violate
<1>2. file \in File /\ pc[s] = "ask" /\ UNCHANGED <<txStatus, text, told>>
  BY <1>1 DEF DeploymentInv, TypeOK, Violate, asks
<1> QED  BY <1>1, <1>2, RaisedFile, FailKept

\* and one whose wait for a lock timed out.
LEMMA BusyKept ==
    ASSUME DeploymentInv, NEW s \in Session, Busy(s)
    PROVE  DeploymentInv'
<1>1. file \in File
  BY DEF DeploymentInv, TypeOK
<1>2. pc[s] \in {"ask", "have"}
  BY DEF Busy, committing
<1> QED  BY <1>1, <1>2, FailKept DEF Busy

\* A BEGIN, or a ROLLBACK.
LEMMA ControlKept ==
    ASSUME DeploymentInv, NEW s \in Session, Control(s)
    PROVE  DeploymentInv'
<1> USE DeploymentAssumption
<1>1. /\ pc[s] = "ask" /\ Succeed(s) /\ UNCHANGED <<txStatus, text, told>>
      /\ file \in File
  BY DEF Control, asks, DeploymentInv, TypeOK
<1>2. Head(todo[s]) \in {"begin", "rollback"}
  <2>1. Head(todo[s]) \in StatementKinds
    BY <1>1, TodoTail
  <2> QED  BY <2>1 DEF Control, asks, lockOf, StatementKinds
<1>3. CASE Head(todo[s]) = "begin"
  <2>1. file' = [file EXCEPT !.block[s] = TRUE]
    BY <1>3 DEF Control
  <2>2. /\ file' \in File /\ file'.block[s]
        /\ file'.durable = file.durable /\ file'.pending = file.pending
        /\ \A o \in Session \ {s} :
              file'.lock[o] = file.lock[o] /\ file'.block[o] = file.block[o]
    BY <1>1, <2>1 DEF File
  <2>3. leaves(s, file')
    BY <2>2 DEF leaves
  <2> QED  BY <1>1, <1>3, <2>2, <2>3, PlainStatement, PlainPending, SucceedKept
<1>4. CASE Head(todo[s]) = "rollback"
  <2>1. file' = left(file, s)
    BY <1>4 DEF Control
  <2>2. /\ file' \in File /\ ~file'.block[s]
        /\ file'.durable = file.durable /\ file'.pending[s] = {} /\ file'.lock[s] = "none"
        /\ \A o \in Session \ {s} :
              /\ file'.lock[o] = file.lock[o] /\ file'.block[o] = file.block[o]
              /\ file'.pending[o] = file.pending[o]
    <3>1. /\ file.lock \in [Session -> Locks] /\ file.block \in [Session -> BOOLEAN]
          /\ file.pending \in [Session -> SUBSET Work]
      BY <1>1 DEF File
    <3>2. /\ file' \in File /\ file'.durable = file.durable
          /\ file'.lock = [file.lock EXCEPT ![s] = "none"]
          /\ file'.block = [file.block EXCEPT ![s] = FALSE]
          /\ file'.pending = [file.pending EXCEPT ![s] = {}]
      BY <1>1, <2>1, LeftFile
    <3> QED  BY <3>1, <3>2
  <2>3. leaves(s, file')
    BY <2>2 DEF leaves
  <2> QED  BY <1>1, <1>4, <2>2, <2>3, PlainStatement, PlainPending, SucceedKept
<1> QED  BY <1>2, <1>3, <1>4

\* The end of a statement that commits nothing.
LEMMA FinishKept ==
    ASSUME DeploymentInv, NEW s \in Session, Finish(s)
    PROVE  DeploymentInv'
<1> USE DeploymentAssumption
<1>1. /\ pc[s] = "have" /\ Succeed(s) /\ UNCHANGED <<txStatus, text, told>>
      /\ file \in File /\ file' = undone(file, s)
  BY DEF Finish, DeploymentInv, TypeOK
<1>2. /\ Head(todo[s]) \in {"read", "write"}
      /\ ~file.block[s] => file.pending[s] = {}
  BY <1>1 DEF Finish, committing, DeploymentInv, sessionInv, running, autocommit
<1>3. /\ file' \in File /\ file'.durable = file.durable /\ file'.block = file.block
      /\ file.block[s] => file'.pending[s] = file.pending[s]
      /\ ~file.block[s] => file'.lock[s] = "none" /\ file'.pending[s] = {}
      /\ \A o \in Session \ {s} :
            file'.lock[o] = file.lock[o] /\ file'.pending[o] = file.pending[o]
  BY <1>1, UndoneFile
<1>4. leaves(s, file')
  BY <1>3 DEF leaves
<1>5. ASSUME s \in Plain PROVE file'.block[s] <=> afterSuccess(s) # "I"
  BY <1>1, <1>2, <1>3, <1>5, PlainStatement
<1>6. ASSUME s \in Plain, NEW w \in Work, told[w] = s
      PROVE  file.block[s] /\ w \in file'.pending[s]
  BY <1>1, <1>2, <1>3, <1>6, PlainPending
<1> QED  BY <1>1, <1>3, <1>4, <1>5, <1>6, SucceedKept

\* A commit, of a block or of a single write.
LEMMA PersistKept ==
    ASSUME DeploymentInv, NEW s \in Session, Persist(s)
    PROVE  DeploymentInv'
<1> USE DeploymentAssumption
<1>1. /\ pc[s] \in {"ask", "have"} /\ Succeed(s) /\ UNCHANGED <<txStatus, text, told>>
      /\ file \in File /\ file' = committed(file, s)
      /\ \/ Head(todo[s]) = "commit"
         \/ Head(todo[s]) = "write" /\ ~file.block[s]
  BY DEF Persist, committing, DeploymentInv, TypeOK
<1>2. /\ file' \in File /\ file'.durable = file.durable \cup file.pending[s]
      /\ ~file'.block[s] /\ file'.lock[s] = "none" /\ file'.pending[s] = {}
      /\ \A o \in Session \ {s} :
            /\ file'.lock[o] = file.lock[o] /\ file'.block[o] = file.block[o]
            /\ file'.pending[o] = file.pending[o]
  <2>1. /\ file.lock \in [Session -> Locks] /\ file.block \in [Session -> BOOLEAN]
        /\ file.pending \in [Session -> SUBSET Work]
    BY <1>1 DEF File
  <2>2. /\ file' \in File /\ file'.durable = file.durable \cup file.pending[s]
        /\ file'.lock = [file.lock EXCEPT ![s] = "none"]
        /\ file'.block = [file.block EXCEPT ![s] = FALSE]
        /\ file'.pending = [file.pending EXCEPT ![s] = {}]
    BY <1>1, CommittedFile
  <2> QED  BY <2>1, <2>2
<1>3. leaves(s, file')
  BY <1>2 DEF leaves
<1>4. ASSUME s \in Plain PROVE afterSuccess(s) = "I"
  BY <1>1, <1>4, PlainStatement
<1>5. ASSUME s \in Plain, NEW w \in Work, told[w] = s PROVE w \in file'.durable
  BY <1>1, <1>2, <1>5, PlainPending
<1> QED  BY <1>1, <1>2, <1>3, <1>4, <1>5, SucceedKept

\* A statement gets its lock, and a write its unit of work.
LEMMA AcquireKept ==
    ASSUME DeploymentInv, NEW s \in Session, Acquire(s)
    PROVE  DeploymentInv'
<1> USE DeploymentAssumption
<1>1. PICK lock \in {"shared", "reserved"} :
          /\ asks(s, lock)
          /\ \/ /\ unused # {}
                /\ file' = [raised(file, s, lock) EXCEPT !.pending[s] = @ \cup {nextUnit}]
                /\ told' = [told EXCEPT ![nextUnit] = s]
                /\ Head(todo[s]) = "write"
             \/ file' = raised(file, s, lock) /\ UNCHANGED told
          /\ Turn(s, "have") /\ UNCHANGED <<txStatus, text, todo, error>>
  BY DEF Acquire
<1>2. /\ pc[s] = "ask" /\ pc' = [pc EXCEPT ![s] = "have"] /\ pc'[s] = "have"
      /\ file \in File /\ Head(todo[s]) \in {"read", "write"}
  <2>1. pc[s] = "ask" /\ lockOf(Head(todo[s])) \in {"shared", "reserved"}
    BY <1>1 DEF asks
  <2> QED  BY <1>1, <2>1 DEF lockOf, Turn, DeploymentInv, TypeOK
<1>3. PICK new \in SUBSET unused :
          /\ told' = [w \in Work |-> IF w \in new THEN s ELSE told[w]]
          /\ file' \in File
          /\ file'.durable = file.durable /\ file'.block = file.block
          /\ file'.pending = [file.pending EXCEPT ![s] = @ \cup new]
          /\ \A o \in Session \ {s} : file'.lock[o] = file.lock[o]
          /\ new # {} => Head(todo[s]) = "write"
  <2> DEFINE g == raised(file, s, lock)
  <2>1. /\ g \in File /\ g.durable = file.durable /\ g.block = file.block
        /\ g.pending = file.pending
        /\ \A o \in Session \ {s} : g.lock[o] = file.lock[o]
    BY <1>2, RaisedFile
  <2>2. /\ told \in [Work -> {"unused"} \cup Session \cup Fates]
        /\ file.pending \in [Session -> SUBSET Work]
    BY <1>2 DEF DeploymentInv, TypeOK, File
  <2> HIDE DEF g
  <2>3. CASE file' = g /\ UNCHANGED told
    <3>1. /\ told = [w \in Work |-> IF w \in {} THEN s ELSE told[w]]
          /\ file.pending = [file.pending EXCEPT ![s] = @ \cup {}]
      BY <2>2
    <3> QED  BY <2>1, <2>3, <3>1
  <2>4. CASE /\ unused # {} /\ Head(todo[s]) = "write"
             /\ file' = [g EXCEPT !.pending[s] = @ \cup {nextUnit}]
             /\ told' = [told EXCEPT ![nextUnit] = s]
    <3>1. nextUnit \in unused /\ unused \subseteq Work
      BY <2>4 DEF nextUnit, unused
    <3> DEFINE pending == [file.pending EXCEPT ![s] = @ \cup {nextUnit}]
    <3>2. pending \in [Session -> SUBSET Work]
      BY <2>2, <3>1
    <3>3. file' = [g EXCEPT !.pending = pending]
      BY <2>1, <2>4 DEF File
    <3> HIDE DEF pending
    <3>4. /\ file' \in File /\ file'.durable = g.durable /\ file'.block = g.block
          /\ file'.lock = g.lock /\ file'.pending = pending
      BY <2>1, <3>2, <3>3 DEF File
    <3>5. told' = [w \in Work |-> IF w \in {nextUnit} THEN s ELSE told[w]]
      BY <2>2, <2>4, <3>1
    <3>6. file'.pending = [file.pending EXCEPT ![s] = @ \cup {nextUnit}]
      BY <3>4 DEF pending
    <3>7. {nextUnit} \in SUBSET unused
      BY <3>1
    <3>8. /\ file' \in File /\ file'.durable = file.durable /\ file'.block = file.block
          /\ \A o \in Session \ {s} : file'.lock[o] = file.lock[o]
      BY <2>1, <3>4
    <3> QED  BY <2>4, <3>5, <3>6, <3>7, <3>8
  <2> QED  BY <1>1, <2>3, <2>4 DEF g
<1>4. /\ \A w \in Work : told'[w] = IF w \in new THEN s ELSE told[w]
      /\ \A w \in new : w \in Work /\ told[w] = "unused"
      /\ file'.pending[s] = file.pending[s] \cup new
      /\ \A o \in Session \ {s} : file'.pending[o] = file.pending[o]
  <2>1. file.pending \in [Session -> SUBSET Work]
    BY <1>2 DEF File
  <2> QED  BY <1>3, <2>1 DEF unused
<1>5. TypeOK'
  BY <1>1, <1>2, <1>3 DEF DeploymentInv, TypeOK
<1>6. stepOf(s)
  BY <1>1, <1>2, <1>3, <1>4 DEF stepOf, DeploymentInv, TypeOK
<1>7. FatesTrue'
  BY <1>3, <1>4 DEF FatesTrue, DeploymentInv, Fates
<1>8. running(s)'
  BY <1>1, <1>2 DEF running, DeploymentInv, sessionInv
<1>9. autocommit(s)' /\ downClean(s)'
  BY <1>1, <1>2, <1>3, <1>4 DEF autocommit, downClean, DeploymentInv, sessionInv
<1>10. pendingOwned(s)'
  <2> SUFFICES ASSUME NEW w \in file'.pending[s]
               PROVE  /\ told'[w] \in {s, "unknown"}
                      /\ s \in Plain => told'[w] = s /\ w \notin file'.durable
    BY DEF pendingOwned
  <2>1. CASE w \in new
    BY <1>3, <1>4, <2>1 DEF DeploymentInv, FatesTrue
  <2>2. CASE w \notin new
    <3>1. w \in file.pending[s] /\ w \in Work
      BY <1>2, <1>4, <2>2 DEF File
    <3> QED  BY <1>3, <1>4, <2>2, <3>1 DEF DeploymentInv, sessionInv, pendingOwned
  <2> QED  BY <2>1, <2>2
<1>11. ASSUME s \in Plain PROVE (single(s) /\ statusTrue(s) /\ workTracked(s))'
  <2>1. (single(s) /\ statusTrue(s))'
    BY <1>1, <1>2, <1>3, <1>11
       DEF single, statusTrue, coming, DeploymentInv, sessionInv
  <2>2. workTracked(s)'
    BY <1>2, <1>4, <1>11 DEF workTracked, DeploymentInv, sessionInv
  <2> QED  BY <2>1, <2>2
<1> QED  BY <1>5, <1>6, <1>7, <1>8, <1>9, <1>10, <1>11, StepKept

\* A committer that waits for readers admits no new ones.
LEMMA ClaimKept ==
    ASSUME DeploymentInv, NEW s \in Session, Claim(s)
    PROVE  DeploymentInv'
<1>1. /\ UNCHANGED <<txStatus, pc, text, todo, error, told>>
      /\ pc[s] = "have" \/ file.block[s]
      /\ file \in File /\ file' = [file EXCEPT !.lock[s] = "pending"]
  BY DEF Claim, committing, DeploymentInv, TypeOK
<1>2. /\ file' \in File /\ file'.durable = file.durable /\ file'.block = file.block
      /\ file'.pending = file.pending
      /\ \A o \in Session \ {s} : file'.lock[o] = file.lock[o]
  BY <1>1 DEF File, Locks
<1>3. TypeOK'
  BY <1>1, <1>2 DEF DeploymentInv, TypeOK
<1>4. stepOf(s)
  BY <1>1, <1>2 DEF stepOf
<1>5. FatesTrue'
  BY <1>1, <1>4, FatesKept
<1>6. (running(s) /\ autocommit(s) /\ downClean(s) /\ pendingOwned(s))'
  BY <1>1, <1>2
     DEF running, autocommit, downClean, pendingOwned, DeploymentInv, sessionInv
<1>7. ASSUME s \in Plain PROVE (single(s) /\ statusTrue(s) /\ workTracked(s))'
  BY <1>1, <1>2, <1>7
     DEF single, statusTrue, coming, statusAfter, workTracked, ends,
         DeploymentInv, sessionInv
<1> QED  BY <1>3, <1>4, <1>5, <1>6, <1>7, StepKept

------------------------------------------------------------------------------
(* Messages and replies.                                                     *)

\* The work of s is settled, and s goes on or goes away with nothing open; the
\* fate is true of every unit of s.
LEMMA SettleKept ==
    ASSUME DeploymentInv, NEW s \in Session, NEW fate \in Fates, Learn(s, fate), TypeOK',
           NEW next \in {"down", "wait"}, pc' = [pc EXCEPT ![s] = next],
           \A o \in Session \ {s} :
              text'[o] = text[o] /\ error'[o] = error[o] /\ txStatus'[o] = txStatus[o],
           UNCHANGED todo, pc[s] # "have",
           txStatus'[s] = "I", ~error'[s],
           \/ file' = left(file, s)
           \/ UNCHANGED file /\ next = "wait" /\ (s \in Plain => ~file.block[s]),
           s \in Plain => \A w \in Work : told[w] = s =>
              /\ fate = "dropped" => w \notin file.durable
              /\ fate = "kept" => w \in file.durable
    PROVE  DeploymentInv'
<1> USE DeploymentAssumption
<1>1. pc'[s] \in {"down", "wait"} /\ file \in File
  BY DEF DeploymentInv, TypeOK
<1>2. /\ file'.durable = file.durable
      /\ ~file'.block[s] => file'.lock[s] = "none" /\ file'.pending[s] = {}
      /\ file'.pending[s] \subseteq file.pending[s]
      /\ \A o \in Session \ {s} :
            /\ file'.lock[o] = file.lock[o] /\ file'.block[o] = file.block[o]
            /\ file'.pending[o] = file.pending[o]
      /\ s \in Plain \/ next = "down" => ~file'.block[s]
  <2>1. CASE file' = left(file, s)
    <3>1. /\ file.lock \in [Session -> Locks] /\ file.block \in [Session -> BOOLEAN]
          /\ file.pending \in [Session -> SUBSET Work]
      BY <1>1 DEF File
    <3>2. /\ file'.durable = file.durable
          /\ file'.lock = [file.lock EXCEPT ![s] = "none"]
          /\ file'.block = [file.block EXCEPT ![s] = FALSE]
          /\ file'.pending = [file.pending EXCEPT ![s] = {}]
      BY <1>1, <2>1, LeftFile
    <3> QED  BY <3>1, <3>2
  <2>2. CASE UNCHANGED file /\ next = "wait" /\ (s \in Plain => ~file.block[s])
    BY <2>2 DEF DeploymentInv, sessionInv, autocommit
  <2> QED  BY <2>1, <2>2
<1>3. \A w \in Work :
         /\ told[w] = s => told'[w] = IF s \in Plain THEN fate ELSE "unknown"
         /\ told[w] # s => told'[w] = told[w]
  BY DEF Learn
<1>4. stepOf(s)
  BY <1>2, <1>3 DEF stepOf, DeploymentInv, TypeOK, Fates
<1>5. FatesTrue'
  BY <1>2, <1>3 DEF FatesTrue, DeploymentInv, Fates
<1>6. \A w \in Work : told'[w] # s
  BY <1>3 DEF Fates
<1>7. pc'[s] = next
  BY DEF DeploymentInv, TypeOK
<1>8. (running(s) /\ autocommit(s) /\ downClean(s))'
  BY <1>1, <1>2, <1>6, <1>7 DEF running, autocommit, downClean
<1>9. pendingOwned(s)'
  <2>1. CASE s \in Plain
    BY <1>2, <2>1 DEF DeploymentInv, sessionInv, autocommit, pendingOwned
  <2>2. CASE s \notin Plain
    <3>1. \A w \in file'.pending[s] : w \in Work /\ told[w] \in {s, "unknown"}
      BY <1>1, <1>2 DEF DeploymentInv, sessionInv, pendingOwned, File
    <3> QED  BY <1>3, <2>2, <3>1 DEF pendingOwned, Fates
  <2> QED  BY <2>1, <2>2
<1>10. s \in Plain => (single(s) /\ statusTrue(s) /\ workTracked(s))'
  BY <1>1, <1>2, <1>6 DEF single, statusTrue, coming, workTracked
<1> QED  BY <1>4, <1>5, <1>8, <1>9, <1>10, StepKept

\* A client leaves, or vanishes before it has its answer.
LEMMA GoneKept ==
    ASSUME DeploymentInv, NEW s \in Session, Leave(s) \/ Vanish(s)
    PROVE  DeploymentInv'
<1> USE DeploymentAssumption
<1>1. PICK fate \in {"dropped", "unknown"} :
         Learn(s, fate) /\ (fate = "dropped" => pc[s] = "wait")
  BY DEF Leave, Vanish
<1>2. /\ pc[s] \in {"wait", "reply"} /\ file' = left(file, s)
      /\ pc' = [pc EXCEPT ![s] = "down"] /\ txStatus' = [txStatus EXCEPT ![s] = "I"]
      /\ text' = [text EXCEPT ![s] = NoText] /\ error' = [error EXCEPT ![s] = FALSE]
      /\ UNCHANGED todo
  BY DEF Leave, Vanish, Close, Gone, Turn
<1>3. TypeOK'
  <2>1. file' \in File
    BY <1>2, LeftFile DEF DeploymentInv, TypeOK
  <2>2. told' \in [Work -> {"unused"} \cup Session \cup Fates]
    BY <1>1 DEF Learn, DeploymentInv, TypeOK, Fates
  <2> QED  BY <1>2, <2>1, <2>2 DEF DeploymentInv, TypeOK, TxStatuses
<1>4. txStatus'[s] = "I" /\ ~error'[s] /\ fate \in Fates
  BY <1>1, <1>2 DEF DeploymentInv, TypeOK, Fates
<1>5. \A o \in Session \ {s} :
         text'[o] = text[o] /\ error'[o] = error[o] /\ txStatus'[o] = txStatus[o]
  BY <1>2 DEF DeploymentInv, TypeOK
<1>6. ASSUME s \in Plain, NEW w \in Work, told[w] = s, fate = "dropped"
      PROVE  w \notin file.durable
  BY <1>1, <1>6, PlainPending
<1> QED  BY <1>1, <1>2, <1>3, <1>4, <1>5, <1>6, SettleKept

\* A client connects.
LEMMA ConnectKept ==
    ASSUME DeploymentInv, NEW s \in Session, Connect(s)
    PROVE  DeploymentInv'
<1> USE DeploymentAssumption
<1>1. /\ pc[s] = "down" /\ pc' = [pc EXCEPT ![s] = "wait"] /\ pc'[s] = "wait"
      /\ UNCHANGED <<file, txStatus, text, todo, error, told>>
  BY DEF Connect, Turn, DeploymentInv, TypeOK
<1>2. TypeOK'
  BY <1>1 DEF DeploymentInv, TypeOK
<1>3. stepOf(s)
  BY <1>1 DEF stepOf, DeploymentInv, TypeOK
<1>4. FatesTrue'
  BY <1>1, <1>3, FatesKept
<1>5. (running(s) /\ autocommit(s) /\ downClean(s) /\ pendingOwned(s))'
  BY <1>1 DEF running, autocommit, downClean, pendingOwned, DeploymentInv, sessionInv
<1>6. (single(s) /\ statusTrue(s) /\ workTracked(s))'
  BY <1>1 DEF single, statusTrue, coming, workTracked, downClean, DeploymentInv, sessionInv
<1> QED  BY <1>2, <1>3, <1>4, <1>5, <1>6, StepKept

\* A Query in a failed block is refused, or ends the block.
LEMMA FailedBlockKept ==
    ASSUME DeploymentInv, NEW s \in Session, NEW q \in Texts, QueryInFailedBlock(s, q)
    PROVE  DeploymentInv'
<1> USE DeploymentAssumption
<1>1. pc[s] = "wait" /\ UNCHANGED <<pc, text, todo, error>>
  BY DEF QueryInFailedBlock
<1>2. CASE endsBlock(q.kw)
  <2>1. /\ txStatus' = [txStatus EXCEPT ![s] = "I"] /\ Learn(s, "dropped")
        /\ file' = left(file, s) \/ (UNCHANGED file /\ ~file.block[s])
    BY <1>2 DEF QueryInFailedBlock, rollbackFailed
  <2>2. TypeOK'
    <3>1. file' \in File
      <4>1. file \in File
        BY DEF DeploymentInv, TypeOK
      <4>2. left(file, s) \in File
        BY <4>1, LeftFile
      <4> QED  BY <2>1, <4>1, <4>2
    <3>2. told' \in [Work -> {"unused"} \cup Session \cup Fates]
      BY <2>1 DEF Learn, DeploymentInv, TypeOK, Fates
    <3> QED  BY <1>1, <2>1, <3>1, <3>2 DEF DeploymentInv, TypeOK, TxStatuses
  <2>3. pc' = [pc EXCEPT ![s] = "wait"] /\ txStatus'[s] = "I" /\ ~error'[s]
    BY <1>1, <2>1 DEF DeploymentInv, TypeOK, sessionInv, running
  <2>4. \A o \in Session \ {s} :
           text'[o] = text[o] /\ error'[o] = error[o] /\ txStatus'[o] = txStatus[o]
    BY <1>1, <2>1 DEF DeploymentInv, TypeOK
  <2>5. ASSUME s \in Plain, NEW w \in Work, told[w] = s PROVE w \notin file.durable
    BY <1>1, <2>5, PlainPending
  <2>6. "dropped" \in Fates
    BY DEF Fates
  <2> QED  BY <1>1, <2>1, <2>2, <2>3, <2>4, <2>5, <2>6, SettleKept
<1>3. CASE ~endsBlock(q.kw)
  <2>1. UNCHANGED vars
    BY <1>1, <1>3 DEF QueryInFailedBlock, vars
  <2> QED
    BY <2>1 DEF vars, DeploymentInv, TypeOK, sessionInv, running, single, autocommit,
                statusTrue, coming, statusAfter, downClean, pendingOwned, workTracked,
                ends, FatesTrue
<1> QED  BY <1>2, <1>3

\* A Query begins its statements.
LEMMA QueryKept ==
    ASSUME DeploymentInv, NEW s \in Session, NEW q \in queriesOf(s), handleQueryMessage(s, q)
    PROVE  DeploymentInv'
<1> USE DeploymentAssumption
<1>1. /\ pc[s] = "wait" /\ pc' = [pc EXCEPT ![s] = "ask"] /\ pc'[s] = "ask"
      /\ text' = [text EXCEPT ![s] = q] /\ todo' = [todo EXCEPT ![s] = statementsRun(q)]
      /\ txStatus[s] # "E" /\ UNCHANGED <<file, txStatus, error, told>>
  BY DEF handleQueryMessage, Turn, DeploymentInv, TypeOK
<1>2. q \in Texts /\ q.sqls \in Seq(StatementKinds) /\ q.sqls # <<>>
  BY DEF queriesOf, Text
<1>3. statementsRun(q) \in Seq(StatementKinds) /\ statementsRun(q) # <<>>
  <2>1. Len(q.sqls) \in 1..Len(q.sqls)
    BY <1>2, EmptySeq
  <2>2. q.sqls[Len(q.sqls)] \in StatementKinds
    BY <1>2, <2>1
  <2> QED  BY <1>2, <2>2 DEF statementsRun
<1>4. ASSUME s \in Plain PROVE Len(q.sqls) = 1 /\ statementsRun(q) = q.sqls
  <2>1. Len(q.sqls) = 1
    BY <1>4 DEF queriesOf
  <2>2. q.sqls = <<q.sqls[1]>>
    BY <1>2, <2>1
  <2> QED  BY <2>1, <2>2 DEF statementsRun
<1>5. TypeOK'
  BY <1>1, <1>2, <1>3 DEF DeploymentInv, TypeOK
<1>6. stepOf(s)
  BY <1>1 DEF stepOf, DeploymentInv, TypeOK
<1>7. FatesTrue'
  BY <1>1, <1>6, FatesKept
<1>8. (running(s) /\ autocommit(s) /\ downClean(s) /\ pendingOwned(s))'
  BY <1>1 DEF running, autocommit, downClean, pendingOwned, DeploymentInv, sessionInv
<1>9. ASSUME s \in Plain PROVE (single(s) /\ statusTrue(s) /\ workTracked(s))'
  <2>1. text'[s] = q /\ todo'[s] = statementsRun(q)
    BY <1>1 DEF DeploymentInv, TypeOK
  <2> QED
    BY <1>1, <1>4, <1>9, <2>1
       DEF single, statusTrue, coming, workTracked, DeploymentInv, sessionInv
<1> QED  BY <1>5, <1>6, <1>7, <1>8, <1>9, StepKept

\* A Query is answered, and its client told what became of its work.
LEMMA ReplyKept ==
    ASSUME DeploymentInv, NEW s \in Session, Reply(s)
    PROVE  DeploymentInv'
<1> USE DeploymentAssumption
<1>1. /\ pc[s] = "reply" /\ pc' = [pc EXCEPT ![s] = "wait"] /\ pc'[s] = "wait"
      /\ txStatus' = [txStatus EXCEPT ![s] = statusAfter(s)]
      /\ text' = [text EXCEPT ![s] = NoText] /\ error' = [error EXCEPT ![s] = FALSE]
      /\ UNCHANGED <<file, todo>>
  BY DEF Reply, Turn, DeploymentInv, TypeOK
<1>2. txStatus'[s] = statusAfter(s) /\ ~error'[s]
  BY <1>1 DEF DeploymentInv, TypeOK
<1>3. statusAfter(s) \in TxStatuses
  BY DEF statusAfter, failBlock, noteCompleted, DeploymentInv, TypeOK, TxStatuses
<1>4. s \in Plain => (file.block[s] <=> statusAfter(s) # "I")
  BY <1>1 DEF DeploymentInv, sessionInv, statusTrue, coming
<1>5. CASE statusAfter(s) = "I"
  <2>1. PICK fate \in {"dropped", "kept"} : Learn(s, fate) /\ (fate = "dropped" <=> ends(s))
    BY <1>2, <1>5 DEF Reply, ends
  <2>2. TypeOK'
    <3>1. told' \in [Work -> {"unused"} \cup Session \cup Fates]
      BY <2>1 DEF Learn, DeploymentInv, TypeOK, Fates
    <3> QED  BY <1>1, <1>3, <3>1 DEF DeploymentInv, TypeOK
  <2>3. \A o \in Session \ {s} :
           text'[o] = text[o] /\ error'[o] = error[o] /\ txStatus'[o] = txStatus[o]
    BY <1>1 DEF DeploymentInv, TypeOK
  <2>4. ASSUME s \in Plain, NEW w \in Work, told[w] = s
        PROVE  w \in file.durable <=> fate = "kept"
    BY <1>1, <1>4, <1>5, <2>1, <2>4 DEF DeploymentInv, sessionInv, workTracked
  <2>5. fate \in Fates
    BY DEF Fates
  <2> QED  BY <1>1, <1>2, <1>4, <1>5, <2>1, <2>2, <2>3, <2>4, <2>5, SettleKept
<1>6. CASE statusAfter(s) # "I"
  <2>1. UNCHANGED told
    BY <1>2, <1>6 DEF Reply
  <2>2. TypeOK'
    BY <1>1, <1>3, <2>1 DEF DeploymentInv, TypeOK
  <2>3. stepOf(s)
    BY <1>1, <2>1 DEF stepOf, DeploymentInv, TypeOK
  <2>4. FatesTrue'
    BY <2>1, <2>3, FatesKept
  <2>5. (running(s) /\ autocommit(s) /\ downClean(s) /\ pendingOwned(s))'
    BY <1>1, <1>2, <2>1
       DEF running, autocommit, downClean, pendingOwned, DeploymentInv, sessionInv
  <2>6. ASSUME s \in Plain PROVE (single(s) /\ statusTrue(s) /\ workTracked(s))'
    BY <1>1, <1>2, <1>4, <1>6, <2>1, <2>6
       DEF single, statusTrue, coming, workTracked, DeploymentInv, sessionInv
  <2> QED  BY <2>2, <2>3, <2>4, <2>5, <2>6, StepKept
<1> QED  BY <1>5, <1>6

\* The server dies, and with it whatever was not committed.
LEMMA CrashKept ==
    ASSUME DeploymentInv, Crash
    PROVE  DeploymentInv'
<1> USE DeploymentAssumption
<1>1. /\ file' = [created EXCEPT !.durable = file.durable]
      /\ pc' = [s \in Session |-> "down"] /\ text' = [s \in Session |-> NoText]
      /\ todo' = [s \in Session |-> <<>>] /\ txStatus' = [s \in Session |-> "I"]
      /\ error' = [s \in Session |-> FALSE]
      /\ told' = [w \in Work |->
                    IF told[w] \notin Session THEN told[w]
                    ELSE IF pc[told[w]] = "wait" /\ told[w] \in Plain THEN "dropped"
                    ELSE "unknown"]
      /\ file \in File
  BY DEF Crash, DeploymentInv, TypeOK
<1>2. /\ file' \in File /\ file'.durable = file.durable
      /\ file'.lock = [s \in Session |-> "none"] /\ file'.block = [s \in Session |-> FALSE]
      /\ file'.pending = [s \in Session |-> {}]
  BY <1>1 DEF created, File, Locks
<1>3. TypeOK'
  <2>1. told' \in [Work -> {"unused"} \cup Session \cup Fates]
    BY <1>1 DEF DeploymentInv, TypeOK, Fates
  <2>2. <<>> \in Seq(StatementKinds)
    OBVIOUS
  <2> QED  BY <1>1, <1>2, <2>1, <2>2 DEF TypeOK, TxStatuses
<1>4. \A w \in Work : told'[w] \notin Session
  BY <1>1 DEF Fates
<1>5. ASSUME NEW s \in Session PROVE sessionInv(s)'
  <2>1. (running(s) /\ autocommit(s) /\ downClean(s) /\ pendingOwned(s))'
    BY <1>1, <1>2, <1>4 DEF running, autocommit, downClean, pendingOwned
  <2>2. (single(s) /\ statusTrue(s) /\ workTracked(s))'
    BY <1>1, <1>2, <1>4 DEF single, statusTrue, coming, workTracked
  <2> QED  BY <2>1, <2>2 DEF sessionInv
<1>6. FatesTrue'
  <2> SUFFICES ASSUME NEW w \in Work
               PROVE  /\ told'[w] \in {"unused", "dropped"} => w \notin file.durable
                      /\ told'[w] = "kept" => w \in file.durable
    BY <1>2 DEF FatesTrue
  <2>1. CASE told[w] \notin Session
    BY <1>1, <2>1 DEF DeploymentInv, FatesTrue
  <2>2. CASE told[w] \in Session /\ pc[told[w]] = "wait" /\ told[w] \in Plain
    <3>1. told'[w] = "dropped"
      BY <1>1, <2>2
    <3> QED  BY <2>2, <3>1, PlainPending
  <2>3. CASE told[w] \in Session /\ ~(pc[told[w]] = "wait" /\ told[w] \in Plain)
    BY <1>1, <2>3
  <2> QED  BY <2>1, <2>2, <2>3
<1> QED  BY <1>3, <1>5, <1>6 DEF DeploymentInv

------------------------------------------------------------------------------
(* The theorems.                                                             *)

\* The invariant holds of a new file without sessions.
LEMMA InitInv == Init => DeploymentInv
<1> SUFFICES ASSUME Init PROVE DeploymentInv
  OBVIOUS
<1> USE DeploymentAssumption DEF Init
<1>1. /\ created \in File /\ created.durable = {}
      /\ created.lock = [s \in Session |-> "none"]
      /\ created.block = [s \in Session |-> FALSE]
      /\ created.pending = [s \in Session |-> {}]
  BY DEF created, File, Locks
<1>2. <<>> \in Seq(StatementKinds)
  OBVIOUS
<1>3. TypeOK
  BY <1>1, <1>2 DEF TypeOK, TxStatuses
<1>4. ASSUME NEW s \in Session PROVE sessionInv(s)
  <2>1. running(s) /\ autocommit(s) /\ downClean(s) /\ pendingOwned(s)
    BY <1>1 DEF running, autocommit, downClean, pendingOwned
  <2>2. single(s) /\ statusTrue(s) /\ workTracked(s)
    BY <1>1 DEF single, statusTrue, coming, workTracked
  <2> QED  BY <2>1, <2>2 DEF sessionInv
<1>5. FatesTrue
  BY <1>1 DEF FatesTrue
<1> QED  BY <1>3, <1>4, <1>5 DEF DeploymentInv

\* Every step keeps it.
LEMMA StepInv == DeploymentInv /\ [Next]_vars => DeploymentInv'
<1> SUFFICES ASSUME DeploymentInv, [Next]_vars PROVE DeploymentInv'
  OBVIOUS
<1>1. ASSUME NEW s \in Session, Connect(s) \/ Leave(s) \/ Vanish(s) PROVE DeploymentInv'
  BY <1>1, ConnectKept, GoneKept
<1>2. ASSUME NEW s \in Session, Send(s) PROVE DeploymentInv'
  <2>1. PICK q \in queriesOf(s) : handleQueryMessage(s, q) \/ QueryInFailedBlock(s, q)
    BY <1>2 DEF Send
  <2>2. q \in Texts
    BY DEF queriesOf
  <2> QED  BY <2>1, <2>2, QueryKept, FailedBlockKept
<1>3. ASSUME NEW s \in Session, Step(s) PROVE DeploymentInv'
  BY <1>3, RefuseKept, ControlKept, AcquireKept, ViolateKept, FinishKept, PersistKept,
     ClaimKept, BusyKept, ReplyKept DEF Step
<1>4. CASE Crash
  BY <1>4, CrashKept
<1>5. CASE UNCHANGED vars
  <2> USE <1>5 DEF vars
  <2>1. TypeOK' /\ FatesTrue'
    BY DEF DeploymentInv, TypeOK, FatesTrue
  <2>2. ASSUME NEW s \in Session PROVE sessionInv(s)'
    BY DEF DeploymentInv, sessionInv, running, single, autocommit, statusTrue, coming,
           statusAfter, downClean, pendingOwned, workTracked, ends
  <2> QED  BY <2>1, <2>2 DEF DeploymentInv
<1> QED  BY <1>1, <1>2, <1>3, <1>4, <1>5 DEF Next

\* The inductive invariant holds whatever the clients send and whenever they, or
\* the server, go away.
THEOREM Invariance == Spec => []DeploymentInv
  BY InitInv, StepInv, PTL DEF Spec

\* The sessions' state and the file are well typed.
THEOREM TypeCorrect == Spec => []TypeOK
<1>1. DeploymentInv => TypeOK
  BY DEF DeploymentInv
<1> QED  BY <1>1, Invariance, PTL

\* What a client was told of its work is true and stays so (server.go
\* execSimpleQuery, streamSimpleQuery, failSimple, rollbackFailed, Close).
THEOREM Truth == Spec => []ToldTruth
<1>1. DeploymentInv => ToldTruth
  <2> SUFFICES ASSUME DeploymentInv, NEW w \in Work
               PROVE  /\ told[w] = "kept" => w \in file.durable
                      /\ told[w] = "dropped" =>
                            /\ w \notin file.durable
                            /\ \A s \in Session : w \notin file.pending[s]
    BY DEF ToldTruth
  <2>1. ASSUME NEW s \in Session, w \in file.pending[s] PROVE told[w] # "dropped"
    BY <2>1, DeploymentAssumption DEF DeploymentInv, sessionInv, pendingOwned, Fates
  <2> QED  BY <2>1 DEF DeploymentInv, FatesTrue
<1> QED  BY <1>1, Invariance, PTL

\* A plain session that told its client 'I', and any session that is gone, holds
\* nothing (server.go noteCompleted, rollbackFailed, Close).
THEOREM Idle == Spec => []IdleHoldsNothing
<1>1. DeploymentInv => IdleHoldsNothing
  BY DEF DeploymentInv, IdleHoldsNothing, holdsNothing, sessionInv, autocommit,
         statusTrue, coming, downClean
<1> QED  BY <1>1, Invariance, PTL
=============================================================================
