------------------------------ MODULE Backend ------------------------------
(***************************************************************************)
(* What a session promises its client, and all the client can observe: the *)
(* transaction status, the work of the current block, what is durable, and *)
(* where the conversation stands.  Session implements this for a client    *)
(* that sends transaction control in Query messages (see Refinement).      *)
(***************************************************************************)
CONSTANT Work

VARIABLES
    status,   \* "I", "T" or "E"
    block,    \* work of the open block, {} unless status is "T"
    durable,  \* committed work
    reply,    \* "ready" after ReadyForQuery, "failed" after an error not yet synced
    told      \* the status in the last ReadyForQuery

data == <<status, block, durable>>
vars == <<data, reply, told>>

Init == status = "I" /\ block = {} /\ durable = {} /\ reply = "ready" /\ told = "I"

(* What a statement may do to the transaction and the data.                  *)

Nothing == UNCHANGED data

Autocommit ==
    /\ status = "I"
    /\ \E w \in Work \ durable : durable' = durable \cup {w}
    /\ UNCHANGED <<status, block>>

Begin == status = "I" /\ status' = "T" /\ UNCHANGED <<block, durable>>

Write ==
    /\ status = "T"
    /\ \E w \in Work \ (block \cup durable) : block' = block \cup {w}
    /\ UNCHANGED <<status, durable>>

Commit ==
    /\ status = "T" /\ status' = "I"
    /\ durable' = durable \cup block /\ block' = {}

Rollback == status # "I" /\ status' = "I" /\ block' = {} /\ UNCHANGED durable

\* An error inside a block dooms all of it.
Abort == status = "T" /\ status' = "E" /\ block' = {} /\ UNCHANGED durable

Fail == Abort \/ (status # "T" /\ Nothing)

Effect == Nothing \/ Autocommit \/ Begin \/ Write \/ Commit \/ Rollback

(* The conversation: a Query is always answered by ReadyForQuery; an error in
   the extended protocol silences the session until Sync.                    *)

Ready == reply' = "ready" /\ told' = status'

Simple   == reply # "failed" /\ (Effect \/ Fail) /\ Ready
Extended == reply # "failed" /\ Effect /\ reply' = "busy" /\ UNCHANGED told
Error    == reply # "failed" /\ Fail /\ reply' = "failed" /\ UNCHANGED told
Sync     == Nothing /\ Ready

\* The connection ends at any point; the next one starts idle.
Disconnect ==
    /\ status' = "I" /\ block' = {} /\ UNCHANGED durable
    /\ reply' = "ready" /\ told' = "I"

Next == Simple \/ Extended \/ Error \/ Sync \/ Disconnect

Spec == Init /\ [][Next]_vars
=============================================================================
