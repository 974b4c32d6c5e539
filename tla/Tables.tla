------------------------------- MODULE Tables -------------------------------
(***************************************************************************)
(* Tables on their way through Rewrite: the text of a CREATE TABLE with    *)
(* CHECK constraints, of which some are membership tests, and the enums    *)
(* parseEnums must make of it (enum.go).                                   *)
(***************************************************************************)
EXTENDS Rewrite

CONSTANTS LabelLists,  \* the lists of labels in membership tests
          Definitions  \* the tables, as the sequences of their CHECKs

\* A CHECK constraint: a membership test or something that looks like one.
Checks == [form : {"in", "and", "not", "words"}, column : Columns, labels : LabelLists]

\* The labels of a test are texts, at least one, and a column is a word.
ASSUME TablesAssumption ==
    /\ Definitions \subseteq Seq(Checks)
    /\ Columns \cap Punctuation = {} /\ Columns \subseteq DOMAIN ToLower
    /\ \A labels \in LabelLists :
         /\ labels # <<>> /\ labels \in Seq(Range(labels))
         /\ \A k \in DOMAIN labels : isText(labels[k])

rendered(s) == literalOf(doubled(s))

list(labels) == joined([k \in DOMAIN labels |-> rendered(labels[k])], <<",">>)

Body(c) ==
    CASE c.form = "in"    -> <<c.column, "in", "(">> \o list(c.labels) \o <<")">>
      [] c.form = "and"   -> <<c.column, "in", "(">> \o list(c.labels) \o <<")", "and", "x">>
      [] c.form = "not"   -> <<c.column, "not", "in", "(">> \o list(c.labels) \o <<")">>
      [] c.form = "words" -> <<c.column, "in", "(">> \o list(c.labels) \o <<",", "x", ")">>

Clause(c) == <<"x", "check", "(">> \o Body(c) \o <<")">>

RenderTable(checks) ==
    <<"create", "(">> \o joined([k \in DOMAIN checks |-> Clause(checks[k])], <<",">>) \o <<")">>

\* The first membership test of each column.
EnumsOf(checks) ==
    LET first(k) == checks[k].form = "in"
                      /\ \A j \in 1 .. k - 1 :
                           checks[j].form = "in" => ToLower[checks[j].column] # ToLower[checks[k].column]
        found[k \in 0 .. Len(checks)] ==
            IF k = 0 THEN <<>>
            ELSE IF first(k) THEN Append(found[k - 1], [column |-> checks[k].column, labels |-> checks[k].labels])
            ELSE found[k - 1]
    IN found[Len(checks)]

\* Nothing in the table asks for a translation: the passes cannot tell a label, or
\* the name of a column, from the rest of the text.
plainTable(checks) ==
    \A k \in DOMAIN checks :
        /\ checks[k].column \notin Notations \cup typeWords
        /\ \A j \in DOMAIN checks[k].labels :
              Range(checks[k].labels[j]) \cap (Notations \cup typeWords) = {}
-----------------------------------------------------------------------------
\* Where a text comes from.
VARIABLE origin

TableInit == \E t \in Definitions : origin = [kind |-> "table", of |-> t] /\ start(RenderTable(t))

TableSpec == TableInit /\ [][Next /\ UNCHANGED origin]_<<vars, origin>>

\* parseEnums finds the first membership test of every column with its labels as
\* the client wrote them, and takes nothing else for one (enum.go:133, 167), in a
\* table that is plain.
EnumsFound ==
    pass = "done" /\ origin.kind = "table" /\ plainTable(origin.of) => enums = EnumsOf(origin.of)

\* The enums of every table have the labels its client wrote ("matches what the
\* ORM would have produced against a real PostgreSQL server", enum.go:21).
LabelsKept ==
    pass = "done" /\ origin.kind = "table" => enums = EnumsOf(origin.of)
=============================================================================
