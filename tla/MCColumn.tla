------------------------------ MODULE MCColumn ------------------------------
(* The PostgreSQL types a client may declare and the values it stores, for   *)
(* the model checking of Column.                                             *)
EXTENDS Column, FiniteSets

Plainly(names) == {<<n>> : n \in names}

Integral  == Plainly({"smallint", "integer", "bigint", "int2", "int4", "int8"})
Serial    == Plainly({"smallserial", "serial", "bigserial"})
Inexact   == Plainly({"real", "numeric", "decimal"}) \cup {<<"double", "precision">>}
Textual   == Plainly({"text", "varchar", "bpchar", "json", "jsonb", "uuid", "inet", "cidr", "macaddr"})
               \cup {<<"character", "varying">>, <<"character", "varying", "(", "n", ")">>, <<"character", "(", "n", ")">>}
Logical   == Plainly({"bool", "boolean"})
Zoned(t)  == {<<t, z, "time", "zone">> : z \in {"with", "without"}}
Instants  == Plainly({"timestamp", "timestamptz"}) \cup Zoned("timestamp")
Times     == Plainly({"time", "timetz"}) \cup Zoned("time")

\* What PostgreSQL shows for the literals a column of the type takes.
ShownFor(type) ==
    CASE type \in Integral \cup Serial -> "1" :> "1"
      [] type \in Inexact              -> "1" :> "1" @@ "1.5" :> "1.5"
      [] type \in Textual              -> [l \in {"1", "1.50", "word", "date"} |-> l]
      [] type \in Logical              -> "TRUE" :> "t" @@ "t" :> "t"
      [] type \in Instants             -> "date" :> "timestamp" @@ "timestamp" :> "timestamp"
      [] type \in Times                -> "time" :> "time"
      [] type = <<"date">>             -> "date" :> "date" @@ "timestamp" :> "date"
      [] type = <<"bytea">>            -> "bytes" :> "hex"

Supported == Integral \cup Serial \cup Inexact \cup Textual \cup Logical \cup Instants \cup Times
               \cup {<<"date">>, <<"bytea">>}

offer(type, rest, labels) == [type |-> type, rest |-> rest, labels |-> labels]

Offered == {offer(t, <<>>, <<>>) : t \in Supported}
             \cup {offer(t, <<"DEFAULT", "nextval", "(", Quote, "s", Quote, ")">>, <<>>) : t \in Integral}
             \cup {offer(t, <<>>, <<<<"word">>, <<"1.50">>>>) : t \in Textual}

ShowsAll == [t \in Supported |-> ShownFor(t)]
=============================================================================
