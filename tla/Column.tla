------------------------------- MODULE Column -------------------------------
(***************************************************************************)
(* What becomes of a column a client declares with a PostgreSQL type: the  *)
(* declaration is translated (rewrite.go, translateDDL), SQLite converts   *)
(* what is stored by the affinity of the declared type, go-sqlite3 reads   *)
(* it back, and the server advertises a type and renders the value in text *)
(* (oid.go).  The catalog describes the column beside it (pg_func.go), by  *)
(* an enum where a CHECK of it is a membership test (enum.go).             *)
(*                                                                         *)
(* A value is the text a PostgreSQL client would write: "1", "1.5", "1.50" *)
(* for numbers with and without a trailing zero, "word" for what is none,  *)
(* TRUE, and one value of each of bytes, date, time and timestamp.         *)
(***************************************************************************)
EXTENDS Types, DDL

CONSTANTS Names,         \* of columns
          Declarations,  \* PostgreSQL types, as sequences of words, what follows them, and the
                         \* labels of a membership test, if there is one
          Shows          \* per type, the literals it takes and what PostgreSQL shows for them

VARIABLES phase,     \* "none", "refused", "declared", "stored" or "fetched"
          declared,  \* the column as the client declared it: name, words, type
          decl,      \* the column in the file's schema: name, type, labels its CHECK
                     \* allows (all if none), and whether the session has its enum
          literal,   \* what the client stored
          cell,      \* the cell of the row: storage class and value
          shown      \* the text the client is sent

vars == <<phase, declared, decl, literal, cell, shown>>

-----------------------------------------------------------------------------
(* SQLite and go-sqlite3.                                                    *)

affinity(type) ==
    LET has(words) == words \cap keyWords(type) # {}
    IN IF has({"INT"}) THEN "INTEGER"
       ELSE IF has({"CHAR", "CLOB", "TEXT"}) THEN "TEXT"
       ELSE IF has({"BLOB"}) THEN "BLOB"
       ELSE IF has({"REAL", "FLOA", "DOUB"}) THEN "REAL"
       ELSE "NUMERIC"

inClass(class, value) == [class |-> class, value |-> value]

\* A column with a numeric affinity keeps the number, not its spelling.
stored(aff, lit) ==
    CASE lit = "bytes" -> inClass("blob", lit)
      [] lit = "TRUE" -> inClass(CASE aff = "TEXT" -> "text" [] aff = "REAL" -> "real" [] OTHER -> "integer", "1")
      [] lit \in {"1", "1.5", "1.50"} /\ aff \notin {"TEXT", "BLOB"} ->
            IF lit = "1" THEN inClass(IF aff = "REAL" THEN "real" ELSE "integer", "1")
                         ELSE inClass("real", "1.5")
      [] OTHER -> inClass("text", lit)

\* The Go value for a cell: a declared BOOLEAN and the declared date types are
\* converted, a text that is no date to the zero time.
scanned(type, c) ==
    CASE c.class = "integer" /\ type = <<"BOOLEAN">> -> inClass("bool", c.value)
      [] c.class = "text" /\ type \in {<<"TIMESTAMP">>, <<"timestamp">>, <<"DATE">>, <<"date">>} ->
            inClass("time.Time", IF c.value \in {"date", "timestamp"} THEN c.value ELSE "zero")
      [] c.class \in {"text", "blob"} -> inClass("[]byte", c.value)
      [] OTHER -> c

-----------------------------------------------------------------------------
(* encodeText.                                                               *)

boolText(value) == IF value = "0" THEN "f" ELSE "t"

encodeTime(oid, value) ==
    CASE value = "zero" -> "zero"
      [] oid = 1082 -> "date"
      [] oid = 1083 -> "time"
      [] OTHER -> "timestamp"

\* Mutant: an integer is shown as it is.
encodeTextPlain(oid, v) ==
    CASE v.class = "bool" -> boolText(v.value)
      [] v.class = "[]byte" /\ oid = 17 -> "hex"
      [] v.class = "time.Time" -> encodeTime(oid, v.value)
      [] OTHER -> v.value

encodeText(oid, v) ==
    CASE v.class = "bool" -> boolText(v.value)
      [] v.class = "[]byte" /\ oid = 17 -> "hex"
      [] v.class = "time.Time" -> encodeTime(oid, v.value)
      [] v.class = "integer" /\ oid = 16 -> boolText(v.value)
      [] OTHER -> v.value

-----------------------------------------------------------------------------

None == "none"

Init ==
    /\ phase = "none"
    /\ declared = None /\ decl = None /\ literal = None /\ cell = None /\ shown = None

\* A membership test of the column.
membership(name, labels) ==
    IF labels = <<>> THEN <<>>
    ELSE <<"check", "(", name, "in", "(">>
           \o joined([k \in DOMAIN labels |-> literalOf(labels[k])], <<",">>) \o <<")", ")">>

\* The labels of the test in a text, none if there is no test.
labelsIn(text) ==
    LET check == findCall(text, "check", 1)
        found == parseInList(SubSeq(text, check + 2, matchParen(text, check + 1) - 1), Names)
    IN IF check = 0 \/ ~found.ok THEN {} ELSE Range(found.labels)

\* CREATE TABLE with one column; one whose default calls nextval is an error in
\* SQLite. What the file's schema has of the column is the text between the
\* parentheses, as it is after the rewriting. A session that starts before has no
\* enum of it.
Declare(name, d, enum) ==
    LET head  == <<"create", "table", "t", "(">>
        text  == translateDDL(head \o <<name>> \o d.type \o d.rest \o membership(name, d.labels) \o <<")">>)
        words == SubSeq(text, Len(head) + 1, Len(text) - 1)
        type  == SubSeq(words, 2, next(words, 1, {"check"}) - 1)
    IN /\ phase = "none"
       /\ declared' = [name |-> name, type |-> d.type]
       /\ IF "nextval" \in Range(words)
          THEN phase' = "refused" /\ UNCHANGED decl
          ELSE /\ phase' = "declared"
               /\ decl' = [name |-> Head(words), type |-> type, labels |-> labelsIn(words),
                           enum |-> enum /\ labelsIn(words) # {}]
       /\ UNCHANGED <<literal, cell, shown>>

\* A CHECK refuses what is none of its labels.
Store(lit) ==
    /\ phase = "declared"
    /\ decl.labels # {} => <<lit>> \in decl.labels
    /\ phase' = "stored"
    /\ literal' = lit
    /\ cell' = stored(affinity(decl.type), lit)
    /\ UNCHANGED <<declared, decl, shown>>

Fetch ==
    /\ phase = "stored"
    /\ phase' = "fetched"
    /\ shown' = encodeText(oidForType(decl.type), scanned(decl.type, cell))
    /\ UNCHANGED <<declared, decl, literal, cell>>

Drop ==
    /\ phase \in {"declared", "fetched", "refused"}
    /\ phase' = "none"
    /\ declared' = None /\ decl' = None /\ literal' = None /\ cell' = None /\ shown' = None

Next ==
    \/ \E name \in Names, d \in Declarations, enum \in BOOLEAN : Declare(name, d, enum)
    \/ phase = "declared" /\ \E lit \in DOMAIN Shows[declared.type] : Store(lit)
    \/ Fetch
    \/ Drop

Spec == Init /\ [][Next]_vars

-----------------------------------------------------------------------------
(* The column in the catalogs, as c is in the file's schema.                 *)

enumOIDBase == 90000

\* pg_attribute, and information_schema.columns.
atttypid(c)  == IF c.enum THEN enumOIDBase ELSE oidForType(c.type)
udt_name(c)  == IF c.enum THEN "t_column" ELSE sqliteDeclToUDT(c.type)
data_type(c) == IF c.enum THEN "USER-DEFINED" ELSE sqliteDeclToPGType(c.type)

pg_type(c) == pgTypes \cup (IF c.enum THEN {scalarType(enumOIDBase, "t_column", -1)} ELSE {})

-----------------------------------------------------------------------------
(* Properties.                                                               *)


\* What text the wire form of each advertised type is.
Accepts(oid) ==
    CASE oid = 16 -> {"t", "f"}
      [] oid = 20 -> {"1"}
      [] oid \in {701, 1700} -> {"1", "1.5"}
      [] oid = 17 -> {"hex"}
      [] oid = 1082 -> {"date"}
      [] oid = 1083 -> {"time"}
      [] oid = 1114 -> {"timestamp"}
      [] OTHER -> {"1", "1.5", "1.50", "word", "t", "f", "hex", "date", "time", "timestamp"}

\* A strict client that decodes the text by the advertised OID can do so
\* (oid.go:13-17).
Decodable == phase = "fetched" => shown \in Accepts(oidForType(decl.type))

described == phase \in {"declared", "stored", "fetched"}

\* pg_attribute leads to one type of pg_type for a column, with the name that
\* information_schema gives and the size of RowDescription; and for a column
\* without an enum, RowDescription has that type too, and format_type calls it what
\* information_schema does (oid.go typeSize, pg_func.go, catalog.go:132, 329-331).
\* One with an enum is text, or what its declaration says, in RowDescription alone.
OneType ==
    described =>
        LET oid == atttypid(decl)
        IN /\ {t \in pg_type(decl) : t.oid = oid} = {scalarType(oid, udt_name(decl), typeSize(oid))}
           /\ ~decl.enum => oid = oidForType(decl.type) /\ formatType(oid) = data_type(decl)

\* format_type has a name for the type of every column ("they return what a real
\* PostgreSQL server would", pg_func.go:13).
FormatNamesType == described => formatType(atttypid(decl)) # "-"
=============================================================================
