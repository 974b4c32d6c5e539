------------------------------- MODULE Types --------------------------------
(***************************************************************************)
(* Types (oid.go, the declared-type helpers of pg_func.go, the pg_type     *)
(* table of catalog.go).  A declared type is the sequence of its words; an *)
(* OID is its number.  The code looks for key words anywhere in the text,  *)
(* inside longer words too.                                                *)
(***************************************************************************)
EXTENDS Integers, Sequences, SequencesExt

\* The key words that occur in a word of a declaration, where there are any.
Occurring ==
    [BOOLEAN   |-> {"BOOL"},         bool     |-> {"BOOL"},
     BOOL      |-> {"BOOL"},         boolean  |-> {"BOOL"},
     INTEGER   |-> {"INT"},          INT      |-> {"INT"},
     bigint    |-> {"INT"},          integer  |-> {"INT"},
     VARCHAR   |-> {"CHAR"},         varchar  |-> {"CHAR"},
     CHAR      |-> {"CHAR"},         character |-> {"CHAR"},
     TEXT      |-> {"TEXT"},         text     |-> {"TEXT"},
     BLOB      |-> {"BLOB"},         bpchar   |-> {"CHAR"},
     REAL      |-> {"REAL"},         real     |-> {"REAL"},
     double    |-> {"DOUB"},         interval |-> {"INT"},
     NUMERIC   |-> {"NUMERIC"},      numeric  |-> {"NUMERIC"},
     decimal   |-> {"DECIMAL", "DEC"}, point  |-> {"INT"},
     DATE      |-> {"DATE"},         date     |-> {"DATE"},
     TIME      |-> {"TIME"},         time     |-> {"TIME"},
     TIMESTAMP |-> {"TIMESTAMP", "TIME"}, timestamp |-> {"TIMESTAMP", "TIME"}]

keyWords(decl) == UNION {Occurring[w] : w \in {v \in Range(decl) : v \in DOMAIN Occurring}}


oidRules ==
    <<[words |-> {"BOOL"}, oid |-> 16], [words |-> {"INT"}, oid |-> 20],
      [words |-> {"CHAR", "CLOB", "TEXT"}, oid |-> 25], [words |-> {"BLOB"}, oid |-> 17],
      [words |-> {"REAL", "FLOA", "DOUB"}, oid |-> 701],
      [words |-> {"NUMERIC", "DECIMAL", "DEC"}, oid |-> 1700],
      [words |-> {"TIMESTAMP", "DATETIME"}, oid |-> 1114],
      [words |-> {"DATE"}, oid |-> 1082], [words |-> {"TIME"}, oid |-> 1083]>>

\* The first rule that finds one of its words; text if none does.
oidForType(decl) ==
    LET first == SelectInSeq(oidRules, LAMBDA r : r.words \cap keyWords(decl) # {})
    IN IF first = 0 THEN 25 ELSE oidRules[first].oid

\* information_schema.columns.data_type and udt_name, text where no case is given.
dataType(oid) ==
    CASE oid = 16   -> "boolean"
      [] oid = 20   -> "bigint"
      [] oid = 701  -> "double precision"
      [] oid = 1700 -> "numeric"
      [] oid = 17   -> "bytea"
      [] oid = 1082 -> "date"
      [] oid = 1083 -> "time without time zone"
      [] oid = 1114 -> "timestamp without time zone"
      [] OTHER      -> "text"

udtName(oid) ==
    CASE oid = 16   -> "bool"
      [] oid = 20   -> "int8"
      [] oid = 701  -> "float8"
      [] oid = 1700 -> "numeric"
      [] oid = 17   -> "bytea"
      [] oid = 1082 -> "date"
      [] oid = 1083 -> "time"
      [] oid = 1114 -> "timestamp"
      [] OTHER      -> "text"

sqliteDeclToPGType(decl) == dataType(oidForType(decl))
sqliteDeclToUDT(decl)    == udtName(oidForType(decl))

\* The wire sizes of RowDescription.
\* Mutant: dates are given eight bytes.
typeSizeDate(oid) ==
    CASE oid = 16 -> 1
      [] oid \in {20, 701, 1082, 1083, 1114, 1184} -> 8
      [] oid \in {23, 700} -> 4
      [] oid = 21 -> 2
      [] OTHER -> -1

typeSize(oid) ==
    CASE oid = 16 -> 1
      [] oid \in {20, 701, 1083, 1114, 1184} -> 8
      [] oid \in {23, 700, 1082} -> 4
      [] oid = 21 -> 2
      [] OTHER -> -1

\* format_type without a modifier, which is all the catalog has (atttypmod -1).  It
\* knows no enum: their oids are among the others.
formatType(oid) ==
    CASE oid = 16   -> "boolean"
      [] oid = 17   -> "bytea"
      [] oid = 18   -> "\"char\""
      [] oid = 19   -> "name"
      [] oid = 20   -> "bigint"
      [] oid = 21   -> "smallint"
      [] oid = 23   -> "integer"
      [] oid = 25   -> "text"
      [] oid = 26   -> "oid"
      [] oid = 700  -> "real"
      [] oid = 701  -> "double precision"
      [] oid = 1042 -> "character"
      [] oid = 1043 -> "character varying"
      [] oid = 1082 -> "date"
      [] oid = 1083 -> "time without time zone"
      [] oid = 1114 -> "timestamp without time zone"
      [] oid = 1184 -> "timestamp with time zone"
      [] oid = 1700 -> "numeric"
      [] oid = 114  -> "json"
      [] oid = 3802 -> "jsonb"
      [] oid = 2950 -> "uuid"
      [] OTHER      -> "-"

scalarType(oid, name, length) == [oid |-> oid, typname |-> name, typlen |-> length]

\* The static pg_type table.
pgTypes ==
    {scalarType(16, "bool", 1), scalarType(17, "bytea", -1), scalarType(18, "char", 1),
     scalarType(19, "name", 64), scalarType(20, "int8", 8), scalarType(21, "int2", 2),
     scalarType(23, "int4", 4), scalarType(25, "text", -1), scalarType(26, "oid", 4),
     scalarType(700, "float4", 4), scalarType(701, "float8", 8), scalarType(1042, "bpchar", -1),
     scalarType(1043, "varchar", -1), scalarType(1082, "date", 4), scalarType(1083, "time", 8),
     scalarType(1114, "timestamp", 8), scalarType(1184, "timestamptz", 8),
     scalarType(1700, "numeric", -1), scalarType(114, "json", -1),
     scalarType(3802, "jsonb", -1), scalarType(2950, "uuid", 16)}
=============================================================================
