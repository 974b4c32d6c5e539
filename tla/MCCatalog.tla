------------------------------ MODULE MCCatalog ------------------------------
(* Names, table definitions and bounds for the model checking of Catalog.    *)
EXTENDS Catalog

A == <<"a">>
B == <<"b">>
X == <<"sqlitex">>

SomeNames == {A, B, X}
Modules   == {<<"docs">>}
Looks     == {"sqlitex"}
Spellings == <<"A">> :> A
NoNames   == {}
Views     == A :> <<"view">>
Numbers   == [n \in 0 .. 9 |-> ToString(n)]
LowerCase == [c \in {"col", "COL"} |-> IF c = "COL" THEN <<"col">> ELSE <<c>>]

column(name, decl)    == [name |-> <<name>>, decl |-> decl]
check(spelled, labels) == [column |-> spelled, labels |-> labels]
ref(from, to, cols)    == [from |-> from, to |-> to, cols |-> cols]

Col == column("col", "TEXT")

\* A column of each declared type.
Decls == <<"INT", "BOOL", "TEXT", "BLOB", "REAL", "NUMERIC", "DATE", "TIMESTAMP", "TIME">>

\* A child, and a parent whose key is not in the order of its columns.
Key    == << <<"num">>, <<"INT">> >>
Full   == [columns |-> <<Col>> \o [k \in DOMAIN Decls |-> column(Decls[k], Decls[k])],
           checks |-> <<check("COL", <<"y">>)>>, pk |-> <<<<"INT">>>>, uniques |-> <<<<<<"TEXT">>>>>>,
           fks |-> <<ref(<<<<"INT">>, <<"REAL">>>>, B, Key), ref(<<<<"BLOB">>>>, A, <<<<"INT">>>>),
                     ref(<<<<"DATE">>>>, X, <<>>), ref(<<<<"TEXT">>>>, <<"view">>, <<<<"col">>>>),
                     ref(<<<<"TIME">>>>, <<"docs", "data">>, <<<<"id">>>>)>>]
\* References in another spelling, of the table and of a column, and to a virtual
\* table.
Others == <<ref(<<<<"INT">>>>, <<"A">>, <<<<"INT">>>>), ref(<<<<"INT">>>>, B, <<<<"NUM">>>>), ref(<<<<"num">>>>, <<"docs">>, <<>>)>>

Choice == [columns |-> <<Col, column("INT", "INT"), column("num", "NUMERIC")>>, pk |-> Key, uniques |-> <<>>, fks |-> Others,
           checks |-> <<check("col", <<"x", "y">>), check("COL", <<"z">>)>>]

SomeDefinitions == {Full, Choice}
=============================================================================
