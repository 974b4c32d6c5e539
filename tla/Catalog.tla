------------------------------- MODULE Catalog -------------------------------
(***************************************************************************)
(* The catalog that sessions show of one file: the views of catalog.go and *)
(* catalog_information_schema.go, which read the schema when they are      *)
(* queried, and the enum tables of enum.go, which a session fills when it  *)
(* starts. The schema is sqlite_master, a function from rowids.            *)
(*                                                                         *)
(* A name is a sequence of parts, its pieces between underscores:          *)
(* <<"a", "b">> is a_b. A column of a CHECK keeps its spelling.            *)
(***************************************************************************)
EXTENDS Types, FiniteSets

CONSTANTS Sessions,
          TableNames,    \* names for ordinary tables
          Lookalikes,    \* first pieces of names that match 'sqlite_%' too, as sqlitex does
          ModuleNames,   \* names for virtual tables, whose module is missing here
          ViewNames,     \* ViewNames[t]: the name for a view of table t, where there is one
          Spelled,       \* Spelled[name]: the name that another spelling in a reference means
          Definitions,   \* what a CREATE TABLE may say
          ToLower,       \* the column a spelling stands for
          Decimal,       \* Decimal[n]: the number n, as a piece of a name
          MaxRow         \* bound on rowids

\* The numbers catalog.go leaves between the oids it makes from a row's are enough
\* for the keys of a table.
ASSUME RoomAssumption ==
    /\ MaxRow \in Nat /\ MaxRow <= 100000
    /\ \A def \in Definitions : Len(def.fks) \in Nat /\ Len(def.fks) <= 1000

\* SQLite keeps the names sqlite_... for itself.
ASSUME NameAssumption ==
    \A name \in TableNames \cup ModuleNames \cup Range(ViewNames) :
        name \in Seq(STRING) /\ name # <<>> /\ Head(name) # "sqlite"

\* What is in the schema has one spelling; references may have others.
ASSUME SpellingAssumption == DOMAIN Spelled \cap (TableNames \cup ModuleNames \cup Range(ViewNames)) = {}

isList(s) == Len(s) \in Nat /\ DOMAIN s = 1 .. Len(s)

\* What CREATE TABLE and parseInList accept: some literals in every test.
ASSUME DefinitionAssumption ==
    \A def \in Definitions :
        /\ isList(def.columns) /\ isList(def.checks) /\ isList(def.uniques)
        /\ \A k \in DOMAIN def.checks : def.checks[k].labels # <<>>

ASSUME DecimalAssumption ==
    /\ \A n \in DOMAIN Decimal : Decimal[n] \in STRING
    /\ \A m, n \in DOMAIN Decimal : Decimal[m] = Decimal[n] => m = n
    /\ \A def \in Definitions : 0 .. Len(def.uniques) \cup 0 .. Len(def.fks) - 1 \subseteq DOMAIN Decimal

VARIABLES master,   \* sqlite_master of the file: rowid -> entry
          phase,    \* phase[s]: "out", "reading" (setupEnumCatalog) or "ready"
          read,     \* read[s]: the tables setupEnumCatalog has read, by their rows
          enums,    \* enums[s]: the rows of the enum tables of s
          current   \* current[s]: no schema change since s has read it

vars == <<master, phase, read, enums, current>>

rows == DOMAIN master

\* Indexes of UNIQUE constraints and of keys are SQLite's own.
EntryTypes == {"table", "virtual", "view", "index", "unique", "key"}

\* No columns, checks or keys, for entries that are not ordinary tables.
NoDefinition == [columns |-> <<>>, checks |-> <<>>, pk |-> <<>>, fks |-> <<>>, uniques |-> <<>>]
Keyed        == [NoDefinition EXCEPT !.columns = <<[name |-> <<"id">>, decl |-> "INT"]>>, !.pk = <<<<"id">>>>]

\* `table` is the table of an index, and the one a view reads.
entry(type, name, table, def) == [type |-> type, name |-> name, table |-> table, def |-> def]

isTable(r)   == master[r].type = "table"
indexesOf(r) == {i \in rows : master[i].type \in {"index", "unique", "key"} /\ master[i].table = master[r].name}

maxRow == IF rows = {} THEN 0 ELSE CHOOSE r \in rows : \A p \in rows : p <= r

\* entries, in this order, in new rows at the end.
withRows(entries) ==
    [r \in rows \cup maxRow + 1 .. maxRow + Len(entries) |->
       IF r \in rows THEN master[r] ELSE entries[r - maxRow]]

\* name LIKE 'sqlite_%': automatic indexes, and the names that only look like it.
likeSqlite(r) == Head(master[r].name) \in Lookalikes \cup {"sqlite"}

freeName(name) == \A r \in rows : master[r].name # name
-----------------------------------------------------------------------------
(***************************************************************************)
(* SQLite: changes of the schema, by any session on the file or by another *)
(* process.                                                                *)
(***************************************************************************)
changed(m) ==
    /\ master' = m
    /\ current' = [s \in Sessions |-> FALSE]
    /\ UNCHANGED <<phase, read, enums>>

\* Each UNIQUE constraint, and a key of several columns, has an index of its own.
autoName(name, k) == <<"sqlite", "autoindex">> \o name \o <<Decimal[k]>>

autoIndex(name, type, k, cols) ==
    entry(type, autoName(name, k), name, [NoDefinition EXCEPT !.uniques = <<cols>>])

autoIndexes(name, def) ==
    (IF Len(def.pk) > 1 THEN <<autoIndex(name, "key", 0, def.pk)>> ELSE <<>>)
      \o [k \in DOMAIN def.uniques |-> autoIndex(name, "unique", k, def.uniques[k])]

CreateTable(name, def) ==
    LET made == <<entry("table", name, name, def)>> \o autoIndexes(name, def)
    IN freeName(name) /\ maxRow + Len(made) <= MaxRow /\ changed(withRows(made))

CreateIndex(r) ==
    /\ isTable(r) /\ maxRow < MaxRow
    /\ LET name == master[r].name \o <<"idx">>
       IN freeName(name) /\ changed(withRows(<<entry("index", name, master[r].name, NoDefinition)>>))

\* The rows of a table and of its indexes go; the other rowids stay.
DropTable(r) ==
    /\ isTable(r)
    /\ LET kept == rows \ ({r} \cup indexesOf(r)) IN changed([p \in kept |-> master[p]])

\* SELECT * FROM the table; it may be dropped under its views.
CreateView(r) ==
    /\ isTable(r) /\ maxRow < MaxRow /\ master[r].name \in DOMAIN ViewNames
    /\ LET name == ViewNames[master[r].name]
       IN freeName(name) /\ changed(withRows(<<entry("view", name, master[r].name, NoDefinition)>>))

DropView(r) == master[r].type = "view" /\ changed([p \in rows \ {r} |-> master[p]])

\* VACUUM writes tables first, then indexes, then what has no pages, from row 1.
Vacuum ==
    /\ rows # {}
    /\ LET class(r) == CASE master[r].type \in {"table", "unique", "key"} -> 0
                         [] master[r].type = "index"                      -> 1
                         [] master[r].type \in {"virtual", "view"}        -> 2
           owner(r) == IF master[r].type \in {"unique", "key"}
                       THEN CHOOSE t \in rows : isTable(t) /\ master[t].name = master[r].table
                       ELSE r
           before(p, r) == \/ class(p) < class(r)
                           \/ class(p) = class(r) /\ owner(p) < owner(r)
                           \/ class(p) = class(r) /\ owner(p) = owner(r) /\ p < r
           rank(r) == Cardinality({p \in rows : before(p, r)}) + 1
       IN changed([k \in 1 .. Cardinality(rows) |-> master[CHOOSE r \in rows : rank(r) = k]])

\* A process that has the module creates a virtual table and its shadow table.
CreateVirtual(name) ==
    /\ maxRow + 2 <= MaxRow /\ freeName(name) /\ freeName(name \o <<"data">>)
    /\ changed(withRows(<<entry("virtual", name, name, NoDefinition),
                          entry("table", name \o <<"data">>, name \o <<"data">>, Keyed)>>))
-----------------------------------------------------------------------------
(***************************************************************************)
(* enum.go: the tables a session fills when it starts.                     *)
(***************************************************************************)
\* Mutant: the numbers start where those of the static types do.
enumOIDBaseLow == 16

enumOIDBase == 90000

\* Mutant: every membership test gives an enum.
parseEnumsAll(checks) == DOMAIN checks

\* The places of the checks that give an enum: of each column the first membership
\* test.  `checks` are those parseInList accepts.
parseEnums(checks) ==
    {k \in DOMAIN checks : \A j \in 1 .. k - 1 : ToLower[checks[j].column] # ToLower[checks[k].column]}

\* Mutant: the numbers start again for each table.
earlierInTable(p, q) == p[1] = q[1] /\ p[2] < q[2]

\* The order of the loops: of the tables, and of the checks in a table.
earlier(p, q) == p[1] < q[1] \/ (p[1] = q[1] /\ p[2] < q[2])

enumsFound(tables) == UNION {{<<r, k>> : k \in parseEnums(tables[r].checks)} : r \in DOMAIN tables}

\* Numbered through all the tables.
enumOID(found, p) == enumOIDBase + Cardinality({q \in found : earlier(q, p)})

enumType(table, check) ==
    [table |-> table, column |-> check.column, labels |-> check.labels, typname |-> table \o ToLower[check.column]]

enumTypes(tables) ==
    LET found == enumsFound(tables)
    IN {[oid |-> enumOID(found, p), of |-> enumType(tables[p[1]].name, tables[p[1]].checks[p[2]])] : p \in found}

\* The tables of the file, virtual ones included.
schemaTables ==
    [r \in {p \in rows : master[p].type \in {"table", "virtual"} /\ ~likeSqlite(p)} |->
       [name |-> master[r].name, checks |-> master[r].def.checks]]

\* The cursor over sqlite_master is closed before the first INSERT.
ReadSchema(s) ==
    /\ phase[s] = "out"
    /\ phase' = [phase EXCEPT ![s] = "reading"]
    /\ read' = [read EXCEPT ![s] = schemaTables]
    /\ current' = [current EXCEPT ![s] = TRUE]
    /\ UNCHANGED <<master, enums>>

FillEnums(s) ==
    /\ phase[s] = "reading"
    /\ phase' = [phase EXCEPT ![s] = "ready"]
    /\ enums' = [enums EXCEPT ![s] = enumTypes(read[s])]
    /\ read' = [read EXCEPT ![s] = <<>>]
    /\ UNCHANGED <<master, current>>

ready(s) == phase[s] = "ready"

\* The client leaves, or a statement of the setup fails: the temp tables end
\* with the connection.
Disconnect(s) ==
    /\ phase[s] # "out"
    /\ phase' = [phase EXCEPT ![s] = "out"]
    /\ enums' = [enums EXCEPT ![s] = {}]
    /\ read' = [read EXCEPT ![s] = <<>>]
    /\ UNCHANGED <<master, current>>
-----------------------------------------------------------------------------
Init ==
    /\ master = <<>>
    /\ phase = [s \in Sessions |-> "out"]
    /\ read = [s \in Sessions |-> <<>>]
    /\ enums = [s \in Sessions |-> {}]
    /\ current = [s \in Sessions |-> FALSE]

Next ==
    \/ \E s \in Sessions : ReadSchema(s) \/ FillEnums(s) \/ Disconnect(s)
    \/ \E name \in TableNames, def \in Definitions : CreateTable(name, def)
    \/ \E r \in rows : CreateIndex(r) \/ DropTable(r) \/ CreateView(r) \/ DropView(r)
    \/ Vacuum
    \/ \E name \in ModuleNames : CreateVirtual(name)

Spec == Init /\ [][Next]_vars
-----------------------------------------------------------------------------
(***************************************************************************)
(* catalog.go: the views, as sets of rows, as session s sees them.         *)
(***************************************************************************)
prefixed(name, v) == Len(name) > Len(v) /\ SubSeq(name, 1, Len(v)) = v

virtualNames == {master[r].name : r \in {p \in rows : master[p].type = "virtual"}}

\* notVirtualPredicate, on the name of an entry.
notVirtual(r) == master[r].name \notin virtualNames /\ \A v \in virtualNames : ~prefixed(master[r].name, v)

\* Mutant: rows are numbered as they are listed.
relationOidListed(r) == Cardinality({p \in rows : p <= r /\ master[p].type \notin {"unique", "key"}})

relationOid(r) == r

pg_class ==
    {[oid |-> relationOid(r), relname |-> master[r].name, relkind |-> master[r].type] :
       r \in {p \in rows : ~likeSqlite(p) /\ notVirtual(p)}}

tableNamed(name) == {r \in rows : isTable(r) /\ master[r].name = name}

\* pragma_table_info, of tables and views, where it does not fail.
columnsIn(r) ==
    LET tables == IF isTable(r) THEN {r} ELSE tableNamed(master[r].table)
    IN IF tables = {} THEN <<>> ELSE master[CHOOSE t \in tables : TRUE].def.columns

\* The tables and views whose columns are listed.
listedTables == {r \in rows : master[r].type \in {"table", "view"} /\ ~likeSqlite(r) /\ notVirtual(r)}

\* pragma_table_info fails on a view of a missing table, and with it the query
\* over all the relations.
broken(r) == master[r].type = "view" /\ tableNamed(master[r].table) = {}

failing == \E r \in listedTables : broken(r)

\* Mutant: virtual tables and their shadow tables are not left out.
keyedTablesAll == {r \in rows : isTable(r)}

\* The tables whose indexes and constraints are listed: any name will do.
keyedTables == {r \in rows : isTable(r) /\ notVirtual(r)}

\* Mutant: the table is forgotten in the join.
enumColsByColumn(s, r, k) ==
    {e \in enums[s] : ToLower[e.of.column] = columnsIn(r)[k].name}

\* The rows of __pg_enum_col that the join of a column of a table finds.
enumCols(s, r, k) ==
    {e \in enums[s] : /\ e.of.table = master[r].name
                      /\ ToLower[e.of.column] = columnsIn(r)[k].name}

\* One row per column and row of the join; pg_attribute.atttypid beside
\* information_schema.columns.udt_name.  A query that fails shows none.
columnRows(s) ==
    LET row(r, k, oid, udt) == [attrelid |-> relationOid(r), attnum |-> k, atttypid |-> oid, udt_name |-> udt]
        rowsOf(r, k) ==
            LET decl == <<columnsIn(r)[k].decl>>
            IN IF enumCols(s, r, k) = {} THEN {row(r, k, oidForType(decl), <<sqliteDeclToUDT(decl)>>)}
               ELSE {row(r, k, e.oid, e.of.typname) : e \in enumCols(s, r, k)}
    IN IF failing THEN {} ELSE UNION {UNION {rowsOf(r, k) : k \in DOMAIN columnsIn(r)} : r \in listedTables}

pg_type(s) ==
    {[oid |-> t.oid, typname |-> <<t.typname>>] : t \in pgTypes}
      \cup {[oid |-> e.oid, typname |-> e.of.typname] : e \in enums[s]}

\* The labels of a type, in their order.
pg_enum(s, oid) == {e.of.labels : e \in {f \in enums[s] : f.oid = oid}}

\* PRAGMA index_list numbers the indexes of a table, the newest first.
indexSeq(r, i) == Cardinality({j \in indexesOf(r) : j > i})

indexOid(r, seq) == r * 100000 + seq

pg_index ==
    UNION {{[indexrelid |-> indexOid(r, indexSeq(r, i)), indrelid |-> r, name |-> master[i].name] :
              i \in indexesOf(r)} : r \in keyedTables}

\* Mutant: foreign keys are numbered from the primary key on.
constraintOidNext(r, contype, n) ==
    r * 1000000 + CASE contype = "p" -> 1 [] contype = "f" -> 1 + n [] contype = "u" -> 2000 + n

constraintOid(r, contype, n) ==
    r * 1000000 + CASE contype = "p" -> 1 [] contype = "f" -> 1000 + n [] contype = "u" -> 2000 + n

Null == 0

NullName == <<>>

\* What a pragma describes by a name.
described(name) == {r \in rows : master[r].type \in {"table", "virtual", "view"} /\ master[r].name = name}

\* cid + 1 of a column, spelled as in the schema, of what is called so, NULL if
\* there is none.
attnum(table, column) ==
    LET at(r) == {k \in DOMAIN columnsIn(r) : columnsIn(r)[k].name = column}
        found == UNION {at(r) : r \in described(table)}
    IN IF found = {} THEN Null ELSE CHOOSE k \in found : TRUE

attnums(table, columns) == [k \in DOMAIN columns |-> attnum(table, columns[k])]

pkeyName(table)    == table \o <<"pkey">>
fkeyName(table, n) == table \o <<Decimal[n], "fkey">>

constraint(r, contype, n, conname, conkey) ==
    [oid |-> constraintOid(r, contype, n), contype |-> contype, conrelid |-> r, n |-> n, conname |-> conname,
     conkey |-> conkey, confrelid |-> Null, confkey |-> <<>>]

\* The name a reference means for SQLite, a pragma's argument included.
meant(name) == IF name \in DOMAIN Spelled THEN Spelled[name] ELSE name

\* Without a list of columns the "to" of each row of the pragma is NULL.
toColumns(fk) == IF fk.cols = <<>> THEN [k \in DOMAIN fk.from |-> NullName] ELSE fk.cols

\* Mutant: the parent's columns are looked up in the child.
confkeyChild(r, fk) == attnums(master[r].name, toColumns(fk))

confkey(r, fk) == attnums(meant(fk.to), toColumns(fk))

\* The rows of sqlite_master are compared with the name as the reference spells it.
foreignKey(r, n) ==
    LET fk == master[r].def.fks[n + 1]
        parents == {p \in rows : master[p].name = fk.to}
    IN [constraint(r, "f", n, fkeyName(master[r].name, n), attnums(master[r].name, fk.from)) EXCEPT
          !.confrelid = IF parents = {} THEN Null ELSE CHOOSE p \in parents : TRUE,
          !.confkey = confkey(r, fk)]

pks     == {r \in keyedTables : master[r].def.pk # <<>>}
fksOf(r)     == 0 .. Len(master[r].def.fks) - 1
uniquesOf(r) == {i \in indexesOf(r) : master[i].type = "unique"}

constraintRows ==
    {constraint(r, "p", 0, pkeyName(master[r].name), attnums(master[r].name, master[r].def.pk)) : r \in pks}
      \cup (UNION {{foreignKey(r, n) : n \in fksOf(r)} : r \in keyedTables})
      \cup (UNION {{constraint(r, "u", indexSeq(r, i), master[i].name, attnums(master[r].name, master[i].def.uniques[1])) :
                      i \in uniquesOf(r)} : r \in keyedTables})

\* The pragma on the parent fails, and the query with it.
parentFails(fk) == \E p \in described(meant(fk.to)) : master[p].type = "virtual" \/ broken(p)

constraintsFail == \E r \in keyedTables : \E n \in fksOf(r) : parentFails(master[r].def.fks[n + 1])

pg_constraint == IF constraintsFail THEN {} ELSE constraintRows

(* information_schema, by the names of tables and constraints.               *)

\* Mutant: the columns of a key are numbered as they stand in the table.
pkPositionByCid(r, k) == attnum(master[r].name, master[r].def.pk[k])

pkPosition(r, k) == k

key_column_usage ==
    (UNION {{[constraint_name |-> pkeyName(master[r].name), table_name |-> master[r].name,
              column_name |-> master[r].def.pk[k], ordinal_position |-> pkPosition(r, k)] :
               k \in DOMAIN master[r].def.pk} : r \in keyedTables})
      \cup (UNION {UNION {{[constraint_name |-> fkeyName(master[r].name, n), table_name |-> master[r].name,
                            column_name |-> master[r].def.fks[n + 1].from[k], ordinal_position |-> k] :
                             k \in DOMAIN master[r].def.fks[n + 1].from} : n \in fksOf(r)} : r \in keyedTables})

table_constraints ==
    LET row(name, r, type) == [constraint_name |-> name, table_name |-> master[r].name, constraint_type |-> type]
    IN {row(pkeyName(master[r].name), r, "p") : r \in pks}
         \cup (UNION {{row(fkeyName(master[r].name, n), r, "f") : n \in fksOf(r)} : r \in keyedTables})
         \cup (UNION {{row(master[i].name, r, "u") : i \in uniquesOf(r)} : r \in keyedTables})

referential_constraints ==
    UNION {{[constraint_name |-> fkeyName(master[r].name, n), unique_constraint_name |-> pkeyName(master[r].def.fks[n + 1].to)] :
              n \in fksOf(r)} : r \in keyedTables}

\* Without a list of columns, the first column of the parent's key for each, or NULL.
usageRows ==
    LET firstKey(table) == {master[r].def.pk[1] : r \in {p \in tableNamed(table) : master[p].def.pk # <<>>}}
        fallback(fk) == IF firstKey(meant(fk.to)) = {} THEN {NullName} ELSE firstKey(meant(fk.to))
        used(fk) == IF fk.cols = <<>> THEN fallback(fk) ELSE Range(fk.cols)
        row(table, column, name) == [table_name |-> table, column_name |-> column, constraint_name |-> name]
    IN (UNION {UNION {{row(master[r].def.fks[n + 1].to, c, fkeyName(master[r].name, n)) : c \in used(master[r].def.fks[n + 1])} :
                        n \in fksOf(r)} : r \in keyedTables})
         \cup (UNION {{row(master[r].name, c, pkeyName(master[r].name)) : c \in Range(master[r].def.pk)} : r \in pks})

\* Only a reference without a list of columns asks for those of its parent.
usageFails ==
    \E r \in keyedTables : \E n \in fksOf(r) :
        master[r].def.fks[n + 1].cols = <<>> /\ parentFails(master[r].def.fks[n + 1])

constraint_column_usage == IF usageFails THEN {} ELSE usageRows
-----------------------------------------------------------------------------
(***************************************************************************)
(* Properties                                                              *)
(***************************************************************************)
\* Every variable has its type; enum types are numbered above every static type,
\* whose last is 3802 (enum.go:25-27).
TypeOK ==
    /\ rows \subseteq 1 .. MaxRow
    /\ \A r \in rows : master[r].type \in EntryTypes
    /\ phase \in [Sessions -> {"out", "reading", "ready"}]
    /\ current \in [Sessions -> BOOLEAN]
    /\ DOMAIN read = Sessions /\ DOMAIN enums = Sessions
    /\ \A s \in Sessions : \A e \in enums[s] : e.oid > 3802 /\ e.of.labels # <<>>

\* A column is one row, whatever CHECKs name it and in whatever spelling: the
\* enum tables never hold two types for it, even when they are out of date
\* (enum.go:151-155, catalog.go:151).
OneRowPerColumn ==
    \A s \in Sessions : ready(s) =>
        \A a, b \in columnRows(s) : a.attrelid = b.attrelid /\ a.attnum = b.attnum => a = b

\* The type of every column is in pg_type exactly once, under the name that
\* information_schema gives the type, also for a schema that has changed since
\* the session started (catalog.go:132, 260; enum.go:91).
TypesResolve ==
    \A s \in Sessions : ready(s) =>
        \A a \in columnRows(s) : {t \in pg_type(s) : t.oid = a.atttypid} = {[oid |-> a.atttypid, typname |-> a.udt_name]}

\* The labels of the first membership test of a column, none if it has none.
labelsOf(r, k) ==
    LET checks == master[r].def.checks
        mine == {j \in DOMAIN checks : ToLower[checks[j].column] = columnsIn(r)[k].name}
    IN IF mine = {} THEN {} ELSE {checks[CHOOSE j \in mine : \A i \in mine : j <= i].labels}

labelsShown(s) ==
    \A r \in listedTables, a \in columnRows(s) :
        a.attrelid = relationOid(r) => pg_enum(s, a.atttypid) = labelsOf(r, a.attnum)

\* Until the schema changes, a session shows for every column the labels of its
\* CHECK, found through the type of the column, and no enum for any other
\* (enum.go:56, catalog.go:130-154, 278).
EnumsExact == \A s \in Sessions : ready(s) /\ current[s] => labelsShown(s)

\* catalog.go:57-59: "each session gets its own always-live view of its database".
EnumsLive == \A s \in Sessions : ready(s) => labelsShown(s)

\* What pg_attribute, pg_index and pg_constraint say belongs to a table does belong
\* to a table of pg_class, with virtual tables about too (catalog.go:52-54, 154, 174),
\* unless its name looks like one of SQLite's, which only pg_class leaves out.
RelationsResolve ==
    LET listed(oid) == \E c \in pg_class : c.oid = oid /\ c.relkind \in {"table", "view"}
        lookalike(r) == Head(master[r].name) \in Lookalikes
    IN /\ \A s \in Sessions : ready(s) => \A a \in columnRows(s) : listed(a.attrelid)
       /\ \A i \in pg_index : listed(i.indrelid) \/ lookalike(i.indrelid)
       /\ \A k \in pg_constraint : listed(k.conrelid) \/ lookalike(k.conrelid)

\* Constraints, and the indexes of pg_index, have oids of their own (catalog.go:158, 177, 199, 217).
OidsDistinct ==
    /\ \A k, l \in pg_constraint : k.oid = l.oid => k = l
    /\ \A i, j \in pg_index : i.indexrelid = j.indexrelid => i = j

\* pg_constraint and information_schema tell the same constraints: the same names,
\* kinds and tables, and for keys and foreign keys the same columns in the same
\* order, whatever has been created, dropped and renumbered, unless the query over
\* pg_constraint fails (catalog.go:174-236, catalog_information_schema.go:73-130).
KeysAgree ==
    /\ ~constraintsFail =>
         table_constraints = {[constraint_name |-> c.conname, table_name |-> master[c.conrelid].name,
                                  constraint_type |-> c.contype] : c \in pg_constraint}
    /\ \A c, d \in table_constraints : c.constraint_name = d.constraint_name => c = d
    /\ \A c \in {d \in pg_constraint : d.contype # "u"} :
         {<<u.ordinal_position, attnum(u.table_name, u.column_name)>> :
            u \in {v \in key_column_usage : v.constraint_name = c.conname}}
           = {<<k, c.conkey[k]>> : k \in DOMAIN c.conkey}

foreignKeys == {c \in pg_constraint : c.contype = "f"}

reference(c) == master[c.conrelid].def.fks[c.n + 1]

\* A foreign key that spells its parent as the schema does, and names columns,
\* leads, in both catalogs, to those columns of the table that now has the name,
\* also after that table was dropped, made again or renumbered, and to the key of
\* that table if they are its key and no virtual table hides it; with nothing of
\* that name it leads to no relation at all (catalog.go:201-210,
\* catalog_information_schema.go:132-156).
ParentsResolve ==
    \A c \in {d \in foreignKeys : reference(d).to \notin DOMAIN Spelled} :
        LET fk == reference(c)
            nameAt(p, k) == IF k \in DOMAIN master[p].def.columns THEN master[p].def.columns[k].name ELSE NullName
        IN /\ c.confrelid = Null <=> freeName(fk.to)
           /\ \A p \in tableNamed(fk.to) : fk.cols # <<>> =>
                /\ c.confrelid = p
                /\ \A k \in DOMAIN fk.cols :
                     LET has == \E d \in Range(master[p].def.columns) : d.name = fk.cols[k]
                     IN nameAt(p, c.confkey[k]) = IF has THEN fk.cols[k] ELSE NullName
                /\ {<<u.table_name, u.column_name>> : u \in {v \in constraint_column_usage : v.constraint_name = c.conname}}
                     = {<<fk.to, col>> : col \in Range(fk.cols)}
                /\ fk.cols = master[p].def.pk /\ notVirtual(p) =>
                     \A u \in referential_constraints : u.constraint_name = c.conname =>
                         \E t \in table_constraints :
                             t = [constraint_name |-> u.unique_constraint_name, table_name |-> fk.to, constraint_type |-> "p"]

\* Every foreign key leads to the table that SQLite takes for its parent, by its oid
\* and by its name, however the reference spells it ("discovering primary and
\* foreign keys", catalog_information_schema.go:5-6).
ParentsDiscovered ==
    \A c \in foreignKeys : \A p \in tableNamed(meant(reference(c).to)) :
        /\ c.confrelid = p
        /\ \A u \in constraint_column_usage : u.constraint_name = c.conname => u.table_name = master[p].name

\* catalog.go:57-59: "each session gets its own always-live view of its database".
\* No query over the columns fails (catalog.go:32-38 takes virtual tables out
\* because one "aborts the whole introspection query").
NeverFails == \A s \in Sessions : ready(s) => ~failing

oidOf(name) == {c.oid : c \in {d \in pg_class : d.relname = name}}

\* The oid of a relation stays, whatever happens to others, until a VACUUM
\* (catalog.go:88-89 claims it for the life of a connection without exception).
OidKept ==
    [][Vacuum \/
         \A c \in pg_class : oidOf(c.relname)' # {} => oidOf(c.relname)' = {c.oid}]_vars
=============================================================================
