---------------------------- MODULE ColumnProofs ----------------------------
(***************************************************************************)
(* Theorem of Column: the catalog's answers about the type of a column, for *)
(* every name and every declaration.                                       *)
(***************************************************************************)
EXTENDS Column, TypesProofs

\* The type of a column in pg_type: that of its declaration or its enum.
LEMMA TypeShown ==
    ASSUME NEW c, c.enum \in BOOLEAN
    PROVE  LET oid == atttypid(c)
           IN {t \in pg_type(c) : t.oid = oid} = {scalarType(oid, udt_name(c), typeSize(oid))}
<1>1. CASE c.enum
  <2>1. \A t \in pgTypes : t.oid # enumOIDBase
    BY StaticOids DEF enumOIDBase
  <2>2. atttypid(c) = enumOIDBase /\ udt_name(c) = "t_column" /\ typeSize(enumOIDBase) = -1
    BY <1>1 DEF atttypid, udt_name, typeSize, enumOIDBase
  <2>3. pg_type(c) = pgTypes \cup {scalarType(enumOIDBase, "t_column", -1)}
    BY <1>1 DEF pg_type
  <2>4. scalarType(enumOIDBase, "t_column", -1).oid = enumOIDBase
    BY DEF scalarType
  <2> QED  BY <2>1, <2>2, <2>3, <2>4
<1>2. CASE ~c.enum
  <2>1. pg_type(c) = pgTypes
    BY <1>2 DEF pg_type
  <2> QED  BY <1>2, <2>1, OneRow DEF atttypid, udt_name
<1> QED  BY <1>1, <1>2

\* A column in the schema has an enum or none.
EnumKnown == described => decl.enum \in BOOLEAN

\* It has, from its declaration on.
LEMMA EnumInvariance == Spec => []EnumKnown
<1>1. Init => EnumKnown
  BY DEF Init, EnumKnown, described
<1>2. EnumKnown /\ [Next]_vars => EnumKnown'
  <2> SUFFICES ASSUME EnumKnown, [Next]_vars PROVE EnumKnown'
    OBVIOUS
  <2>1. ASSUME NEW name \in Names, NEW d \in Declarations, NEW enum \in BOOLEAN, Declare(name, d, enum)
        PROVE  EnumKnown'
    <3> DEFINE head  == <<"create", "table", "t", "(">>
               text  == translateDDL(head \o <<name>> \o d.type \o d.rest \o membership(name, d.labels) \o <<")">>)
               words == SubSeq(text, Len(head) + 1, Len(text) - 1)
               type  == SubSeq(words, 2, next(words, 1, {"check"}) - 1)
               found == enum /\ labelsIn(words) # {}
               made  == [name |-> Head(words), type |-> type, labels |-> labelsIn(words), enum |-> found]
    <3>1. phase' = "refused" \/ decl' = made
      BY <2>1, Zenon DEF Declare
    <3>2. made.enum = found /\ found \in BOOLEAN
      OBVIOUS
    <3> HIDE DEF made, found
    <3> QED  BY <3>1, <3>2 DEF EnumKnown, described
  <2>2. ASSUME NEW lit, Store(lit) PROVE EnumKnown'
    BY <2>2 DEF Store, EnumKnown, described
  <2>3. CASE Fetch
    BY <2>3 DEF Fetch, EnumKnown, described
  <2>4. CASE Drop
    BY <2>4 DEF Drop, EnumKnown, described
  <2>5. CASE UNCHANGED vars
    BY <2>5 DEF vars, EnumKnown, described
  <2> QED  BY <2>1, <2>2, <2>3, <2>4, <2>5 DEF Next
<1> QED  BY <1>1, <1>2, PTL DEF Spec

\* pg_attribute leads to one type of pg_type for every column, under the name and with
\* the size the others give; and without an enum the wire and format_type agree with it
\* too, whatever words a client declares it with and whatever the rewriting makes of
\* them (oid.go typeSize, pg_func.go, catalog.go:132, 329-331).
THEOREM OneAnswer == Spec => []OneType
<1>1. EnumKnown => OneType
  BY TypeShown, OneWord DEF EnumKnown, OneType, atttypid, data_type
<1> QED  BY <1>1, EnumInvariance, PTL
=============================================================================
