---------------------------- MODULE TypesProofs -----------------------------
(***************************************************************************)
(* Theorems of Types: the oids that columns can have, and what the three   *)
(* tables of types say of them.                                            *)
(***************************************************************************)
EXTENDS Types, TLAPS

\* The oids of oid.go's rules, and that of text.
columnOids == {16, 17, 20, 25, 701, 1082, 1083, 1114, 1700}

\* A set of small numbers has a least one.
LEMMA Least ==
    ASSUME NEW I \in SUBSET (1 .. 9), I # {}
    PROVE  Min(I) \in I
<1> DEFINE least == IF 1 \in I THEN 1 ELSE IF 2 \in I THEN 2 ELSE IF 3 \in I THEN 3
                    ELSE IF 4 \in I THEN 4 ELSE IF 5 \in I THEN 5 ELSE IF 6 \in I THEN 6
                    ELSE IF 7 \in I THEN 7 ELSE IF 8 \in I THEN 8 ELSE 9
<1>1. \A y \in I : \/ y = 1 \/ y = 2 \/ y = 3 \/ y = 4 \/ y = 5
                    \/ y = 6 \/ y = 7 \/ y = 8 \/ y = 9
  OBVIOUS
<1>2. least \in I
  BY <1>1
<1>3. \A y \in I : least <= y
  BY <1>1
<1> QED  BY <1>2, <1>3 DEF Min

\* Whatever the declaration says, the type is one of the rules' or text.
LEMMA OidRange ==
    ASSUME NEW decl
    PROVE  oidForType(decl) \in columnOids
<1> DEFINE test(r) == r.words \cap keyWords(decl) # {}
           I       == {i \in 1 .. Len(oidRules) : test(oidRules[i])}
           first   == IF I # {} THEN Min(I) ELSE 0
<1>1. oidForType(decl) = IF first = 0 THEN 25 ELSE oidRules[first].oid
  BY DEF oidForType, SelectInSeq
<1>2. Len(oidRules) = 9 /\ \A i \in 1 .. 9 : oidRules[i].oid \in columnOids
  BY DEF oidRules, columnOids
<1>3. I \in SUBSET (1 .. 9)
  BY <1>2
<1> HIDE DEF I
<1>4. first = 0 \/ first \in 1 .. 9
  BY <1>3, Least
<1> HIDE DEF first
<1> QED  BY <1>1, <1>2, <1>4 DEF columnOids

\* pg_type has one row for each type of a column, with the name information_schema
\* gives it and the size of RowDescription,
LEMMA OneRow ==
    ASSUME NEW decl
    PROVE  LET oid == oidForType(decl)
           IN {t \in pgTypes : t.oid = oid} = {scalarType(oid, sqliteDeclToUDT(decl), typeSize(oid))}
<1>1. ASSUME NEW oid \in columnOids
      PROVE  {t \in pgTypes : t.oid = oid} = {scalarType(oid, udtName(oid), typeSize(oid))}
  BY DEF columnOids, pgTypes, scalarType, typeSize, udtName
<1> QED  BY <1>1, OidRange DEF sqliteDeclToUDT

\* and information_schema has the words of format_type for it.
LEMMA OneWord ==
    ASSUME NEW decl
    PROVE  formatType(oidForType(decl)) = sqliteDeclToPGType(decl)
<1>1. \A oid \in columnOids : formatType(oid) = dataType(oid)
  <2>1. formatType(16) = dataType(16) /\ formatType(17) = dataType(17) /\ formatType(20) = dataType(20)
    BY DEF formatType, dataType
  <2>2. formatType(25) = dataType(25) /\ formatType(701) = dataType(701) /\ formatType(1700) = dataType(1700)
    BY DEF formatType, dataType
  <2>3. formatType(1082) = dataType(1082) /\ formatType(1083) = dataType(1083) /\ formatType(1114) = dataType(1114)
    BY DEF formatType, dataType
  <2> QED  BY <2>1, <2>2, <2>3 DEF columnOids
<1> QED  BY <1>1, OidRange DEF sqliteDeclToPGType

\* No static type has a number above 3802.
LEMMA StaticOids == \A t \in pgTypes : t.oid \in Nat /\ t.oid <= 3802
  BY DEF pgTypes, scalarType
=============================================================================
