---------------------------- MODULE CatalogProofs ---------------------------
(***************************************************************************)
(* Theorems of Catalog: the identifiers of the catalog, what the views of  *)
(* the two catalogs tell together, and what the enum tables of a session   *)
(* do, for every set of sessions, names and table definitions.             *)
(***************************************************************************)
EXTENDS Catalog, TypesProofs, TLAPS, FiniteSetTheorems, SequenceTheorems

\* SQLite's own indexes, which have names of their own kind.
auto(e) == e.type \in {"unique", "key"}

\* What any definition says of columns, checks and keys.
sound(def) ==
    /\ isList(def.columns) /\ isList(def.checks)
    /\ \A k \in DOMAIN def.checks : def.checks[k].labels # <<>>
    /\ Len(def.fks) \in Nat /\ Len(def.fks) <= 1000

\* Views have no checks of their own.
sane(e) ==
    /\ e.type \in EntryTypes
    /\ sound(e.def)
    /\ 0 .. Len(e.def.fks) - 1 \subseteq DOMAIN Decimal
    /\ e.type = "view" => e.def.checks = <<>>

\* Names that are not SQLite's own, and those that are.
isSeq(s) == \E S : s \in Seq(S)

isPiece(a) == isSeq(a) /\ Len(a) = 1

plainName(name) == isSeq(name) /\ name # <<>> /\ Head(name) # "sqlite"

wellNamed(e) ==
    IF auto(e) THEN isSeq(e.table) /\ \E k \in DOMAIN Decimal : e.name = autoName(e.table, k)
               ELSE plainName(e.name)

\* The inductive invariant: SQLite's indexes belong to tables and are named after
\* them, and all entries have names of their own.
Owned == \A r \in rows : auto(master[r]) =>
             \E t \in rows : isTable(t) /\ master[t].name = master[r].table

NamesDistinct == \A p, r \in rows : master[p].name = master[r].name => p = r

CatalogInv ==
    /\ rows \subseteq 1 .. MaxRow
    /\ \A r \in rows : sane(master[r]) /\ wellNamed(master[r])
    /\ Owned /\ NamesDistinct

------------------------------------------------------------------------------
(* Names.                                                                    *)

\* Two sequences and two pieces are over one set.
LEMMA Joint ==
    ASSUME NEW s, isSeq(s), NEW t, isSeq(t), NEW a, NEW b
    PROVE  \E S : s \in Seq(S) /\ t \in Seq(S) /\ a \in S /\ b \in S
<1>1. PICK S : s \in Seq(S)
  BY DEF isSeq
<1>2. PICK T : t \in Seq(T)
  BY DEF isSeq
<1> DEFINE U == S \cup T \cup {a, b}
<1>3. S \subseteq U /\ T \subseteq U /\ a \in U /\ b \in U
  OBVIOUS
<1> HIDE DEF U
<1>4. s \in Seq(U) /\ t \in Seq(U)
  BY <1>1, <1>2, <1>3, SeqMonotonic
<1> QED  BY <1>3, <1>4

\* One sequence after another.
LEMMA Joined ==
    ASSUME NEW s, isSeq(s), NEW t, isSeq(t)
    PROVE  /\ isSeq(s \o t) /\ Len(s) \in Nat /\ Len(t) \in Nat /\ Len(s \o t) = Len(s) + Len(t)
           /\ \A i \in 1 .. Len(s) : (s \o t)[i] = s[i]
           /\ \A i \in 1 .. Len(t) : (s \o t)[i + Len(s)] = t[i]
<1>1. PICK S : s \in Seq(S) /\ t \in Seq(S)
  BY Joint
<1>2. /\ s \o t \in Seq(S) /\ Len(s \o t) = Len(s) + Len(t)
      /\ \A i \in 1 .. Len(s) + Len(t) : (s \o t)[i] = IF i <= Len(s) THEN s[i] ELSE t[i - Len(s)]
  BY <1>1, ConcatProperties
<1>3. Len(s) \in Nat /\ Len(t) \in Nat
  BY <1>1, LenProperties
<1>4. \A i \in 1 .. Len(s) : (s \o t)[i] = s[i]
  BY <1>2, <1>3
<1>5. ASSUME NEW i \in 1 .. Len(t) PROVE (s \o t)[i + Len(s)] = t[i]
  <2>1. i + Len(s) \in 1 .. Len(s) + Len(t) /\ ~(i + Len(s) <= Len(s)) /\ (i + Len(s)) - Len(s) = i
    BY <1>3
  <2> QED  BY <1>2, <2>1
<1> QED  BY <1>2, <1>3, <1>4, <1>5 DEF isSeq

\* Sequences of a piece or two.
LEMMA Pieces ==
    ASSUME NEW a, NEW b
    PROVE  /\ isSeq(<<a>>) /\ Len(<<a>>) = 1 /\ <<a>>[1] = a
           /\ isSeq(<<a, b>>) /\ Len(<<a, b>>) = 2 /\ <<a, b>>[1] = a
<1>1. <<a>> \in Seq({a}) /\ <<a, b>> \in Seq({a, b})
  OBVIOUS
<1>2. isSeq(<<a>>) /\ isSeq(<<a, b>>)
  BY <1>1, Zenon DEF isSeq
<1>3. Len(<<a>>) = 1 /\ <<a>>[1] = a /\ Len(<<a, b>>) = 2 /\ <<a, b>>[1] = a
  OBVIOUS
<1> QED  BY <1>2, <1>3

\* Sequences of the same elements are the same, and no empty one has elements.
LEMMA Same ==
    ASSUME NEW s, isSeq(s)
    PROVE  /\ s = <<>> <=> Len(s) = 0
           /\ s # <<>> => Head(s) = s[1]
           /\ \A t : isSeq(t) /\ Len(s) = Len(t) /\ (\A i \in 1 .. Len(s) : s[i] = t[i]) => s = t
<1>1. s = <<>> <=> Len(s) = 0
  BY EmptySeq DEF isSeq
<1>2. s # <<>> => Head(s) = s[1]
  BY DEF isSeq
<1>3. ASSUME NEW t, isSeq(t), Len(s) = Len(t), \A i \in 1 .. Len(s) : s[i] = t[i]
      PROVE  s = t
  <2>1. PICK S : s \in Seq(S) /\ t \in Seq(S)
    BY <1>3, Joint
  <2> QED  BY <1>3, <2>1, SeqEqual
<1> QED  BY <1>1, <1>2, <1>3

\* One piece after a sequence.
LEMMA Appended ==
    ASSUME NEW s, isSeq(s), NEW a, isSeq(a)
    PROVE  Len(a) = 1 =>
             /\ Len(s) \in Nat /\ Len(s \o a) = Len(s) + 1 /\ (s \o a)[1 + Len(s)] = a[1]
             /\ \A i \in 1 .. Len(s) : (s \o a)[i] = s[i]
<1>1. /\ Len(s) \in Nat /\ Len(s \o a) = Len(s) + Len(a)
      /\ \A i \in 1 .. Len(s) : (s \o a)[i] = s[i]
      /\ \A i \in 1 .. Len(a) : (s \o a)[i + Len(s)] = a[i]
  BY Joined
<1>2. Len(a) = 1 => 1 \in 1 .. Len(a)
  OBVIOUS
<1> QED  BY <1>1, <1>2

\* A name with a last piece tells what is before it and which piece it is.
LEMMA AppendTells ==
    ASSUME NEW s, isSeq(s), NEW t, isSeq(t), NEW a, isPiece(a), NEW b, isPiece(b)
    PROVE  s \o a = t \o b => s = t /\ a[1] = b[1]
<1>1. /\ Len(s) \in Nat /\ Len(s \o a) = Len(s) + 1 /\ (s \o a)[1 + Len(s)] = a[1]
      /\ \A i \in 1 .. Len(s) : (s \o a)[i] = s[i]
  BY Appended DEF isPiece
<1>2. /\ Len(t) \in Nat /\ Len(t \o b) = Len(t) + 1 /\ (t \o b)[1 + Len(t)] = b[1]
      /\ \A i \in 1 .. Len(t) : (t \o b)[i] = t[i]
  BY Appended DEF isPiece
<1> DEFINE u == s \o a
           v == t \o b
<1> HIDE DEF u, v
<1>3. ASSUME u = v PROVE s = t /\ a[1] = b[1]
  <2>1. Len(u) = Len(s) + 1 /\ u[1 + Len(s)] = a[1] /\ \A i \in 1 .. Len(s) : u[i] = s[i]
    BY <1>1 DEF u
  <2>2. Len(v) = Len(t) + 1 /\ v[1 + Len(t)] = b[1] /\ \A i \in 1 .. Len(t) : v[i] = t[i]
    BY <1>2 DEF v
  <2>3. Len(s) = Len(t)
    BY <1>1, <1>2, <1>3, <2>1, <2>2
  <2>4. \A i \in 1 .. Len(s) : s[i] = t[i]
    BY <1>3, <2>1, <2>2, <2>3
  <2>5. s = t
    BY <2>3, <2>4, Same
  <2> QED  BY <1>3, <2>1, <2>2, <2>5
<1> QED  BY <1>3 DEF u, v

\* A name with another piece is no more SQLite's own than before.
LEMMA PlainAppended ==
    ASSUME NEW s, plainName(s), NEW a
    PROVE  plainName(s \o <<a>>) /\ s # s \o <<a>>
<1> DEFINE u == s \o <<a>>
<1>1. isSeq(<<a>>) /\ Len(<<a>>) = 1
  BY Pieces
<1>2. isSeq(s) /\ Len(s) # 0 /\ Head(s) = s[1] /\ s[1] # "sqlite"
  BY Same DEF plainName
<1>3. isSeq(u) /\ Len(s) \in Nat /\ Len(u) = Len(s) + 1 /\ \A i \in 1 .. Len(s) : u[i] = s[i]
  BY <1>1, <1>2, Joined
<1> HIDE DEF u
<1>4. u # <<>> /\ u[1] = s[1] /\ u # s
  BY <1>2, <1>3, Same
<1>5. Head(u) = u[1]
  BY <1>3, <1>4, Same
<1> QED  BY <1>2, <1>3, <1>4, <1>5 DEF plainName, u

\* SQLite's names for the indexes of a table, apart from all others.
LEMMA AutoNames ==
    ASSUME NEW s, isSeq(s), NEW j \in DOMAIN Decimal
    PROVE  /\ ~plainName(autoName(s, j)) /\ Head(autoName(s, j)) = "sqlite"
           /\ \A t, k : isSeq(t) /\ k \in DOMAIN Decimal /\ autoName(s, j) = autoName(t, k) => s = t /\ j = k
<1> DEFINE own == <<"sqlite", "autoindex">>
<1>0. isSeq(own)
  BY Pieces
<1>1. Len(own) = 2 /\ own[1] = "sqlite"
  BY Pieces
<1>2. \A t, k : autoName(t, k) = (own \o t) \o <<Decimal[k]>>
  BY DEF autoName
<1> HIDE DEF own
<1>3. ASSUME NEW t, isSeq(t)
      PROVE  /\ isSeq(own \o t) /\ Len(own \o t) = 2 + Len(t) /\ Len(t) \in Nat
             /\ \A i \in 1 .. Len(t) : (own \o t)[i + 2] = t[i]
             /\ (own \o t)[1] = "sqlite"
  <2>1. /\ isSeq(own \o t) /\ Len(t) \in Nat /\ Len(own \o t) = Len(own) + Len(t)
        /\ \A i \in 1 .. Len(own) : (own \o t)[i] = own[i]
        /\ \A i \in 1 .. Len(t) : (own \o t)[i + Len(own)] = t[i]
    BY <1>0, <1>3, Joined
  <2> QED  BY <1>1, <2>1
<1>4. ~plainName(autoName(s, j)) /\ Head(autoName(s, j)) = "sqlite"
  <2> DEFINE u == (own \o s) \o <<Decimal[j]>>
  <2>1. isSeq(own \o s) /\ isSeq(<<Decimal[j]>>) /\ Len(<<Decimal[j]>>) = 1
    BY <1>0, Joined, Pieces
  <2>2. isSeq(u) /\ Len(u) = Len(own \o s) + 1 /\ \A i \in 1 .. Len(own \o s) : u[i] = (own \o s)[i]
    BY <2>1, Joined
  <2> HIDE DEF u
  <2>3. u[1] = "sqlite" /\ Len(u) # 0
    BY <1>3, <2>2
  <2>4. Head(u) = "sqlite"
    BY <2>2, <2>3, Same
  <2> QED  BY <1>2, <2>4 DEF plainName, u
<1>5. ASSUME NEW t, isSeq(t), NEW k \in DOMAIN Decimal, autoName(s, j) = autoName(t, k)
      PROVE  s = t /\ j = k
  <2>1. isSeq(own \o s) /\ isSeq(own \o t)
    BY <1>0, <1>5, Joined
  <2>2. (own \o s) \o <<Decimal[j]>> = (own \o t) \o <<Decimal[k]>>
    BY <1>2, <1>5
  <2>3. own \o s = own \o t /\ Decimal[j] = Decimal[k]
    <3> DEFINE a == <<Decimal[j]>>
               b == <<Decimal[k]>>
               x == own \o s
               y == own \o t
    <3>1. isPiece(a) /\ a[1] = Decimal[j] /\ isPiece(b) /\ b[1] = Decimal[k]
      BY Pieces DEF isPiece
    <3>2. isSeq(x) /\ isSeq(y) /\ x \o a = y \o b
      BY <2>1, <2>2
    <3> HIDE DEF a, b, x, y
    <3>3. isPiece(a) /\ isPiece(b) /\ isSeq(x) /\ isSeq(y)
      BY <3>1, <3>2
    <3>4. x \o a = y \o b => x = y /\ a[1] = b[1]
      BY <3>3, AppendTells
    <3> QED  BY <3>1, <3>2, <3>4 DEF x, y
  <2>4. Len(s) = Len(t)
    BY <1>3, <1>5, <2>3
  <2>5. \A i \in 1 .. Len(s) : s[i] = t[i]
    <3>1. \A i \in 1 .. Len(s) : (own \o s)[i + 2] = s[i]
      BY <1>3
    <3>2. \A i \in 1 .. Len(t) : (own \o t)[i + 2] = t[i]
      BY <1>3, <1>5
    <3> QED  BY <2>3, <2>4, <3>1, <3>2
  <2>6. s = t
    BY <1>5, <2>4, <2>5, Same
  <2> QED  BY <2>3, <2>6, DecimalAssumption
<1> QED  BY <1>4, <1>5

\* The name of an entry tells whether it is one of SQLite's.
LEMMA AutoHead ==
    ASSUME NEW e, wellNamed(e)
    PROVE  auto(e) <=> Head(e.name) = "sqlite"
<1>1. auto(e) => Head(e.name) = "sqlite"
  BY AutoNames DEF wellNamed
<1>2. ~auto(e) => Head(e.name) # "sqlite"
  BY DEF wellNamed, plainName
<1> QED  BY <1>1, <1>2

\* A name that is free leaves the names of its indexes free.
LEMMA AutoFree ==
    ASSUME CatalogInv, NEW name, isSeq(name), freeName(name), NEW k \in DOMAIN Decimal
    PROVE  freeName(autoName(name, k))
<1> SUFFICES ASSUME NEW r \in rows, master[r].name = autoName(name, k)
             PROVE  FALSE
  BY DEF freeName
<1>1. wellNamed(master[r])
  BY DEF CatalogInv
<1>2. CASE auto(master[r])
  <2>1. master[r].table = name
    BY <1>1, <1>2, AutoNames DEF wellNamed
  <2> QED  BY <1>2, <2>1 DEF CatalogInv, Owned, freeName
<1>3. CASE ~auto(master[r])
  BY <1>1, <1>3, AutoNames DEF wellNamed
<1> QED  BY <1>2, <1>3

------------------------------------------------------------------------------
(* Counting what comes before.                                               *)

\* below[r] is what comes before r in a strict total order of S.
ordered(S, below) ==
    /\ below \in [S -> SUBSET S]
    /\ \A r \in S : r \notin below[r]
    /\ \A p, r \in S : p \in below[r] => below[p] \subseteq below[r]
    /\ \A p, r \in S : p # r => p \in below[r] \/ r \in below[p]

\* Less comes before what is before.
LEMMA FewerBefore ==
    ASSUME NEW S, IsFiniteSet(S), NEW below, ordered(S, below),
           NEW r \in S, NEW p \in below[r]
    PROVE  /\ Cardinality(below[p]) \in Nat /\ Cardinality(below[r]) \in Nat
           /\ Cardinality(below[p]) < Cardinality(below[r])
<1>1. p \in S /\ below[p] \subseteq below[r] /\ p \notin below[p] /\ below[r] \in SUBSET S
  BY DEF ordered
<1>2. IsFiniteSet(below[r])
  BY <1>1, FS_Subset
<1>3. /\ IsFiniteSet(below[p])
      /\ Cardinality(below[p]) <= Cardinality(below[r])
      /\ Cardinality(below[r]) = Cardinality(below[p]) => below[r] = below[p]
  BY <1>1, <1>2, FS_Subset
<1>4. Cardinality(below[p]) \in Nat /\ Cardinality(below[r]) \in Nat
  BY <1>2, <1>3, FS_CardinalityType
<1> QED  BY <1>1, <1>3, <1>4

\* So the places in the order are 1 .. Cardinality(S), each taken once.
LEMMA Places ==
    ASSUME NEW S, IsFiniteSet(S), NEW below, ordered(S, below)
    PROVE  LET place == [r \in S |-> Cardinality(below[r]) + 1]
           IN place \in Bijection(S, 1 .. Cardinality(S)) /\ Cardinality(S) \in Nat
<1> DEFINE place == [r \in S |-> Cardinality(below[r]) + 1]
           n     == Cardinality(S)
<1>1. n \in Nat
  BY FS_CardinalityType
<1>2. ASSUME NEW r \in S PROVE place[r] \in 1 .. n
  <2>1. below[r] \in SUBSET S /\ r \notin below[r]
    BY DEF ordered
  <2>2. /\ IsFiniteSet(below[r])
        /\ Cardinality(below[r]) <= n
        /\ n = Cardinality(below[r]) => S = below[r]
    BY <2>1, FS_Subset
  <2>3. Cardinality(below[r]) \in Nat
    BY <2>2, FS_CardinalityType
  <2> QED  BY <1>1, <2>1, <2>2, <2>3
<1>3. ASSUME NEW p \in S, NEW r \in S, place[p] = place[r] PROVE p = r
  <2>1. ASSUME NEW x \in S, NEW y \in below[x] PROVE y \in S /\ place[y] # place[x]
    <3>1. y \in S
      BY DEF ordered
    <3> QED  BY <3>1, FewerBefore
  <2> QED  BY <1>3, <2>1 DEF ordered
<1>4. place \in Injection(S, 1 .. n)
  BY <1>2, <1>3 DEF Injection, IsInjective
<1>5. IsFiniteSet(1 .. n) /\ Cardinality(1 .. n) = n
  BY <1>1, FS_Interval
<1>6. place \in Surjection(S, 1 .. n)
  BY <1>4, <1>5, FS_Injection
<1> QED  BY <1>1, <1>4, <1>6 DEF Bijection

\* What has nothing before it is the least.
LEMMA LeastOf ==
    ASSUME NEW S, IsFiniteSet(S), S \subseteq Nat, S # {}
    PROVE  \E x \in S : \A y \in S : x <= y
<1> DEFINE below == [r \in S |-> {p \in S : p < r}]
           place == [r \in S |-> Cardinality(below[r]) + 1]
<1>1. /\ below \in [S -> SUBSET S]
      /\ \A r \in S : below[r] = {p \in S : p < r}
  OBVIOUS
<1> HIDE DEF below
<1>2. ordered(S, below)
  <2>1. \A r \in S : r \notin below[r]
    BY <1>1
  <2>2. ASSUME NEW p \in S, NEW r \in S, p \in below[r], NEW x \in below[p]
        PROVE  x \in below[r]
    <3>1. x \in S /\ x < p /\ p < r /\ x \in Nat /\ p \in Nat /\ r \in Nat
      BY <1>1, <2>2
    <3> QED  BY <1>1, <3>1
  <2>3. \A p, r \in S : p # r => p \in below[r] \/ r \in below[p]
    BY <1>1
  <2> QED  BY <1>1, <2>1, <2>2, <2>3 DEF ordered
<1>3. place \in Bijection(S, 1 .. Cardinality(S)) /\ Cardinality(S) \in Nat
  BY <1>2, Places
<1>4. Cardinality(S) # 0
  BY FS_EmptySet
<1>5. PICK x \in S : place[x] = 1
  BY <1>3, <1>4 DEF Bijection, Surjection
<1>6. below[x] = {}
  <2>1. below[x] \in SUBSET S
    BY <1>1
  <2>2. IsFiniteSet(below[x])
    BY <2>1, FS_Subset
  <2>3. Cardinality(below[x]) \in Nat
    BY <2>2, FS_CardinalityType
  <2>4. Cardinality(below[x]) = 0
    BY <1>5, <2>3
  <2> QED  BY <2>2, <2>4, FS_EmptySet
<1>7. \A y \in S : x <= y
  BY <1>1, <1>6
<1> QED  BY <1>7

\* Rows are finitely many.
LEMMA MaxRowNat == MaxRow \in Nat
  BY RoomAssumption

\* The greatest row number.
LEMMA LastRow ==
    ASSUME rows \subseteq 1 .. MaxRow
    PROVE  /\ IsFiniteSet(rows) /\ maxRow \in Nat
           /\ \A r \in rows : r \in Nat /\ r <= maxRow
<1> USE MaxRowNat
<1>1. IsFiniteSet(rows)
  <2>1. IsFiniteSet(1 .. MaxRow)
    BY FS_Interval
  <2> QED  BY <2>1, FS_Subset
<1>2. CASE rows = {}
  BY <1>1, <1>2 DEF maxRow
<1>3. CASE rows # {}
  <2> DEFINE below == [r \in rows |-> {p \in rows : p < r}]
             place == [r \in rows |-> Cardinality(below[r]) + 1]
             n     == Cardinality(rows)
  <2>1. ordered(rows, below)
    <3>1. rows \subseteq Nat
      OBVIOUS
    <3>2. /\ below \in [rows -> SUBSET rows]
          /\ \A r \in rows : below[r] = {p \in rows : p < r}
      OBVIOUS
    <3> HIDE DEF below
    <3>3. \A r \in rows : r \notin below[r]
      BY <3>1, <3>2
    <3>4. ASSUME NEW p \in rows, NEW r \in rows, p \in below[r], NEW x \in below[p]
          PROVE  x \in below[r]
      <4>1. x \in rows /\ x < p /\ p < r
        BY <3>2, <3>4
      <4>2. x < r
        BY <3>1, <4>1
      <4> QED  BY <3>2, <4>1, <4>2
    <3>5. \A p, r \in rows : p # r => p \in below[r] \/ r \in below[p]
      BY <3>1, <3>2
    <3> QED  BY <3>2, <3>3, <3>4, <3>5 DEF ordered
  <2> HIDE DEF below
  <2>2. place \in Bijection(rows, 1 .. n) /\ n \in Nat
    BY <1>1, <2>1, Places
  <2>3. n # 0
    BY <1>1, <1>3, FS_EmptySet
  <2>4. PICK r \in rows : place[r] = n
    BY <2>2, <2>3 DEF Bijection, Surjection
  <2>5. ASSUME NEW p \in rows, p # r PROVE p < r
    <3>1. p \notin below[r] => r \in below[p]
      BY <2>1, <2>5 DEF ordered
    <3>2. CASE r \in below[p]
      <4>1. Cardinality(below[r]) < Cardinality(below[p]) /\ Cardinality(below[p]) \in Nat
              /\ Cardinality(below[r]) \in Nat
        BY <1>1, <2>1, <3>2, FewerBefore
      <4>2. place[p] \in 1 .. n
        BY <2>2 DEF Bijection, Injection
      <4> QED  BY <2>2, <2>4, <4>1, <4>2
    <3> QED  BY <3>1, <3>2 DEF below
  <2>6. r \in rows /\ \A p \in rows : p <= r
    BY <2>5
  <2>7. maxRow \in rows /\ \A p \in rows : p <= maxRow
    BY <1>3, <2>6 DEF maxRow
  <2> QED  BY <1>1, <2>7
<1> QED  BY <1>2, <1>3

------------------------------------------------------------------------------
(* What SQLite does to its master table.                                     *)

\* Every entry of the new schema is one of the old, in its row, or has a name that
\* was free.
stayed ==
    \A r \in rows' :
        \/ r \in rows /\ master'[r] = master[r]
        \/ freeName(master'[r].name)

\* New rows at the end: entries whose names are free, and automatic indexes of a
\* table among them.
LEMMA GrownKept ==
    ASSUME CatalogInv, NEW es, Len(es) \in Nat, maxRow + Len(es) <= MaxRow,
           \A k \in 1 .. Len(es) : sane(es[k]) /\ wellNamed(es[k]) /\ freeName(es[k].name),
           \A j, k \in 1 .. Len(es) : es[j].name = es[k].name => j = k,
           \A k \in 1 .. Len(es) : auto(es[k]) =>
               \E j \in 1 .. Len(es) : es[j].type = "table" /\ es[j].name = es[k].table,
           master' = withRows(es)
    PROVE  /\ CatalogInv'
           /\ stayed
<1> USE MaxRowNat
<1>1. /\ rows \subseteq 1 .. MaxRow /\ maxRow \in Nat
      /\ \A r \in rows : r \in Nat /\ r <= maxRow
  BY LastRow DEF CatalogInv
<1> DEFINE new == maxRow + 1 .. maxRow + Len(es)
<1>2. /\ rows' = rows \cup new
      /\ \A r \in rows : master'[r] = master[r]
      /\ \A r \in new : master'[r] = es[r - maxRow]
  BY <1>1 DEF withRows, rows
<1>3. /\ \A r \in new : r \notin rows /\ r - maxRow \in 1 .. Len(es) /\ r \in 1 .. MaxRow
      /\ \A j \in 1 .. Len(es) : maxRow + j \in new /\ (maxRow + j) - maxRow = j
      /\ \A p, r \in new : p - maxRow = r - maxRow => p = r
  BY <1>1
<1> HIDE DEF new
<1>4. rows' \subseteq 1 .. MaxRow
  BY <1>1, <1>2, <1>3
<1>5. \A r \in rows' : sane(master'[r]) /\ wellNamed(master'[r])
  BY <1>2, <1>3 DEF CatalogInv
<1>6. Owned'
  <2>1. ASSUME NEW r \in rows, auto(master[r])
        PROVE  \E t \in rows' : master'[t].type = "table" /\ master'[t].name = master[r].table
    BY <1>2, <2>1 DEF CatalogInv, Owned, isTable
  <2>2. ASSUME NEW r \in new, auto(master'[r])
        PROVE  \E t \in rows' : master'[t].type = "table" /\ master'[t].name = master'[r].table
    <3>1. PICK j \in 1 .. Len(es) : es[j].type = "table" /\ es[j].name = es[r - maxRow].table
      BY <1>2, <1>3, <2>2
    <3>2. maxRow + j \in new /\ master'[maxRow + j] = es[j]
      BY <1>2, <1>3
    <3> QED  BY <1>2, <3>1, <3>2
  <2> QED  BY <1>2, <2>1, <2>2 DEF Owned, isTable
<1>7. \A r \in new : freeName(master'[r].name)
  BY <1>2, <1>3
<1>8. NamesDistinct'
  <2> SUFFICES ASSUME NEW p \in rows', NEW r \in rows', master'[p].name = master'[r].name
               PROVE  p = r
    BY DEF NamesDistinct
  <2>1. CASE p \in rows /\ r \in rows
    BY <1>2, <2>1 DEF CatalogInv, NamesDistinct
  <2>2. CASE p \in new /\ r \in new
    BY <1>2, <1>3, <2>2
  <2>3. CASE (p \in rows /\ r \in new) \/ (p \in new /\ r \in rows)
    BY <1>2, <1>7, <2>3 DEF freeName
  <2> QED  BY <1>2, <2>1, <2>2, <2>3
<1> QED  BY <1>2, <1>4, <1>5, <1>6, <1>7, <1>8 DEF CatalogInv, stayed

\* Rows that go, a table only with its indexes.
LEMMA DroppedKept ==
    ASSUME CatalogInv, NEW kept \in SUBSET rows, master' = [p \in kept |-> master[p]],
           \A r \in kept, t \in rows :
               auto(master[r]) /\ isTable(t) /\ master[t].name = master[r].table => t \in kept
    PROVE  /\ CatalogInv'
           /\ \A r \in rows' : r \in rows /\ master'[r] = master[r]
<1>1. rows' = kept /\ \A r \in kept : master'[r] = master[r]
  BY DEF rows
<1>2. Owned'
  BY <1>1 DEF CatalogInv, Owned, isTable
<1>3. NamesDistinct'
  BY <1>1 DEF CatalogInv, NamesDistinct
<1> QED  BY <1>1, <1>2, <1>3 DEF CatalogInv

\* A new numbering of the rows.
LEMMA RenumberedKept ==
    ASSUME CatalogInv, NEW n \in Nat, n <= MaxRow, NEW g \in Bijection(1 .. n, rows),
           master' = [k \in 1 .. n |-> master[g[k]]]
    PROVE  CatalogInv'
<1>1. /\ rows' = 1 .. n
      /\ \A k \in 1 .. n : g[k] \in rows /\ master'[k] = master[g[k]]
      /\ \A j, k \in 1 .. n : g[j] = g[k] => j = k
      /\ \A r \in rows : \E k \in 1 .. n : g[k] = r
  BY DEF rows, Bijection, Injection, IsInjective, Surjection
<1>2. rows' \subseteq 1 .. MaxRow
  BY <1>1, MaxRowNat
<1>3. Owned'
  <2>1. ASSUME NEW k \in 1 .. n, auto(master'[k])
        PROVE  \E j \in 1 .. n : master'[j].type = "table" /\ master'[j].name = master'[k].table
    <3>1. PICK t \in rows : isTable(t) /\ master[t].name = master[g[k]].table
      BY <1>1, <2>1 DEF CatalogInv, Owned
    <3>2. PICK j \in 1 .. n : g[j] = t
      BY <1>1
    <3> QED  BY <1>1, <3>1, <3>2 DEF isTable
  <2> QED  BY <1>1, <2>1 DEF Owned, isTable
<1>4. NamesDistinct'
  <2> SUFFICES ASSUME NEW j \in 1 .. n, NEW k \in 1 .. n, master'[j].name = master'[k].name
               PROVE  j = k
    BY <1>1 DEF NamesDistinct
  <2>1. g[j] = g[k]
    BY <1>1 DEF CatalogInv, NamesDistinct
  <2> QED  BY <1>1, <2>1
<1>5. \A r \in rows' : sane(master'[r]) /\ wellNamed(master'[r])
  BY <1>1 DEF CatalogInv
<1> QED  BY <1>2, <1>3, <1>4, <1>5 DEF CatalogInv

\* Every definition there is says something.
LEMMA SoundDefinitions ==
    /\ \A def \in Definitions :
         /\ sound(def) /\ isList(def.uniques)
         /\ 0 .. Len(def.fks) - 1 \subseteq DOMAIN Decimal
         /\ 0 .. Len(def.uniques) \subseteq DOMAIN Decimal
    /\ \A cols : sound([NoDefinition EXCEPT !.uniques = <<cols>>])
    /\ sound(NoDefinition) /\ sound(Keyed)
    /\ \A cols : Len([NoDefinition EXCEPT !.uniques = <<cols>>].fks) = 0
    /\ Len(NoDefinition.fks) = 0 /\ Len(Keyed.fks) = 0 /\ NoDefinition.checks = <<>>
<1>1. \A def \in Definitions : sound(def) /\ isList(def.uniques)
  BY DefinitionAssumption, RoomAssumption DEF sound
<1>2. \A def \in Definitions :
         /\ 0 .. Len(def.fks) - 1 \subseteq DOMAIN Decimal
         /\ 0 .. Len(def.uniques) \subseteq DOMAIN Decimal
  BY DecimalAssumption
<1>3. Len(<<>>) = 0 /\ isList(<<>>) /\ DOMAIN <<>> = {}
  BY DEF isList
<1>4. \A e : Len(<<e>>) = 1 /\ DOMAIN <<e>> = 1 .. 1 /\ isList(<<e>>)
  BY DEF isList
<1>5. ASSUME NEW def, def.checks = <<>>, def.fks = <<>>, isList(def.columns)
      PROVE  sound(def)
  BY <1>3, <1>5 DEF sound
<1>6. /\ NoDefinition.columns = <<>> /\ NoDefinition.checks = <<>> /\ NoDefinition.fks = <<>>
      /\ Keyed.columns = <<[name |-> <<"id">>, decl |-> "INT"]>> /\ Keyed.checks = <<>> /\ Keyed.fks = <<>>
  BY DEF NoDefinition, Keyed
<1>7. ASSUME NEW cols
      PROVE  LET def == [NoDefinition EXCEPT !.uniques = <<cols>>]
             IN def.columns = <<>> /\ def.checks = <<>> /\ def.fks = <<>>
  BY DEF NoDefinition
<1> QED  BY <1>1, <1>2, <1>3, <1>4, <1>5, <1>6, <1>7

\* The indexes SQLite makes for a table belong to it and are named after it.
LEMMA AutoIndexes ==
    ASSUME NEW name, isSeq(name), NEW def \in Definitions
    PROVE  LET es == autoIndexes(name, def)
           IN /\ \E E : es \in Seq(E)
              /\ \A j \in 1 .. Len(es) : auto(es[j]) /\ es[j].table = name /\ sane(es[j]) /\ wellNamed(es[j])
              /\ \A j, k \in 1 .. Len(es) : es[j].name = es[k].name => j = k
              /\ \A j \in 1 .. Len(es) : \E k \in DOMAIN Decimal : es[j].name = autoName(name, k)
<1> DEFINE first == IF Len(def.pk) > 1 THEN <<autoIndex(name, "key", 0, def.pk)>> ELSE <<>>
           rest  == [k \in DOMAIN def.uniques |-> autoIndex(name, "unique", k, def.uniques[k])]
           E     == {autoIndex(name, "key", 0, def.pk)} \cup {rest[k] : k \in DOMAIN def.uniques}
           es    == first \o rest
           n     == Len(def.uniques)
           shift == Len(first)
<1>1. n \in Nat /\ DOMAIN def.uniques = 1 .. n /\ 0 .. n \subseteq DOMAIN Decimal
  BY SoundDefinitions DEF isList
<1>2. ASSUME NEW type \in {"key", "unique"}, NEW k \in DOMAIN Decimal, NEW cols
      PROVE  LET e == autoIndex(name, type, k, cols)
             IN auto(e) /\ e.table = name /\ sane(e) /\ wellNamed(e) /\ e.name = autoName(name, k)
  <2> DEFINE d == [NoDefinition EXCEPT !.uniques = <<cols>>]
             e == autoIndex(name, type, k, cols)
  <2>1. sound(d) /\ Len(d.fks) = 0
    BY SoundDefinitions
  <2>2. e.type = type /\ e.name = autoName(name, k) /\ e.table = name /\ e.def = d
    BY DEF autoIndex, entry
  <2> HIDE DEF e, d
  <2>3. sane(e) /\ auto(e)
    BY <2>1, <2>2 DEF sane, auto, EntryTypes
  <2> QED  BY <2>2, <2>3 DEF wellNamed, e
<1>3. first \in Seq(E) /\ (shift = 0 \/ (shift = 1 /\ first[1] = autoIndex(name, "key", 0, def.pk)))
  <2>1. autoIndex(name, "key", 0, def.pk) \in E
    OBVIOUS
  <2> HIDE DEF E
  <2> QED  BY <2>1
<1>4. rest \in Seq(E) /\ Len(rest) = n /\ \A k \in 1 .. n : rest[k] = autoIndex(name, "unique", k, def.uniques[k])
  <2>1. /\ rest \in [1 .. n -> E]
        /\ \A k \in 1 .. n : rest[k] = autoIndex(name, "unique", k, def.uniques[k])
    BY <1>1
  <2> HIDE DEF E, rest, n
  <2> QED  BY <1>1, <2>1
<1> HIDE DEF first, rest, E, n
<1>5. /\ es \in Seq(E) /\ Len(es) = shift + n
      /\ \A j \in 1 .. Len(es) : IF j <= shift THEN es[j] = first[j] ELSE es[j] = rest[j - shift]
  BY <1>1, <1>3, <1>4
<1> HIDE DEF es
<1>6. ASSUME NEW j \in 1 .. Len(es)
      PROVE  /\ j - shift \in DOMAIN Decimal
             /\ \E type \in {"key", "unique"}, cols \in {def.pk, def.uniques[j - shift]} :
                  es[j] = autoIndex(name, type, j - shift, cols)
  <2> HIDE DEF shift
  <2>1. CASE j <= shift
    <3>1. shift = 1 /\ j = 1 /\ j - shift = 0
      BY <1>3, <2>1
    <3>2. es[j] = autoIndex(name, "key", j - shift, def.pk)
      BY <1>3, <1>5, <2>1, <3>1
    <3>3. j - shift \in DOMAIN Decimal
      BY <1>1, <3>1
    <3> QED  BY <3>2, <3>3
  <2>2. CASE ~(j <= shift)
    <3>1. j - shift \in 1 .. n
      BY <1>1, <1>3, <1>5, <2>2
    <3>2. es[j] = autoIndex(name, "unique", j - shift, def.uniques[j - shift])
      BY <1>4, <1>5, <2>2, <3>1
    <3>3. j - shift \in DOMAIN Decimal
      BY <1>1, <3>1
    <3> QED  BY <3>2, <3>3
  <2> QED  BY <2>1, <2>2
<1>7. \A j \in 1 .. Len(es) :
         /\ auto(es[j]) /\ es[j].table = name /\ sane(es[j]) /\ wellNamed(es[j])
         /\ j - shift \in DOMAIN Decimal /\ es[j].name = autoName(name, j - shift)
  BY <1>2, <1>6
<1>8. ASSUME NEW j \in 1 .. Len(es), NEW k \in 1 .. Len(es), es[j].name = es[k].name
      PROVE  j = k
  <2>1. j - shift = k - shift
    BY <1>7, <1>8, AutoNames
  <2>2. shift \in Nat /\ Len(es) \in Nat
    BY <1>1, <1>3, <1>5
  <2> HIDE DEF shift
  <2> QED  BY <2>1, <2>2
<1>9. es = autoIndexes(name, def)
  BY DEF autoIndexes, es, first, rest
<1> QED  BY <1>5, <1>7, <1>8, <1>9

\* A table is made with its indexes,
LEMMA CreateTableKept ==
    ASSUME CatalogInv, NEW name \in TableNames, NEW def \in Definitions, CreateTable(name, def)
    PROVE  CatalogInv' /\ stayed
<1> DEFINE table == entry("table", name, name, def)
           more  == autoIndexes(name, def)
           es    == <<table>> \o more
<1>1. freeName(name) /\ maxRow + Len(es) <= MaxRow /\ master' = withRows(es)
  BY DEF CreateTable, changed
<1>2. plainName(name) /\ isSeq(name)
  BY NameAssumption DEF plainName, isSeq
<1>3. PICK E : more \in Seq(E)
  BY <1>2, AutoIndexes
<1>4. /\ \A j \in 1 .. Len(more) : /\ auto(more[j]) /\ more[j].table = name
                                   /\ sane(more[j]) /\ wellNamed(more[j])
                                   /\ \E k \in DOMAIN Decimal : more[j].name = autoName(name, k)
      /\ \A j, k \in 1 .. Len(more) : more[j].name = more[k].name => j = k
  BY <1>2, AutoIndexes
<1>5. /\ table.type = "table" /\ table.name = name /\ ~auto(table) /\ sane(table) /\ wellNamed(table)
  <2>1. sound(def) /\ 0 .. Len(def.fks) - 1 \subseteq DOMAIN Decimal
    BY SoundDefinitions
  <2> QED  BY <1>2, <2>1 DEF entry, auto, sane, wellNamed, EntryTypes
<1> HIDE DEF table, more
<1>6. /\ Len(es) = 1 + Len(more) /\ Len(more) \in Nat
      /\ es[1] = table
      /\ \A k \in 2 .. Len(es) : k - 1 \in 1 .. Len(more) /\ es[k] = more[k - 1]
  BY <1>3
<1> HIDE DEF es
<1>7. \A j \in 1 .. Len(more) : freeName(more[j].name) /\ more[j].name # name
  BY <1>1, <1>2, <1>4, AutoFree, AutoNames
<1>8. \A k \in 1 .. Len(es) :
         /\ sane(es[k]) /\ wellNamed(es[k]) /\ freeName(es[k].name)
         /\ k = 1 \/ (auto(es[k]) /\ es[k].table = name)
  BY <1>1, <1>4, <1>5, <1>6, <1>7
<1>9. ASSUME NEW j \in 1 .. Len(es), NEW k \in 1 .. Len(es), es[j].name = es[k].name
      PROVE  j = k
  <2>1. CASE j = 1 \/ k = 1
    BY <1>5, <1>6, <1>7, <1>9, <2>1
  <2>2. CASE j # 1 /\ k # 1
    <3>1. j \in 2 .. Len(es) /\ k \in 2 .. Len(es)
      BY <1>6, <2>2
    <3>2. /\ j - 1 \in 1 .. Len(more) /\ es[j] = more[j - 1]
          /\ k - 1 \in 1 .. Len(more) /\ es[k] = more[k - 1]
      BY <1>6, <3>1
    <3>3. more[j - 1].name = more[k - 1].name
      BY <1>9, <3>2
    <3>4. j - 1 = k - 1
      BY <1>4, <3>2, <3>3
    <3> QED  BY <1>6, <3>4
  <2> QED  BY <2>1, <2>2
<1>10. \A k \in 1 .. Len(es) : auto(es[k]) =>
         \E j \in 1 .. Len(es) : es[j].type = "table" /\ es[j].name = es[k].table
  <2>1. 1 \in 1 .. Len(es)
    BY <1>6
  <2> QED  BY <1>5, <1>6, <1>8, <2>1
<1>11. Len(es) \in Nat
  BY <1>6
<1> QED  BY <1>1, <1>8, <1>9, <1>10, <1>11, GrownKept

\* an index or a view by itself,
LEMMA CreateOneKept ==
    ASSUME CatalogInv, NEW e, ~auto(e), sane(e), plainName(e.name), freeName(e.name), maxRow < MaxRow,
           master' = withRows(<<e>>)
    PROVE  CatalogInv' /\ stayed
<1>1. Len(<<e>>) = 1 /\ <<e>>[1] = e
  OBVIOUS
<1>2. maxRow + 1 <= MaxRow
  BY LastRow, MaxRowNat DEF CatalogInv
<1>3. wellNamed(e)
  BY DEF wellNamed
<1> DEFINE es == <<e>>
<1>4. /\ Len(es) \in Nat /\ maxRow + Len(es) <= MaxRow
      /\ \A k \in 1 .. Len(es) : k = 1 /\ es[k] = e
  BY <1>1, <1>2
<1> HIDE DEF es
<1> QED  BY <1>3, <1>4, GrownKept DEF es

\* an index by its table's name or a view by its own,
LEMMA CreateNamedKept ==
    ASSUME CatalogInv, NEW r \in rows, CreateIndex(r) \/ CreateView(r)
    PROVE  CatalogInv' /\ stayed
<1>1. plainName(master[r].name)
  BY DEF CreateIndex, CreateView, isTable, CatalogInv, wellNamed, auto
<1>3. PICK name, type, table :
         /\ type \in {"index", "view"} /\ freeName(name) /\ plainName(name) /\ maxRow < MaxRow
         /\ master' = withRows(<<entry(type, name, table, NoDefinition)>>)
  <2>1. CASE CreateIndex(r)
    <3>1. plainName(master[r].name \o <<"idx">>)
      BY <1>1, PlainAppended
    <3> QED  BY <2>1, <3>1 DEF CreateIndex, changed
  <2>2. CASE CreateView(r)
    <3>1. plainName(ViewNames[master[r].name])
      BY <2>2, NameAssumption DEF CreateView, plainName, isSeq, Range
    <3> QED  BY <2>2, <3>1 DEF CreateView, changed
  <2> QED  BY <2>1, <2>2
<1> DEFINE e == entry(type, name, table, NoDefinition)
<1>4. e.name = name /\ e.type = type /\ e.def = NoDefinition
  BY DEF entry
<1> HIDE DEF e
<1>5. ~auto(e) /\ sane(e)
  BY <1>3, <1>4, SoundDefinitions DEF auto, sane, EntryTypes
<1> QED  BY <1>3, <1>4, <1>5, CreateOneKept DEF e

\* and a virtual table with its shadow.
LEMMA CreateVirtualKept ==
    ASSUME CatalogInv, NEW name \in ModuleNames, CreateVirtual(name)
    PROVE  CatalogInv' /\ stayed
<1> DEFINE shadow == name \o <<"data">>
           e  == entry("virtual", name, name, NoDefinition)
           f  == entry("table", shadow, shadow, Keyed)
           es == <<e, f>>
<1>1. /\ maxRow + 2 <= MaxRow /\ freeName(name) /\ freeName(shadow)
      /\ master' = withRows(es)
  BY DEF CreateVirtual, changed
<1>2. plainName(name)
  BY NameAssumption DEF plainName, isSeq
<1>3. plainName(shadow) /\ name # shadow
  BY <1>2, PlainAppended
<1> HIDE DEF shadow
<1>4. /\ e.name = name /\ ~auto(e) /\ sane(e) /\ wellNamed(e)
      /\ f.name = shadow /\ ~auto(f) /\ sane(f) /\ wellNamed(f)
  <2>1. /\ e.type = "virtual" /\ e.name = name /\ e.def = NoDefinition
        /\ f.type = "table" /\ f.name = shadow /\ f.def = Keyed
    BY DEF entry
  <2> HIDE DEF e, f
  <2> QED  BY <1>2, <1>3, <2>1, SoundDefinitions DEF auto, sane, wellNamed, EntryTypes
<1>5. Len(es) = 2 /\ es[1] = e /\ es[2] = f
  OBVIOUS
<1> HIDE DEF e, f, es
<1>6. \A k \in 1 .. Len(es) :
         /\ k = 1 \/ k = 2
         /\ sane(es[k]) /\ wellNamed(es[k]) /\ ~auto(es[k]) /\ freeName(es[k].name)
  BY <1>1, <1>4, <1>5
<1>7. \A j, k \in 1 .. Len(es) : es[j].name = es[k].name => j = k
  BY <1>3, <1>4, <1>5, <1>6
<1>8. Len(es) \in Nat /\ maxRow + Len(es) <= MaxRow
  BY <1>1, <1>5
<1> QED  BY <1>1, <1>6, <1>7, <1>8, GrownKept

\* A table goes with its indexes, a view by itself.
LEMMA DropKept ==
    ASSUME CatalogInv, NEW r \in rows, DropTable(r) \/ DropView(r)
    PROVE  CatalogInv' /\ stayed
<1>1. CASE DropTable(r)
  <2> DEFINE kept == rows \ ({r} \cup indexesOf(r))
  <2>1. master' = [p \in kept |-> master[p]]
    BY <1>1 DEF DropTable, changed
  <2>2. \A p \in kept, t \in rows :
           auto(master[p]) /\ isTable(t) /\ master[t].name = master[p].table => t \in kept
    BY DEF indexesOf, isTable, auto
  <2> QED  BY <2>1, <2>2, DroppedKept DEF stayed
<1>2. CASE DropView(r)
  <2> DEFINE kept == rows \ {r}
  <2>1. master' = [p \in kept |-> master[p]]
    BY <1>2 DEF DropView, changed
  <2>2. \A p \in kept, t \in rows :
           auto(master[p]) /\ isTable(t) /\ master[t].name = master[p].table => t \in kept
    BY <1>2 DEF DropView, isTable
  <2> QED  BY <2>1, <2>2, DroppedKept DEF stayed
<1> QED  BY <1>1, <1>2

\* The order of VACUUM, and the place of a row in it.
vclass(r) ==
    CASE master[r].type \in {"table", "unique", "key"} -> 0
      [] master[r].type = "index"                      -> 1
      [] master[r].type \in {"virtual", "view"}        -> 2
vowner(r) ==
    IF master[r].type \in {"unique", "key"}
    THEN CHOOSE t \in rows : isTable(t) /\ master[t].name = master[r].table
    ELSE r
vbefore(p, r) ==
    \/ vclass(p) < vclass(r)
    \/ vclass(p) = vclass(r) /\ vowner(p) < vowner(r)
    \/ vclass(p) = vclass(r) /\ vowner(p) = vowner(r) /\ p < r
vbelow == [r \in rows |-> {p \in rows : vbefore(p, r)}]

\* The order is total, since what owns an index is a table.
LEMMA VacuumOrder ==
    ASSUME CatalogInv
    PROVE  ordered(rows, vbelow)
<1>1. ASSUME NEW r \in rows PROVE r \in Nat /\ vclass(r) \in Nat /\ vowner(r) \in Nat
  <2>1. rows \subseteq Nat
    BY DEF CatalogInv
  <2>2. vclass(r) \in Nat
    BY DEF CatalogInv, sane, EntryTypes, vclass
  <2>3. vowner(r) \in rows
    BY DEF CatalogInv, Owned, auto, vowner
  <2> QED  BY <2>1, <2>2, <2>3
<1>2. /\ vbelow \in [rows -> SUBSET rows]
      /\ \A r \in rows : vbelow[r] = {p \in rows : vbefore(p, r)}
  BY DEF vbelow
<1>3. \A r \in rows : ~vbefore(r, r)
  BY <1>1 DEF vbefore
<1>4. ASSUME NEW p \in rows, NEW r \in rows, NEW x \in rows, vbefore(p, r), vbefore(x, p)
      PROVE  vbefore(x, r)
  <2>1. /\ p \in Nat /\ vclass(p) \in Nat /\ vowner(p) \in Nat
        /\ r \in Nat /\ vclass(r) \in Nat /\ vowner(r) \in Nat
        /\ x \in Nat /\ vclass(x) \in Nat /\ vowner(x) \in Nat
    BY <1>1
  <2> QED  BY <1>4, <2>1 DEF vbefore
<1>5. ASSUME NEW p \in rows, NEW r \in rows, p # r
      PROVE  vbefore(p, r) \/ vbefore(r, p)
  <2>1. /\ p \in Nat /\ vclass(p) \in Nat /\ vowner(p) \in Nat
        /\ r \in Nat /\ vclass(r) \in Nat /\ vowner(r) \in Nat
    BY <1>1
  <2> QED  BY <1>5, <2>1 DEF vbefore
<1>6. \A r \in rows : r \notin vbelow[r]
  BY <1>2, <1>3
<1>7. \A p, r \in rows : p # r => p \in vbelow[r] \/ r \in vbelow[p]
  BY <1>2, <1>5
<1>8. ASSUME NEW p \in rows, NEW r \in rows, p \in vbelow[r], NEW x \in vbelow[p]
      PROVE  x \in vbelow[r]
  BY <1>2, <1>4, <1>8
<1> QED  BY <1>2, <1>6, <1>7, <1>8 DEF ordered

\* VACUUM moves every entry to a row of its own.
LEMMA VacuumKept ==
    ASSUME CatalogInv, Vacuum
    PROVE  CatalogInv'
<1> DEFINE place == [r \in rows |-> Cardinality(vbelow[r]) + 1]
           n     == Cardinality(rows)
           g     == [k \in 1 .. n |-> CHOOSE r \in rows : place[r] = k]
<1>1. IsFiniteSet(rows)
  BY LastRow DEF CatalogInv
<1>2. place \in Bijection(rows, 1 .. n) /\ n \in Nat
  BY <1>1, VacuumOrder, Places
<1>3. n <= MaxRow
  <2>1. IsFiniteSet(1 .. MaxRow) /\ Cardinality(1 .. MaxRow) = MaxRow
    BY MaxRowNat, FS_Interval
  <2> QED  BY <2>1, FS_Subset DEF CatalogInv
<1>4. master' = [k \in 1 .. n |-> master[g[k]]]
  <2>1. \A r \in rows : place[r] = Cardinality({p \in rows : vbefore(p, r)}) + 1
    BY DEF vbelow
  <2> DEFINE at(k) == CHOOSE r \in rows : Cardinality({p \in rows : vbefore(p, r)}) + 1 = k
  <2>2. master' = [k \in 1 .. n |-> master[at(k)]]
    BY Zenon DEF Vacuum, changed, vbefore, vclass, vowner
  <2>3. ASSUME NEW k \in 1 .. n PROVE g[k] = at(k)
    BY <2>1
  <2> HIDE DEF at, g, n
  <2> QED  BY <2>2, <2>3
<1> HIDE DEF place, n
<1>5. \A k \in 1 .. n : g[k] \in rows /\ place[g[k]] = k
  BY <1>2 DEF Bijection, Surjection
<1>6. \A r \in rows : place[r] \in 1 .. n
  BY <1>2 DEF Bijection, Injection
<1>7. \A p, r \in rows : place[p] = place[r] => p = r
  BY <1>2 DEF Bijection, Injection, IsInjective
<1>8. g \in [1 .. n -> rows]
  BY <1>5
<1> HIDE DEF g
<1>9. g \in Bijection(1 .. n, rows)
  <2>1. g \in Injection(1 .. n, rows)
    BY <1>5, <1>8 DEF Injection, IsInjective
  <2>2. g \in Surjection(1 .. n, rows)
    <3>1. ASSUME NEW r \in rows PROVE \E k \in 1 .. n : g[k] = r
      BY <1>5, <1>6, <1>7
    <3> QED  BY <1>8, <3>1 DEF Surjection
  <2> QED  BY <2>1, <2>2 DEF Bijection
<1> QED  BY <1>2, <1>3, <1>4, <1>9, RenumberedKept

------------------------------------------------------------------------------
(* The invariant.                                                            *)

\* The file is empty at first.
LEMMA InitInv == Init => CatalogInv
  BY DEF Init, CatalogInv, Owned, NamesDistinct, rows

\* Every change of the schema keeps the invariant, and all but VACUUM the rows of
\* the relations.
LEMMA StepInv ==
    ASSUME CatalogInv, [Next]_vars
    PROVE  CatalogInv' /\ (Vacuum \/ stayed)
<1>1. CASE UNCHANGED master
  <2>1. rows' = rows /\ \A r \in rows : master'[r] = master[r]
    BY <1>1 DEF rows
  <2> QED  BY <1>1, <2>1 DEF CatalogInv, Owned, NamesDistinct, isTable, stayed
<1>2. CASE \E s \in Sessions : ReadSchema(s) \/ FillEnums(s) \/ Disconnect(s)
  BY <1>1, <1>2 DEF ReadSchema, FillEnums, Disconnect
<1>3. CASE \E name \in TableNames, def \in Definitions : CreateTable(name, def)
  BY <1>3, CreateTableKept
<1>4. CASE \E r \in rows : CreateIndex(r) \/ DropTable(r) \/ CreateView(r) \/ DropView(r)
  BY <1>4, CreateNamedKept, DropKept
<1>5. CASE Vacuum
  BY <1>5, VacuumKept
<1>6. CASE \E name \in ModuleNames : CreateVirtual(name)
  BY <1>6, CreateVirtualKept
<1>7. CASE UNCHANGED vars
  BY <1>1, <1>7 DEF vars
<1> QED  BY <1>2, <1>3, <1>4, <1>5, <1>6, <1>7 DEF Next

\* Owned and NamesDistinct hold of every schema that SQLite's statements lead to.
THEOREM Invariance == Spec => []CatalogInv
<1>1. CatalogInv /\ [Next]_vars => CatalogInv'
  BY StepInv
<1> QED  BY <1>1, InitInv, PTL DEF Spec

------------------------------------------------------------------------------
(* The identifiers.                                                          *)

\* The indexes of a table have numbers of their own, fewer than there are rows.
LEMMA IndexNumbers ==
    ASSUME CatalogInv, NEW r \in rows, NEW i \in indexesOf(r)
    PROVE  /\ indexSeq(r, i) \in Nat /\ indexSeq(r, i) < MaxRow
           /\ \A j \in indexesOf(r) : indexSeq(r, i) = indexSeq(r, j) => i = j
<1> DEFINE S     == indexesOf(r)
           below == [k \in S |-> {j \in S : j > k}]
<1>1. S \subseteq rows /\ rows \subseteq Nat /\ rows \subseteq 1 .. MaxRow
  BY MaxRowNat DEF CatalogInv, indexesOf
<1>2. IsFiniteSet(rows) /\ IsFiniteSet(S)
  <2>1. IsFiniteSet(rows)
    BY <1>1, LastRow
  <2> QED  BY <1>1, <2>1, FS_Subset
<1>3. \A k \in S : indexSeq(r, k) = Cardinality(below[k])
  BY DEF indexSeq
<1> HIDE DEF S
<1>4. /\ below \in [S -> SUBSET S]
      /\ \A k \in S : below[k] = {j \in S : j > k}
  OBVIOUS
<1>5. S \subseteq Nat
  BY <1>1
<1> HIDE DEF below
<1>6. ordered(S, below)
  <2>1. \A k \in S : k \notin below[k]
    BY <1>4, <1>5
  <2>2. ASSUME NEW p \in S, NEW q \in S, p \in below[q], NEW x \in below[p]
        PROVE  x \in below[q]
    <3>1. x \in S /\ x > p /\ p > q
      BY <1>4, <2>2
    <3>2. x > q
      BY <1>5, <3>1
    <3> QED  BY <1>4, <3>1, <3>2
  <2>3. \A p, q \in S : p # q => p \in below[q] \/ q \in below[p]
    BY <1>4, <1>5
  <2> QED  BY <1>4, <2>1, <2>2, <2>3 DEF ordered
<1>7. i \in S
  BY DEF S
<1>8. ASSUME NEW j \in S, indexSeq(r, i) = indexSeq(r, j) PROVE i = j
  <2>1. i # j => i \in below[j] \/ j \in below[i]
    BY <1>6, <1>7 DEF ordered
  <2>2. i \notin below[j] /\ j \notin below[i]
    BY <1>2, <1>3, <1>6, <1>7, <1>8, FewerBefore
  <2> QED  BY <2>1, <2>2
<1>9. indexSeq(r, i) \in Nat /\ indexSeq(r, i) < MaxRow
  <2>1. below[i] \subseteq 1 .. MaxRow /\ i \notin below[i] /\ i \in 1 .. MaxRow
    <3>1. S \subseteq 1 .. MaxRow
      BY <1>1
    <3>2. below[i] \subseteq S /\ i \notin below[i]
      BY <1>6, <1>7 DEF ordered
    <3> QED  BY <1>7, <3>1, <3>2
  <2>2. IsFiniteSet(1 .. MaxRow) /\ Cardinality(1 .. MaxRow) = MaxRow
    BY MaxRowNat, FS_Interval
  <2>3. /\ IsFiniteSet(below[i])
        /\ Cardinality(below[i]) <= MaxRow
        /\ MaxRow = Cardinality(below[i]) => 1 .. MaxRow = below[i]
    BY <2>1, <2>2, FS_Subset
  <2>4. Cardinality(below[i]) # MaxRow
    BY <2>1, <2>3
  <2>5. Cardinality(below[i]) \in Nat
    BY <2>3, FS_CardinalityType
  <2> QED  BY <1>3, <1>7, <2>3, <2>4, <2>5, MaxRowNat
<1> QED  BY <1>8, <1>9 DEF S

\* The numbers of a row's keys, fewer than there are rows, leave the oids made from
\* rows apart.
LEMMA IndexOids ==
    ASSUME NEW r \in Nat, NEW q \in Nat, NEW a \in Nat, NEW b \in Nat,
           a < MaxRow, b < MaxRow, indexOid(r, a) = indexOid(q, b)
    PROVE  r = q /\ a = b
<1>1. MaxRow \in Nat /\ MaxRow <= 100000
  BY RoomAssumption
<1> QED  BY <1>1, SMT DEF indexOid

\* The rows of pg_index, each made from a table and one of its indexes.
indexRow(r, i) ==
    [indexrelid |-> indexOid(r, indexSeq(r, i)), indrelid |-> r, name |-> master[i].name]

\* They are all of pg_index.
LEMMA IndexRows == pg_index = UNION {{indexRow(r, i) : i \in indexesOf(r)} : r \in keyedTables}
  BY DEF pg_index, indexRow

\* The indexes of pg_index have oids of their own.
LEMMA IndexOidsDistinct ==
    ASSUME CatalogInv
    PROVE  \A i, j \in pg_index : i.indexrelid = j.indexrelid => i = j
<1>1. ASSUME NEW x \in pg_index
      PROVE  \E r \in rows : \E i \in indexesOf(r) : x = indexRow(r, i)
  <2>1. keyedTables \subseteq rows
    BY DEF keyedTables
  <2>2. PICK X \in {{indexRow(r, i) : i \in indexesOf(r)} : r \in keyedTables} : x \in X
    BY IndexRows
  <2>3. PICK r \in keyedTables : X = {indexRow(r, i) : i \in indexesOf(r)}
    BY <2>2
  <2> QED  BY <2>1, <2>2, <2>3
<1>2. ASSUME NEW r \in rows, NEW i \in indexesOf(r), NEW q \in rows, NEW j \in indexesOf(q),
             indexRow(r, i).indexrelid = indexRow(q, j).indexrelid
      PROVE  indexRow(r, i) = indexRow(q, j)
  <2>1. r \in Nat /\ q \in Nat
    BY DEF CatalogInv
  <2>2. /\ indexSeq(r, i) \in Nat /\ indexSeq(r, i) < MaxRow
        /\ indexSeq(q, j) \in Nat /\ indexSeq(q, j) < MaxRow
    BY IndexNumbers
  <2>3. indexOid(r, indexSeq(r, i)) = indexOid(q, indexSeq(q, j))
    BY <1>2 DEF indexRow
  <2>4. r = q /\ indexSeq(r, i) = indexSeq(q, j)
    BY <2>1, <2>2, <2>3, IndexOids
  <2>5. i = j
    BY <2>4, IndexNumbers
  <2> QED  BY <2>4, <2>5
<1>3. ASSUME NEW x \in pg_index, NEW y \in pg_index, x.indexrelid = y.indexrelid
      PROVE  x = y
  <2>1. PICK r \in rows : \E i \in indexesOf(r) : x = indexRow(r, i)
    BY <1>1
  <2>2. PICK i \in indexesOf(r) : x = indexRow(r, i)
    BY <2>1
  <2>3. PICK q \in rows : \E j \in indexesOf(q) : y = indexRow(q, j)
    BY <1>1
  <2>4. PICK j \in indexesOf(q) : y = indexRow(q, j)
    BY <2>3
  <2> QED  BY <1>2, <1>3, <2>2, <2>4
<1> QED  BY <1>3

\* An oid of a constraint says which row it is made from, of which kind the
\* constraint is and, of foreign keys and UNIQUE constraints, which one.
LEMMA ConstraintOids ==
    ASSUME NEW r \in Nat, NEW q \in Nat, NEW a \in Nat, NEW b \in Nat,
           NEW s \in {"p", "f", "u"}, NEW t \in {"p", "f", "u"},
           s = "f" => a < 1000, t = "f" => b < 1000,
           s = "u" => a < MaxRow, t = "u" => b < MaxRow,
           constraintOid(r, s, a) = constraintOid(q, t, b)
    PROVE  r = q /\ s = t /\ (s # "p" => a = b)
<1> DEFINE off(k, n) == CASE k = "p" -> 1 [] k = "f" -> 1000 + n [] k = "u" -> 2000 + n
<1>1. MaxRow \in Nat /\ MaxRow <= 100000
  BY RoomAssumption
<1>2. r * 1000000 + off(s, a) = q * 1000000 + off(t, b)
  BY DEF constraintOid
<1>3. /\ off(s, a) \in Nat /\ off(s, a) < 1000000
      /\ off(t, b) \in Nat /\ off(t, b) < 1000000
  BY <1>1
<1>4. off(s, a) = off(t, b) => s = t /\ (s # "p" => a = b)
  OBVIOUS
<1> HIDE DEF off
<1>5. r = q /\ off(s, a) = off(t, b)
  BY <1>2, <1>3, SMT
<1> QED  BY <1>4, <1>5

\* The constraints that are not foreign keys.
keyRow(r)       == constraint(r, "p", 0, pkeyName(master[r].name), attnums(master[r].name, master[r].def.pk))
uniqueRow(r, i) == constraint(r, "u", indexSeq(r, i), master[i].name, attnums(master[r].name, master[i].def.uniques[1]))

\* The rows of pg_constraint, if its query succeeds, are the keys, foreign keys and
\* UNIQUEs of the tables.
LEMMA Constraints == pg_constraint \subseteq constraintRows /\ (~constraintsFail => pg_constraint = constraintRows)
  BY DEF pg_constraint

\* They are of three kinds.
LEMMA ConstraintRows ==
    ASSUME NEW x
    PROVE  x \in constraintRows <=>
              \E r \in keyedTables :
                 \/ r \in pks /\ x = keyRow(r)
                 \/ \E n \in fksOf(r) : x = foreignKey(r, n)
                 \/ \E i \in uniquesOf(r) : x = uniqueRow(r, i)
<1> DEFINE keys     == {keyRow(r) : r \in pks}
           foreigns == UNION {{foreignKey(r, n) : n \in fksOf(r)} : r \in keyedTables}
           uniques  == UNION {{uniqueRow(r, i) : i \in uniquesOf(r)} : r \in keyedTables}
<1>1. constraintRows = (keys \cup foreigns) \cup uniques
  BY DEF constraintRows, keyRow, uniqueRow
<1>2. x \in keys <=> \E r \in keyedTables : r \in pks /\ x = keyRow(r)
  BY DEF pks
<1>3. x \in foreigns <=> \E r \in keyedTables : \E n \in fksOf(r) : x = foreignKey(r, n)
  OBVIOUS
<1>4. x \in uniques <=> \E r \in keyedTables : \E i \in uniquesOf(r) : x = uniqueRow(r, i)
  OBVIOUS
<1> HIDE DEF keys, foreigns, uniques
<1> QED  BY <1>1, <1>2, <1>3, <1>4

\* Its oid is made from the table, the kind and the number, and it leads to the table.
LEMMA ConstraintFields ==
    ASSUME NEW r, NEW n
    PROVE  /\ keyRow(r).oid = constraintOid(r, "p", 0) /\ keyRow(r).conrelid = r
           /\ foreignKey(r, n).oid = constraintOid(r, "f", n) /\ foreignKey(r, n).conrelid = r
           /\ uniqueRow(r, n).oid = constraintOid(r, "u", indexSeq(r, n)) /\ uniqueRow(r, n).conrelid = r
<1>1. keyRow(r).oid = constraintOid(r, "p", 0) /\ keyRow(r).conrelid = r
  BY DEF keyRow, constraint
<1>2. foreignKey(r, n).oid = constraintOid(r, "f", n) /\ foreignKey(r, n).conrelid = r
  BY DEF foreignKey, constraint
<1>3. uniqueRow(r, n).oid = constraintOid(r, "u", indexSeq(r, n)) /\ uniqueRow(r, n).conrelid = r
  BY DEF uniqueRow, constraint
<1> QED  BY <1>1, <1>2, <1>3

\* The number of foreign keys of a table leaves room before the UNIQUE constraints.
LEMMA ForeignKeyNumbers ==
    ASSUME CatalogInv, NEW r \in rows, NEW n \in fksOf(r)
    PROVE  n \in Nat /\ n < 1000
  BY DEF CatalogInv, sane, sound, fksOf

\* Constraints have oids of their own.
LEMMA ConstraintOidsDistinct ==
    ASSUME CatalogInv
    PROVE  \A k, l \in constraintRows : k.oid = l.oid => k = l
<1> DEFINE made(x, r, t, n) ==
             /\ r \in rows /\ r \in Nat /\ n \in Nat
             /\ x.oid = constraintOid(r, t, n)
             /\ \/ t = "p" /\ x = keyRow(r)
                \/ t = "f" /\ n < 1000 /\ x = foreignKey(r, n)
                \/ t = "u" /\ n < MaxRow /\ \E i \in indexesOf(r) : n = indexSeq(r, i) /\ x = uniqueRow(r, i)
<1>1. ASSUME NEW x \in constraintRows
      PROVE  \E r, n : \E t \in {"p", "f", "u"} : made(x, r, t, n)
  <2>1. PICK r \in keyedTables :
           \/ x = keyRow(r)
           \/ \E n \in fksOf(r) : x = foreignKey(r, n)
           \/ \E i \in uniquesOf(r) : x = uniqueRow(r, i)
    BY ConstraintRows
  <2>2. r \in rows /\ r \in Nat
    BY DEF keyedTables, CatalogInv
  <2>3. CASE x = keyRow(r)
    <3>1. made(x, r, "p", 0)
      BY <2>2, <2>3, ConstraintFields
    <3> HIDE DEF made
    <3> QED  BY <3>1
  <2>4. CASE \E n \in fksOf(r) : x = foreignKey(r, n)
    <3>1. PICK n \in fksOf(r) : x = foreignKey(r, n)
      BY <2>4
    <3>2. made(x, r, "f", n)
      BY <2>2, <3>1, ConstraintFields, ForeignKeyNumbers
    <3> HIDE DEF made
    <3> QED  BY <3>2
  <2>5. CASE \E i \in uniquesOf(r) : x = uniqueRow(r, i)
    <3>1. PICK i \in indexesOf(r) : x = uniqueRow(r, i)
      BY <2>5 DEF uniquesOf
    <3>2. indexSeq(r, i) \in Nat /\ indexSeq(r, i) < MaxRow
      BY <2>2, IndexNumbers
    <3>3. made(x, r, "u", indexSeq(r, i))
      BY <2>2, <3>1, <3>2, ConstraintFields
    <3> HIDE DEF made
    <3> QED  BY <3>3
  <2> QED  BY <2>1, <2>3, <2>4, <2>5
<1>2. ASSUME NEW x, NEW y, NEW r, NEW q, NEW m, NEW n,
             NEW s \in {"p", "f", "u"}, NEW t \in {"p", "f", "u"},
             made(x, r, s, m), made(y, q, t, n), x.oid = y.oid
      PROVE  x = y
  <2>1. r = q /\ s = t /\ (s # "p" => m = n)
    <3>1. /\ r \in Nat /\ m \in Nat /\ x.oid = constraintOid(r, s, m)
          /\ s = "f" => m < 1000
          /\ s = "u" => m < MaxRow
      BY <1>2
    <3>2. /\ q \in Nat /\ n \in Nat /\ y.oid = constraintOid(q, t, n)
          /\ t = "f" => n < 1000
          /\ t = "u" => n < MaxRow
      BY <1>2
    <3>3. constraintOid(r, s, m) = constraintOid(q, t, n)
      BY <1>2, <3>1, <3>2
    <3> HIDE DEF made
    <3> QED  BY <3>1, <3>2, <3>3, ConstraintOids
  <2>2. CASE s = "p"
    BY <1>2, <2>1, <2>2
  <2>3. CASE s = "f"
    BY <1>2, <2>1, <2>3
  <2>4. CASE s = "u"
    <3>1. PICK i \in indexesOf(r) : m = indexSeq(r, i) /\ x = uniqueRow(r, i)
      BY <1>2, <2>4
    <3>2. PICK j \in indexesOf(r) : m = indexSeq(r, j) /\ y = uniqueRow(r, j)
      BY <1>2, <2>1, <2>4
    <3>3. r \in rows
      BY <1>2
    <3>4. i = j
      BY <3>1, <3>2, <3>3, IndexNumbers
    <3> QED  BY <3>1, <3>2, <3>4
  <2> QED  BY <2>2, <2>3, <2>4
<1> HIDE DEF made
<1> QED  BY <1>1, <1>2

\* No two constraints, and no two indexes of pg_index, ever have the same oid
\* (catalog.go:158, 177, 199, 217).
THEOREM Distinct == Spec => []OidsDistinct
<1>1. CatalogInv => OidsDistinct
  BY Constraints, ConstraintOidsDistinct, IndexOidsDistinct DEF OidsDistinct
<1> QED  BY <1>1, Invariance, PTL

\* The oid of a relation stays, whatever happens to others, until a VACUUM
\* (catalog.go:88-89).
THEOREM Kept == Spec => OidKept
<1>1. ASSUME CatalogInv, CatalogInv', stayed, NEW c \in pg_class, oidOf(c.relname)' # {}
      PROVE  oidOf(c.relname)' = {c.oid}
  <2>1. PICK p \in rows : ~auto(master[p]) /\ c.oid = p /\ c.relname = master[p].name
    <3>1. \A p \in rows : auto(master[p]) => Head(master[p].name) = "sqlite"
      BY <1>1, AutoHead DEF CatalogInv
    <3> QED  BY <3>1 DEF pg_class, relationOid, likeSqlite
  <2>2. ASSUME NEW d \in pg_class', d.relname = c.relname
        PROVE  d.oid = c.oid
    <3>1. PICK r \in rows' : ~auto(master'[r]) /\ d.oid = r /\ d.relname = master'[r].name
      <4>1. \A q \in rows' : auto(master'[q]) => Head(master'[q].name) = "sqlite"
        BY <1>1, AutoHead DEF CatalogInv
      <4> QED  BY <2>2, <4>1 DEF pg_class, relationOid, likeSqlite
    <3>2. master'[r].name = master[p].name
      BY <2>1, <2>2, <3>1
    <3>3. r \in rows /\ master'[r] = master[r]
      BY <1>1, <3>1, <3>2 DEF stayed, freeName
    <3>4. master[r].name = master[p].name => r = p
      BY <1>1, <3>3 DEF CatalogInv, NamesDistinct
    <3> QED  BY <2>1, <3>1, <3>2, <3>3, <3>4
  <2>3. oidOf(c.relname)' = {d.oid : d \in {e \in pg_class' : e.relname = c.relname}}
    BY DEF oidOf
  <2> QED  BY <1>1, <2>2, <2>3
<1>2. CatalogInv /\ [Next]_vars =>
        [Vacuum \/ \A c \in pg_class : oidOf(c.relname)' # {} => oidOf(c.relname)' = {c.oid}]_vars
  BY <1>1, StepInv
<1> QED  BY <1>2, Invariance, PTL DEF Spec, OidKept

\* The columns of pg_attribute are those of listed tables and views (catalog.go:130-154).
LEMMA Columns ==
    ASSUME NEW s, NEW a \in columnRows(s)
    PROVE  a.attrelid \in listedTables
<1> DEFINE row(r, k, oid, udt) == [attrelid |-> relationOid(r), attnum |-> k, atttypid |-> oid, udt_name |-> udt]
           rowsOf(r, k) ==
             LET decl == <<columnsIn(r)[k].decl>>
             IN IF enumCols(s, r, k) = {} THEN {row(r, k, oidForType(decl), <<sqliteDeclToUDT(decl)>>)}
                ELSE {row(r, k, e.oid, e.of.typname) : e \in enumCols(s, r, k)}
<1>1. a \in UNION {UNION {rowsOf(r, k) : k \in DOMAIN columnsIn(r)} : r \in listedTables}
  BY Zenon DEF columnRows
<1>2. ASSUME NEW r, NEW k, NEW b \in rowsOf(r, k) PROVE b.attrelid = r
  BY DEF relationOid
<1> HIDE DEF rowsOf
<1>3. PICK X \in {UNION {rowsOf(r, k) : k \in DOMAIN columnsIn(r)} : r \in listedTables} : a \in X
  BY <1>1
<1>4. PICK r \in listedTables : X = UNION {rowsOf(r, k) : k \in DOMAIN columnsIn(r)}
  BY <1>3
<1>5. PICK Y \in {rowsOf(r, k) : k \in DOMAIN columnsIn(r)} : a \in Y
  BY <1>3, <1>4
<1>6. PICK k \in DOMAIN columnsIn(r) : Y = rowsOf(r, k)
  BY <1>5
<1> QED  BY <1>2, <1>4, <1>5, <1>6

\* What the catalog says belongs to a table belongs to one of pg_class, unless its
\* name looks like one of SQLite's: whatever the schema has become, with virtual
\* tables about (catalog.go:52-54, 154, 174).
THEOREM Resolved == Spec => []RelationsResolve
<1> DEFINE listed(oid)  == \E c \in pg_class : c.oid = oid /\ c.relkind \in {"table", "view"}
           lookalike(r) == Head(master[r].name) \in Lookalikes
<1>1. ASSUME NEW r \in rows, ~likeSqlite(r), notVirtual(r), master[r].type \in {"table", "view"}
      PROVE  listed(r)
  <2> DEFINE c == [oid |-> relationOid(r), relname |-> master[r].name, relkind |-> master[r].type]
  <2>1. c \in pg_class
    BY <1>1 DEF pg_class
  <2>2. c.oid = r /\ c.relkind = master[r].type
    BY DEF relationOid
  <2> QED  BY <1>1, <2>1, <2>2
<1>2. ASSUME CatalogInv, NEW r \in keyedTables PROVE listed(r) \/ lookalike(r)
  <2>1. r \in rows /\ master[r].type = "table" /\ notVirtual(r)
    BY DEF keyedTables, isTable
  <2>2. likeSqlite(r) => lookalike(r)
    <3>1. Head(master[r].name) # "sqlite"
      BY <1>2, <2>1, AutoHead DEF CatalogInv, auto
    <3> QED  BY <3>1 DEF likeSqlite
  <2> HIDE DEF listed, lookalike
  <2> QED  BY <1>1, <2>1, <2>2
<1>3. ASSUME NEW s, NEW a \in columnRows(s) PROVE listed(a.attrelid)
  BY <1>1, Columns DEF listedTables
<1>4. ASSUME CatalogInv, NEW i \in pg_index PROVE listed(i.indrelid) \/ lookalike(i.indrelid)
  <2>1. PICK X \in {{indexRow(r, j) : j \in indexesOf(r)} : r \in keyedTables} : i \in X
    BY IndexRows
  <2>2. PICK r \in keyedTables : X = {indexRow(r, j) : j \in indexesOf(r)}
    BY <2>1
  <2>3. i.indrelid = r
    BY <2>1, <2>2 DEF indexRow
  <2> QED  BY <1>2, <1>4, <2>3
<1>5. ASSUME CatalogInv, NEW k \in pg_constraint PROVE listed(k.conrelid) \/ lookalike(k.conrelid)
  <2>1. PICK r \in keyedTables :
           \/ k = keyRow(r)
           \/ \E n \in fksOf(r) : k = foreignKey(r, n)
           \/ \E i \in uniquesOf(r) : k = uniqueRow(r, i)
    BY Constraints, ConstraintRows
  <2>2. k.conrelid = r
    BY <2>1, ConstraintFields
  <2> QED  BY <1>2, <1>5, <2>1, <2>2
<1>6. CatalogInv => RelationsResolve
  BY <1>3, <1>4, <1>5 DEF RelationsResolve
<1> QED  BY <1>6, Invariance, PTL
------------------------------------------------------------------------------
(* The names of constraints.                                                 *)

\* Two pieces after a sequence, one after the other.
LEMMA TwoPieces ==
    ASSUME NEW s, isSeq(s), NEW a, NEW b
    PROVE  s \o <<a, b>> = (s \o <<a>>) \o <<b>>
<1>1. PICK S : s \in Seq(S)
  BY DEF isSeq
<1> DEFINE U == S \cup {a, b}
<1>2. S \subseteq U /\ a \in U /\ b \in U
  OBVIOUS
<1> HIDE DEF U
<1>3. s \in Seq(U) /\ <<a>> \in Seq(U) /\ <<b>> \in Seq(U)
  BY <1>1, <1>2, SeqMonotonic
<1>4. <<a>> \o <<b>> = <<a, b>>
  <2> DEFINE u == <<a>> \o <<b>>
             v == <<a, b>>
  <2>1. Len(<<a>>) = 1 /\ <<a>>[1] = a /\ Len(<<b>>) = 1 /\ <<b>>[1] = b
    OBVIOUS
  <2>2. u \in Seq(U) /\ Len(u) = 2 /\ u[1] = a /\ u[2] = b
    BY <1>3, <2>1, ConcatProperties
  <2>3. v \in Seq(U) /\ Len(v) = 2 /\ v[1] = a /\ v[2] = b
    BY <1>2
  <2> HIDE DEF u, v
  <2>4. u = v
    BY <2>2, <2>3, SeqEqual
  <2> QED  BY <2>4 DEF u, v
<1>5. (s \o <<a>>) \o <<b>> = s \o (<<a>> \o <<b>>)
  BY <1>3, ConcatAssociative
<1> QED  BY <1>4, <1>5

\* The name of a constraint tells its kind, its table and its number.
LEMMA KeyNames ==
    ASSUME NEW s, plainName(s), NEW t, plainName(t)
    PROVE  /\ plainName(pkeyName(s))
           /\ pkeyName(s) = pkeyName(t) => s = t
           /\ \A m \in DOMAIN Decimal : plainName(fkeyName(s, m)) /\ pkeyName(t) # fkeyName(s, m)
           /\ \A m, n \in DOMAIN Decimal : fkeyName(s, m) = fkeyName(t, n) => s = t /\ m = n
<1> DEFINE pkey == <<"pkey">>
           fkey == <<"fkey">>
<1>1. isPiece(pkey) /\ isPiece(fkey) /\ pkey[1] # fkey[1]
  BY Pieces DEF isPiece
<1>2. isSeq(s) /\ isSeq(t) /\ plainName(s \o pkey)
  BY PlainAppended DEF plainName
<1>3. pkeyName(s) = s \o pkey /\ pkeyName(t) = t \o pkey
  BY DEF pkeyName
<1> HIDE DEF pkey, fkey
<1>4. isPiece(pkey) /\ isPiece(fkey)
  BY <1>1
<1>5. s \o pkey = t \o pkey => s = t
  BY <1>2, <1>4, AppendTells
<1>6. ASSUME NEW m \in DOMAIN Decimal PROVE plainName(fkeyName(s, m)) /\ pkeyName(t) # fkeyName(s, m)
  <2> DEFINE x == s \o <<Decimal[m]>>
  <2>1. plainName(x) /\ plainName(x \o fkey)
    BY PlainAppended DEF fkey
  <2>2. isSeq(x)
    BY <2>1 DEF plainName
  <2>3. fkeyName(s, m) = x \o fkey
    BY <1>2, TwoPieces DEF fkeyName, fkey
  <2> HIDE DEF x
  <2>4. t \o pkey = x \o fkey => t = x /\ pkey[1] = fkey[1]
    BY <1>2, <1>4, <2>2, AppendTells
  <2> QED  BY <1>1, <1>3, <2>1, <2>3, <2>4
<1>7. ASSUME NEW m \in DOMAIN Decimal, NEW n \in DOMAIN Decimal, fkeyName(s, m) = fkeyName(t, n)
      PROVE  s = t /\ m = n
  <2> DEFINE a == <<Decimal[m]>>
             b == <<Decimal[n]>>
             x == s \o a
             y == t \o b
  <2>1. isPiece(a) /\ a[1] = Decimal[m] /\ isPiece(b) /\ b[1] = Decimal[n]
    BY Pieces DEF isPiece
  <2>2. isSeq(x) /\ isSeq(y)
    BY PlainAppended DEF plainName
  <2>3. x \o fkey = y \o fkey
    BY <1>2, <1>7, TwoPieces DEF fkeyName, fkey
  <2> HIDE DEF a, b
  <2>4. isPiece(a) /\ isPiece(b)
    BY <2>1
  <2>5. x = y => s = t /\ a[1] = b[1]
    BY <1>2, <2>4, AppendTells
  <2> HIDE DEF x, y
  <2>6. x \o fkey = y \o fkey => x = y
    BY <1>4, <2>2, AppendTells
  <2> QED  BY <2>1, <2>3, <2>5, <2>6, DecimalAssumption
<1> QED  BY <1>2, <1>3, <1>5, <1>6, <1>7

\* Tables have names that are not SQLite's own, and numbers for their foreign keys.
LEMMA TableNamed ==
    ASSUME CatalogInv, NEW r \in keyedTables
    PROVE  /\ r \in rows /\ isTable(r) /\ plainName(master[r].name)
           /\ fksOf(r) \subseteq DOMAIN Decimal
  BY DEF keyedTables, isTable, CatalogInv, sane, wellNamed, auto, fksOf

\* Indexes of UNIQUE constraints have SQLite's names.
LEMMA UniqueNamed ==
    ASSUME CatalogInv, NEW r \in rows, NEW i \in uniquesOf(r)
    PROVE  i \in rows /\ master[i].table = master[r].name /\ ~plainName(master[i].name)
<1>1. i \in rows /\ master[i].table = master[r].name /\ auto(master[i])
  BY DEF uniquesOf, indexesOf, auto
<1>2. isSeq(master[i].table) /\ \E k \in DOMAIN Decimal : master[i].name = autoName(master[i].table, k)
  BY <1>1 DEF CatalogInv, wellNamed
<1> QED  BY <1>1, <1>2, AutoNames

------------------------------------------------------------------------------
(* pg_constraint and information_schema.                                     *)

\* The rows of the views, each made from a table and one of its keys.
tableRow(name, r, type) ==
    [constraint_name |-> name, table_name |-> master[r].name, constraint_type |-> type]

keyColumn(r, k) ==
    [constraint_name |-> pkeyName(master[r].name), table_name |-> master[r].name,
     column_name |-> master[r].def.pk[k], ordinal_position |-> k]

foreignColumn(r, n, k) ==
    [constraint_name |-> fkeyName(master[r].name, n), table_name |-> master[r].name,
     column_name |-> master[r].def.fks[n + 1].from[k], ordinal_position |-> k]

\* They are all of table_constraints,
LEMMA TableRows ==
    ASSUME NEW x
    PROVE  x \in table_constraints <=>
              \E r \in keyedTables :
                 \/ r \in pks /\ x = tableRow(pkeyName(master[r].name), r, "p")
                 \/ \E n \in fksOf(r) : x = tableRow(fkeyName(master[r].name, n), r, "f")
                 \/ \E i \in uniquesOf(r) : x = tableRow(master[i].name, r, "u")
<1> DEFINE key(r)        == tableRow(pkeyName(master[r].name), r, "p")
           foreign(r, n) == tableRow(fkeyName(master[r].name, n), r, "f")
           unique(r, i)  == tableRow(master[i].name, r, "u")
           keys     == {key(r) : r \in pks}
           foreigns == UNION {{foreign(r, n) : n \in fksOf(r)} : r \in keyedTables}
           uniques  == UNION {{unique(r, i) : i \in uniquesOf(r)} : r \in keyedTables}
<1>1. table_constraints = (keys \cup foreigns) \cup uniques
  BY DEF table_constraints, tableRow
<1> HIDE DEF key, foreign, unique
<1>2. x \in keys <=> \E r \in keyedTables : r \in pks /\ x = key(r)
  BY DEF pks
<1>3. x \in foreigns <=> \E r \in keyedTables : \E n \in fksOf(r) : x = foreign(r, n)
  OBVIOUS
<1>4. x \in uniques <=> \E r \in keyedTables : \E i \in uniquesOf(r) : x = unique(r, i)
  OBVIOUS
<1> HIDE DEF keys, foreigns, uniques
<1> QED  BY <1>1, <1>2, <1>3, <1>4 DEF key, foreign, unique

\* and all of key_column_usage.
LEMMA KeyColumns ==
    ASSUME NEW x
    PROVE  x \in key_column_usage <=>
              \E r \in keyedTables :
                 \/ \E k \in DOMAIN master[r].def.pk : x = keyColumn(r, k)
                 \/ \E n \in fksOf(r) : \E k \in DOMAIN master[r].def.fks[n + 1].from : x = foreignColumn(r, n, k)
<1> DEFINE ofKey(r)        == {keyColumn(r, k) : k \in DOMAIN master[r].def.pk}
           ofForeign(r, n) == {foreignColumn(r, n, k) : k \in DOMAIN master[r].def.fks[n + 1].from}
           keys     == UNION {ofKey(r) : r \in keyedTables}
           foreigns == UNION {UNION {ofForeign(r, n) : n \in fksOf(r)} : r \in keyedTables}
<1>1. key_column_usage = keys \cup foreigns
  BY DEF key_column_usage, keyColumn, foreignColumn, pkPosition
<1> HIDE DEF ofKey, ofForeign
<1>2. x \in keys <=> \E r \in keyedTables : x \in ofKey(r)
  OBVIOUS
<1>3. x \in foreigns <=> \E r \in keyedTables : \E n \in fksOf(r) : x \in ofForeign(r, n)
  OBVIOUS
<1> HIDE DEF keys, foreigns
<1>4. \A r : x \in ofKey(r) <=> \E k \in DOMAIN master[r].def.pk : x = keyColumn(r, k)
  BY DEF ofKey
<1>5. \A r, n : x \in ofForeign(r, n) <=> \E k \in DOMAIN master[r].def.fks[n + 1].from : x = foreignColumn(r, n, k)
  BY DEF ofForeign
<1> QED  BY <1>1, <1>2, <1>3, <1>4, <1>5

\* What the rows of pg_constraint say.
LEMMA ConstraintNames ==
    ASSUME NEW r, NEW n
    PROVE  /\ keyRow(r).contype = "p" /\ keyRow(r).conrelid = r /\ keyRow(r).conname = pkeyName(master[r].name)
           /\ keyRow(r).conkey = attnums(master[r].name, master[r].def.pk)
           /\ foreignKey(r, n).contype = "f" /\ foreignKey(r, n).conrelid = r /\ foreignKey(r, n).n = n
           /\ foreignKey(r, n).conname = fkeyName(master[r].name, n)
           /\ foreignKey(r, n).conkey = attnums(master[r].name, master[r].def.fks[n + 1].from)
           /\ uniqueRow(r, n).contype = "u" /\ uniqueRow(r, n).conrelid = r /\ uniqueRow(r, n).conname = master[n].name
  BY DEF keyRow, foreignKey, uniqueRow, constraint

\* Both catalogs have the same constraints.
LEMMA SameConstraints ==
    table_constraints = {[constraint_name |-> c.conname, table_name |-> master[c.conrelid].name,
                          constraint_type |-> c.contype] : c \in constraintRows}
<1> DEFINE told(c) == tableRow(c.conname, c.conrelid, c.contype)
<1>1. \A r, n : /\ told(keyRow(r)) = tableRow(pkeyName(master[r].name), r, "p")
                /\ told(foreignKey(r, n)) = tableRow(fkeyName(master[r].name, n), r, "f")
                /\ told(uniqueRow(r, n)) = tableRow(master[n].name, r, "u")
  BY ConstraintNames
<1> HIDE DEF told
<1>2. ASSUME NEW x \in table_constraints PROVE \E c \in constraintRows : x = told(c)
  <2>1. PICK r \in keyedTables :
           \/ r \in pks /\ x = tableRow(pkeyName(master[r].name), r, "p")
           \/ \E n \in fksOf(r) : x = tableRow(fkeyName(master[r].name, n), r, "f")
           \/ \E i \in uniquesOf(r) : x = tableRow(master[i].name, r, "u")
    BY TableRows
  <2>2. CASE r \in pks /\ x = tableRow(pkeyName(master[r].name), r, "p")
    BY <1>1, <2>2, ConstraintRows
  <2>3. CASE \E n \in fksOf(r) : x = tableRow(fkeyName(master[r].name, n), r, "f")
    BY <1>1, <2>3, ConstraintRows
  <2>4. CASE \E i \in uniquesOf(r) : x = tableRow(master[i].name, r, "u")
    BY <1>1, <2>4, ConstraintRows
  <2> QED  BY <2>1, <2>2, <2>3, <2>4
<1>3. ASSUME NEW c \in constraintRows PROVE told(c) \in table_constraints
  <2>1. PICK r \in keyedTables :
           \/ r \in pks /\ c = keyRow(r)
           \/ \E n \in fksOf(r) : c = foreignKey(r, n)
           \/ \E i \in uniquesOf(r) : c = uniqueRow(r, i)
    BY ConstraintRows
  <2> QED  BY <1>1, <2>1, TableRows
<1>4. table_constraints = {told(c) : c \in constraintRows}
  BY <1>2, <1>3
<1> QED  BY <1>4 DEF told, tableRow

\* Constraints of one name are one.
LEMMA ConstraintsNamed ==
    ASSUME CatalogInv, NEW c \in table_constraints, NEW d \in table_constraints,
           c.constraint_name = d.constraint_name
    PROVE  c = d
<1> DEFINE made(x, r, type) ==
             \/ type = "p" /\ x = tableRow(pkeyName(master[r].name), r, "p")
             \/ type = "f" /\ \E n \in fksOf(r) : x = tableRow(fkeyName(master[r].name, n), r, "f")
             \/ type = "u" /\ \E i \in uniquesOf(r) : x = tableRow(master[i].name, r, "u")
<1>1. \A x \in table_constraints : \E r \in keyedTables : \E type \in {"p", "f", "u"} : made(x, r, type)
  BY TableRows
<1>2. \A name, r, type : tableRow(name, r, type).constraint_name = name
  BY DEF tableRow
<1>3. PICK r \in keyedTables, s \in {"p", "f", "u"} : made(c, r, s)
  BY <1>1
<1>4. PICK q \in keyedTables, t \in {"p", "f", "u"} : made(d, q, t)
  BY <1>1
<1>5. /\ plainName(master[r].name) /\ fksOf(r) \subseteq DOMAIN Decimal
      /\ plainName(master[q].name) /\ fksOf(q) \subseteq DOMAIN Decimal
      /\ r \in rows /\ q \in rows
  BY TableNamed
<1>6. s = t
  <2>1. ASSUME NEW x, NEW p \in keyedTables, made(x, p, "u") PROVE ~plainName(x.constraint_name)
    BY <1>2, <2>1, TableNamed, UniqueNamed
  <2>2. ASSUME NEW x, NEW p \in keyedTables, made(x, p, "p") \/ made(x, p, "f") PROVE plainName(x.constraint_name)
    BY <1>2, <2>2, TableNamed, KeyNames
  <2>3. ASSUME NEW x, NEW y, NEW o \in keyedTables, NEW p \in keyedTables, made(x, o, "p"), made(y, p, "f")
        PROVE  x.constraint_name # y.constraint_name
    BY <1>2, <2>3, TableNamed, KeyNames
  <2> HIDE DEF made
  <2> QED  BY <1>3, <1>4, <2>1, <2>2, <2>3
<1>7. CASE s = "p"
  <2>1. /\ c = tableRow(pkeyName(master[r].name), r, "p") /\ d = tableRow(pkeyName(master[q].name), q, "p")
    BY <1>3, <1>4, <1>6, <1>7
  <2>2. master[r].name = master[q].name
    BY <1>2, <1>5, <2>1, KeyNames
  <2> QED  BY <2>1, <2>2 DEF tableRow
<1>8. CASE s = "f"
  <2>1. PICK m \in fksOf(r), n \in fksOf(q) :
           c = tableRow(fkeyName(master[r].name, m), r, "f") /\ d = tableRow(fkeyName(master[q].name, n), q, "f")
    BY <1>3, <1>4, <1>6, <1>8
  <2>2. master[r].name = master[q].name
    BY <1>2, <1>5, <2>1, KeyNames
  <2> QED  BY <2>1, <2>2, <1>2 DEF tableRow
<1>9. CASE s = "u"
  <2>1. PICK i \in uniquesOf(r), j \in uniquesOf(q) :
           c = tableRow(master[i].name, r, "u") /\ d = tableRow(master[j].name, q, "u")
    BY <1>3, <1>4, <1>6, <1>9
  <2>2. i \in rows /\ j \in rows /\ master[i].name = master[j].name
    BY <1>2, <1>5, <2>1, UniqueNamed
  <2>3. i = j
    BY <2>2 DEF CatalogInv, NamesDistinct
  <2>4. master[r].name = master[q].name
    BY <1>5, <2>3, UniqueNamed
  <2> QED  BY <2>1, <2>3, <2>4 DEF tableRow
<1> QED  BY <1>7, <1>8, <1>9

\* A lookup keeps the places of the columns looked up.
LEMMA Lookups ==
    ASSUME NEW table, NEW columns
    PROVE  /\ DOMAIN attnums(table, columns) = DOMAIN columns
           /\ \A k \in DOMAIN columns : attnums(table, columns)[k] = attnum(table, columns[k])
  BY DEF attnums

\* Keys and foreign keys of one name are of one table, and are one.
LEMMA SameName ==
    ASSUME CatalogInv, NEW r \in keyedTables, NEW q \in keyedTables
    PROVE  /\ pkeyName(master[q].name) = pkeyName(master[r].name) => q = r
           /\ \A n \in fksOf(r) : pkeyName(master[q].name) # fkeyName(master[r].name, n)
           /\ \A m \in fksOf(q), n \in fksOf(r) :
                fkeyName(master[q].name, m) = fkeyName(master[r].name, n) => q = r /\ m = n
<1>1. /\ plainName(master[r].name) /\ fksOf(r) \subseteq DOMAIN Decimal /\ r \in rows
      /\ plainName(master[q].name) /\ fksOf(q) \subseteq DOMAIN Decimal /\ q \in rows
  BY TableNamed
<1>2. master[q].name = master[r].name => q = r
  BY <1>1 DEF CatalogInv, NamesDistinct
<1> QED  BY <1>1, <1>2, KeyNames

\* The columns of a key are, in both catalogs, the same in the same places,
LEMMA KeyColumnsAgree ==
    ASSUME CatalogInv, NEW r \in pks
    PROVE  {<<u.ordinal_position, attnum(u.table_name, u.column_name)>> :
              u \in {v \in key_column_usage : v.constraint_name = keyRow(r).conname}}
             = {<<k, keyRow(r).conkey[k]>> : k \in DOMAIN keyRow(r).conkey}
<1> DEFINE t  == master[r].name
           pk == master[r].def.pk
           us == {v \in key_column_usage : v.constraint_name = keyRow(r).conname}
           told(u) == <<u.ordinal_position, attnum(u.table_name, u.column_name)>>
<1>1. /\ r \in keyedTables /\ keyRow(r).conname = pkeyName(t)
      /\ DOMAIN keyRow(r).conkey = DOMAIN pk
      /\ \A k \in DOMAIN pk : keyRow(r).conkey[k] = attnum(t, pk[k])
  BY ConstraintNames, Lookups DEF pks
<1>2. \A k \in DOMAIN pk : keyColumn(r, k) \in us /\ told(keyColumn(r, k)) = <<k, attnum(t, pk[k])>>
  <2>1. \A k \in DOMAIN pk : keyColumn(r, k) \in key_column_usage
    BY <1>1, KeyColumns
  <2> QED  BY <1>1, <2>1 DEF keyColumn
<1>3. ASSUME NEW u \in us PROVE \E k \in DOMAIN pk : u = keyColumn(r, k)
  <2>1. u \in key_column_usage /\ u.constraint_name = pkeyName(t)
    BY <1>1
  <2>2. PICK q \in keyedTables :
           \/ \E k \in DOMAIN master[q].def.pk : u = keyColumn(q, k)
           \/ \E n \in fksOf(q) : \E k \in DOMAIN master[q].def.fks[n + 1].from : u = foreignColumn(q, n, k)
    BY <2>1, KeyColumns
  <2>3. CASE \E k \in DOMAIN master[q].def.pk : u = keyColumn(q, k)
    <3>1. pkeyName(master[q].name) = pkeyName(t)
      BY <2>1, <2>3 DEF keyColumn
    <3>2. q = r
      BY <1>1, <3>1, SameName
    <3> QED  BY <2>3, <3>2
  <2>4. CASE \E n \in fksOf(q) : \E k \in DOMAIN master[q].def.fks[n + 1].from : u = foreignColumn(q, n, k)
    <3>1. PICK n \in fksOf(q) : fkeyName(master[q].name, n) = pkeyName(t)
      BY <2>1, <2>4 DEF foreignColumn
    <3> QED  BY <1>1, <3>1, SameName
  <2> QED  BY <2>2, <2>3, <2>4
<1> HIDE DEF us, told, pk, t
<1>4. {told(u) : u \in us} = {<<k, keyRow(r).conkey[k]>> : k \in DOMAIN keyRow(r).conkey}
  BY <1>1, <1>2, <1>3
<1> QED  BY <1>4 DEF us, told

\* and so are those of a foreign key.
LEMMA ForeignColumnsAgree ==
    ASSUME CatalogInv, NEW r \in keyedTables, NEW n \in fksOf(r)
    PROVE  {<<u.ordinal_position, attnum(u.table_name, u.column_name)>> :
              u \in {v \in key_column_usage : v.constraint_name = foreignKey(r, n).conname}}
             = {<<k, foreignKey(r, n).conkey[k]>> : k \in DOMAIN foreignKey(r, n).conkey}
<1> DEFINE t    == master[r].name
           from == master[r].def.fks[n + 1].from
           us   == {v \in key_column_usage : v.constraint_name = foreignKey(r, n).conname}
           told(u) == <<u.ordinal_position, attnum(u.table_name, u.column_name)>>
<1>1. /\ foreignKey(r, n).conname = fkeyName(t, n)
      /\ DOMAIN foreignKey(r, n).conkey = DOMAIN from
      /\ \A k \in DOMAIN from : foreignKey(r, n).conkey[k] = attnum(t, from[k])
  BY ConstraintNames, Lookups
<1>2. \A k \in DOMAIN from : /\ foreignColumn(r, n, k) \in us
                             /\ told(foreignColumn(r, n, k)) = <<k, attnum(t, from[k])>>
  <2>1. \A k \in DOMAIN from : foreignColumn(r, n, k) \in key_column_usage
    BY KeyColumns
  <2> QED  BY <1>1, <2>1 DEF foreignColumn
<1>3. ASSUME NEW u \in us PROVE \E k \in DOMAIN from : u = foreignColumn(r, n, k)
  <2>1. u \in key_column_usage /\ u.constraint_name = fkeyName(t, n)
    BY <1>1
  <2>2. PICK q \in keyedTables :
           \/ \E k \in DOMAIN master[q].def.pk : u = keyColumn(q, k)
           \/ \E m \in fksOf(q) : \E k \in DOMAIN master[q].def.fks[m + 1].from : u = foreignColumn(q, m, k)
    BY <2>1, KeyColumns
  <2>3. CASE \E k \in DOMAIN master[q].def.pk : u = keyColumn(q, k)
    <3>1. pkeyName(master[q].name) = fkeyName(t, n)
      BY <2>1, <2>3 DEF keyColumn
    <3> QED  BY <3>1, SameName
  <2>4. CASE \E m \in fksOf(q) : \E k \in DOMAIN master[q].def.fks[m + 1].from : u = foreignColumn(q, m, k)
    <3>1. PICK m \in fksOf(q) : \E k \in DOMAIN master[q].def.fks[m + 1].from : u = foreignColumn(q, m, k)
      BY <2>4
    <3>2. fkeyName(master[q].name, m) = fkeyName(t, n)
      BY <2>1, <3>1 DEF foreignColumn
    <3>3. q = r /\ m = n
      BY <3>2, SameName
    <3> QED  BY <3>1, <3>3
  <2> QED  BY <2>2, <2>3, <2>4
<1> HIDE DEF us, told, from, t
<1>4. {told(u) : u \in us} = {<<k, foreignKey(r, n).conkey[k]>> : k \in DOMAIN foreignKey(r, n).conkey}
  BY <1>1, <1>2, <1>3
<1> QED  BY <1>4 DEF us, told

\* pg_constraint and information_schema tell the same constraints, with the same
\* columns in the same order, whatever has been created, dropped and renumbered,
\* unless the query over pg_constraint fails (catalog.go:174-236,
\* catalog_information_schema.go:73-130).
THEOREM Agreed == Spec => []KeysAgree
<1>1. ASSUME CatalogInv, NEW c \in pg_constraint, c.contype # "u"
      PROVE  {<<u.ordinal_position, attnum(u.table_name, u.column_name)>> :
                u \in {v \in key_column_usage : v.constraint_name = c.conname}}
               = {<<k, c.conkey[k]>> : k \in DOMAIN c.conkey}
  <2>1. PICK r \in keyedTables :
           \/ r \in pks /\ c = keyRow(r)
           \/ \E n \in fksOf(r) : c = foreignKey(r, n)
           \/ \E i \in uniquesOf(r) : c = uniqueRow(r, i)
    BY Constraints, ConstraintRows
  <2>2. CASE r \in pks /\ c = keyRow(r)
    BY <1>1, <2>2, KeyColumnsAgree
  <2>3. CASE \E n \in fksOf(r) : c = foreignKey(r, n)
    <3>1. PICK n \in fksOf(r) : c = foreignKey(r, n)
      BY <2>3
    <3> QED  BY <1>1, <3>1, ForeignColumnsAgree
  <2>4. CASE \E i \in uniquesOf(r) : c = uniqueRow(r, i)
    BY <1>1, <2>4, ConstraintNames
  <2> QED  BY <2>1, <2>2, <2>3, <2>4
<1>2. CatalogInv => KeysAgree
  BY <1>1, Constraints, SameConstraints, ConstraintsNamed DEF KeysAgree
<1> QED  BY <1>2, Invariance, PTL

------------------------------------------------------------------------------
(* The parents of foreign keys.                                              *)

\* The columns a foreign key names, or the first of its parent's key.
usedColumns(fk) ==
    LET keys == {master[r].def.pk[1] : r \in {p \in tableNamed(meant(fk.to)) : master[p].def.pk # <<>>}}
    IN IF fk.cols = <<>> THEN (IF keys = {} THEN {NullName} ELSE keys) ELSE Range(fk.cols)

\* The rows of constraint_column_usage, if its query succeeds.
LEMMA UsageRows ==
    ASSUME NEW x
    PROVE  x \in usageRows <=>
              \E r \in keyedTables :
                 \/ \E n \in fksOf(r) : \E c \in usedColumns(master[r].def.fks[n + 1]) :
                      x = [table_name |-> master[r].def.fks[n + 1].to, column_name |-> c,
                           constraint_name |-> fkeyName(master[r].name, n)]
                 \/ r \in pks /\ \E c \in Range(master[r].def.pk) :
                      x = [table_name |-> master[r].name, column_name |-> c,
                           constraint_name |-> pkeyName(master[r].name)]
<1> DEFINE row(table, column, name) == [table_name |-> table, column_name |-> column, constraint_name |-> name]
           ofForeign(r, n) == {row(master[r].def.fks[n + 1].to, c, fkeyName(master[r].name, n)) :
                                 c \in usedColumns(master[r].def.fks[n + 1])}
           ofKey(r) == {row(master[r].name, c, pkeyName(master[r].name)) : c \in Range(master[r].def.pk)}
           foreigns == UNION {UNION {ofForeign(r, n) : n \in fksOf(r)} : r \in keyedTables}
           keys     == UNION {ofKey(r) : r \in pks}
<1>1. usageRows = foreigns \cup keys
  BY Zenon DEF usageRows, usedColumns
<1>2. \A r, n : x \in ofForeign(r, n) <=>
                  \E c \in usedColumns(master[r].def.fks[n + 1]) :
                     x = row(master[r].def.fks[n + 1].to, c, fkeyName(master[r].name, n))
  OBVIOUS
<1>3. \A r : x \in ofKey(r) <=>
               \E c \in Range(master[r].def.pk) : x = row(master[r].name, c, pkeyName(master[r].name))
  OBVIOUS
<1> HIDE DEF ofForeign, ofKey, row
<1>4. x \in foreigns <=> \E r \in keyedTables : \E n \in fksOf(r) : x \in ofForeign(r, n)
  OBVIOUS
<1>5. x \in keys <=> \E r \in keyedTables : r \in pks /\ x \in ofKey(r)
  BY DEF pks
<1> HIDE DEF foreigns, keys
<1> QED  BY <1>1, <1>2, <1>3, <1>4, <1>5 DEF row

\* and of referential_constraints.
LEMMA ReferenceRows ==
    ASSUME NEW x
    PROVE  x \in referential_constraints <=>
              \E r \in keyedTables : \E n \in fksOf(r) :
                 x = [constraint_name |-> fkeyName(master[r].name, n),
                      unique_constraint_name |-> pkeyName(master[r].def.fks[n + 1].to)]
<1> DEFINE row(r, n) == [constraint_name |-> fkeyName(master[r].name, n),
                         unique_constraint_name |-> pkeyName(master[r].def.fks[n + 1].to)]
<1>1. referential_constraints = UNION {{row(r, n) : n \in fksOf(r)} : r \in keyedTables}
  BY DEF referential_constraints
<1> HIDE DEF row
<1>2. x \in UNION {{row(r, n) : n \in fksOf(r)} : r \in keyedTables}
        <=> \E r \in keyedTables : \E n \in fksOf(r) : x = row(r, n)
  OBVIOUS
<1> QED  BY <1>1, <1>2 DEF row

\* Nothing of the name, and nothing else of the name.
LEMMA Parents ==
    ASSUME CatalogInv, NEW name
    PROVE  LET parents == {p \in rows : master[p].name = name}
           IN /\ parents = {} <=> freeName(name)
              /\ \A p \in parents : p # Null /\ parents = {p}
              /\ \A p \in tableNamed(name) : p \in parents /\ tableNamed(name) = {p}
<1>1. \A p \in rows : p # Null
  BY MaxRowNat DEF CatalogInv, Null
<1>2. \A p, r \in rows : master[p].name = master[r].name => p = r
  BY DEF CatalogInv, NamesDistinct
<1> QED  BY <1>1, <1>2 DEF freeName, tableNamed

\* The place of a column in the table of that name, if it has it.
LEMMA ColumnPlaces ==
    ASSUME CatalogInv, NEW name, NEW p \in tableNamed(name), NEW column
    PROVE  LET columns == master[p].def.columns
               k == attnum(name, column)
           IN IF \E d \in Range(columns) : d.name = column
              THEN k \in DOMAIN columns /\ columns[k].name = column
              ELSE k \notin DOMAIN columns
<1> DEFINE columns == master[p].def.columns
           at(r)   == {k \in DOMAIN columnsIn(r) : columnsIn(r)[k].name = column}
           found   == UNION {at(r) : r \in described(name)}
<1>1. attnum(name, column) = IF found = {} THEN Null ELSE CHOOSE k \in found : TRUE
  BY DEF attnum
<1>2. described(name) = {p}
  BY DEF described, tableNamed, isTable, CatalogInv, NamesDistinct
<1>8. columnsIn(p) = columns
  <2>1. isTable(p) /\ {p} # {} /\ (CHOOSE t \in {p} : TRUE) = p
    BY DEF tableNamed
  <2> HIDE DEF columns
  <2>2. columnsIn(p) = master[p].def.columns
    BY <2>1 DEF columnsIn
  <2> QED  BY <2>2 DEF columns
<1>3. found = at(p)
  BY <1>2
<1>4. Null \notin DOMAIN columns
  BY DEF CatalogInv, sane, sound, isList, tableNamed, Null
<1>5. (\E d \in Range(columns) : d.name = column) <=> at(p) # {}
  BY <1>8 DEF Range
<1> HIDE DEF found
<1>6. CASE at(p) = {}
  BY <1>1, <1>3, <1>4, <1>5, <1>6
<1>7. CASE at(p) # {}
  <2>1. attnum(name, column) \in at(p)
    BY <1>1, <1>3, <1>7
  <2> QED  BY <1>5, <1>7, <1>8, <2>1
<1> QED  BY <1>6, <1>7

\* information_schema has, for a foreign key that names columns, those columns.
LEMMA UsageOfForeignKey ==
    ASSUME CatalogInv, NEW r \in keyedTables, NEW n \in fksOf(r), master[r].def.fks[n + 1].cols # <<>>
    PROVE  {<<u.table_name, u.column_name>> :
              u \in {v \in usageRows : v.constraint_name = foreignKey(r, n).conname}}
             = {<<master[r].def.fks[n + 1].to, col>> : col \in Range(master[r].def.fks[n + 1].cols)}
<1> DEFINE fk == master[r].def.fks[n + 1]
           us == {v \in usageRows : v.constraint_name = foreignKey(r, n).conname}
           row(c) == [table_name |-> fk.to, column_name |-> c, constraint_name |-> fkeyName(master[r].name, n)]
<1>1. usedColumns(fk) = Range(fk.cols)
  BY DEF usedColumns
<1>2. foreignKey(r, n).conname = fkeyName(master[r].name, n)
  BY ConstraintNames
<1>3. ASSUME NEW c \in Range(fk.cols) PROVE row(c) \in us
  <2>1. row(c) \in usageRows
    BY <1>1, <1>3, UsageRows
  <2> QED  BY <1>2, <2>1
<1>4. ASSUME NEW u \in us PROVE \E c \in Range(fk.cols) : u = row(c)
  <2>1. PICK q \in keyedTables :
           \/ \E m \in fksOf(q) : \E c \in usedColumns(master[q].def.fks[m + 1]) :
                u = [table_name |-> master[q].def.fks[m + 1].to, column_name |-> c,
                     constraint_name |-> fkeyName(master[q].name, m)]
           \/ q \in pks /\ \E c \in Range(master[q].def.pk) :
                u = [table_name |-> master[q].name, column_name |-> c,
                     constraint_name |-> pkeyName(master[q].name)]
    BY UsageRows
  <2>2. u.constraint_name = fkeyName(master[r].name, n)
    BY <1>2
  <2>3. pkeyName(master[q].name) # fkeyName(master[r].name, n)
    BY SameName
  <2>4. PICK m \in fksOf(q) : \E c \in usedColumns(master[q].def.fks[m + 1]) :
           u = [table_name |-> master[q].def.fks[m + 1].to, column_name |-> c,
                constraint_name |-> fkeyName(master[q].name, m)]
    BY <2>1, <2>2, <2>3
  <2>5. fkeyName(master[q].name, m) = fkeyName(master[r].name, n)
    BY <2>2, <2>4
  <2>6. q = r /\ m = n
    BY <2>5, SameName
  <2> QED  BY <1>1, <2>4, <2>6
<1> HIDE DEF us
<1>5. \A c : row(c).table_name = fk.to /\ row(c).column_name = c
  OBVIOUS
<1> HIDE DEF row, fk
<1>6. {<<u.table_name, u.column_name>> : u \in us} = {<<fk.to, col>> : col \in Range(fk.cols)}
  BY <1>3, <1>4, <1>5
<1> QED  BY <1>6 DEF us, fk

\* Where a foreign key leads.
LEMMA Leads ==
    ASSUME NEW r, NEW n
    PROVE  LET fk == master[r].def.fks[n + 1]
               parents == {p \in rows : master[p].name = fk.to}
           IN /\ foreignKey(r, n).confrelid = IF parents = {} THEN Null ELSE CHOOSE p \in parents : TRUE
              /\ fk.cols # <<>> => foreignKey(r, n).confkey = attnums(meant(fk.to), fk.cols)
  BY DEF foreignKey, constraint, confkey, toColumns

\* While there are foreign keys in pg_constraint, the usage of columns is shown.
LEMMA UsageShown ==
    ASSUME NEW c \in foreignKeys
    PROVE  constraint_column_usage = usageRows
<1>1. usageFails => constraintsFail
  BY DEF usageFails, constraintsFail
<1>2. ~constraintsFail
  BY DEF foreignKeys, pg_constraint
<1> QED  BY <1>1, <1>2 DEF constraint_column_usage

\* A foreign key that spells its parent as the schema does leads in both catalogs to
\* its columns of the table that now has the name, whatever that table has been
\* through, and to its key; with nothing of that name it leads nowhere
\* (catalog.go:201-210, catalog_information_schema.go:132-156).
THEOREM ParentsFound == Spec => []ParentsResolve
<1>1. ASSUME CatalogInv PROVE ParentsResolve
  <2> DEFINE nameAt(p, k) == IF k \in DOMAIN master[p].def.columns THEN master[p].def.columns[k].name ELSE NullName
             has(p, col)  == \E d \in Range(master[p].def.columns) : d.name = col
             usage(c)     == {<<u.table_name, u.column_name>> :
                                u \in {v \in usageRows : v.constraint_name = c.conname}}
             keyTold(u, fk) == [constraint_name |-> u.unique_constraint_name, table_name |-> fk.to, constraint_type |-> "p"]
             leads(c, fk) ==
                /\ c.confrelid = Null <=> freeName(fk.to)
                /\ \A p \in tableNamed(fk.to) : fk.cols # <<>> =>
                     /\ c.confrelid = p
                     /\ \A k \in DOMAIN fk.cols :
                          nameAt(p, c.confkey[k]) = IF has(p, fk.cols[k]) THEN fk.cols[k] ELSE NullName
                     /\ usage(c) = {<<fk.to, col>> : col \in Range(fk.cols)}
                     /\ fk.cols = master[p].def.pk /\ notVirtual(p) =>
                          \A u \in referential_constraints : u.constraint_name = c.conname =>
                              \E t \in table_constraints : t = keyTold(u, fk)
  <2>1. ASSUME NEW r \in keyedTables, NEW n \in fksOf(r), master[r].def.fks[n + 1].to \notin DOMAIN Spelled
        PROVE  leads(foreignKey(r, n), master[r].def.fks[n + 1])
    <3> DEFINE c  == foreignKey(r, n)
               fk == master[r].def.fks[n + 1]
               parents == {p \in rows : master[p].name = fk.to}
    <3>1. c.confrelid = IF parents = {} THEN Null ELSE CHOOSE p \in parents : TRUE
      BY Leads
    <3>2. /\ parents = {} <=> freeName(fk.to)
          /\ \A p \in parents : p # Null /\ parents = {p}
          /\ \A p \in tableNamed(fk.to) : p \in parents
      BY <1>1, Parents
    <3>3. c.confrelid = Null <=> freeName(fk.to)
      BY <3>1, <3>2
    <3>4. ASSUME NEW p \in tableNamed(fk.to), fk.cols # <<>>
          PROVE  c.confrelid = p
      BY <3>1, <3>2, <3>4
    <3>5. ASSUME NEW p \in tableNamed(fk.to), fk.cols # <<>>, NEW k \in DOMAIN fk.cols
          PROVE  nameAt(p, c.confkey[k]) = IF has(p, fk.cols[k]) THEN fk.cols[k] ELSE NullName
      <4>1. c.confkey[k] = attnum(fk.to, fk.cols[k])
        BY <2>1, <3>5, Leads, Lookups DEF meant
      <4>2. LET columns == master[p].def.columns
                at      == attnum(fk.to, fk.cols[k])
            IN IF has(p, fk.cols[k]) THEN at \in DOMAIN columns /\ columns[at].name = fk.cols[k]
                                     ELSE at \notin DOMAIN columns
        BY <1>1, ColumnPlaces
      <4> QED  BY <4>1, <4>2
    <3>6. fk.cols # <<>> => usage(c) = {<<fk.to, col>> : col \in Range(fk.cols)}
      BY <1>1, UsageOfForeignKey
    <3>7. ASSUME NEW p \in tableNamed(fk.to), fk.cols # <<>>, fk.cols = master[p].def.pk, notVirtual(p),
                 NEW u \in referential_constraints, u.constraint_name = c.conname
          PROVE  \E t \in table_constraints : t = keyTold(u, fk)
      <4>1. PICK q \in keyedTables : \E m \in fksOf(q) :
               u = [constraint_name |-> fkeyName(master[q].name, m),
                    unique_constraint_name |-> pkeyName(master[q].def.fks[m + 1].to)]
        BY ReferenceRows
      <4>2. PICK m \in fksOf(q) :
               u = [constraint_name |-> fkeyName(master[q].name, m),
                    unique_constraint_name |-> pkeyName(master[q].def.fks[m + 1].to)]
        BY <4>1
      <4>3. fkeyName(master[q].name, m) = fkeyName(master[r].name, n)
        BY <3>7, <4>2, ConstraintNames
      <4>4. q = r /\ m = n
        BY <1>1, <4>3, SameName
      <4>5. u.unique_constraint_name = pkeyName(fk.to)
        BY <4>2, <4>4
      <4>6. p \in pks /\ p \in keyedTables /\ master[p].name = fk.to
        BY <3>7 DEF pks, keyedTables, tableNamed
      <4>7. tableRow(pkeyName(fk.to), p, "p") \in table_constraints
        BY <4>6, TableRows
      <4> QED  BY <4>5, <4>6, <4>7 DEF tableRow
    <3> QED  BY <3>3, <3>4, <3>5, <3>6, <3>7
  <2>2. ASSUME NEW c \in foreignKeys
        PROVE  \E r \in keyedTables : \E n \in fksOf(r) : c = foreignKey(r, n)
    <3>1. PICK r \in keyedTables :
             \/ r \in pks /\ c = keyRow(r)
             \/ \E n \in fksOf(r) : c = foreignKey(r, n)
             \/ \E i \in uniquesOf(r) : c = uniqueRow(r, i)
      BY Constraints, ConstraintRows DEF foreignKeys
    <3>2. keyRow(r).contype = "p" /\ \A i : uniqueRow(r, i).contype = "u"
      BY ConstraintNames
    <3>3. c # keyRow(r) /\ \A i : c # uniqueRow(r, i)
      BY <2>2, <3>2 DEF foreignKeys
    <3> QED  BY <3>1, <3>3
  <2>3. \A r, n : foreignKey(r, n).conrelid = r /\ foreignKey(r, n).n = n
    BY ConstraintNames
  <2> HIDE DEF leads
  <2>4. ASSUME NEW c \in foreignKeys, reference(c).to \notin DOMAIN Spelled
        PROVE  leads(c, reference(c))
    BY <2>1, <2>2, <2>3, <2>4 DEF reference
  <2>5. ASSUME NEW c \in foreignKeys PROVE constraint_column_usage = usageRows
    BY <2>5, UsageShown
  <2> DEFINE toldUsage(c) == {<<u.table_name, u.column_name>> :
                                u \in {v \in constraint_column_usage : v.constraint_name = c.conname}}
  <2>6. ASSUME NEW c \in foreignKeys PROVE toldUsage(c) = usage(c)
    BY <2>5, <2>6
  <2> SUFFICES ASSUME NEW c \in foreignKeys, reference(c).to \notin DOMAIN Spelled
               PROVE  LET fk == reference(c)
                      IN /\ c.confrelid = Null <=> freeName(fk.to)
                         /\ \A p \in tableNamed(fk.to) : fk.cols # <<>> =>
                              /\ c.confrelid = p
                              /\ \A k \in DOMAIN fk.cols :
                                   nameAt(p, c.confkey[k]) = IF has(p, fk.cols[k]) THEN fk.cols[k] ELSE NullName
                              /\ toldUsage(c) = {<<fk.to, col>> : col \in Range(fk.cols)}
                              /\ fk.cols = master[p].def.pk /\ notVirtual(p) =>
                                   \A u \in referential_constraints : u.constraint_name = c.conname =>
                                       \E t \in table_constraints : t = keyTold(u, fk)
    BY Zenon DEF ParentsResolve
  <2>7. toldUsage(c) = usage(c) /\ leads(c, reference(c))
    BY <2>4, <2>6
  <2> HIDE DEF toldUsage, usage, nameAt, has, keyTold
  <2> QED  BY <2>7, Zenon DEF leads
<1> QED  BY <1>1, Invariance, PTL

------------------------------------------------------------------------------
(* What setupEnumCatalog finds.                                              *)

\* Tables as a session reads them: finitely many, with names of their own and lists
\* of checks.
soundTables(tables) ==
    /\ IsFiniteSet(DOMAIN tables) /\ DOMAIN tables \subseteq Nat
    /\ \A r \in DOMAIN tables :
         isList(tables[r].checks) /\ \A k \in DOMAIN tables[r].checks : tables[r].checks[k].labels # <<>>
    /\ \A p, r \in DOMAIN tables : tables[p].name = tables[r].name => p = r

\* Enum types as a session has them: numbered above the static types, with labels,
\* each with a number of its own and for a column of its own.
soundEnums(types) ==
    /\ \A e \in types : e.oid \in Nat /\ e.oid > 3802 /\ e.of.labels # <<>>
    /\ \A e, f \in types : e.oid = f.oid => e = f
    /\ \A e, f \in types :
         e.of.table = f.of.table /\ ToLower[e.of.column] = ToLower[f.of.column] => e = f

\* The checks that give an enum are places in the tables.
LEMMA FoundPlaces ==
    ASSUME NEW tables, soundTables(tables), NEW p
    PROVE  p \in enumsFound(tables) <=>
             \E r \in DOMAIN tables : \E k \in parseEnums(tables[r].checks) : p = <<r, k>>
<1> DEFINE of(r) == {<<r, k>> : k \in parseEnums(tables[r].checks)}
<1>1. enumsFound(tables) = UNION {of(r) : r \in DOMAIN tables}
  BY DEF enumsFound
<1>2. \A r : p \in of(r) <=> \E k \in parseEnums(tables[r].checks) : p = <<r, k>>
  OBVIOUS
<1> HIDE DEF of
<1>3. p \in UNION {of(r) : r \in DOMAIN tables} <=> \E r \in DOMAIN tables : p \in of(r)
  OBVIOUS
<1> QED  BY <1>1, <1>2, <1>3

\* Finitely many of them,
LEMMA FoundFinite ==
    ASSUME NEW tables, soundTables(tables)
    PROVE  IsFiniteSet(enumsFound(tables))
<1> DEFINE of(r) == {<<r, k>> : k \in parseEnums(tables[r].checks)}
           S     == {of(r) : r \in DOMAIN tables}
<1>1. enumsFound(tables) = UNION S
  BY DEF enumsFound
<1>2. ASSUME NEW r \in DOMAIN tables PROVE IsFiniteSet(of(r))
  <2> DEFINE K == parseEnums(tables[r].checks)
             f == [k \in K |-> <<r, k>>]
  <2>1. K \subseteq 1 .. Len(tables[r].checks) /\ Len(tables[r].checks) \in Nat
    BY DEF soundTables, isList, parseEnums
  <2>2. IsFiniteSet(K)
    <3>1. IsFiniteSet(1 .. Len(tables[r].checks))
      BY <2>1, FS_Interval
    <3> QED  BY <2>1, <3>1, FS_Subset
  <2> HIDE DEF K
  <2>3. f \in Surjection(K, of(r))
    BY DEF Surjection, K
  <2> QED  BY <2>2, <2>3, FS_Surjection
<1> HIDE DEF of
<1>3. IsFiniteSet(S)
  <2> DEFINE f == [r \in DOMAIN tables |-> of(r)]
  <2>1. f \in Surjection(DOMAIN tables, S)
    BY DEF Surjection
  <2> QED  BY <2>1, FS_Surjection DEF soundTables
<1>4. \A X \in S : IsFiniteSet(X)
  BY <1>2
<1> QED  BY <1>1, <1>3, <1>4, FS_UNION

\* and in the order in which they are numbered.
LEMMA FoundOrder ==
    ASSUME NEW tables, soundTables(tables)
    PROVE  ordered(enumsFound(tables),
                   [p \in enumsFound(tables) |-> {q \in enumsFound(tables) : earlier(q, p)}])
<1> DEFINE S     == enumsFound(tables)
           below == [p \in S |-> {q \in S : earlier(q, p)}]
<1>1. ASSUME NEW p \in S PROVE p = <<p[1], p[2]>> /\ p[1] \in Nat /\ p[2] \in Nat
  <2>1. PICK r \in DOMAIN tables : \E k \in parseEnums(tables[r].checks) : p = <<r, k>>
    BY FoundPlaces
  <2>2. PICK k \in parseEnums(tables[r].checks) : p = <<r, k>>
    BY <2>1
  <2>3. r \in Nat /\ k \in Nat
    BY DEF soundTables, isList, parseEnums
  <2> QED  BY <2>2, <2>3
<1> HIDE DEF S
<1>2. /\ below \in [S -> SUBSET S]
      /\ \A p \in S : below[p] = {q \in S : earlier(q, p)}
  OBVIOUS
<1> HIDE DEF below
<1>3. \A p \in S : p \notin below[p]
  BY <1>1, <1>2 DEF earlier
<1>4. ASSUME NEW p \in S, NEW q \in S, p \in below[q], NEW x \in below[p]
      PROVE  x \in below[q]
  <2>1. x \in S /\ earlier(x, p) /\ earlier(p, q)
    BY <1>2, <1>4
  <2>2. earlier(x, q)
    <3>1. /\ x[1] \in Nat /\ x[2] \in Nat /\ p[1] \in Nat /\ p[2] \in Nat /\ q[1] \in Nat /\ q[2] \in Nat
      BY <1>1, <2>1
    <3> QED  BY <2>1, <3>1 DEF earlier
  <2> QED  BY <1>2, <2>1, <2>2
<1>5. ASSUME NEW p \in S, NEW q \in S, p # q
      PROVE  p \in below[q] \/ q \in below[p]
  <2>1. /\ p[1] \in Nat /\ p[2] \in Nat /\ q[1] \in Nat /\ q[2] \in Nat
        /\ p[1] # q[1] \/ p[2] # q[2]
    BY <1>1, <1>5
  <2>2. earlier(p, q) \/ earlier(q, p)
    BY <2>1 DEF earlier
  <2> QED  BY <1>2, <2>2
<1>6. ordered(S, below)
  BY <1>2, <1>3, <1>4, <1>5 DEF ordered
<1> QED  BY <1>6 DEF S, below

\* So the numbers start above those of the static types, and none is used twice,
LEMMA EnumNumbers ==
    ASSUME NEW tables, soundTables(tables), NEW p \in enumsFound(tables)
    PROVE  /\ enumOID(enumsFound(tables), p) \in Nat /\ enumOID(enumsFound(tables), p) > 3802
           /\ \A q \in enumsFound(tables) :
                enumOID(enumsFound(tables), p) = enumOID(enumsFound(tables), q) => p = q
<1> DEFINE S     == enumsFound(tables)
           below == [x \in S |-> {y \in S : earlier(y, x)}]
<1>1. IsFiniteSet(S) /\ ordered(S, below)
  BY FoundFinite, FoundOrder
<1>2. \A x \in S : enumOID(S, x) = enumOIDBase + Cardinality(below[x])
  BY DEF enumOID
<1> HIDE DEF below, S
<1>3. ASSUME NEW x \in S PROVE Cardinality(below[x]) \in Nat
  <2>1. below[x] \in SUBSET S
    BY <1>1 DEF ordered
  <2> QED  BY <1>1, <2>1, FS_Subset, FS_CardinalityType
<1>4. ASSUME NEW x \in S, NEW y \in S, Cardinality(below[x]) = Cardinality(below[y]) PROVE x = y
  <2>1. x # y => x \in below[y] \/ y \in below[x]
    BY <1>1 DEF ordered
  <2>2. x \notin below[y] /\ y \notin below[x]
    BY <1>1, <1>3, <1>4, FewerBefore
  <2> QED  BY <2>1, <2>2
<1>5. \A n \in Nat : enumOIDBase + n \in Nat /\ enumOIDBase + n > 3802
  BY DEF enumOIDBase
<1>6. \A m, n \in Nat : enumOIDBase + m = enumOIDBase + n => m = n
  BY DEF enumOIDBase
<1>7. p \in S
  BY DEF S
<1>8. enumOID(S, p) \in Nat /\ enumOID(S, p) > 3802
  BY <1>2, <1>3, <1>5, <1>7
<1>9. ASSUME NEW q \in S, enumOID(S, p) = enumOID(S, q) PROVE p = q
  <2>1. Cardinality(below[p]) = Cardinality(below[q])
    BY <1>2, <1>3, <1>6, <1>7, <1>9
  <2> QED  BY <1>4, <1>7, <2>1
<1> QED  BY <1>8, <1>9 DEF S

\* The enum type of a check.
enumAt(tables, p) ==
    [oid |-> enumOID(enumsFound(tables), p), of |-> enumType(tables[p[1]].name, tables[p[1]].checks[p[2]])]

\* What is found is one type per column.
LEMMA EnumTypes ==
    ASSUME NEW tables, soundTables(tables)
    PROVE  /\ enumTypes(tables) = {enumAt(tables, p) : p \in enumsFound(tables)}
           /\ soundEnums(enumTypes(tables))
<1> DEFINE S == enumsFound(tables)
<1>1. enumTypes(tables) = {enumAt(tables, p) : p \in S}
  BY DEF enumTypes, enumAt
<1>2. \A p : /\ enumAt(tables, p).oid = enumOID(S, p)
             /\ enumAt(tables, p).of.table = tables[p[1]].name
             /\ enumAt(tables, p).of.column = tables[p[1]].checks[p[2]].column
             /\ enumAt(tables, p).of.labels = tables[p[1]].checks[p[2]].labels
  BY DEF enumAt, enumType
<1>3. ASSUME NEW p \in S
      PROVE  /\ p[1] \in DOMAIN tables /\ p[2] \in parseEnums(tables[p[1]].checks)
             /\ p[2] \in DOMAIN tables[p[1]].checks /\ p[2] \in Nat /\ p = <<p[1], p[2]>>
  <2>1. PICK r \in DOMAIN tables : \E k \in parseEnums(tables[r].checks) : p = <<r, k>>
    BY FoundPlaces
  <2>2. PICK k \in parseEnums(tables[r].checks) : p = <<r, k>>
    BY <2>1
  <2>3. k \in DOMAIN tables[r].checks /\ k \in Nat
    BY DEF soundTables, isList, parseEnums
  <2> QED  BY <2>2, <2>3
<1>4. ASSUME NEW p \in S, NEW q \in S, tables[p[1]].name = tables[q[1]].name,
             ToLower[tables[p[1]].checks[p[2]].column] = ToLower[tables[q[1]].checks[q[2]].column]
      PROVE  p = q
  <2>1. p[1] = q[1]
    BY <1>3, <1>4 DEF soundTables
  <2>2. ASSUME NEW checks, NEW j \in parseEnums(checks), NEW k \in parseEnums(checks), j \in Nat, k \in Nat,
               j \in DOMAIN checks, j < k, DOMAIN checks \subseteq Nat \ {0}
        PROVE  ToLower[checks[j].column] # ToLower[checks[k].column]
    <3>1. j \in 1 .. k - 1
      BY <2>2
    <3> QED  BY <2>2, <3>1 DEF parseEnums
  <2>3. DOMAIN tables[p[1]].checks \subseteq Nat \ {0}
    BY <1>3 DEF soundTables, isList
  <2>4. ~(p[2] < q[2]) /\ ~(q[2] < p[2])
    BY <1>3, <1>4, <2>1, <2>2, <2>3
  <2>5. p[2] = q[2]
    BY <1>3, <2>4
  <2> QED  BY <1>3, <2>1, <2>5
<1>5. ASSUME NEW p \in S
      PROVE  enumAt(tables, p).oid \in Nat /\ enumAt(tables, p).oid > 3802 /\ enumAt(tables, p).of.labels # <<>>
  <2>1. enumOID(S, p) \in Nat /\ enumOID(S, p) > 3802
    BY EnumNumbers
  <2>2. tables[p[1]].checks[p[2]].labels # <<>>
    BY <1>3 DEF soundTables
  <2>3. enumAt(tables, p).oid = enumOID(S, p)
    BY <1>2
  <2>4. enumAt(tables, p).of.labels # <<>>
    BY <1>2, <2>2
  <2> QED  BY <2>1, <2>3, <2>4
<1>6. ASSUME NEW p \in S, NEW q \in S, enumAt(tables, p).oid = enumAt(tables, q).oid PROVE p = q
  BY <1>2, <1>6, EnumNumbers
<1> HIDE DEF S
<1>7. ASSUME NEW e \in enumTypes(tables) PROVE \E p \in S : e = enumAt(tables, p)
  BY <1>1
<1>8. ASSUME NEW e \in enumTypes(tables), NEW f \in enumTypes(tables),
             e.oid = f.oid \/ (e.of.table = f.of.table /\ ToLower[e.of.column] = ToLower[f.of.column])
      PROVE  e = f
  <2>1. PICK p \in S, q \in S : e = enumAt(tables, p) /\ f = enumAt(tables, q)
    BY <1>7
  <2>2. CASE e.oid = f.oid
    BY <1>6, <2>1, <2>2
  <2>3. CASE e.of.table = f.of.table /\ ToLower[e.of.column] = ToLower[f.of.column]
    BY <1>2, <1>4, <2>1, <2>3
  <2> QED  BY <1>8, <2>2, <2>3
<1>9. soundEnums(enumTypes(tables))
  BY <1>5, <1>7, <1>8 DEF soundEnums
<1> QED  BY <1>1, <1>9 DEF S

------------------------------------------------------------------------------
(* What sessions have read.                                                  *)

\* The inductive invariant of the sessions: what a session has read is sound, and it
\* is the schema for as long as that does not change.
EnumsInv ==
    /\ phase \in [Sessions -> {"out", "reading", "ready"}]
    /\ current \in [Sessions -> BOOLEAN]
    /\ DOMAIN read = Sessions /\ DOMAIN enums = Sessions
    /\ \A s \in Sessions :
         /\ soundTables(read[s]) /\ soundEnums(enums[s])
         /\ current[s] /\ phase[s] = "reading" => read[s] = schemaTables
         /\ current[s] /\ phase[s] = "ready" => enums[s] = enumTypes(schemaTables)

\* The schema is sound.
LEMMA SchemaSound ==
    ASSUME CatalogInv
    PROVE  /\ soundTables(schemaTables)
           /\ DOMAIN schemaTables = {p \in rows : master[p].type \in {"table", "virtual"} /\ ~likeSqlite(p)}
           /\ \A r \in DOMAIN schemaTables : /\ schemaTables[r].name = master[r].name
                                             /\ schemaTables[r].checks = master[r].def.checks
<1> DEFINE D == {p \in rows : master[p].type \in {"table", "virtual"} /\ ~likeSqlite(p)}
<1>1. /\ DOMAIN schemaTables = D
      /\ \A r \in D : schemaTables[r].name = master[r].name /\ schemaTables[r].checks = master[r].def.checks
  BY DEF schemaTables
<1>2. D \subseteq rows /\ rows \subseteq Nat
  BY MaxRowNat DEF CatalogInv
<1>3. IsFiniteSet(D)
  <2>1. IsFiniteSet(rows)
    BY LastRow DEF CatalogInv
  <2> QED  BY <1>2, <2>1, FS_Subset
<1> HIDE DEF D
<1>4. \A r \in D : isList(master[r].def.checks)
                 /\ \A k \in DOMAIN master[r].def.checks : master[r].def.checks[k].labels # <<>>
  BY <1>2 DEF CatalogInv, sane, sound
<1>5. \A p, r \in D : master[p].name = master[r].name => p = r
  BY <1>2 DEF CatalogInv, NamesDistinct
<1>6. soundTables(schemaTables)
  BY <1>1, <1>2, <1>3, <1>4, <1>5 DEF soundTables
<1> QED  BY <1>1, <1>6 DEF D

\* Nothing read and nothing found.
LEMMA NothingRead == soundTables(<<>>) /\ soundEnums({})
<1>1. DOMAIN <<>> = {}
  OBVIOUS
<1> QED  BY <1>1, FS_EmptySet DEF soundTables, soundEnums

\* At first no session has read anything.
LEMMA InitEnums == Init => EnumsInv
<1> SUFFICES ASSUME Init PROVE EnumsInv
  OBVIOUS
<1>1. \A s \in Sessions : phase[s] = "out" /\ read[s] = <<>> /\ enums[s] = {} /\ ~current[s]
  BY DEF Init
<1>2. /\ phase \in [Sessions -> {"out", "reading", "ready"}] /\ current \in [Sessions -> BOOLEAN]
      /\ DOMAIN read = Sessions /\ DOMAIN enums = Sessions
  BY DEF Init
<1> QED  BY <1>1, <1>2, NothingRead DEF EnumsInv

\* A change of the schema leaves what has been read, which is no longer current.
LEMMA ChangeEnums ==
    ASSUME EnumsInv, NEW m, changed(m)
    PROVE  EnumsInv'
  BY DEF EnumsInv, changed

\* What does not depend on the schema stays as it is.
LEMMA SameSchema ==
    ASSUME UNCHANGED master
    PROVE  schemaTables' = schemaTables
  BY DEF schemaTables, rows, likeSqlite

\* A session reads, fills its tables and leaves.
LEMMA SessionEnums ==
    ASSUME CatalogInv, EnumsInv, NEW s \in Sessions, ReadSchema(s) \/ FillEnums(s) \/ Disconnect(s)
    PROVE  EnumsInv'
<1>1. schemaTables' = schemaTables
  BY SameSchema DEF ReadSchema, FillEnums, Disconnect
<1>2. \A t \in Sessions : soundTables(read[t]) /\ soundEnums(enums[t])
  BY DEF EnumsInv
<1>3. CASE ReadSchema(s)
  BY <1>1, <1>2, <1>3, SchemaSound DEF EnumsInv, ReadSchema
<1>4. CASE FillEnums(s)
  <2>1. soundEnums(enumTypes(read[s]))
    BY <1>2, EnumTypes
  <2>2. /\ phase' \in [Sessions -> {"out", "reading", "ready"}] /\ current' \in [Sessions -> BOOLEAN]
        /\ DOMAIN read' = Sessions /\ DOMAIN enums' = Sessions
        /\ phase[s] = "reading" /\ phase'[s] = "ready" /\ read'[s] = <<>>
        /\ enums'[s] = enumTypes(read[s]) /\ current' = current
        /\ \A t \in Sessions \ {s} : phase'[t] = phase[t] /\ read'[t] = read[t] /\ enums'[t] = enums[t]
    BY <1>4 DEF EnumsInv, FillEnums
  <2>3. current[s] => read[s] = schemaTables
    BY <2>2 DEF EnumsInv
  <2>4. ASSUME NEW t \in Sessions
        PROVE  /\ soundTables(read'[t]) /\ soundEnums(enums'[t])
               /\ current'[t] /\ phase'[t] = "reading" => read'[t] = schemaTables'
               /\ current'[t] /\ phase'[t] = "ready" => enums'[t] = enumTypes(schemaTables')
    <3>1. CASE t = s
      BY <1>1, <2>1, <2>2, <2>3, <3>1, NothingRead
    <3>2. CASE t # s
      BY <1>1, <2>2, <3>2 DEF EnumsInv
    <3> QED  BY <3>1, <3>2
  <2>5. enumTypes(schemaTables)' = enumTypes(schemaTables')
    BY <1>1 DEF enumTypes, enumsFound, enumOID, enumType
  <2> QED  BY <2>2, <2>4, <2>5 DEF EnumsInv
<1>5. CASE Disconnect(s)
  BY <1>1, <1>2, <1>5, NothingRead DEF EnumsInv, Disconnect
<1> QED  BY <1>3, <1>4, <1>5

\* Every step keeps what sessions have read in order.
LEMMA StepEnums ==
    ASSUME CatalogInv, EnumsInv, [Next]_vars
    PROVE  EnumsInv'
<1>1. CASE \E s \in Sessions : ReadSchema(s) \/ FillEnums(s) \/ Disconnect(s)
  BY <1>1, SessionEnums
<1>2. CASE \E name \in TableNames, def \in Definitions : CreateTable(name, def)
  BY <1>2, ChangeEnums DEF CreateTable
<1>3. CASE \E r \in rows : CreateIndex(r) \/ DropTable(r) \/ CreateView(r) \/ DropView(r)
  BY <1>3, ChangeEnums DEF CreateIndex, DropTable, CreateView, DropView
<1>4. CASE Vacuum
  BY <1>4, ChangeEnums DEF Vacuum
<1>5. CASE \E name \in ModuleNames : CreateVirtual(name)
  BY <1>5, ChangeEnums DEF CreateVirtual
<1>6. CASE UNCHANGED vars
  <2>1. schemaTables' = schemaTables /\ enumTypes(schemaTables)' = enumTypes(schemaTables')
    BY <1>6, SameSchema DEF vars, enumTypes, enumsFound, enumOID, enumType
  <2> QED  BY <1>6, <2>1 DEF vars, EnumsInv
<1> QED  BY <1>1, <1>2, <1>3, <1>4, <1>5, <1>6 DEF Next

\* What sessions have read is sound, and the schema for as long as that stays.
THEOREM EnumsInvariance == Spec => []EnumsInv
<1>1. CatalogInv /\ EnumsInv /\ [Next]_vars => EnumsInv'
  BY StepEnums
<1> QED  BY <1>1, InitEnums, Invariance, PTL DEF Spec

\* Every variable has its type, and enum types have numbers above the static ones
\* (enum.go:25-27).
THEOREM Typed == Spec => []TypeOK
<1>1. CatalogInv /\ EnumsInv => TypeOK
  BY DEF CatalogInv, EnumsInv, TypeOK, sane, soundEnums
<1> QED  BY <1>1, Invariance, EnumsInvariance, PTL

------------------------------------------------------------------------------
(* The columns.                                                              *)

\* A row of pg_attribute beside information_schema.columns.
columnRow(r, k, oid, udt) == [attrelid |-> relationOid(r), attnum |-> k, atttypid |-> oid, udt_name |-> udt]

\* A column has the type its declaration gives it, or that of an enum of it.
typeOf(s, r, k, a) ==
    LET decl == <<columnsIn(r)[k].decl>>
    IN \/ enumCols(s, r, k) = {} /\ a = columnRow(r, k, oidForType(decl), <<sqliteDeclToUDT(decl)>>)
       \/ \E e \in enumCols(s, r, k) : a = columnRow(r, k, e.oid, e.of.typname)

\* Every row is one of a column.
LEMMA ColumnRows ==
    ASSUME NEW s, NEW a \in columnRows(s)
    PROVE  \E r \in listedTables : \E k \in DOMAIN columnsIn(r) : typeOf(s, r, k, a)
<1> DEFINE rowsOf(r, k) ==
             LET decl == <<columnsIn(r)[k].decl>>
             IN IF enumCols(s, r, k) = {} THEN {columnRow(r, k, oidForType(decl), <<sqliteDeclToUDT(decl)>>)}
                ELSE {columnRow(r, k, e.oid, e.of.typname) : e \in enumCols(s, r, k)}
<1>1. a \in UNION {UNION {rowsOf(r, k) : k \in DOMAIN columnsIn(r)} : r \in listedTables}
  BY Zenon DEF columnRows, columnRow
<1>2. \A r, k : a \in rowsOf(r, k) => typeOf(s, r, k, a)
  BY DEF typeOf
<1> HIDE DEF rowsOf
<1>3. \E r \in listedTables : \E k \in DOMAIN columnsIn(r) : a \in rowsOf(r, k)
  BY <1>1
<1> QED  BY <1>2, <1>3

\* and says which column.
LEMMA ColumnOf ==
    ASSUME NEW r, NEW k, NEW oid, NEW udt
    PROVE  LET a == columnRow(r, k, oid, udt)
           IN a.attrelid = r /\ a.attnum = k /\ a.atttypid = oid /\ a.udt_name = udt
  BY DEF columnRow, relationOid

\* A column is of one enum at most.
LEMMA OneEnum ==
    ASSUME EnumsInv, NEW s \in Sessions, NEW r, NEW k, NEW e \in enumCols(s, r, k)
    PROVE  e \in enums[s] /\ enumCols(s, r, k) = {e}
<1>1. e \in enums[s] /\ e.of.table = master[r].name /\ ToLower[e.of.column] = columnsIn(r)[k].name
  BY DEF enumCols
<1>2. ASSUME NEW f \in enumCols(s, r, k) PROVE f = e
  BY <1>1 DEF enumCols, EnumsInv, soundEnums
<1> QED  BY <1>1, <1>2

\* A column is one row, whatever CHECKs name it and in whatever spelling, also when
\* the enum tables are out of date (enum.go:151-155, catalog.go:151).
THEOREM ColumnsOnce == Spec => []OneRowPerColumn
<1>1. ASSUME EnumsInv, NEW s \in Sessions, NEW a \in columnRows(s), NEW b \in columnRows(s),
             a.attrelid = b.attrelid, a.attnum = b.attnum
      PROVE  a = b
  <2>1. PICK r \in listedTables : \E k \in DOMAIN columnsIn(r) : typeOf(s, r, k, a)
    BY ColumnRows
  <2>2. PICK k \in DOMAIN columnsIn(r) : typeOf(s, r, k, a)
    BY <2>1
  <2>3. PICK q \in listedTables : \E l \in DOMAIN columnsIn(q) : typeOf(s, q, l, b)
    BY ColumnRows
  <2>4. PICK l \in DOMAIN columnsIn(q) : typeOf(s, q, l, b)
    BY <2>3
  <2>5. a.attrelid = r /\ a.attnum = k /\ b.attrelid = q /\ b.attnum = l
    BY <2>2, <2>4, ColumnOf DEF typeOf
  <2>6. r = q /\ k = l
    BY <1>1, <2>5
  <2>7. CASE enumCols(s, r, k) = {}
    BY <2>2, <2>4, <2>6, <2>7 DEF typeOf
  <2>8. CASE enumCols(s, r, k) # {}
    <3>1. PICK e \in enumCols(s, r, k) : TRUE
      BY <2>8
    <3>2. enumCols(s, r, k) = {e}
      BY <1>1, OneEnum
    <3> QED  BY <2>2, <2>4, <2>6, <3>2 DEF typeOf
  <2> QED  BY <2>7, <2>8
<1>2. EnumsInv => OneRowPerColumn
  BY <1>1 DEF OneRowPerColumn
<1> QED  BY <1>2, EnumsInvariance, PTL

\* The types of declarations are static ones.
LEMMA DeclaredOid ==
    ASSUME NEW decl
    PROVE  oidForType(decl) \in Nat /\ oidForType(decl) <= 3802
  BY OidRange DEF columnOids

\* The type of a column is in pg_type once, under the name information_schema gives it,
\* also for a schema that has changed since the session started (catalog.go:132, 260,
\* enum.go:91).
THEOREM Typenames == Spec => []TypesResolve
<1>1. ASSUME EnumsInv, NEW s \in Sessions, NEW a \in columnRows(s)
      PROVE  {t \in pg_type(s) : t.oid = a.atttypid} = {[oid |-> a.atttypid, typname |-> a.udt_name]}
  <2> DEFINE static == {[oid |-> t.oid, typname |-> <<t.typname>>] : t \in pgTypes}
             dynamic == {[oid |-> e.oid, typname |-> e.of.typname] : e \in enums[s]}
  <2>1. PICK r \in listedTables : \E k \in DOMAIN columnsIn(r) : typeOf(s, r, k, a)
    BY ColumnRows
  <2>2. PICK k \in DOMAIN columnsIn(r) : typeOf(s, r, k, a)
    BY <2>1
  <2>3. pg_type(s) = static \cup dynamic
    BY DEF pg_type
  <2>4. \A t \in static : t.oid \in Nat /\ t.oid <= 3802
    BY StaticOids
  <2>5. \A t \in dynamic : t.oid \in Nat /\ t.oid > 3802
    BY <1>1 DEF EnumsInv, soundEnums
  <2>6. \A e, f \in enums[s] : e.oid = f.oid => e = f
    BY <1>1 DEF EnumsInv, soundEnums
  <2>7. CASE enumCols(s, r, k) = {}
    <3> DEFINE decl == <<columnsIn(r)[k].decl>>
               oid  == oidForType(decl)
    <3>1. a = columnRow(r, k, oid, <<sqliteDeclToUDT(decl)>>)
      BY <2>2, <2>7 DEF typeOf
    <3>2. a.atttypid = oid /\ a.udt_name = <<sqliteDeclToUDT(decl)>>
      BY <3>1, ColumnOf
    <3>3. {t \in pgTypes : t.oid = oid} = {scalarType(oid, sqliteDeclToUDT(decl), typeSize(oid))}
      BY OneRow
    <3>4. oid \in Nat /\ oid <= 3802
      BY DeclaredOid
    <3>5. \A t \in dynamic : t.oid # oid
      BY <2>5, <3>4
    <3> HIDE DEF oid, decl, dynamic
    <3>6. {t \in static : t.oid = oid} = {[oid |-> oid, typname |-> <<sqliteDeclToUDT(decl)>>]}
      <4>1. \A t \in pgTypes : t.oid = oid <=> t = scalarType(oid, sqliteDeclToUDT(decl), typeSize(oid))
        BY <3>3
      <4>2. scalarType(oid, sqliteDeclToUDT(decl), typeSize(oid)) \in pgTypes
        BY <3>3
      <4>3. LET t == scalarType(oid, sqliteDeclToUDT(decl), typeSize(oid))
            IN t.oid = oid /\ t.typname = sqliteDeclToUDT(decl)
        BY DEF scalarType
      <4> QED  BY <4>1, <4>2, <4>3
    <3> HIDE DEF static
    <3> QED  BY <2>3, <3>2, <3>5, <3>6
  <2>8. CASE enumCols(s, r, k) # {}
    <3>1. PICK e \in enumCols(s, r, k) : a = columnRow(r, k, e.oid, e.of.typname)
      BY <2>2, <2>8 DEF typeOf
    <3>2. a.atttypid = e.oid /\ a.udt_name = e.of.typname
      BY <3>1, ColumnOf
    <3>3. e \in enums[s]
      BY <1>1, OneEnum
    <3>4. e.oid \in Nat /\ e.oid > 3802
      BY <1>1, <3>3 DEF EnumsInv, soundEnums
    <3>5. \A t \in static : t.oid # e.oid
      BY <2>4, <3>4
    <3> HIDE DEF static
    <3>6. {t \in dynamic : t.oid = e.oid} = {[oid |-> e.oid, typname |-> e.of.typname]}
      BY <2>6, <3>3
    <3> HIDE DEF dynamic
    <3> QED  BY <2>3, <3>2, <3>5, <3>6
  <2> QED  BY <2>7, <2>8
<1>2. EnumsInv => TypesResolve
  BY <1>1 DEF TypesResolve
<1> QED  BY <1>2, EnumsInvariance, PTL

\* The enums of a table in the schema are made from its checks; a view has none.
LEMMA EnumsOfTable ==
    ASSUME CatalogInv, NEW r \in rows
    PROVE  /\ \A e \in enumTypes(schemaTables) : e.of.table = master[r].name =>
                \E j \in parseEnums(master[r].def.checks) : e.of = enumType(master[r].name, master[r].def.checks[j])
           /\ r \in DOMAIN schemaTables => \A j \in parseEnums(master[r].def.checks) :
                \E e \in enumTypes(schemaTables) : e.of = enumType(master[r].name, master[r].def.checks[j])
<1> DEFINE T == schemaTables
<1>1. /\ soundTables(T) /\ DOMAIN T \subseteq rows
      /\ \A p \in DOMAIN T : T[p].name = master[p].name /\ T[p].checks = master[p].def.checks
  BY SchemaSound
<1>2. enumTypes(T) = {enumAt(T, p) : p \in enumsFound(T)}
  BY <1>1, EnumTypes
<1>3. \A q, j : enumAt(T, <<q, j>>).of = enumType(T[q].name, T[q].checks[j])
  BY DEF enumAt
<1>4. \A table, check : enumType(table, check).table = table
  BY DEF enumType
<1> HIDE DEF T
<1>5. ASSUME NEW e \in enumTypes(T), e.of.table = master[r].name
      PROVE  \E j \in parseEnums(master[r].def.checks) : e.of = enumType(master[r].name, master[r].def.checks[j])
  <2>1. PICK p \in enumsFound(T) : e = enumAt(T, p)
    BY <1>2
  <2>2. PICK q \in DOMAIN T : \E j \in parseEnums(T[q].checks) : p = <<q, j>>
    BY <1>1, FoundPlaces
  <2>3. PICK j \in parseEnums(T[q].checks) : p = <<q, j>>
    BY <2>2
  <2>4. e.of = enumType(master[q].name, master[q].def.checks[j])
    BY <1>1, <1>3, <2>1, <2>3
  <2>5. q = r
    <3>1. master[q].name = master[r].name /\ q \in rows
      BY <1>1, <1>4, <1>5, <2>4
    <3> QED  BY <3>1 DEF CatalogInv, NamesDistinct
  <2> QED  BY <1>1, <2>3, <2>4, <2>5
<1>6. ASSUME r \in DOMAIN T, NEW j \in parseEnums(master[r].def.checks)
      PROVE  \E e \in enumTypes(T) : e.of = enumType(master[r].name, master[r].def.checks[j])
  <2>1. <<r, j>> \in enumsFound(T)
    BY <1>1, <1>6, FoundPlaces
  <2>2. enumAt(T, <<r, j>>) \in enumTypes(T)
    BY <1>2, <2>1
  <2> QED  BY <1>1, <1>3, <1>6, <2>2
<1> QED  BY <1>5, <1>6 DEF T

\* The first membership test of a column gives an enum.
LEMMA FirstTest ==
    ASSUME NEW checks, isList(checks), NEW name
    PROVE  LET mine == {j \in DOMAIN checks : ToLower[checks[j].column] = name}
           IN mine # {} => \E j \in mine : j \in parseEnums(checks) /\ \A i \in mine : j <= i
<1> DEFINE mine == {j \in DOMAIN checks : ToLower[checks[j].column] = name}
<1> SUFFICES ASSUME mine # {}
             PROVE  \E j \in mine : j \in parseEnums(checks) /\ \A i \in mine : j <= i
  OBVIOUS
<1>1. Len(checks) \in Nat /\ DOMAIN checks = 1 .. Len(checks) /\ mine \subseteq Nat
  BY DEF isList
<1>2. IsFiniteSet(mine)
  <2>1. IsFiniteSet(1 .. Len(checks))
    BY <1>1, FS_Interval
  <2> QED  BY <1>1, <2>1, FS_Subset
<1>3. PICK j \in mine : \A i \in mine : j <= i
  BY <1>1, <1>2, LeastOf
<1>4. j \in parseEnums(checks)
  <2>1. ASSUME NEW i \in 1 .. j - 1 PROVE ToLower[checks[i].column] # ToLower[checks[j].column]
    <3>1. i \in DOMAIN checks /\ i < j /\ i \in Nat /\ j \in Nat
      BY <1>1
    <3>2. i \notin mine
      BY <1>3, <3>1
    <3> QED  BY <3>1, <3>2
  <2> QED  BY <2>1 DEF parseEnums
<1> QED  BY <1>3, <1>4

\* Until the schema changes, a session shows for every column the labels of its CHECK,
\* found through the type of the column, and no enum for any other (enum.go:56,
\* catalog.go:130-154, 278).
THEOREM Exact == Spec => []EnumsExact
<1>1. ASSUME CatalogInv, EnumsInv, NEW s \in Sessions, ready(s), current[s],
             NEW r \in listedTables, NEW a \in columnRows(s), a.attrelid = relationOid(r)
      PROVE  pg_enum(s, a.atttypid) = labelsOf(r, a.attnum)
  <2> DEFINE checks == master[r].def.checks
             k      == a.attnum
             name   == columnsIn(r)[k].name
             mine   == {j \in DOMAIN checks : ToLower[checks[j].column] = name}
  <2>1. enums[s] = enumTypes(schemaTables)
    BY <1>1 DEF EnumsInv, ready
  <2>2. PICK q \in listedTables : \E l \in DOMAIN columnsIn(q) : typeOf(s, q, l, a)
    BY ColumnRows
  <2>3. PICK l \in DOMAIN columnsIn(q) : typeOf(s, q, l, a)
    BY <2>2
  <2>4. q = r /\ l = k
    BY <1>1, <2>3, ColumnOf DEF typeOf, relationOid
  <2>5. k \in DOMAIN columnsIn(r) /\ typeOf(s, r, k, a)
    BY <2>3, <2>4
  <2>6. r \in rows /\ isList(checks) /\ ~likeSqlite(r) /\ master[r].type \in {"table", "view"}
    BY <1>1 DEF listedTables, CatalogInv, sane, sound
  <2>7. labelsOf(r, k) = IF mine = {} THEN {} ELSE {checks[CHOOSE j \in mine : \A i \in mine : j <= i].labels}
    BY DEF labelsOf
  <2> HIDE DEF k
  <2>8. ASSUME NEW e \in enumCols(s, r, k)
        PROVE  \E j \in mine : j \in parseEnums(checks) /\ e.of = enumType(master[r].name, checks[j])
    <3>1. e \in enums[s] /\ e.of.table = master[r].name /\ ToLower[e.of.column] = name
      BY DEF enumCols
    <3>2. PICK j \in parseEnums(checks) : e.of = enumType(master[r].name, checks[j])
      BY <1>1, <2>1, <2>6, <3>1, EnumsOfTable
    <3>3. e.of.column = checks[j].column
      BY <3>2 DEF enumType
    <3>4. j \in mine
      BY <3>1, <3>3 DEF parseEnums
    <3> QED  BY <3>2, <3>4
  <2>9. ASSUME NEW e \in enums[s] PROVE pg_enum(s, e.oid) = {e.of.labels}
    <3>1. \A f \in enums[s] : f.oid = e.oid => f = e
      BY <1>1 DEF EnumsInv, soundEnums
    <3> QED  BY <3>1 DEF pg_enum
  <2>10. CASE mine = {}
    <3>1. enumCols(s, r, k) = {}
      BY <2>8, <2>10
    <3>2. a.atttypid \in Nat /\ a.atttypid <= 3802
      BY <2>5, <3>1, ColumnOf, DeclaredOid DEF typeOf
    <3>3. \A e \in enums[s] : e.oid # a.atttypid
      BY <1>1, <3>2 DEF EnumsInv, soundEnums
    <3>4. pg_enum(s, a.atttypid) = {}
      BY <3>3 DEF pg_enum
    <3> QED  BY <2>7, <2>10, <3>4 DEF k
  <2>11. CASE mine # {}
    <3>1. PICK first \in mine : first \in parseEnums(checks) /\ \A i \in mine : first <= i
      BY <2>6, <2>11, FirstTest
    <3>2. mine \subseteq Nat
      BY <2>6 DEF isList
    <3> DEFINE least(j) == \A i \in mine : j <= i
    <3>3. (CHOOSE j \in mine : least(j)) = first
      <4>1. \A j \in mine : least(j) => j = first
        BY <3>1, <3>2
      <4>2. least(first)
        BY <3>1
      <4> HIDE DEF least, mine
      <4> QED  BY <3>1, <4>1, <4>2
    <3>4. labelsOf(r, k) = {checks[first].labels}
      BY <2>7, <2>11, <3>3
    <3>5. r \in DOMAIN schemaTables
      <4>1. master[r].type = "table"
        BY <1>1, <2>6, <3>1 DEF CatalogInv, sane
      <4> QED  BY <1>1, <2>6, <4>1, SchemaSound
    <3>6. PICK e \in enums[s] : e.of = enumType(master[r].name, checks[first])
      BY <1>1, <2>1, <2>6, <3>1, <3>5, EnumsOfTable
    <3>7. /\ e.of.table = master[r].name /\ ToLower[e.of.column] = name
          /\ e.of.labels = checks[first].labels
      <4>1. /\ e.of.table = master[r].name /\ e.of.column = checks[first].column
            /\ e.of.labels = checks[first].labels
        BY <3>6 DEF enumType
      <4>2. ToLower[checks[first].column] = name
        BY <3>1
      <4> QED  BY <4>1, <4>2
    <3>8. e \in enumCols(s, r, k)
      BY <3>7 DEF enumCols
    <3>9. enumCols(s, r, k) = {e}
      BY <1>1, <3>8, OneEnum
    <3>10. a.atttypid = e.oid
      BY <2>5, <3>9, ColumnOf DEF typeOf
    <3> QED  BY <2>9, <3>4, <3>7, <3>10 DEF k
  <2> QED  BY <2>10, <2>11
<1>2. CatalogInv /\ EnumsInv => EnumsExact
  BY <1>1 DEF EnumsExact, labelsShown
<1> QED  BY <1>2, Invariance, EnumsInvariance, PTL
=============================================================================
