---------------------------- MODULE ScanProofs -----------------------------
(***************************************************************************)
(* Theorems of Scan, for every text: the scanners read quotes and          *)
(* parentheses as the reference does, what they cut, put together and      *)
(* replace are texts, a list put together of arguments is taken apart into *)
(* the same arguments, and doubling quotes is undone by replacing them.    *)
(* What a recursive function computes is proved by counting the places of  *)
(* the text upwards.                                                       *)
(***************************************************************************)
EXTENDS Scan, FiniteSetTheorems, SequenceTheorems, WellFoundedInduction, TLAPS

\* Every set of numbers has a least one.
LEMMA LeastNumber ==
    ASSUME NEW S \in SUBSET Nat, S # {}
    PROVE  \E x \in S : \A y \in S : x <= y
<1> DEFINE R == OpToRel(<, Nat)
<1>1. IsWellFoundedOn(R, Nat)
  BY NatLessThanWellFounded
<1>2. \A x, y \in Nat : <<x, y>> \in R <=> x < y
  BY DEF OpToRel
<1> HIDE DEF R
<1>3. PICK x \in S : \A y \in S : ~(<<y, x>> \in R)
  <2>1. S \subseteq Nat
    OBVIOUS
  <2> QED  BY <1>1, <2>1, WFMin, Zenon
<1>4. ASSUME NEW y \in S PROVE x <= y
  <2>1. x \in Nat /\ y \in Nat
    OBVIOUS
  <2>2. ~(y < x)
    BY <1>2, <1>3, <2>1
  <2> QED  BY <2>1, <2>2
<1> QED  BY <1>4

\* Counting upwards from m to n.
inductive(P, m, n) == m \in P /\ \A i \in m .. n - 1 : i \in P => i + 1 \in P

\* What holds at m, and at the next number wherever it holds, holds up to n.
LEMMA Upwards ==
    ASSUME NEW m \in Int, NEW n \in Int, NEW P, inductive(P, m, n)
    PROVE  m .. n \subseteq P
<1> USE DEF inductive
<1> DEFINE S == {k \in Nat : m + k <= n /\ m + k \notin P}
<1> SUFFICES S = {}
  <2>1. ASSUME NEW i \in m .. n PROVE i \in P
    <3>1. i - m \in Nat /\ m + (i - m) = i /\ i <= n
      OBVIOUS
    <3>2. i - m \notin S
      OBVIOUS
    <3> QED  BY <3>1, <3>2
  <2> QED  BY <2>1
<1> SUFFICES ASSUME S # {} PROVE FALSE
  OBVIOUS
<1>1. PICK k \in S : \A j \in S : k <= j
  BY LeastNumber
<1>2. k # 0
  OBVIOUS
<1>3. k - 1 \in Nat /\ m + (k - 1) \in m .. n - 1 /\ k - 1 \notin S /\ (m + (k - 1)) + 1 = m + k
  BY <1>1, <1>2
<1> QED  BY <1>3

\* A function defined from one place to the next exists.
stepsIn(step, V, m, n) == \A i \in m + 1 .. n : \A v \in V : step[i][v] \in V

follows(f, init, step, V, m, n) ==
    f \in [m .. n -> V] /\ f[m] = init /\ \A i \in m + 1 .. n : f[i] = step[i][f[i - 1]]

\* Whatever its first value and its steps, there is one on every stretch.
LEMMA Stepwise ==
    ASSUME NEW V, NEW m \in Int, NEW n \in Int, m <= n, NEW init \in V, NEW step, stepsIn(step, V, m, n)
    PROVE  \E f : follows(f, init, step, V, m, n)
<1> USE DEF stepsIn, follows
<1> DEFINE good(f, k) == follows(f, init, step, V, m, k)
           P == {k \in m .. n : \E f : good(f, k)}
<1>1. m \in P
  <2> DEFINE f == [i \in m .. m |-> init]
  <2>1. f \in [m .. m -> V] /\ f[m] = init
    OBVIOUS
  <2>2. m + 1 .. m = {} /\ m \in m .. n
    OBVIOUS
  <2> HIDE DEF f
  <2>3. good(f, m)
    BY <2>1, <2>2
  <2> QED  BY <2>2, <2>3
<1>2. ASSUME NEW k \in m .. n - 1, k \in P PROVE k + 1 \in P
  <2>1. PICK f : good(f, k)
    BY <1>2
  <2> DEFINE g == [i \in m .. k + 1 |-> IF i = k + 1 THEN step[k + 1][f[k]] ELSE f[i]]
  <2>2. f[k] \in V /\ k + 1 \in m + 1 .. n
    BY <2>1
  <2>3. step[k + 1][f[k]] \in V
    BY <2>2
  <2>4. g \in [m .. k + 1 -> V] /\ g[m] = init
    BY <2>1, <2>3
  <2>5. ASSUME NEW i \in m + 1 .. k + 1 PROVE g[i] = step[i][g[i - 1]]
    <3>1. CASE i = k + 1
      <4>1. g[k + 1] = step[k + 1][f[k]] /\ g[k] = f[k] /\ (k + 1) - 1 = k
        OBVIOUS
      <4> QED  BY <3>1, <4>1
    <3>2. CASE i # k + 1
      <4>1. i \in m + 1 .. k /\ i - 1 \in m .. k
        BY <3>2
      <4>2. g[i] = f[i] /\ g[i - 1] = f[i - 1]
        BY <4>1
      <4> QED  BY <2>1, <4>1, <4>2
    <3> QED  BY <3>1, <3>2
  <2>6. good(g, k + 1)
    BY <2>4, <2>5
  <2>7. k + 1 \in m .. n
    OBVIOUS
  <2> QED  BY <2>6, <2>7
<1> HIDE DEF P
<1>3. n \in P
  <2>1. \A i \in m .. n - 1 : i \in P => i + 1 \in P
    BY <1>2
  <2>2. m .. n \subseteq P
    BY <1>1, <2>1, Upwards DEF inductive
  <2> QED  BY <2>2
<1> QED  BY <1>3 DEF P

-----------------------------------------------------------------------------
(* The loop of matchParen and splitArgs, and the reading of a text.          *)

\* The states of the loop, and those of the reference.
States   == [depth : Int, inStr : BOOLEAN, skip : BOOLEAN]
Readings == [inside : BOOLEAN, open : Int]

\* What advance changes of a state leaves a state.
LEMMA Updates ==
    ASSUME NEW v \in States
    PROVE  /\ v.depth \in Int /\ v.inStr \in BOOLEAN /\ v.skip \in BOOLEAN
           /\ [v EXCEPT !.skip = FALSE] \in States
           /\ [v EXCEPT !.skip = TRUE] \in States
           /\ [v EXCEPT !.inStr = FALSE] \in States
           /\ [v EXCEPT !.inStr = TRUE] \in States
           /\ [v EXCEPT !.depth = @ + 1] \in States
           /\ [v EXCEPT !.depth = @ - 1] \in States
<1>1. v.depth \in Int /\ v.inStr \in BOOLEAN /\ v.skip \in BOOLEAN
  BY DEF States
<1>2. [v EXCEPT !.skip = FALSE] \in States
  BY DEF States
<1>3. [v EXCEPT !.skip = TRUE] \in States
  BY DEF States
<1>4. [v EXCEPT !.inStr = FALSE] \in States
  BY DEF States
<1>5. [v EXCEPT !.inStr = TRUE] \in States
  BY DEF States
<1>6. [v EXCEPT !.depth = @ + 1] \in States
  BY DEF States
<1>7. [v EXCEPT !.depth = @ - 1] \in States
  BY DEF States
<1> QED  BY <1>1, <1>2, <1>3, <1>4, <1>5, <1>6, <1>7

\* The state of the scanners at each place follows from that at the one before.
LEMMA ScanSteps ==
    ASSUME NEW s, Len(s) \in Nat, NEW first \in 1 .. Len(s) + 1
    PROVE  /\ scan(s, first)[first] = ScanStart
           /\ \A i \in first .. Len(s) + 1 : scan(s, first)[i] \in States
           /\ \A i \in first + 1 .. Len(s) + 1 :
                scan(s, first)[i] = advance(scan(s, first)[i - 1], s[i - 1], i <= Len(s) /\ s[i] = Quote)
<1> DEFINE last == Len(s) + 1
           next1(i, v) == advance(v, s[i - 1], i <= Len(s) /\ s[i] = Quote)
           step == [i \in first + 1 .. last |-> [v \in States |-> next1(i, v)]]
<1>1. ASSUME NEW v \in States, NEW c, NEW b PROVE advance(v, c, b) \in States
  BY Updates DEF advance
<1>2. \A i \in first + 1 .. last : \A v \in States : step[i][v] = next1(i, v) /\ step[i][v] \in States
  BY <1>1
<1>3. ScanStart \in States
  BY DEF ScanStart, States
<1> HIDE DEF step
<1>4. PICK f : follows(f, ScanStart, step, States, first, last)
  <2>1. stepsIn(step, States, first, last)
    BY <1>2 DEF stepsIn
  <2>2. first \in Int /\ last \in Int /\ first <= last
    OBVIOUS
  <2> HIDE DEF last, next1
  <2> QED  BY <1>3, <2>1, <2>2, Stepwise
<1> DEFINE rhs(g) == [i \in first .. last |-> IF i = first THEN ScanStart ELSE next1(i, g[i - 1])]
<1>5. f = rhs(f)
  <2>1. ASSUME NEW i \in first + 1 .. last PROVE f[i] = next1(i, f[i - 1])
    <3>1. i - 1 \in first .. last /\ f[i - 1] \in States
      BY <1>4 DEF follows
    <3> QED  BY <1>2, <1>4, <3>1 DEF follows
  <2>2. \A i \in first .. last : f[i] = IF i = first THEN ScanStart ELSE next1(i, f[i - 1])
    BY <1>4, <2>1 DEF follows
  <2> HIDE DEF next1
  <2> QED  BY <1>4, <2>2 DEF follows
<1>6. scan(s, first) = CHOOSE g : g = rhs(g)
  BY DEF scan
<1> HIDE DEF rhs
<1>7. scan(s, first) = rhs(scan(s, first))
  BY <1>5, <1>6
<1> HIDE DEF next1
<1>8. /\ scan(s, first)[first] = ScanStart
      /\ \A i \in first + 1 .. last : scan(s, first)[i] = next1(i, scan(s, first)[i - 1])
  BY <1>7 DEF rhs
<1> DEFINE P == {i \in first .. last : scan(s, first)[i] \in States}
<1>9. ASSUME NEW i \in first .. last - 1, i \in P PROVE i + 1 \in P
  <2>1. i + 1 \in first + 1 .. last /\ (i + 1) - 1 = i
    OBVIOUS
  <2>2. scan(s, first)[i + 1] = next1(i + 1, scan(s, first)[i])
    BY <1>8, <2>1
  <2>3. next1(i + 1, scan(s, first)[i]) \in States
    BY <1>1, <1>9 DEF next1
  <2> QED  BY <2>1, <2>2, <2>3
<1>10. first .. last \subseteq P
  <2>1. first \in P /\ first \in Int /\ last \in Int
    BY <1>3, <1>8
  <2>2. inductive(P, first, last)
    BY <1>9, <2>1 DEF inductive
  <2> HIDE DEF P, last
  <2> QED  BY <2>1, <2>2, Upwards
<1> QED  BY <1>8, <1>10 DEF next1

\* So does what the reference reads.
Outside == [inside |-> FALSE, open |-> 0]

\* One token of the reference reading, case by case.
LEMMA ReadUpdates ==
    ASSUME NEW b \in Readings, NEW c
    PROVE  /\ b.inside \in BOOLEAN /\ b.open \in Int /\ readOn(b, c) \in Readings
           /\ c = Quote => readOn(b, c).inside = ~b.inside /\ readOn(b, c).open = b.open
           /\ c # Quote => readOn(b, c).inside = b.inside
           /\ c # Quote /\ b.inside => readOn(b, c) = b
           /\ ~b.inside /\ c = "(" => readOn(b, c).open = b.open + 1
           /\ ~b.inside /\ c = ")" => readOn(b, c).open = b.open - 1
           /\ c \notin {Quote, "(", ")"} => readOn(b, c) = b
<1>1. b.inside \in BOOLEAN /\ b.open \in Int
  BY DEF Readings
<1>2. Quote # "(" /\ Quote # ")"
  BY DEF Quote
<1>3. CASE c = Quote
  BY <1>1, <1>2, <1>3 DEF Readings, readOn
<1>4. CASE c # Quote /\ b.inside
  BY <1>1, <1>2, <1>4 DEF readOn
<1>5. CASE ~b.inside /\ c = "("
  BY <1>1, <1>2, <1>5 DEF Readings, readOn
<1>6. CASE ~b.inside /\ c = ")"
  BY <1>1, <1>2, <1>6 DEF Readings, readOn
<1>7. CASE c \notin {Quote, "(", ")"}
  BY <1>1, <1>2, <1>7 DEF readOn
<1> QED  BY <1>1, <1>3, <1>4, <1>5, <1>6, <1>7

\* The reading at each place follows from that at the one before.
LEMMA ReadSteps ==
    ASSUME NEW s, Len(s) \in Nat, NEW first \in 1 .. Len(s) + 1
    PROVE  /\ reading(s, first)[first - 1] = Outside
           /\ \A i \in first - 1 .. Len(s) : reading(s, first)[i] \in Readings
           /\ \A i \in first .. Len(s) : reading(s, first)[i] = readOn(reading(s, first)[i - 1], s[i])
<1> DEFINE m == first - 1
           n == Len(s)
           step == [i \in m + 1 .. n |-> [v \in Readings |-> readOn(v, s[i])]]
<1>1. \A i \in m + 1 .. n : \A v \in Readings : step[i][v] = readOn(v, s[i]) /\ step[i][v] \in Readings
  BY ReadUpdates
<1>2. Outside \in Readings
  BY DEF Outside, Readings
<1>3. m \in Int /\ n \in Int /\ m <= n /\ m + 1 = first
  OBVIOUS
<1> HIDE DEF step
<1>4. PICK f : follows(f, Outside, step, Readings, m, n)
  <2>1. stepsIn(step, Readings, m, n)
    BY <1>1 DEF stepsIn
  <2> HIDE DEF m, n
  <2> QED  BY <1>2, <1>3, <2>1, Stepwise
<1> DEFINE rhs(g) == [i \in m .. n |-> IF i < first THEN Outside ELSE readOn(g[i - 1], s[i])]
<1>5. f = rhs(f)
  <2>1. ASSUME NEW i \in m + 1 .. n PROVE f[i] = readOn(f[i - 1], s[i])
    <3>1. i - 1 \in m .. n /\ f[i - 1] \in Readings
      BY <1>4 DEF follows
    <3> QED  BY <1>1, <1>4, <3>1 DEF follows
  <2>2. \A i \in m .. n : f[i] = IF i < first THEN Outside ELSE readOn(f[i - 1], s[i])
    BY <1>4, <2>1 DEF follows
  <2> QED  BY <1>4, <2>2 DEF follows
<1>6. reading(s, first) = CHOOSE g : g = rhs(g)
  BY DEF reading, Outside
<1> HIDE DEF rhs
<1>7. reading(s, first) = rhs(reading(s, first))
  BY <1>5, <1>6
<1>8. /\ reading(s, first)[m] = Outside
      /\ \A i \in first .. n : reading(s, first)[i] = readOn(reading(s, first)[i - 1], s[i])
  BY <1>7 DEF rhs
<1> DEFINE P == {i \in m .. n : reading(s, first)[i] \in Readings}
<1>9. ASSUME NEW i \in m .. n - 1, i \in P PROVE i + 1 \in P
  <2>1. i + 1 \in first .. n /\ (i + 1) - 1 = i
    OBVIOUS
  <2>2. reading(s, first)[i + 1] = readOn(reading(s, first)[i], s[i + 1])
    BY <1>8, <2>1
  <2>3. readOn(reading(s, first)[i], s[i + 1]) \in Readings
    BY <1>9, ReadUpdates
  <2> QED  BY <2>1, <2>2, <2>3
<1>10. m .. n \subseteq P
  <2>1. m \in P
    BY <1>2, <1>3, <1>8
  <2>2. inductive(P, m, n)
    BY <1>9, <2>1 DEF inductive
  <2> HIDE DEF P, m, n
  <2> QED  BY <1>3, <2>2, Upwards
<1> QED  BY <1>8, <1>10

\* One byte of the loop of matchParen and splitArgs (rewrite.go:304-327), case by case.
LEMMA Advances ==
    ASSUME NEW v \in States, NEW c, NEW b \in BOOLEAN
    PROVE  /\ advance(v, c, b) \in States
           /\ v.skip => /\ ~advance(v, c, b).skip /\ advance(v, c, b).inStr = v.inStr
                        /\ advance(v, c, b).depth = v.depth
           /\ ~v.skip /\ v.inStr /\ c # Quote => advance(v, c, b) = v
           /\ ~v.skip /\ v.inStr /\ c = Quote =>
                /\ advance(v, c, b).skip = b /\ advance(v, c, b).inStr = b
                /\ advance(v, c, b).depth = v.depth
           /\ ~v.skip /\ ~v.inStr => ~advance(v, c, b).skip /\ (advance(v, c, b).inStr <=> c = Quote)
           /\ ~v.skip /\ ~v.inStr /\ c = "(" => advance(v, c, b).depth = v.depth + 1
           /\ ~v.skip /\ ~v.inStr /\ c = ")" => advance(v, c, b).depth = v.depth - 1
           /\ ~v.skip /\ ~v.inStr /\ c \notin {"(", ")"} => advance(v, c, b).depth = v.depth
<1>1. v.depth \in Int /\ v.inStr \in BOOLEAN /\ v.skip \in BOOLEAN
  BY Updates
<1>2. Quote # "(" /\ Quote # ")"
  BY DEF Quote
<1>3. advance(v, c, b) \in States
  BY Updates DEF advance
<1>4. CASE v.skip
  BY <1>1, <1>3, <1>4 DEF advance, States
<1>5. CASE ~v.skip /\ v.inStr /\ c # Quote
  BY <1>1, <1>3, <1>5 DEF advance
<1>6. CASE ~v.skip /\ v.inStr /\ c = Quote
  <2>1. advance(v, c, b) = IF b THEN [v EXCEPT !.skip = TRUE] ELSE [v EXCEPT !.inStr = FALSE]
    BY <1>1, <1>6 DEF advance
  <2> QED  BY <1>1, <1>3, <1>6, <2>1 DEF States
<1>7. CASE ~v.skip /\ ~v.inStr /\ c = Quote
  <2>1. advance(v, c, b) = [v EXCEPT !.inStr = TRUE]
    BY <1>1, <1>7 DEF advance
  <2> QED  BY <1>1, <1>2, <1>3, <1>7, <2>1 DEF States
<1>8. CASE ~v.skip /\ ~v.inStr /\ c = "("
  <2>1. advance(v, c, b) = [v EXCEPT !.depth = @ + 1]
    BY <1>1, <1>2, <1>8 DEF advance
  <2> QED  BY <1>1, <1>2, <1>3, <1>8, <2>1 DEF States
<1>9. CASE ~v.skip /\ ~v.inStr /\ c = ")"
  <2>1. advance(v, c, b) = [v EXCEPT !.depth = @ - 1]
    BY <1>1, <1>2, <1>9 DEF advance
  <2> QED  BY <1>1, <1>2, <1>3, <1>9, <2>1 DEF States
<1>10. CASE ~v.skip /\ ~v.inStr /\ c \notin {Quote, "(", ")"}
  <2>1. advance(v, c, b) = v
    BY <1>1, <1>10 DEF advance
  <2> QED  BY <1>1, <1>3, <1>10, <2>1
<1> QED  BY <1>1, <1>4, <1>5, <1>6, <1>7, <1>8, <1>9, <1>10

\* The scanner's state before a place and what the reference reads before it.
agree(v, b, quoteNext) ==
    /\ ~v.skip => (v.inStr <=> b.inside)
    /\ v.skip => quoteNext /\ v.inStr /\ ~b.inside
    /\ v.depth = b.open

\* After one more byte the loop and the reference still agree, doubled quotes included.
LEMMA AgreeOn ==
    ASSUME NEW v \in States, NEW b \in Readings, NEW c, NEW quoteNext \in BOOLEAN, agree(v, b, c = Quote)
    PROVE  agree(advance(v, c, quoteNext), readOn(b, c), quoteNext)
<1>1. /\ v.depth \in Int /\ v.inStr \in BOOLEAN /\ v.skip \in BOOLEAN
      /\ b.inside \in BOOLEAN /\ b.open \in Int /\ readOn(b, c) \in Readings
      /\ Quote # "(" /\ Quote # ")"
  BY Updates, ReadUpdates DEF Quote
<1>2. readOn(b, c).inside \in BOOLEAN /\ readOn(b, c).open \in Int
  BY <1>1, ReadUpdates
<1> DEFINE a == advance(v, c, quoteNext)
           r == readOn(b, c)
<1>3. /\ r.inside \in BOOLEAN /\ r.open \in Int
      /\ c = Quote => (r.inside <=> ~b.inside) /\ r.open = b.open
      /\ c # Quote => (r.inside <=> b.inside)
      /\ c # Quote /\ b.inside => r.open = b.open
      /\ ~b.inside /\ c = "(" => r.open = b.open + 1
      /\ ~b.inside /\ c = ")" => r.open = b.open - 1
      /\ c \notin {Quote, "(", ")"} => r.open = b.open
  BY <1>2, ReadUpdates
<1>4. /\ v.skip => ~a.skip /\ (a.inStr <=> v.inStr) /\ a.depth = v.depth
      /\ ~v.skip /\ v.inStr /\ c # Quote => (a.inStr <=> v.inStr) /\ (a.skip <=> v.skip) /\ a.depth = v.depth
      /\ ~v.skip /\ v.inStr /\ c = Quote => (a.skip <=> quoteNext) /\ (a.inStr <=> quoteNext) /\ a.depth = v.depth
      /\ ~v.skip /\ ~v.inStr => ~a.skip /\ (a.inStr <=> c = Quote)
      /\ ~v.skip /\ ~v.inStr /\ c = "(" => a.depth = v.depth + 1
      /\ ~v.skip /\ ~v.inStr /\ c = ")" => a.depth = v.depth - 1
      /\ ~v.skip /\ ~v.inStr /\ c \notin {"(", ")"} => a.depth = v.depth
      /\ a.skip \in BOOLEAN /\ a.inStr \in BOOLEAN /\ a.depth \in Int
  <2>1. a \in States
    BY Advances
  <2>2. a.skip \in BOOLEAN /\ a.inStr \in BOOLEAN /\ a.depth \in Int
    BY <2>1, Updates
  <2> QED  BY <2>2, Advances
<1> HIDE DEF a, r
<1>5. agree(a, r, quoteNext)
  <2>1. CASE v.skip
    BY <1>1, <1>3, <1>4, <2>1 DEF agree
  <2>2. CASE ~v.skip /\ v.inStr
    BY <1>1, <1>3, <1>4, <2>2 DEF agree
  <2>3. CASE ~v.skip /\ ~v.inStr
    BY <1>1, <1>3, <1>4, <2>3 DEF agree
  <2> QED  BY <1>1, <2>1, <2>2, <2>3
<1> QED  BY <1>5 DEF a, r

\* The scanners agree with the reference at every place.
LEMMA Agreement ==
    ASSUME NEW s, Len(s) \in Nat, NEW first \in 1 .. Len(s)
    PROVE  \A i \in first .. Len(s) : agree(scan(s, first)[i], reading(s, first)[i - 1], s[i] = Quote)
<1> DEFINE n == Len(s)
           P == {i \in first .. n : agree(scan(s, first)[i], reading(s, first)[i - 1], s[i] = Quote)}
<1>1. first \in P
  <2>1. scan(s, first)[first] = ScanStart /\ reading(s, first)[first - 1] = Outside
    BY ScanSteps, ReadSteps
  <2>2. agree(ScanStart, Outside, s[first] = Quote)
    BY DEF agree, ScanStart, Outside
  <2>3. first \in first .. n
    OBVIOUS
  <2> QED  BY <2>1, <2>2, <2>3
<1>2. ASSUME NEW i \in first .. n - 1, i \in P PROVE i + 1 \in P
  <2>1. /\ scan(s, first)[i] \in States /\ reading(s, first)[i - 1] \in Readings
        /\ reading(s, first)[i] = readOn(reading(s, first)[i - 1], s[i])
        /\ i + 1 \in first .. n /\ (i + 1) - 1 = i
    BY ScanSteps, ReadSteps
  <2>2. scan(s, first)[i + 1] = advance(scan(s, first)[i], s[i], s[i + 1] = Quote)
    <3>1. i + 1 \in first + 1 .. n + 1 /\ i + 1 <= n
      OBVIOUS
    <3>2. scan(s, first)[i + 1] = advance(scan(s, first)[(i + 1) - 1], s[(i + 1) - 1], i + 1 <= n /\ s[i + 1] = Quote)
      BY <3>1, ScanSteps
    <3>3. (i + 1 <= n /\ s[i + 1] = Quote) = (s[i + 1] = Quote)
      BY <3>1
    <3> QED  BY <2>1, <3>2, <3>3
  <2>3. agree(scan(s, first)[i + 1], reading(s, first)[i], s[i + 1] = Quote)
    <3>1. (s[i + 1] = Quote) \in BOOLEAN
      OBVIOUS
    <3>2. agree(scan(s, first)[i], reading(s, first)[i - 1], s[i] = Quote)
      BY <1>2
    <3> QED  BY <2>1, <2>2, <3>1, <3>2, AgreeOn
  <2> QED  BY <2>1, <2>3
<1>3. first .. n \subseteq P
  <2>1. inductive(P, first, n) /\ first \in Int /\ n \in Int
    BY <1>1, <1>2 DEF inductive
  <2> HIDE DEF P, n
  <2> QED  BY <2>1, Upwards
<1> QED  BY <1>3

\* The least of a set of numbers is one of them.
LEMMA LeastIn ==
    ASSUME NEW S \in SUBSET Nat, S # {}
    PROVE  least(S) \in S /\ \A j \in S : least(S) <= j
  BY LeastNumber DEF least

\* matchParen finds the parenthesis that closes the one it starts at, in every text.
LEMMA ParenMatched ==
    ASSUME NEW s, Len(s) \in Nat, NEW open \in 1 .. Len(s), s[open] = "("
    PROVE  LET r == reading(s, open)
               end == matchParen(s, open)
               balanced == {i \in open .. Len(s) : s[i] # Quote /\ ~r[i].inside /\ r[i].open = 0}
           IN IF end = 0 THEN balanced = {} ELSE end \in balanced /\ \A i \in balanced : end <= i
<1> DEFINE n == Len(s)
           r == reading(s, open)
           st == scan(s, open)
           closing == {i \in open .. n : s[i] = ")" /\ ~st[i].inStr /\ st[i].depth = 1}
           balanced == {i \in open .. n : s[i] # Quote /\ ~r[i].inside /\ r[i].open = 0}
           end == matchParen(s, open)
<1>1. /\ r[open - 1] = Outside
      /\ \A i \in open .. n : r[i - 1] \in Readings /\ r[i] \in Readings /\ r[i] = readOn(r[i - 1], s[i])
  <2>1. \A i \in open .. n : i - 1 \in open - 1 .. n /\ i \in open - 1 .. n
    OBVIOUS
  <2> QED  BY <2>1, ReadSteps
<1>2. \A i \in open .. n : agree(st[i], r[i - 1], s[i] = Quote)
  BY Agreement
<1>3. end = IF closing = {} THEN 0 ELSE least(closing)
  BY DEF matchParen
<1>4. Quote # "(" /\ Quote # ")" /\ "(" # ")"
  BY DEF Quote
<1> HIDE DEF r, st, end
<1>5. \A i : i \in closing <=> i \in open .. n /\ s[i] = ")" /\ ~r[i - 1].inside /\ r[i - 1].open = 1
  BY <1>2, <1>4 DEF agree
<1> HIDE DEF closing
<1>6. closing \subseteq balanced /\ closing \subseteq Nat
  <2>1. ASSUME NEW i \in closing PROVE i \in balanced
    <3>1. i \in open .. n /\ s[i] = ")" /\ ~r[i - 1].inside /\ r[i - 1].open = 1
      BY <1>5
    <3>2. r[i - 1] \in Readings /\ r[i] = readOn(r[i - 1], s[i])
      BY <1>1, <3>1
    <3>3. (r[i].inside <=> r[i - 1].inside) /\ r[i].open = 0
      BY <1>4, <3>1, <3>2, ReadUpdates
    <3> QED  BY <1>4, <3>1, <3>3
  <2> QED  BY <1>5, <2>1
<1> DEFINE P == {k \in open .. n : (\A j \in closing : k < j) => r[k].open >= 1}
<1>7. open \in P
  <2>1. r[open] = readOn(Outside, "(") /\ Outside \in Readings /\ Outside.open = 0 /\ ~Outside.inside
    BY <1>1 DEF Outside, Readings
  <2>2. r[open].open = 1
    BY <2>1, ReadUpdates
  <2> QED  BY <2>2
<1>8. ASSUME NEW k \in open .. n - 1, k \in P PROVE k + 1 \in P
  <2> SUFFICES ASSUME \A j \in closing : k + 1 < j PROVE r[k + 1].open >= 1
    OBVIOUS
  <2>1. k + 1 \in open .. n /\ (k + 1) - 1 = k
    OBVIOUS
  <2>2. k + 1 \notin closing
    OBVIOUS
  <2>3. \A j \in closing : k < j
    BY <1>6
  <2>4. r[k].open >= 1
    BY <1>8, <2>3
  <2>5. r[k] \in Readings /\ r[k + 1] = readOn(r[k], s[k + 1])
    BY <1>1, <2>1
  <2>6. r[k].open \in Int /\ r[k].inside \in BOOLEAN
    BY <2>5, ReadUpdates
  <2>7. CASE r[k].inside /\ s[k + 1] # Quote
    BY <2>4, <2>5, <2>7, ReadUpdates
  <2>8. CASE s[k + 1] = Quote
    BY <2>4, <2>5, <2>8, ReadUpdates
  <2>9. CASE ~r[k].inside /\ s[k + 1] = "("
    <3>1. r[k + 1].open = r[k].open + 1
      BY <2>5, <2>9, ReadUpdates
    <3> QED  BY <2>4, <2>6, <3>1
  <2>10. CASE ~r[k].inside /\ s[k + 1] = ")"
    <3>1. r[k + 1].open = r[k].open - 1
      BY <2>5, <2>10, ReadUpdates
    <3>2. r[k].open # 1
      BY <1>5, <2>1, <2>2, <2>10
    <3> QED  BY <2>4, <2>6, <3>1, <3>2
  <2>11. CASE s[k + 1] \notin {Quote, "(", ")"}
    BY <2>4, <2>5, <2>11, ReadUpdates
  <2> QED  BY <2>6, <2>7, <2>8, <2>9, <2>10, <2>11
<1>9. open .. n \subseteq P
  <2>1. inductive(P, open, n) /\ open \in Int /\ n \in Int
    BY <1>7, <1>8 DEF inductive
  <2> HIDE DEF P, n
  <2> QED  BY <2>1, Upwards
<1>10. CASE closing = {}
  <2>1. \A i \in open .. n : r[i].open >= 1
    BY <1>9, <1>10
  <2>2. end = 0 /\ balanced = {}
    BY <1>3, <1>10, <2>1
  <2> QED  BY <2>2 DEF r, end
<1>11. CASE closing # {}
  <2>1. end \in closing /\ \A j \in closing : end <= j
    BY <1>3, <1>6, <1>11, LeastIn
  <2>2. end # 0 /\ end \in balanced /\ end \in Nat
    BY <1>6, <2>1
  <2>3. ASSUME NEW i \in balanced PROVE end <= i
    <3> SUFFICES ASSUME ~(end <= i) PROVE FALSE
      OBVIOUS
    <3>1. \A j \in closing : i < j
      BY <1>6, <2>1, <2>2
    <3>2. r[i].open >= 1
      BY <1>9, <3>1
    <3> QED  BY <3>2
  <2> HIDE DEF balanced
  <2>4. IF end = 0 THEN balanced = {} ELSE end \in balanced /\ \A i \in balanced : end <= i
    BY <2>2, <2>3
  <2> QED  BY <2>4 DEF r, end, balanced
<1> QED  BY <1>10, <1>11

-----------------------------------------------------------------------------
(* Pieces put together.                                                      *)

\* Three texts over T.
texts(T, s, t, u) == s \in Seq(T) /\ t \in Seq(T) /\ u \in Seq(T)

\* Concatenation is associative, in the form the proofs below use.
LEMMA Associative ==
    ASSUME NEW T, NEW s, NEW t, NEW u, texts(T, s, t, u)
    PROVE  (s \o t) \o u = s \o (t \o u)
  BY ConcatAssociative DEF texts

\* What FlattenSeq computes, for each number of pieces.
flat(ss) ==
    LET flatten[i \in 1 .. Len(ss)] == IF i = 1 THEN ss[i] ELSE flatten[i - 1] \o ss[i]
    IN flatten

\* FlattenSeq puts the pieces together one after the other.
LEMMA FlatSteps ==
    ASSUME NEW T, NEW ss \in Seq(Seq(T)), ss # <<>>
    PROVE  /\ Len(ss) \in Nat /\ Len(ss) >= 1 /\ FlattenSeq(ss) = flat(ss)[Len(ss)]
           /\ flat(ss)[1] = ss[1]
           /\ \A i \in 2 .. Len(ss) : flat(ss)[i] = flat(ss)[i - 1] \o ss[i]
           /\ \A i \in 1 .. Len(ss) : flat(ss)[i] \in Seq(T)
<1> DEFINE n == Len(ss)
           V == Seq(T)
           step == [i \in 2 .. n |-> [v \in V |-> v \o ss[i]]]
<1>1. n \in Nat /\ n >= 1 /\ \A i \in 1 .. n : ss[i] \in V
  BY LenProperties, EmptySeq, ElementOfSeq
<1>2. \A i \in 2 .. n : \A v \in V : step[i][v] = v \o ss[i] /\ step[i][v] \in V
  BY <1>1, ConcatProperties
<1>3. FlattenSeq(ss) = flat(ss)[n]
  BY <1>1 DEF FlattenSeq, flat
<1> HIDE DEF step, V
<1>4. PICK f : follows(f, ss[1], step, V, 1, n)
  <2>1. stepsIn(step, V, 1, n)
    BY <1>2 DEF stepsIn
  <2>2. ss[1] \in V
    BY <1>1
  <2> HIDE DEF n
  <2> QED  BY <1>1, <2>1, <2>2, Stepwise
<1> DEFINE rhs(g) == [i \in 1 .. n |-> IF i = 1 THEN ss[i] ELSE g[i - 1] \o ss[i]]
<1>5. f = rhs(f)
  <2>1. f \in [1 .. n -> V] /\ f[1] = ss[1] /\ \A i \in 2 .. n : f[i] = step[i][f[i - 1]]
    BY <1>4 DEF follows
  <2>2. ASSUME NEW i \in 2 .. n PROVE f[i] = f[i - 1] \o ss[i]
    <3>1. i - 1 \in 1 .. n
      BY <1>1
    <3>2. f[i - 1] \in V
      BY <2>1, <3>1
    <3> QED  BY <1>2, <2>1, <3>2
  <2>3. ASSUME NEW i \in 1 .. n PROVE f[i] = IF i = 1 THEN ss[i] ELSE f[i - 1] \o ss[i]
    <3>1. i = 1 \/ i \in 2 .. n
      BY <1>1
    <3> QED  BY <2>1, <2>2, <3>1
  <2> QED  BY <2>1, <2>3
<1>6. flat(ss) = CHOOSE g : g = rhs(g)
  BY DEF flat
<1> HIDE DEF rhs
<1>7. flat(ss) = rhs(flat(ss))
  BY <1>5, <1>6
<1>8. flat(ss)[1] = ss[1] /\ \A i \in 2 .. n : flat(ss)[i] = flat(ss)[i - 1] \o ss[i]
  <2>1. 1 \in 1 .. n /\ \A i \in 2 .. n : i \in 1 .. n /\ i # 1
    BY <1>1
  <2>2. \A i \in 1 .. n : rhs(flat(ss))[i] = IF i = 1 THEN ss[i] ELSE flat(ss)[i - 1] \o ss[i]
    BY DEF rhs
  <2> QED  BY <1>7, <2>1, <2>2
<1> DEFINE P == {i \in 1 .. n : flat(ss)[i] \in V}
<1>9. ASSUME NEW i \in 1 .. n - 1, i \in P PROVE i + 1 \in P
  <2>1. i + 1 \in 2 .. n /\ i + 1 \in 1 .. n /\ (i + 1) - 1 = i
    BY <1>1
  <2>2. flat(ss)[i + 1] = flat(ss)[i] \o ss[i + 1] /\ ss[i + 1] \in V /\ flat(ss)[i] \in V
    BY <1>1, <1>8, <1>9, <2>1
  <2>3. flat(ss)[i + 1] \in V
    BY <2>2, ConcatProperties DEF V
  <2> QED  BY <2>1, <2>3
<1>10. 1 .. n \subseteq P
  <2>1. 1 \in P
    BY <1>1, <1>8
  <2>2. inductive(P, 1, n)
    BY <1>9, <2>1 DEF inductive
  <2> HIDE DEF P, n
  <2> QED  BY <1>1, <2>2, Upwards
<1> QED  BY <1>1, <1>3, <1>8, <1>10 DEF V

\* Texts with the same first pieces begin in the same way.
sameUpTo(ss, tt, k) == \A i \in 1 .. k : ss[i] = tt[i]

\* As far as two lists have the same pieces, they make the same text.
LEMMA FlatAgree ==
    ASSUME NEW T, NEW ss \in Seq(Seq(T)), NEW tt \in Seq(Seq(T)), ss # <<>>, tt # <<>>,
           NEW k \in 1 .. Len(ss), k <= Len(tt), sameUpTo(ss, tt, k)
    PROVE  flat(ss)[k] = flat(tt)[k]
<1> USE DEF sameUpTo
<1> DEFINE P == {i \in 1 .. k : flat(ss)[i] = flat(tt)[i]}
<1>1. k \in Nat /\ k >= 1 /\ Len(ss) \in Nat /\ Len(tt) \in Nat
  BY FlatSteps
<1>2. 1 \in P
  <2>1. 1 \in 1 .. k /\ ss[1] = tt[1]
    BY <1>1
  <2>2. flat(ss)[1] = ss[1] /\ flat(tt)[1] = tt[1]
    BY FlatSteps
  <2> QED  BY <2>1, <2>2
<1>3. ASSUME NEW i \in 1 .. k - 1, i \in P PROVE i + 1 \in P
  <2>1. i + 1 \in 1 .. k /\ i + 1 \in 2 .. Len(ss) /\ i + 1 \in 2 .. Len(tt) /\ (i + 1) - 1 = i
    BY <1>1
  <2>2. flat(ss)[i + 1] = flat(ss)[i] \o ss[i + 1]
    BY <2>1, FlatSteps
  <2>3. flat(tt)[i + 1] = flat(tt)[i] \o tt[i + 1]
    BY <2>1, FlatSteps
  <2> QED  BY <1>3, <2>1, <2>2, <2>3
<1>4. 1 .. k \subseteq P
  <2>1. inductive(P, 1, k)
    BY <1>2, <1>3 DEF inductive
  <2> HIDE DEF P
  <2> QED  BY <1>1, <2>1, Upwards
<1> QED  BY <1>1, <1>4

\* A function on 1 .. n is a sequence of length n.
LEMMA FunctionSeq ==
    ASSUME NEW V, NEW n \in Nat, NEW f \in [1 .. n -> V]
    PROVE  f \in Seq(V) /\ Len(f) = n
  OBVIOUS

\* The pieces with what stands before each.
parted(p, b) == [k \in DOMAIN p |-> IF k = 1 THEN p[k] ELSE b \o p[k]]

\* `joined` is the pieces, each but the first after the separator, put together.
LEMMA Parted ==
    ASSUME NEW T, NEW p \in Seq(Seq(T)), p # <<>>, NEW b \in Seq(T)
    PROVE  /\ Len(p) \in Nat /\ Len(p) >= 1 /\ Len(parted(p, b)) = Len(p)
           /\ parted(p, b) \in Seq(Seq(T)) /\ parted(p, b) # <<>>
           /\ parted(p, b)[1] = p[1]
           /\ \A i \in 2 .. Len(p) : parted(p, b)[i] = b \o p[i]
           /\ \A i \in 1 .. Len(p) : p[i] \in Seq(T)
           /\ joined(p, b) = flat(parted(p, b))[Len(p)]
<1> DEFINE n == Len(p)
           V == Seq(T)
<1>1. n \in Nat /\ n >= 1 /\ DOMAIN p = 1 .. n /\ \A i \in 1 .. n : p[i] \in V
  BY LenProperties, EmptySeq, ElementOfSeq
<1>2. \A i \in 1 .. n : b \o p[i] \in V
  BY <1>1, ConcatProperties
<1>3. parted(p, b) \in [1 .. n -> V]
  <2> HIDE DEF V
  <2> QED  BY <1>1, <1>2 DEF parted
<1>4. parted(p, b) \in Seq(V) /\ Len(parted(p, b)) = n
  <2> HIDE DEF V, n
  <2> QED  BY <1>1, <1>3, FunctionSeq
<1>5. parted(p, b) # <<>>
  BY <1>1, <1>4, EmptySeq
<1>6. parted(p, b)[1] = p[1] /\ \A i \in 2 .. n : parted(p, b)[i] = b \o p[i]
  <2>1. 1 \in DOMAIN p /\ \A i \in 2 .. n : i \in DOMAIN p /\ i # 1
    BY <1>1
  <2> QED  BY <2>1 DEF parted
<1>7. joined(p, b) = FlattenSeq(parted(p, b))
  BY DEF joined, parted
<1>8. joined(p, b) = flat(parted(p, b))[n]
  BY <1>4, <1>5, <1>7, FlatSteps
<1> QED  BY <1>1, <1>4, <1>5, <1>6, <1>8

\* One piece, one more piece, and a last piece that grows.
LEMMA JoinedOne ==
    ASSUME NEW T, NEW x \in Seq(T), NEW b \in Seq(T)
    PROVE  joined(<<x>>, b) = x
<1>1. <<x>> \in Seq(Seq(T)) /\ <<x>> # <<>> /\ Len(<<x>>) = 1 /\ <<x>>[1] = x
  OBVIOUS
<1>2. parted(<<x>>, b)[1] = x /\ parted(<<x>>, b) \in Seq(Seq(T)) /\ parted(<<x>>, b) # <<>>
      /\ joined(<<x>>, b) = flat(parted(<<x>>, b))[1]
  BY <1>1, Parted
<1> QED  BY <1>2, FlatSteps

\* Pieces over T with a separator over T make a text over T.
LEMMA JoinedIn ==
    ASSUME NEW T, NEW p \in Seq(Seq(T)), p # <<>>, NEW b \in Seq(T)
    PROVE  joined(p, b) \in Seq(T)
<1>1. /\ parted(p, b) \in Seq(Seq(T)) /\ parted(p, b) # <<>> /\ Len(parted(p, b)) = Len(p)
      /\ Len(p) \in Nat /\ Len(p) >= 1 /\ joined(p, b) = flat(parted(p, b))[Len(p)]
  BY Parted
<1>2. Len(p) \in 1 .. Len(parted(p, b))
  BY <1>1
<1> QED  BY <1>1, <1>2, FlatSteps

\* One more piece comes after one more separator.
LEMMA JoinedMore ==
    ASSUME NEW T, NEW p \in Seq(Seq(T)), p # <<>>, NEW x \in Seq(T), NEW b \in Seq(T)
    PROVE  joined(Append(p, x), b) = joined(p, b) \o (b \o x)
<1> DEFINE o == Append(p, x)
           n == Len(p)
<1>1. n \in Nat /\ n >= 1
  BY Parted
<1>2. /\ o \in Seq(Seq(T)) /\ o # <<>> /\ Len(o) = n + 1 /\ o[n + 1] = x
      /\ \A i \in 1 .. n : o[i] = p[i]
  BY <1>1
<1> HIDE DEF o
<1>3. /\ parted(o, b) \in Seq(Seq(T)) /\ parted(o, b) # <<>> /\ Len(parted(o, b)) = n + 1
      /\ parted(o, b)[1] = o[1] /\ \A i \in 2 .. n + 1 : parted(o, b)[i] = b \o o[i]
      /\ joined(o, b) = flat(parted(o, b))[n + 1]
  <2>1. /\ parted(o, b) \in Seq(Seq(T)) /\ parted(o, b) # <<>> /\ Len(parted(o, b)) = Len(o)
        /\ parted(o, b)[1] = o[1] /\ \A i \in 2 .. Len(o) : parted(o, b)[i] = b \o o[i]
        /\ joined(o, b) = flat(parted(o, b))[Len(o)]
    BY <1>2, Parted
  <2> HIDE DEF n
  <2> QED  BY <1>2, <2>1
<1>4. /\ parted(p, b) \in Seq(Seq(T)) /\ parted(p, b) # <<>> /\ Len(parted(p, b)) = n
      /\ parted(p, b)[1] = p[1] /\ \A i \in 2 .. n : parted(p, b)[i] = b \o p[i]
      /\ joined(p, b) = flat(parted(p, b))[n]
  BY Parted
<1>5. sameUpTo(parted(p, b), parted(o, b), n)
  <2> SUFFICES ASSUME NEW i \in 1 .. n PROVE parted(p, b)[i] = parted(o, b)[i]
    BY DEF sameUpTo
  <2>1. o[i] = p[i] /\ (i = 1 \/ (i \in 2 .. n /\ i \in 2 .. n + 1))
    BY <1>1, <1>2
  <2> QED  BY <1>1, <1>2, <1>3, <1>4, <2>1
<1>6. n \in 1 .. Len(parted(p, b)) /\ n <= Len(parted(o, b)) /\ n + 1 \in 2 .. Len(parted(o, b)) /\ (n + 1) - 1 = n
  BY <1>1, <1>3, <1>4
<1> HIDE DEF n
<1>7. flat(parted(p, b))[n] = flat(parted(o, b))[n]
  <2> DEFINE u == parted(p, b)
             w == parted(o, b)
  <2>1. /\ u \in Seq(Seq(T)) /\ u # <<>> /\ w \in Seq(Seq(T)) /\ w # <<>>
        /\ sameUpTo(u, w, n) /\ n \in 1 .. Len(u) /\ n <= Len(w)
    BY <1>3, <1>4, <1>5, <1>6
  <2> HIDE DEF u, w
  <2>2. flat(u)[n] = flat(w)[n]
    BY <2>1, FlatAgree
  <2> QED  BY <2>2 DEF u, w
<1>8. flat(parted(o, b))[n + 1] = flat(parted(o, b))[n] \o parted(o, b)[n + 1]
  BY <1>3, <1>6, FlatSteps
<1>9. parted(o, b)[n + 1] = b \o x
  BY <1>2, <1>3, <1>6
<1> QED  BY <1>3, <1>4, <1>7, <1>8, <1>9 DEF o

\* The last piece with one token more.
grown(p, c) == [p EXCEPT ![Len(p)] = Append(@, c)]

\* Letting the last piece grow leaves the others as they are.
LEMMA Grown ==
    ASSUME NEW T, NEW p \in Seq(Seq(T)), p # <<>>, NEW c \in T
    PROVE  /\ grown(p, c) \in Seq(Seq(T)) /\ grown(p, c) # <<>> /\ Len(grown(p, c)) = Len(p)
           /\ grown(p, c)[Len(p)] = p[Len(p)] \o <<c>>
           /\ \A i \in 1 .. Len(p) - 1 : grown(p, c)[i] = p[i]
<1> DEFINE n == Len(p)
           V == Seq(T)
<1>1. n \in Nat /\ n >= 1 /\ \A i \in 1 .. n : p[i] \in V
  BY LenProperties, EmptySeq, ElementOfSeq
<1>2. n \in 1 .. n /\ p[n] \in V
  BY <1>1
<1>3. Append(p[n], c) \in V /\ Append(p[n], c) = p[n] \o <<c>>
  BY <1>2, AppendProperties, AppendIsConcat
<1>4. grown(p, c) = [p EXCEPT ![n] = Append(p[n], c)]
  BY DEF grown
<1> HIDE DEF V, n
<1>5. /\ grown(p, c) \in Seq(V) /\ Len(grown(p, c)) = n
      /\ \A j \in 1 .. n : grown(p, c)[j] = IF j = n THEN Append(p[n], c) ELSE p[j]
  <2>1. p \in Seq(V) /\ n = Len(p)
    BY DEF V, n
  <2> QED  BY <1>2, <1>3, <1>4, <2>1, ExceptSeq
<1>6. grown(p, c) # <<>>
  BY <1>1, <1>5, EmptySeq
<1>7. \A i \in 1 .. n - 1 : grown(p, c)[i] = p[i]
  BY <1>1, <1>5
<1> QED  BY <1>2, <1>3, <1>5, <1>6, <1>7 DEF V, n

\* A token more in the last piece is a token more at the end.
LEMMA JoinedGrown ==
    ASSUME NEW T, NEW p \in Seq(Seq(T)), p # <<>>, NEW c \in T, NEW b \in Seq(T)
    PROVE  joined(grown(p, c), b) = joined(p, b) \o <<c>>
<1> DEFINE o == grown(p, c)
           n == Len(p)
           u == parted(p, b)
           w == parted(o, b)
<1>1. n \in Nat /\ n >= 1 /\ \A i \in 1 .. n : p[i] \in Seq(T)
  BY Parted
<1>2. /\ o \in Seq(Seq(T)) /\ o # <<>> /\ Len(o) = n /\ o[n] = p[n] \o <<c>>
      /\ \A i \in 1 .. n - 1 : o[i] = p[i]
  BY Grown
<1> HIDE DEF o
<1>3. /\ u \in Seq(Seq(T)) /\ u # <<>> /\ Len(u) = n /\ u[1] = p[1]
      /\ \A i \in 2 .. n : u[i] = b \o p[i]
      /\ joined(p, b) = flat(u)[n]
  BY Parted
<1>4. /\ w \in Seq(Seq(T)) /\ w # <<>> /\ Len(w) = n /\ w[1] = o[1]
      /\ \A i \in 2 .. n : w[i] = b \o o[i]
      /\ joined(o, b) = flat(w)[n]
  <2>1. /\ w \in Seq(Seq(T)) /\ w # <<>> /\ Len(w) = Len(o) /\ w[1] = o[1]
        /\ \A i \in 2 .. Len(o) : w[i] = b \o o[i]
        /\ joined(o, b) = flat(w)[Len(o)]
    BY <1>2, Parted
  <2> HIDE DEF n, w
  <2> QED  BY <1>2, <2>1
<1> HIDE DEF n, u, w
<1>5. CASE n = 1
  <2>1. flat(u)[1] = u[1] /\ flat(w)[1] = w[1]
    BY <1>3, <1>4, FlatSteps
  <2> QED  BY <1>2, <1>3, <1>4, <1>5, <2>1 DEF o
<1>6. CASE n # 1
  <2>1. n - 1 \in 1 .. n /\ n - 1 >= 1 /\ n \in 2 .. n /\ n \in 1 .. n
    BY <1>1, <1>6
  <2>2. \A i \in 1 .. n - 1 : u[i] = w[i]
    <3>1. \A i \in 1 .. n - 1 : (i = 1 \/ i \in 2 .. n) /\ o[i] = p[i]
      BY <1>1, <1>2
    <3> QED  BY <1>3, <1>4, <3>1
  <2>3. flat(u)[n - 1] = flat(w)[n - 1]
    <3>1. sameUpTo(u, w, n - 1) /\ n - 1 \in 1 .. Len(u) /\ n - 1 <= Len(w)
      BY <1>1, <1>3, <1>4, <2>1, <2>2 DEF sameUpTo
    <3> QED  BY <1>3, <1>4, <3>1, FlatAgree
  <2>4. flat(u)[n] = flat(u)[n - 1] \o u[n] /\ flat(w)[n] = flat(w)[n - 1] \o w[n] /\ flat(u)[n - 1] \in Seq(T)
    BY <1>3, <1>4, <2>1, FlatSteps
  <2>5. u[n] = b \o p[n] /\ w[n] = b \o (p[n] \o <<c>>) /\ p[n] \in Seq(T)
    BY <1>1, <1>2, <1>3, <1>4, <2>1
  <2> DEFINE last == <<c>>
  <2>6. last \in Seq(T)
    OBVIOUS
  <2> DEFINE pn == p[n]
             un == u[n]
             rest == flat(u)[n - 1]
  <2>7. pn \in Seq(T) /\ un = b \o pn /\ w[n] = b \o (pn \o last) /\ rest \in Seq(T)
        /\ flat(u)[n] = rest \o un /\ flat(w)[n] = rest \o w[n]
    BY <2>3, <2>4, <2>5
  <2> HIDE DEF last, pn, un, rest
  <2>8. flat(w)[n] = flat(u)[n] \o last
    <3>1. texts(T, b, pn, last)
      BY <2>6, <2>7 DEF texts
    <3>2. (b \o pn) \o last = b \o (pn \o last)
      BY <3>1, Associative
    <3>3. un \in Seq(T)
      BY <2>7, ConcatProperties
    <3>4. texts(T, rest, un, last)
      BY <2>6, <2>7, <3>3 DEF texts
    <3>5. (rest \o un) \o last = rest \o (un \o last)
      BY <3>4, Associative
    <3> QED  BY <2>7, <3>2, <3>5
  <2> QED  BY <1>3, <1>4, <2>8 DEF o, last
<1> QED  BY <1>5, <1>6

-----------------------------------------------------------------------------
(* cutAt gives the text back, one piece more than there are cuts.            *)

\* Lists of at least one piece, and what a token does to them.
nonempty(T) == Seq(Seq(T)) \ {<<>>}

cutOn(v, c, isCut) == IF isCut THEN Append(v, <<>>) ELSE grown(v, c)

\* A cut is at a separator.
at(b, c, isCut) == isCut => c = b

\* The pieces stay at least one.
LEMMA CutOnIn ==
    ASSUME NEW T, NEW v \in nonempty(T), NEW c \in T, NEW isCut \in BOOLEAN
    PROVE  cutOn(v, c, isCut) \in nonempty(T)
<1>1. v \in Seq(Seq(T)) /\ v # <<>> /\ <<>> \in Seq(T)
  BY DEF nonempty
<1>2. CASE ~isCut
  BY <1>1, <1>2, Grown DEF cutOn, nonempty
<1>3. CASE isCut
  <2> DEFINE more == Append(v, <<>>)
  <2>1. more \in Seq(Seq(T)) /\ Len(more) = Len(v) + 1 /\ Len(v) \in Nat
    BY <1>1, AppendProperties, LenProperties
  <2>2. more # <<>>
    <3> HIDE DEF more
    <3> QED  BY <2>1, EmptySeq
  <2> QED  BY <1>3, <2>1, <2>2 DEF cutOn, nonempty
<1> QED  BY <1>2, <1>3

\* Cutting at a separator, and letting the last piece grow, both add one token to what
\* the pieces make.
LEMMA CutOn ==
    ASSUME NEW T, NEW v \in nonempty(T), NEW c \in T, NEW isCut \in BOOLEAN, NEW b \in T, at(b, c, isCut)
    PROVE  /\ Len(cutOn(v, c, isCut)) = IF isCut THEN Len(v) + 1 ELSE Len(v)
           /\ joined(cutOn(v, c, isCut), <<b>>) = joined(v, <<b>>) \o <<c>>
<1>1. v \in Seq(Seq(T)) /\ v # <<>> /\ <<b>> \in Seq(T) /\ <<>> \in Seq(T)
  BY DEF nonempty
<1>2. CASE ~isCut
  BY <1>1, <1>2, Grown, JoinedGrown DEF cutOn
<1>3. CASE isCut
  <2> DEFINE more == Append(v, <<>>)
  <2>1. more \in Seq(Seq(T)) /\ Len(more) = Len(v) + 1 /\ Len(v) \in Nat
    BY <1>1, AppendProperties, LenProperties
  <2>3. joined(more, <<b>>) = joined(v, <<b>>) \o (<<b>> \o <<>>)
    BY <1>1, JoinedMore
  <2>4. <<b>> \o <<>> = <<c>>
    BY <1>3 DEF at
  <2> QED  BY <1>3, <2>1, <2>3, <2>4 DEF cutOn
<1> QED  BY <1>2, <1>3

\* The pieces after each token follow from those before it.
LEMMA CutSteps ==
    ASSUME NEW T, NEW s \in Seq(T), NEW cuts
    PROVE  \E p : /\ p \in [0 .. Len(s) -> nonempty(T)]
                  /\ p[0] = <<<<>>>>
                  /\ \A i \in 1 .. Len(s) : p[i] = cutOn(p[i - 1], s[i], i \in cuts)
                  /\ cutAt(s, cuts) = p[Len(s)]
<1> DEFINE n == Len(s)
           V == nonempty(T)
           start1 == <<<<>>>>
           step == [i \in 1 .. n |-> [v \in V |-> cutOn(v, s[i], i \in cuts)]]
           rhs(g) == [i \in 0 .. n |-> IF i = 0 THEN start1 ELSE cutOn(g[i - 1], s[i], i \in cuts)]
           pieces == CHOOSE g : g = rhs(g)
<1>1. n \in Nat /\ \A i \in 1 .. n : s[i] \in T
  BY LenProperties, ElementOfSeq
<1>2. \A i \in 1 .. n : \A v \in V : step[i][v] = cutOn(v, s[i], i \in cuts) /\ step[i][v] \in V
  <2> SUFFICES ASSUME NEW i \in 1 .. n, NEW v \in V PROVE cutOn(v, s[i], i \in cuts) \in V
    OBVIOUS
  <2>1. s[i] \in T /\ (i \in cuts) \in BOOLEAN
    BY <1>1
  <2> QED  BY <2>1, CutOnIn
<1>3. start1 \in V
  BY DEF nonempty
<1>4. cutAt(s, cuts) = pieces[n]
  BY DEF cutAt, cutOn, grown
<1> HIDE DEF step, V, start1
<1>5. PICK f : follows(f, start1, step, V, 0, n)
  <2>1. stepsIn(step, V, 0, n)
    BY <1>2 DEF stepsIn
  <2> HIDE DEF n
  <2> QED  BY <1>1, <1>3, <2>1, Stepwise
<1>6. f = rhs(f)
  <2>1. f \in [0 .. n -> V] /\ f[0] = start1 /\ \A i \in 1 .. n : f[i] = step[i][f[i - 1]]
    BY <1>5 DEF follows
  <2>2. ASSUME NEW i \in 1 .. n PROVE f[i] = cutOn(f[i - 1], s[i], i \in cuts)
    <3>1. i - 1 \in 0 .. n
      BY <1>1
    <3>2. f[i - 1] \in V
      BY <2>1, <3>1
    <3> QED  BY <1>2, <2>1, <3>2
  <2>3. ASSUME NEW i \in 0 .. n PROVE f[i] = IF i = 0 THEN start1 ELSE cutOn(f[i - 1], s[i], i \in cuts)
    <3>1. i = 0 \/ i \in 1 .. n
      BY <1>1
    <3> QED  BY <2>1, <2>2, <3>1
  <2> QED  BY <2>1, <2>3
<1> HIDE DEF rhs
<1>7. pieces = rhs(pieces)
  BY <1>6
<1> HIDE DEF pieces
<1>8. pieces[0] = start1 /\ \A i \in 1 .. n : pieces[i] = cutOn(pieces[i - 1], s[i], i \in cuts)
  <2>1. 0 \in 0 .. n /\ \A i \in 1 .. n : i \in 0 .. n /\ i # 0
    BY <1>1
  <2> QED  BY <1>7, <2>1 DEF rhs
<1> DEFINE P == {i \in 0 .. n : pieces[i] \in V}
<1>9. ASSUME NEW i \in 0 .. n - 1, i \in P PROVE i + 1 \in P
  <2>1. i + 1 \in 1 .. n /\ i + 1 \in 0 .. n /\ (i + 1) - 1 = i
    BY <1>1
  <2>2. pieces[i + 1] = cutOn(pieces[i], s[i + 1], i + 1 \in cuts) /\ pieces[i] \in V
    BY <1>8, <1>9, <2>1
  <2>3. pieces[i + 1] \in V
    BY <1>2, <2>1, <2>2
  <2> QED  BY <2>1, <2>3
<1>10. 0 .. n \subseteq P
  <2>1. 0 \in P
    BY <1>1, <1>3, <1>8
  <2>2. inductive(P, 0, n)
    BY <1>9, <2>1 DEF inductive
  <2> HIDE DEF P, n
  <2> QED  BY <1>1, <2>2, Upwards
<1>11. pieces \in [0 .. n -> V]
  <2>1. DOMAIN pieces = 0 .. n /\ pieces = [i \in 0 .. n |-> pieces[i]]
    BY <1>7 DEF rhs
  <2>2. \A i \in 0 .. n : pieces[i] \in V
    BY <1>10
  <2> QED  BY <2>1, <2>2
<1> QED  BY <1>4, <1>8, <1>11 DEF V, start1

\* Every cut is at a separator.
separators(s, cuts, b) == \A i \in cuts : s[i] = b

\* Cutting a text at separators loses nothing, and gives one piece more than there are
\* cuts.
LEMMA CutAt ==
    ASSUME NEW T, NEW s \in Seq(T), NEW b \in T, NEW cuts \in SUBSET (1 .. Len(s)), separators(s, cuts, b)
    PROVE  /\ cutAt(s, cuts) \in nonempty(T)
           /\ joined(cutAt(s, cuts), <<b>>) = s
           /\ Len(cutAt(s, cuts)) = Cardinality(cuts) + 1
<1> DEFINE n == Len(s)
           upTo(i) == cuts \cap 1 .. i
           good(p, i) == joined(p[i], <<b>>) = SubSeq(s, 1, i) /\ Len(p[i]) = Cardinality(upTo(i)) + 1
<1>1. n \in Nat /\ \A i \in 1 .. n : s[i] \in T
  BY LenProperties, ElementOfSeq
<1>2. PICK p : /\ p \in [0 .. n -> nonempty(T)]
               /\ p[0] = <<<<>>>>
               /\ \A i \in 1 .. n : p[i] = cutOn(p[i - 1], s[i], i \in cuts)
               /\ cutAt(s, cuts) = p[n]
  BY CutSteps
<1>3. \A i \in 0 .. n : IsFiniteSet(upTo(i)) /\ Cardinality(upTo(i)) \in Nat
  <2> SUFFICES ASSUME NEW i \in 0 .. n PROVE IsFiniteSet(upTo(i))
    BY FS_CardinalityType
  <2>1. IsFiniteSet(1 .. i)
    BY FS_Interval
  <2> QED  BY <2>1, FS_Subset
<1>4. good(p, 0)
  <2>1. joined(<<<<>>>>, <<b>>) = <<>>
    <3>1. <<>> \in Seq(T) /\ <<b>> \in Seq(T)
      OBVIOUS
    <3> QED  BY <3>1, JoinedOne
  <2>2. SubSeq(s, 1, 0) = <<>>
    BY SubSeqEmpty
  <2>3. upTo(0) = {} /\ Cardinality({}) = 0 /\ Len(<<<<>>>>) = 1
    BY FS_EmptySet
  <2> QED  BY <1>2, <2>1, <2>2, <2>3
<1>5. ASSUME NEW i \in 0 .. n - 1, good(p, i) PROVE good(p, i + 1)
  <2> DEFINE j == i + 1
             isCut == j \in cuts
             c == s[j]
             v == p[i]
  <2>1. j \in 1 .. n /\ i \in 0 .. n /\ j - 1 = i
    BY <1>1
  <2>2. c \in T /\ isCut \in BOOLEAN /\ at(b, c, isCut) /\ v \in nonempty(T) /\ p[j] = cutOn(v, c, isCut)
    BY <1>1, <1>2, <2>1 DEF at, separators
  <2>3. joined(v, <<b>>) = SubSeq(s, 1, i) /\ Len(v) = Cardinality(upTo(i)) + 1
    BY <1>5
  <2>4. SubSeq(s, 1, j) = SubSeq(s, 1, i) \o <<c>>
    BY <1>1, <2>1, <2>2
  <2>5. Cardinality(upTo(j)) = IF isCut THEN Cardinality(upTo(i)) + 1 ELSE Cardinality(upTo(i))
    <3>1. CASE isCut
      <4>1. upTo(j) = upTo(i) \cup {j} /\ j \notin upTo(i)
        BY <2>1, <3>1
      <4> QED  BY <1>3, <2>1, <3>1, <4>1, FS_AddElement
    <3>2. CASE ~isCut
      <4>1. upTo(j) = upTo(i)
        BY <2>1, <3>2
      <4> QED  BY <3>2, <4>1
    <3> QED  BY <3>1, <3>2
  <2> HIDE DEF j, isCut, c, v, upTo
  <2>6. Len(cutOn(v, c, isCut)) = IF isCut THEN Len(v) + 1 ELSE Len(v)
    BY <2>2, CutOn
  <2>7. joined(cutOn(v, c, isCut), <<b>>) = joined(v, <<b>>) \o <<c>>
    BY <2>2, CutOn
  <2>8. Cardinality(upTo(i)) \in Nat
    BY <1>3, <2>1
  <2>9. joined(p[j], <<b>>) = SubSeq(s, 1, j) /\ Len(p[j]) = Cardinality(upTo(j)) + 1
    BY <2>2, <2>3, <2>4, <2>5, <2>6, <2>7, <2>8
  <2> QED  BY <2>9 DEF j
<1> DEFINE P == {i \in 0 .. n : good(p, i)}
<1> HIDE DEF good
<1>6. 0 .. n \subseteq P
  <2>1. 0 \in P
    BY <1>1, <1>4
  <2>2. ASSUME NEW i \in 0 .. n - 1, i \in P PROVE i + 1 \in P
    <3>1. i + 1 \in 0 .. n
      BY <1>1
    <3> QED  BY <1>5, <2>2, <3>1
  <2>3. inductive(P, 0, n)
    BY <2>1, <2>2 DEF inductive
  <2> HIDE DEF P, n
  <2> QED  BY <1>1, <2>3, Upwards
<1>7. good(p, n)
  BY <1>1, <1>6
<1>8. SubSeq(s, 1, n) = s /\ upTo(n) = cuts /\ p[n] \in nonempty(T)
  <2>1. n \in 0 .. n
    BY <1>1
  <2>2. SubSeq(s, 1, n) = s
    BY SubSeqFull
  <2> QED  BY <1>2, <2>1, <2>2
<1> QED  BY <1>2, <1>7, <1>8 DEF good

\* splitArgs cuts at the commas that the reference reads outside everything.
commasOf(s) == {i \in 1 .. Len(s) : s[i] = "," /\ reading(s, 1)[i] = [inside |-> FALSE, open |-> 0]}

\* The state of the loop of splitArgs finds the commas the reference finds.
LEMMA CommasFound ==
    ASSUME NEW s, Len(s) \in Nat
    PROVE  splitArgs(s) = cutAt(s, commasOf(s))
<1> DEFINE n == Len(s)
           r == reading(s, 1)
           st == scan(s, 1)
           found == {i \in 1 .. n : s[i] = "," /\ ~st[i].inStr /\ st[i].depth = 0}
<1>1. ASSUME NEW i \in 1 .. n, s[i] = ","
      PROVE  (~st[i].inStr /\ st[i].depth = 0) <=> r[i] = Outside
  <2>1. 1 \in 1 .. n /\ 1 \in 1 .. n + 1 /\ i - 1 \in 0 .. n /\ i \in 1 .. n + 1
    OBVIOUS
  <2>2. agree(st[i], r[i - 1], s[i] = Quote)
    BY <2>1, Agreement
  <2>3. /\ r[i - 1] \in Readings /\ r[i] = readOn(r[i - 1], s[i])
    BY <2>1, ReadSteps
  <2>4. st[i] \in States
    BY <2>1, ScanSteps
  <2> HIDE DEF r, st
  <2>5. s[i] \notin {Quote, "(", ")"}
    BY <1>1 DEF Quote
  <2>6. r[i] = r[i - 1]
    BY <2>3, <2>5, ReadUpdates
  <2>7. st[i].inStr \in BOOLEAN /\ st[i].depth \in Int /\ st[i].skip \in BOOLEAN
    BY <2>4, Updates
  <2>8. (st[i].inStr <=> r[i - 1].inside) /\ st[i].depth = r[i - 1].open
    BY <2>2, <2>5, <2>7 DEF agree
  <2>9. r[i - 1] = Outside <=> ~r[i - 1].inside /\ r[i - 1].open = 0
    <3> DEFINE v == r[i - 1]
    <3>1. v \in Readings
      BY <2>3
    <3> HIDE DEF v
    <3>2. v = Outside <=> ~v.inside /\ v.open = 0
      BY <3>1 DEF Readings, Outside
    <3> QED  BY <3>2 DEF v
  <2> QED  BY <2>6, <2>8, <2>9
<1>2. found = commasOf(s)
  <2>1. \A i \in 1 .. n : s[i] = "," => ((~st[i].inStr /\ st[i].depth = 0) <=> r[i] = Outside)
    BY <1>1
  <2> HIDE DEF st, r
  <2> QED  BY <2>1 DEF commasOf, r, Outside
<1> QED  BY <1>2 DEF splitArgs

\* So the arguments are those of the reference, and joined by commas they are the text.
LEMMA ArgsSplit ==
    ASSUME NEW T, "," \in T, NEW s \in Seq(T)
    PROVE  /\ splitArgs(s) \in nonempty(T)
           /\ joined(splitArgs(s), <<",">>) = s
           /\ Len(splitArgs(s)) = Cardinality(commasOf(s)) + 1
<1> DEFINE cuts == commasOf(s)
           comma == ","
<1>1. Len(s) \in Nat /\ splitArgs(s) = cutAt(s, cuts)
  BY CommasFound, LenProperties
<1>2. cuts \in SUBSET (1 .. Len(s)) /\ separators(s, cuts, comma)
  BY DEF commasOf, separators
<1>3. comma \in T
  OBVIOUS
<1> HIDE DEF cuts, comma
<1>4. cutAt(s, cuts) \in nonempty(T) /\ joined(cutAt(s, cuts), <<comma>>) = s /\ Len(cutAt(s, cuts)) = Cardinality(cuts) + 1
  BY <1>2, <1>3, CutAt
<1> QED  BY <1>1, <1>4 DEF cuts, comma

-----------------------------------------------------------------------------
(* What is made of texts is a text.                                          *)

\* A sequence over any set is a text.
LEMMA TextOf ==
    ASSUME NEW T, NEW s \in Seq(T)
    PROVE  isText(s)
<1>1. Len(s) \in Nat /\ DOMAIN s = 1 .. Len(s) /\ s \in [1 .. Len(s) -> T]
  BY LenProperties
<1>2. s \in [1 .. Len(s) -> Range(s)]
  BY <1>1 DEF Range
<1> QED  BY <1>1, <1>2 DEF isText

\* A text is a sequence over every set that has its tokens.
LEMMA TextIn ==
    ASSUME NEW s, isText(s)
    PROVE  /\ Len(s) \in Nat
           /\ \A i \in 1 .. Len(s) : s[i] \in Range(s)
           /\ \A T : s \in Seq(Range(s) \cup T)
<1>1. s \in Seq(Range(s))
  BY DEF isText
<1> QED  BY <1>1, LenProperties, ElementOfSeq

\* Two texts, one after the other.
LEMMA TextConcat ==
    ASSUME NEW s, NEW t, isText(s), isText(t)
    PROVE  /\ isText(s \o t)
           /\ Len(s \o t) = Len(s) + Len(t)
           /\ \A i \in 1 .. Len(s) : (s \o t)[i] = s[i]
           /\ \A i \in 1 .. Len(t) : (s \o t)[Len(s) + i] = t[i]
<1> DEFINE T == Range(s) \cup Range(t)
<1>1. s \in Seq(T) /\ t \in Seq(T)
  <2>1. Range(t) \cup Range(s) = T
    OBVIOUS
  <2> QED  BY <2>1, TextIn
<1> HIDE DEF T
<1>2. s \o t \in Seq(T) /\ Len(s \o t) = Len(s) + Len(t) /\ Len(s) \in Nat /\ Len(t) \in Nat
  BY <1>1, ConcatProperties, LenProperties
<1>3. /\ \A i \in 1 .. Len(s) : (s \o t)[i] = s[i]
      /\ \A i \in 1 .. Len(t) : (s \o t)[Len(s) + i] = t[i]
  BY <1>1, <1>2
<1> QED  BY <1>2, <1>3, TextOf

\* A part of a text.
LEMMA TextPart ==
    ASSUME NEW s, isText(s), NEW m \in Int, m >= 1, NEW n \in Int, n <= Len(s)
    PROVE  /\ isText(SubSeq(s, m, n))
           /\ Len(SubSeq(s, m, n)) = IF m <= n THEN n - m + 1 ELSE 0
           /\ \A i \in 1 .. n - m + 1 : SubSeq(s, m, n)[i] = s[m + i - 1]
<1>1. Len(s) \in Nat /\ \A i \in m .. n : s[i] \in Range(s)
  BY TextIn
<1>2. /\ SubSeq(s, m, n) \in Seq(Range(s))
      /\ Len(SubSeq(s, m, n)) = IF m <= n THEN n - m + 1 ELSE 0
      /\ \A i \in 1 .. n - m + 1 : SubSeq(s, m, n)[i] = s[m + i - 1]
  BY <1>1, SubSeqProperties
<1> QED  BY <1>2, TextOf

-----------------------------------------------------------------------------
(* A pass leaves a text.                                                     *)

\* What is taken at each place is within the text, and a text replaces it.
within(s, i, t) == t.length \in Nat /\ i + t.length <= Len(s) + 1 /\ isText(t.by)

taken(s, m) == \A i \in 1 .. Len(s) : within(s, i, m[i])

\* What comes from i on, if f tells what comes from the places after it,
replacing(s, m, f, i) ==
    IF i > Len(s) THEN <<>>
    ELSE IF m[i].length = 0 THEN <<s[i]>> \o f[i + 1]
    ELSE m[i].by \o f[i + m[i].length]

\* and an f that does from k to the end.
replacedFrom(s, m, f, T, k) ==
    f \in [k .. Len(s) + 1 -> Seq(T)] /\ \A i \in k .. Len(s) + 1 : f[i] = replacing(s, m, f, i)

\* The same over a set T that has all the tokens.
spans(s, m, T) ==
    \A i \in 1 .. Len(s) :
        /\ m[i].length \in Nat /\ i + m[i].length <= Len(s) + 1
        /\ m[i].by \in Seq(T) /\ <<s[i]>> \in Seq(T)

\* What comes from one place on is over T when what comes from the later ones is.
LEMMA ReplacingIn ==
    ASSUME NEW T, NEW s, Len(s) \in Nat, NEW m, spans(s, m, T), NEW k \in 1 .. Len(s),
           NEW f, \A i \in k + 1 .. Len(s) + 1 : f[i] \in Seq(T)
    PROVE  replacing(s, m, f, k) \in Seq(T)
<1> DEFINE a == m[k].length
           at1 == IF a = 0 THEN k + 1 ELSE k + a
           by == IF a = 0 THEN <<s[k]>> ELSE m[k].by
<1>1. a \in Nat /\ k + a <= Len(s) + 1 /\ m[k].by \in Seq(T) /\ <<s[k]>> \in Seq(T)
  BY DEF spans
<1>2. at1 \in k + 1 .. Len(s) + 1
  BY <1>1
<1>3. by \in Seq(T) /\ f[at1] \in Seq(T)
  BY <1>1, <1>2
<1>4. replacing(s, m, f, k) = by \o f[at1]
  <2>1. ~(k > Len(s))
    OBVIOUS
  <2>2. CASE a = 0
    BY <2>1, <2>2 DEF replacing
  <2>3. CASE a # 0
    BY <2>1, <2>3 DEF replacing
  <2> QED  BY <2>2, <2>3
<1> HIDE DEF by, at1
<1> QED  BY <1>3, <1>4, ConcatProperties

\* The recursion of `replaced`, from the end of the text to its start, has a solution.
LEMMA ReplacedExists ==
    ASSUME NEW T, NEW s, Len(s) \in Nat, NEW m, spans(s, m, T)
    PROVE  \E f : replacedFrom(s, m, f, T, 1)
<1> DEFINE n == Len(s)
           good(f, k) == replacedFrom(s, m, f, T, k)
           P == {j \in 0 .. n : \E f : good(f, n + 1 - j)}
<1>1. 0 \in P
  <2> DEFINE f == [i \in n + 1 .. n + 1 |-> <<>>]
  <2>1. f \in [n + 1 .. n + 1 -> Seq(T)] /\ \A i \in n + 1 .. n + 1 : f[i] = <<>> /\ i > n
    <3>1. <<>> \in Seq(T)
      OBVIOUS
    <3> QED  BY <3>1
  <2> HIDE DEF f
  <2>2. good(f, n + 1)
    BY <2>1 DEF replacedFrom, replacing
  <2>3. 0 \in 0 .. n /\ n + 1 - 0 = n + 1
    OBVIOUS
  <2> QED  BY <2>2, <2>3
<1>2. ASSUME NEW j \in 0 .. n - 1, j \in P PROVE j + 1 \in P
  <2> DEFINE k == n + 1 - j
             k0 == n + 1 - (j + 1)
  <2>1. PICK f : good(f, k)
    BY <1>2
  <2>2. k0 \in 1 .. n /\ k = k0 + 1 /\ k0 \in Int
    OBVIOUS
  <2> DEFINE new == replacing(s, m, f, k0)
             g == [i \in k0 .. n + 1 |-> IF i = k0 THEN new ELSE f[i]]
  <2>3. f \in [k0 + 1 .. n + 1 -> Seq(T)] /\ \A i \in k0 + 1 .. n + 1 : f[i] = replacing(s, m, f, i)
    BY <2>1, <2>2 DEF replacedFrom
  <2> HIDE DEF k, k0
  <2>4. new \in Seq(T)
    <3>1. \A i \in k0 + 1 .. n + 1 : f[i] \in Seq(T)
      BY <2>3
    <3> QED  BY <2>2, <3>1, ReplacingIn
  <2> HIDE DEF new
  <2>5. g \in [k0 .. n + 1 -> Seq(T)]
    BY <2>2, <2>3, <2>4
  <2>6. \A i \in k0 + 1 .. n + 1 : g[i] = f[i]
    BY <2>2
  <2>7. g[k0] = new
    BY <2>2
  <2> HIDE DEF g
  <2>8. ASSUME NEW i \in k0 .. n + 1 PROVE replacing(s, m, g, i) = replacing(s, m, f, i)
    <3>1. CASE i = n + 1
      BY <3>1 DEF replacing
    <3>2. CASE i # n + 1
      <4>1. i \in 1 .. n
        BY <2>2, <3>2
      <4>2. m[i].length \in Nat /\ i + m[i].length <= n + 1
        BY <4>1 DEF spans
      <4>3. i + 1 \in k0 + 1 .. n + 1 /\ (m[i].length # 0 => i + m[i].length \in k0 + 1 .. n + 1)
        BY <2>2, <4>1, <4>2
      <4>4. g[i + 1] = f[i + 1] /\ (m[i].length # 0 => g[i + m[i].length] = f[i + m[i].length])
        BY <2>6, <4>3
      <4> QED  BY <4>4 DEF replacing
    <3> QED  BY <3>1, <3>2
  <2>9. ASSUME NEW i \in k0 .. n + 1 PROVE g[i] = replacing(s, m, g, i)
    <3>1. CASE i = k0
      BY <2>7, <2>8, <3>1 DEF new
    <3>2. CASE i # k0
      <4>1. i \in k0 + 1 .. n + 1
        BY <2>2, <3>2
      <4> QED  BY <2>3, <2>6, <2>8, <4>1
    <3> QED  BY <3>1, <3>2
  <2>10. good(g, k0)
    BY <2>5, <2>9 DEF replacedFrom
  <2>11. j + 1 \in 0 .. n
    OBVIOUS
  <2> QED  BY <2>10, <2>11 DEF k0
<1>3. n \in P
  <2>1. inductive(P, 0, n) /\ n \in Int /\ 0 \in Int
    BY <1>1, <1>2 DEF inductive
  <2>2. n \in 0 .. n
    OBVIOUS
  <2> HIDE DEF P, n
  <2> QED  BY <2>1, <2>2, Upwards
<1>4. n + 1 - n = 1
  OBVIOUS
<1> QED  BY <1>3, <1>4

\* What ReplaceAll makes of a text from each place on, if what is taken lies within it.
LEMMA ReplacedSteps ==
    ASSUME NEW s, NEW m, isText(s), taken(s, m)
    PROVE  \E rest : /\ replaced(s, m) = rest[1]
                     /\ \A i \in 1 .. Len(s) + 1 : isText(rest[i]) /\ rest[i] = replacing(s, m, rest, i)
<1> DEFINE n == Len(s)
           T == Range(s) \cup UNION {Range(m[i].by) : i \in 1 .. n}
           rhs(g) == [i \in 1 .. n + 1 |-> replacing(s, m, g, i)]
           rest == CHOOSE g : g = rhs(g)
<1>1. n \in Nat /\ \A i \in 1 .. n : s[i] \in T
  BY TextIn
<1>2. spans(s, m, T)
  <2> SUFFICES ASSUME NEW i \in 1 .. n
               PROVE  /\ m[i].length \in Nat /\ i + m[i].length <= n + 1
                      /\ m[i].by \in Seq(T) /\ <<s[i]>> \in Seq(T)
    BY DEF spans
  <2>1. within(s, i, m[i])
    BY DEF taken
  <2>2. m[i].length \in Nat /\ i + m[i].length <= n + 1 /\ isText(m[i].by)
    BY <2>1 DEF within
  <2>3. Range(m[i].by) \cup T = T
    OBVIOUS
  <2>4. m[i].by \in Seq(T)
    BY <2>2, <2>3, TextIn
  <2>5. s[i] \in T
    BY <1>1
  <2> HIDE DEF T
  <2>6. <<s[i]>> \in Seq(T)
    BY <2>5
  <2> QED  BY <2>2, <2>4, <2>6
<1> HIDE DEF T
<1>3. PICK f : replacedFrom(s, m, f, T, 1)
  BY <1>1, <1>2, ReplacedExists
<1>4. f = rhs(f)
  BY <1>3 DEF replacedFrom
<1>5. replaced(s, m) = rest[1]
  BY DEF replaced, replacing
<1> HIDE DEF rhs
<1>6. rest = rhs(rest)
  BY <1>4
<1> HIDE DEF rest
<1>7. \A i \in 1 .. n + 1 : rest[i] = replacing(s, m, rest, i)
  BY <1>6 DEF rhs
<1> DEFINE P == {j \in 0 .. n : \A i \in n + 1 - j .. n + 1 : rest[i] \in Seq(T)}
<1>8. 0 \in P
  <2>1. rest[n + 1] = <<>>
    <3>1. n + 1 \in 1 .. n + 1 /\ n + 1 > n
      BY <1>1
    <3>2. rest[n + 1] = replacing(s, m, rest, n + 1)
      BY <1>7, <3>1
    <3> QED  BY <3>1, <3>2 DEF replacing
  <2>2. <<>> \in Seq(T)
    OBVIOUS
  <2>3. \A i \in n + 1 - 0 .. n + 1 : i = n + 1
    BY <1>1
  <2>4. \A i \in n + 1 - 0 .. n + 1 : rest[i] \in Seq(T)
    BY <2>1, <2>2, <2>3
  <2>5. 0 \in 0 .. n
    BY <1>1
  <2> QED  BY <2>4, <2>5
<1>9. ASSUME NEW j \in 0 .. n - 1, j \in P PROVE j + 1 \in P
  <2> DEFINE k == n + 1 - (j + 1)
  <2>1. k \in 1 .. n /\ k + 1 = n + 1 - j /\ k \in 1 .. n + 1
    BY <1>1
  <2>2. \A i \in k + 1 .. n + 1 : rest[i] \in Seq(T)
    BY <1>9, <2>1
  <2> HIDE DEF k
  <2>3. rest[k] \in Seq(T)
    BY <1>1, <1>2, <1>7, <2>1, <2>2, ReplacingIn
  <2>4. \A i \in k .. n + 1 : rest[i] \in Seq(T)
    <3>1. \A i \in k .. n + 1 : i = k \/ i \in k + 1 .. n + 1
      BY <1>1, <2>1
    <3> QED  BY <2>2, <2>3, <3>1
  <2>5. j + 1 \in 0 .. n
    BY <1>1
  <2> QED  BY <2>4, <2>5 DEF k
<1>10. n \in P
  <2>1. inductive(P, 0, n) /\ n \in Int /\ 0 \in Int
    BY <1>1, <1>8, <1>9 DEF inductive
  <2>2. n \in 0 .. n
    BY <1>1
  <2> HIDE DEF P, n
  <2> QED  BY <2>1, <2>2, Upwards
<1>11. \A i \in 1 .. n + 1 : isText(rest[i])
  <2>1. \A i \in 1 .. n + 1 : rest[i] \in Seq(T)
    BY <1>1, <1>10
  <2> QED  BY <2>1, TextOf
<1> QED  BY <1>5, <1>7, <1>11

\* ReplaceAll of what lies within a text leaves a text.
LEMMA Replaced ==
    ASSUME NEW s, NEW m, isText(s), taken(s, m)
    PROVE  isText(replaced(s, m))
<1>1. Len(s) \in Nat
  BY TextIn
<1>2. PICK rest : /\ replaced(s, m) = rest[1]
                  /\ \A i \in 1 .. Len(s) + 1 : isText(rest[i]) /\ rest[i] = replacing(s, m, rest, i)
  BY ReplacedSteps
<1>3. 1 \in 1 .. Len(s) + 1
  BY <1>1
<1> QED  BY <1>2, <1>3

\* The tuples the passes put in are texts.
LEMMA Tuples ==
    /\ isText(<<>>)
    /\ \A a : isText(<<a>>) /\ Len(<<a>>) = 1
    /\ \A a, b : isText(<<a, b>>) /\ Len(<<a, b>>) = 2
    /\ \A a, b, c : isText(<<a, b, c>>) /\ Len(<<a, b, c>>) = 3
    /\ \A a, b, c, d : isText(<<a, b, c, d>>) /\ Len(<<a, b, c, d>>) = 4
    /\ \A a, b, c, d, e : isText(<<a, b, c, d, e>>) /\ Len(<<a, b, c, d, e>>) = 5
    /\ \A a, b, c, d, e, f : isText(<<a, b, c, d, e, f>>)
    /\ \A a, b, c, d, e, f, g : isText(<<a, b, c, d, e, f, g>>)
    /\ \A a, b, c, d, e, f, g, h : isText(<<a, b, c, d, e, f, g, h>>)
    /\ \A a, b, c, d, e, f, g, h, i : isText(<<a, b, c, d, e, f, g, h, i>>)
<1>1. isText(<<>>)
  <2>1. <<>> \in Seq({})
    OBVIOUS
  <2> QED  BY <2>1, TextOf
<1>2. ASSUME NEW a PROVE isText(<<a>>) /\ Len(<<a>>) = 1
  <2>1. <<a>> \in Seq({a})
    OBVIOUS
  <2> QED  BY <2>1, TextOf
<1>3. ASSUME NEW a, NEW b PROVE isText(<<a, b>>) /\ Len(<<a, b>>) = 2
  <2>1. <<a, b>> \in Seq({a, b})
    OBVIOUS
  <2> QED  BY <2>1, TextOf
<1>4. ASSUME NEW a, NEW b, NEW c PROVE isText(<<a, b, c>>) /\ Len(<<a, b, c>>) = 3
  <2>1. <<a, b, c>> \in Seq({a, b, c})
    OBVIOUS
  <2> QED  BY <2>1, TextOf
<1>5. ASSUME NEW a, NEW b, NEW c, NEW d PROVE isText(<<a, b, c, d>>) /\ Len(<<a, b, c, d>>) = 4
  <2>1. <<a, b, c, d>> \in Seq({a, b, c, d})
    OBVIOUS
  <2> QED  BY <2>1, TextOf
<1>6. ASSUME NEW a, NEW b, NEW c, NEW d, NEW e PROVE isText(<<a, b, c, d, e>>) /\ Len(<<a, b, c, d, e>>) = 5
  <2>1. <<a, b, c, d, e>> \in Seq({a, b, c, d, e})
    OBVIOUS
  <2> QED  BY <2>1, TextOf
<1>7. ASSUME NEW a, NEW b, NEW c, NEW d, NEW e, NEW f PROVE isText(<<a, b, c, d, e, f>>)
  <2>1. <<a, b, c, d, e, f>> \in Seq({a, b, c, d, e, f})
    OBVIOUS
  <2> QED  BY <2>1, TextOf
<1>8. ASSUME NEW a, NEW b, NEW c, NEW d, NEW e, NEW f, NEW g PROVE isText(<<a, b, c, d, e, f, g>>)
  <2>1. <<a, b, c, d, e, f, g>> \in Seq({a, b, c, d, e, f, g})
    OBVIOUS
  <2> QED  BY <2>1, TextOf
<1>9. ASSUME NEW a, NEW b, NEW c, NEW d, NEW e, NEW f, NEW g, NEW h PROVE isText(<<a, b, c, d, e, f, g, h>>)
  <2>1. <<a, b, c, d, e, f, g, h>> \in Seq({a, b, c, d, e, f, g, h})
    OBVIOUS
  <2> QED  BY <2>1, TextOf
<1>10. ASSUME NEW a, NEW b, NEW c, NEW d, NEW e, NEW f, NEW g, NEW h, NEW i
       PROVE  isText(<<a, b, c, d, e, f, g, h, i>>)
  <2>1. <<a, b, c, d, e, f, g, h, i>> \in Seq({a, b, c, d, e, f, g, h, i})
    OBVIOUS
  <2> QED  BY <2>1, TextOf
<1> QED  BY <1>1, <1>2, <1>3, <1>4, <1>5, <1>6, <1>7, <1>8, <1>9, <1>10, Zenon

\* Pieces that are texts.
areTexts(p) == p = [k \in 1 .. Len(p) |-> p[k]] /\ Len(p) \in Nat /\ \A k \in 1 .. Len(p) : isText(p[k])

\* The tokens of all pieces.
allOf(p) == UNION {Range(p[k]) : k \in 1 .. Len(p)}

\* Pieces that are texts are sequences over any set that has the tokens of all,
LEMMA PiecesIn ==
    ASSUME NEW p, areTexts(p), NEW T, allOf(p) \subseteq T
    PROVE  p \in Seq(Seq(T))
<1>1. ASSUME NEW k \in 1 .. Len(p) PROVE p[k] \in Seq(T)
  <2>1. Range(p[k]) \cup T = T
    BY DEF allOf
  <2>2. isText(p[k])
    BY DEF areTexts
  <2> QED  BY <2>1, <2>2, TextIn
<1> DEFINE V == Seq(T)
<1> HIDE DEF V
<1>2. p \in [1 .. Len(p) -> V] /\ Len(p) \in Nat
  BY <1>1 DEF areTexts, V
<1>3. p \in Seq(V)
  BY <1>2, FunctionSeq
<1> QED  BY <1>3 DEF V

\* and the other way round.
LEMMA PiecesAre ==
    ASSUME NEW T, NEW p \in Seq(Seq(T))
    PROVE  areTexts(p)
<1> DEFINE V == Seq(T)
<1>1. \A v \in V : isText(v)
  BY TextOf
<1> HIDE DEF V
<1>2. p \in Seq(V)
  BY DEF V
<1>3. Len(p) \in Nat /\ p = [k \in 1 .. Len(p) |-> p[k]] /\ \A k \in 1 .. Len(p) : p[k] \in V
  BY <1>2, LenProperties
<1> QED  BY <1>1, <1>3 DEF areTexts

\* Pieces that are texts, put together with a text between them, are a text.
LEMMA JoinedText ==
    ASSUME NEW p, areTexts(p), NEW b, isText(b)
    PROVE  isText(joined(p, b))
<1> DEFINE T == allOf(p) \cup Range(b)
<1>1. p \in Seq(Seq(T))
  BY PiecesIn
<1>2. b \in Seq(T)
  <2>1. Range(b) \cup T = T
    OBVIOUS
  <2> QED  BY <2>1, TextIn
<1> HIDE DEF T
<1>3. CASE p # <<>>
  BY <1>1, <1>2, <1>3, JoinedIn, TextOf
<1>4. CASE p = <<>>
  <2>1. [k \in DOMAIN p |-> IF k = 1 THEN p[k] ELSE b \o p[k]] = <<>>
    BY <1>4
  <2>2. FlattenSeq(<<>>) = <<>>
    BY DEF FlattenSeq
  <2>3. joined(p, b) = <<>>
    BY <2>1, <2>2 DEF joined
  <2> QED  BY <2>3, Tuples
<1> QED  BY <1>3, <1>4

\* A text with its quotes doubled.
LEMMA DoubledText ==
    ASSUME NEW s, isText(s)
    PROVE  isText(doubled(s))
<1> DEFINE p == [k \in DOMAIN s |-> IF s[k] = Quote THEN <<Quote, Quote>> ELSE <<s[k]>>]
<1>1. Len(s) \in Nat /\ DOMAIN s = 1 .. Len(s)
  BY TextIn, LenProperties DEF isText
<1>2. Len(p) = Len(s) /\ p = [k \in 1 .. Len(p) |-> p[k]]
  BY <1>1
<1>3. \A k \in 1 .. Len(s) : isText(p[k])
  BY <1>1, Tuples
<1> HIDE DEF p
<1>4. isText(joined(p, <<>>))
  BY <1>1, <1>2, <1>3, JoinedText, Tuples DEF areTexts
<1> QED  BY <1>4 DEF doubled, p

\* The arguments are texts, and at least one.
LEMMA ArgsText ==
    ASSUME NEW s, isText(s)
    PROVE  areTexts(splitArgs(s)) /\ Len(splitArgs(s)) >= 1
<1> DEFINE T == Range(s) \cup {","}
<1>1. s \in Seq(T) /\ "," \in T
  BY TextIn
<1> HIDE DEF T
<1>2. splitArgs(s) \in nonempty(T)
  BY <1>1, ArgsSplit
<1>3. splitArgs(s) \in Seq(Seq(T)) /\ splitArgs(s) # <<>>
  BY <1>2 DEF nonempty
<1> QED  BY <1>3, PiecesAre, FlatSteps

\* The parenthesis matchParen finds comes after the one it starts at.
LEMMA ParenFound ==
    ASSUME NEW s, isText(s), NEW open \in 1 .. Len(s), s[open] = "(", matchParen(s, open) # 0
    PROVE  matchParen(s, open) \in open + 1 .. Len(s) /\ s[matchParen(s, open)] = ")"
<1> DEFINE st == scan(s, open)
           closing == {i \in open .. Len(s) : s[i] = ")" /\ ~st[i].inStr /\ st[i].depth = 1}
<1>1. Len(s) \in Nat
  BY TextIn
<1>2. matchParen(s, open) = IF closing = {} THEN 0 ELSE least(closing)
  BY DEF matchParen
<1> HIDE DEF st
<1>3. closing \in SUBSET Nat /\ closing # {} /\ matchParen(s, open) = least(closing)
  BY <1>1, <1>2
<1>4. matchParen(s, open) \in closing
  <2> HIDE DEF closing
  <2> QED  BY <1>3, LeastIn
<1> QED  BY <1>1, <1>4


-----------------------------------------------------------------------------
(* Readings of texts that are put together.                                  *)

\* What is open at the end of a text.
after(s) == reading(s, 1)[Len(s)]

\* A reading d parentheses further in.
lifted(b, d) == [inside |-> b.inside, open |-> b.open + d]

\* The reading of a text from its first token on.
LEMMA Read ==
    ASSUME NEW s, isText(s)
    PROVE  /\ Len(s) \in Nat /\ reading(s, 1)[0] = Outside /\ after(s) \in Readings
           /\ \A i \in 0 .. Len(s) : reading(s, 1)[i] \in Readings
           /\ \A i \in 1 .. Len(s) : reading(s, 1)[i] = readOn(reading(s, 1)[i - 1], s[i])
<1>1. Len(s) \in Nat /\ 1 \in 1 .. Len(s) + 1
  BY TextIn
<1>2. /\ reading(s, 1)[1 - 1] = Outside
      /\ \A i \in 1 - 1 .. Len(s) : reading(s, 1)[i] \in Readings
      /\ \A i \in 1 .. Len(s) : reading(s, 1)[i] = readOn(reading(s, 1)[i - 1], s[i])
  BY <1>1, ReadSteps
<1>3. 1 - 1 = 0 /\ Len(s) \in 0 .. Len(s)
  BY <1>1
<1> QED  BY <1>1, <1>2, <1>3 DEF after

\* A token says the same at every depth.
LEMMA ReadLifted ==
    ASSUME NEW b \in Readings, NEW d \in Int, NEW c
    PROVE  readOn(lifted(b, d), c) = lifted(readOn(b, c), d) /\ lifted(b, d) \in Readings
<1>1. lifted(b, d) \in Readings /\ lifted(b, d).inside = b.inside /\ lifted(b, d).open = b.open + d
  BY DEF lifted, Readings
<1>2. b.inside \in BOOLEAN /\ b.open \in Int
  BY DEF Readings
<1> DEFINE v == lifted(b, d)
           x == readOn(v, c)
           y == readOn(b, c)
<1>3. x \in Readings /\ y \in Readings
  BY <1>1, ReadUpdates
<1>4. x.inside = y.inside /\ x.open = y.open + d
  <2> HIDE DEF v
  <2>1. v.inside = b.inside /\ v.open = b.open + d
    BY <1>1 DEF v
  <2>2. CASE c = Quote
    BY <1>2, <2>1, <2>2 DEF readOn, Readings
  <2>3. CASE c # Quote /\ b.inside
    BY <1>2, <2>1, <2>3 DEF readOn, Readings
  <2>4. CASE c # Quote /\ ~b.inside /\ c = "("
    <3>1. /\ x = [v EXCEPT !.open = @ + 1] /\ y = [b EXCEPT !.open = @ + 1]
      BY <2>1, <2>4 DEF readOn
    <3>2. x.open = v.open + 1 /\ y.open = b.open + 1 /\ x.inside = v.inside /\ y.inside = b.inside
      BY <1>1, <3>1 DEF Readings, v
    <3> QED  BY <1>2, <2>1, <3>2
  <2>5. CASE c # Quote /\ ~b.inside /\ c = ")"
    <3>1. /\ x = [v EXCEPT !.open = @ - 1] /\ y = [b EXCEPT !.open = @ - 1]
      BY <2>1, <2>5 DEF readOn
    <3>2. x.open = v.open - 1 /\ y.open = b.open - 1 /\ x.inside = v.inside /\ y.inside = b.inside
      BY <1>1, <3>1 DEF Readings, v
    <3> QED  BY <1>2, <2>1, <3>2
  <2>6. CASE c # Quote /\ ~b.inside /\ c # "(" /\ c # ")"
    BY <2>1, <2>6 DEF readOn
  <2> QED  BY <2>2, <2>3, <2>4, <2>5, <2>6
<1> HIDE DEF x, y
<1>5. x = lifted(y, d)
  BY <1>3, <1>4 DEF lifted, Readings
<1> QED  BY <1>1, <1>5 DEF x, y, v

\* The same n tokens at f in s and at g in t, with readings from s1 and from t1 on.
along(s, t, s1, f, t1, g, n) ==
    /\ s1 \in 1 .. f /\ t1 \in 1 .. g
    /\ f \in Nat /\ g \in Nat /\ n \in Nat /\ f + n <= Len(s) + 1 /\ g + n <= Len(t) + 1
    /\ \A i \in 1 .. n : s[f - 1 + i] = t[g - 1 + i]

\* Two readings that begin alike, but for the depth, go on alike over the same tokens.
LEMMA ReadAlong ==
    ASSUME NEW s, isText(s), NEW t, isText(t), NEW s1, NEW f, NEW t1, NEW g, NEW n, along(s, t, s1, f, t1, g, n),
           NEW d \in Int, reading(s, s1)[f - 1] = lifted(reading(t, t1)[g - 1], d)
    PROVE  \A i \in 0 .. n : reading(s, s1)[f - 1 + i] = lifted(reading(t, t1)[g - 1 + i], d)
<1> DEFINE rs == reading(s, s1)
           rt == reading(t, t1)
           P == {i \in 0 .. n : rs[f - 1 + i] = lifted(rt[g - 1 + i], d)}
<1>1. /\ Len(s) \in Nat /\ Len(t) \in Nat /\ f \in Nat /\ g \in Nat /\ n \in Nat /\ s1 \in Nat /\ t1 \in Nat
      /\ 1 <= s1 /\ s1 <= f /\ 1 <= t1 /\ t1 <= g /\ f + n <= Len(s) + 1 /\ g + n <= Len(t) + 1
  BY TextIn DEF along
<1>2. s1 \in 1 .. Len(s) + 1 /\ t1 \in 1 .. Len(t) + 1
  BY <1>1
<1>3. /\ \A i \in s1 .. Len(s) : rs[i] = readOn(rs[i - 1], s[i])
      /\ \A i \in t1 .. Len(t) : rt[i] = readOn(rt[i - 1], t[i])
      /\ \A i \in t1 - 1 .. Len(t) : rt[i] \in Readings
  BY <1>1, <1>2, ReadSteps
<1> HIDE DEF rs, rt
<1>4. 0 \in P
  BY <1>1 DEF rs, rt
<1>5. ASSUME NEW i \in 0 .. n - 1, i \in P PROVE i + 1 \in P
  <2> DEFINE k == f + i
             l == g + i
  <2>1. /\ k \in s1 .. Len(s) /\ l \in t1 .. Len(t) /\ l - 1 \in t1 - 1 .. Len(t) /\ i + 1 \in 1 .. n /\ i + 1 \in 0 .. n
        /\ k = f - 1 + (i + 1) /\ l = g - 1 + (i + 1) /\ k - 1 = f - 1 + i /\ l - 1 = g - 1 + i
    BY <1>1
  <2>2. s[k] = t[l]
    BY <2>1 DEF along
  <2>3. rs[k - 1] = lifted(rt[l - 1], d)
    BY <1>5, <2>1
  <2>4. rs[k] = readOn(rs[k - 1], s[k]) /\ rt[l] = readOn(rt[l - 1], t[l]) /\ rt[l - 1] \in Readings
    BY <1>3, <2>1
  <2>5. rs[k] = lifted(rt[l], d)
    BY <2>2, <2>3, <2>4, ReadLifted
  <2> HIDE DEF k, l
  <2> QED  BY <2>1, <2>5
<1>6. 0 .. n \subseteq P
  <2>1. inductive(P, 0, n)
    BY <1>4, <1>5 DEF inductive
  <2> HIDE DEF P
  <2> QED  BY <1>1, <2>1, Upwards
<1> QED  BY <1>6 DEF rs, rt

\* Nothing is lifted by nothing, and a text outside literals is lifted from outside.
LEMMA Lifted ==
    ASSUME NEW b \in Readings
    PROVE  lifted(b, 0) = b /\ b.open \in Int /\ b.inside \in BOOLEAN /\ (~b.inside => b = lifted(Outside, b.open))
  BY DEF lifted, Readings, Outside

\* The first text reads as it does alone, and the second too, as deep as the first ends
\* if that is outside literals.
LEMMA ReadConcat ==
    ASSUME NEW s, NEW t, isText(s), isText(t)
    PROVE  /\ \A i \in 0 .. Len(s) : reading(s \o t, 1)[i] = reading(s, 1)[i]
           /\ ~after(s).inside =>
                \A i \in 0 .. Len(t) : reading(s \o t, 1)[Len(s) + i] = lifted(reading(t, 1)[i], after(s).open)
<1> DEFINE u == s \o t
           m == Len(s)
           n == Len(t)
<1>1. /\ isText(u) /\ Len(u) = m + n /\ m \in Nat /\ n \in Nat
      /\ \A i \in 1 .. m : u[i] = s[i]
      /\ \A i \in 1 .. n : u[m + i] = t[i]
  BY TextConcat, TextIn
<1> HIDE DEF u, m, n
<1>2. \A i \in 0 .. m : reading(u, 1)[i] = reading(s, 1)[i]
  <2>1. along(u, s, 1, 1, 1, 1, m)
    BY <1>1 DEF along, m
  <2>2. reading(u, 1)[1 - 1] = lifted(reading(s, 1)[1 - 1], 0)
    <3>1. reading(u, 1)[0] = Outside /\ reading(s, 1)[0] = Outside /\ Outside \in Readings
      BY <1>1, Read DEF Readings, Outside
    <3> QED  BY <3>1, Lifted
  <2>3. \A i \in 0 .. m : reading(u, 1)[1 - 1 + i] = lifted(reading(s, 1)[1 - 1 + i], 0)
    BY <1>1, <2>1, <2>2, ReadAlong
  <2>4. ASSUME NEW i \in 0 .. m PROVE reading(u, 1)[i] = reading(s, 1)[i]
    <3>1. reading(s, 1)[i] \in Readings
      BY Read DEF m
    <3>2. 1 - 1 + i = i
      BY <1>1
    <3>3. reading(u, 1)[i] = lifted(reading(s, 1)[i], 0)
      BY <2>3, <3>2
    <3> QED  BY <3>1, <3>3, Lifted
  <2> QED  BY <2>4
<1>3. ASSUME ~after(s).inside
      PROVE  \A i \in 0 .. n : reading(u, 1)[m + i] = lifted(reading(t, 1)[i], after(s).open)
  <2> DEFINE d == after(s).open
  <2>1. after(s) \in Readings /\ d \in Int /\ after(s) = lifted(Outside, d)
    BY <1>3, Read, Lifted
  <2>2. reading(t, 1)[0] = Outside /\ reading(u, 1)[m] = after(s)
    <3>1. m \in 0 .. m
      BY <1>1
    <3> QED  BY <1>2, <3>1, Read DEF after, m
  <2> HIDE DEF d
  <2>3. along(u, t, 1, m + 1, 1, 1, n)
    BY <1>1 DEF along, n
  <2>4. m + 1 - 1 = m /\ 1 - 1 = 0
    BY <1>1
  <2>5. reading(u, 1)[m + 1 - 1] = lifted(reading(t, 1)[1 - 1], d)
    BY <2>1, <2>2, <2>4
  <2>6. \A i \in 0 .. n : reading(u, 1)[m + 1 - 1 + i] = lifted(reading(t, 1)[1 - 1 + i], d)
    BY <1>1, <2>1, <2>3, <2>5, ReadAlong
  <2>7. \A i \in 0 .. n : m + 1 - 1 + i = m + i /\ 1 - 1 + i = i
    BY <1>1
  <2> QED  BY <2>6, <2>7 DEF d
<1> QED  BY <1>2, <1>3 DEF u, m, n

\* From d parentheses deep, outside literals, a text leads e deep, outside them again,
\* and never above the top.
leads(s, d, e) ==
    /\ isText(s) /\ d \in Nat /\ e \in Nat
    /\ after(s) = lifted(Outside, e - d)
    /\ \A i \in 1 .. Len(s) : reading(s, 1)[i].open + d >= 0

formed(s) == leads(s, 0, 0)

\* Well-formed texts lead from the top to the top.
LEMMA Formed ==
    ASSUME NEW s, isText(s)
    PROVE  formed(s) <=> wellFormed(s)
<1>1. /\ Len(s) \in Nat /\ \A i \in 1 .. Len(s) : reading(s, 1)[i] \in Readings
      /\ after(s) = reading(s, 1)[Len(s)]
  BY Read DEF after
<1>2. lifted(Outside, 0 - 0) = [inside |-> FALSE, open |-> 0]
  BY DEF lifted, Outside
<1>3. \A i \in 1 .. Len(s) : reading(s, 1)[i].open + 0 = reading(s, 1)[i].open
  BY <1>1 DEF Readings
<1> QED  BY <1>1, <1>2, <1>3 DEF formed, leads, wellFormed

\* One text leads on from where the other ends, and the literals are those of both.
LEMMA LeadsOn ==
    ASSUME NEW s, NEW t, NEW d, NEW e, NEW f, leads(s, d, e), leads(t, e, f)
    PROVE  leads(s \o t, d, f) /\ insideLiterals(s \o t) = insideLiterals(s) \cup insideLiterals(t)
<1> DEFINE u == s \o t
           m == Len(s)
           n == Len(t)
<1>1. /\ isText(s) /\ isText(t) /\ d \in Nat /\ e \in Nat /\ f \in Nat
      /\ after(s) = lifted(Outside, e - d) /\ after(t) = lifted(Outside, f - e)
      /\ \A i \in 1 .. m : reading(s, 1)[i].open + d >= 0
      /\ \A i \in 1 .. n : reading(t, 1)[i].open + e >= 0
  BY DEF leads
<1>2. /\ isText(u) /\ Len(u) = m + n /\ m \in Nat /\ n \in Nat
      /\ \A i \in 1 .. m : u[i] = s[i]
      /\ \A i \in 1 .. n : u[m + i] = t[i]
  BY <1>1, TextConcat, TextIn
<1>3. ~after(s).inside /\ after(s).open = e - d
  BY <1>1 DEF lifted, Outside
<1>4. /\ \A i \in 0 .. m : reading(u, 1)[i] = reading(s, 1)[i]
      /\ \A i \in 0 .. n : reading(u, 1)[m + i] = lifted(reading(t, 1)[i], e - d)
      /\ \A i \in 0 .. m : reading(s, 1)[i] \in Readings
      /\ \A i \in 0 .. n : reading(t, 1)[i] \in Readings
  BY <1>1, <1>3, ReadConcat, Read
<1> HIDE DEF u, m, n
<1>5. after(u) = lifted(Outside, f - d)
  <2>1. after(u) = reading(u, 1)[m + n] /\ after(t) = reading(t, 1)[n] /\ n \in 0 .. n
    BY <1>2 DEF after, n
  <2>2. after(u) = lifted(lifted(Outside, f - e), e - d)
    BY <1>1, <1>4, <2>1
  <2>3. lifted(lifted(Outside, f - e), e - d) = lifted(Outside, f - d)
    BY <1>1 DEF lifted, Outside
  <2> QED  BY <2>2, <2>3
<1>6. ASSUME NEW i \in 1 .. m + n PROVE reading(u, 1)[i].open + d >= 0
  <2>1. CASE i <= m
    <3>1. i \in 1 .. m /\ i \in 0 .. m
      BY <1>2, <2>1
    <3> QED  BY <1>1, <1>4, <3>1
  <2>2. CASE i > m
    <3> DEFINE k == i - m
    <3>1. k \in 1 .. n /\ k \in 0 .. n /\ i = m + k
      BY <1>2, <2>2
    <3> HIDE DEF k
    <3>2. reading(u, 1)[i] = lifted(reading(t, 1)[k], e - d) /\ reading(t, 1)[k] \in Readings /\ reading(t, 1)[k].open + e >= 0
      BY <1>1, <1>4, <3>1
    <3>3. reading(u, 1)[i].open = reading(t, 1)[k].open + (e - d) /\ reading(t, 1)[k].open \in Int
      BY <3>2 DEF lifted, Readings
    <3> QED  BY <1>1, <3>2, <3>3
  <2> QED  BY <1>2, <2>1, <2>2
<1>7. leads(u, d, f)
  BY <1>1, <1>2, <1>5, <1>6 DEF leads
<1>8. ASSUME NEW i \in 1 .. m
      PROVE  /\ i \in 1 .. m + n /\ u[i] = s[i] /\ (reading(u, 1)[i].inside <=> reading(s, 1)[i].inside)
  <2>1. i \in 0 .. m /\ i \in 1 .. m + n
    BY <1>2
  <2> QED  BY <1>2, <1>4, <2>1
<1>9. ASSUME NEW i \in 1 .. n
      PROVE  m + i \in 1 .. m + n /\ u[m + i] = t[i] /\ (reading(u, 1)[m + i].inside <=> reading(t, 1)[i].inside)
  <2>1. i \in 0 .. n /\ m + i \in 1 .. m + n
    BY <1>2
  <2>2. lifted(reading(t, 1)[i], e - d).inside = reading(t, 1)[i].inside
    BY DEF lifted
  <2> QED  BY <1>2, <1>4, <2>1, <2>2
<1>10. \A i \in 1 .. m + n : i \in 1 .. m \/ (i - m \in 1 .. n /\ i = m + (i - m))
  BY <1>2
<1>11. insideLiterals(u) = insideLiterals(s) \cup insideLiterals(t)
  <2>1. insideLiterals(u) = {u[i] : i \in {j \in 1 .. m + n : u[j] # Quote /\ reading(u, 1)[j].inside}}
    BY <1>2 DEF insideLiterals
  <2>2. insideLiterals(s) = {s[i] : i \in {j \in 1 .. m : s[j] # Quote /\ reading(s, 1)[j].inside}}
    BY DEF insideLiterals, m
  <2>3. insideLiterals(t) = {t[i] : i \in {j \in 1 .. n : t[j] # Quote /\ reading(t, 1)[j].inside}}
    BY DEF insideLiterals, n
  <2>4. ASSUME NEW x \in insideLiterals(u) PROVE x \in insideLiterals(s) \cup insideLiterals(t)
    <3>1. PICK i \in 1 .. m + n : x = u[i] /\ u[i] # Quote /\ reading(u, 1)[i].inside
      BY <2>1, <2>4
    <3> QED  BY <1>8, <1>9, <1>10, <2>2, <2>3, <3>1
  <2>5. ASSUME NEW x \in insideLiterals(s) PROVE x \in insideLiterals(u)
    BY <1>8, <2>1, <2>2, <2>5
  <2>6. ASSUME NEW x \in insideLiterals(t) PROVE x \in insideLiterals(u)
    BY <1>9, <2>1, <2>3, <2>6
  <2> QED  BY <2>4, <2>5, <2>6
<1> QED  BY <1>7, <1>11 DEF u

\* A text that leads somewhere does so from further in.
LEMMA LeadsDeeper ==
    ASSUME NEW s, NEW d, NEW e, leads(s, d, e), NEW k \in Nat
    PROVE  leads(s, d + k, e + k)
<1>1. /\ isText(s) /\ d \in Nat /\ e \in Nat /\ after(s) = lifted(Outside, e - d)
      /\ \A i \in 1 .. Len(s) : reading(s, 1)[i].open + d >= 0
  BY DEF leads
<1>2. d + k \in Nat /\ e + k \in Nat /\ (e + k) - (d + k) = e - d
  BY <1>1
<1>3. ASSUME NEW i \in 1 .. Len(s) PROVE reading(s, 1)[i].open + (d + k) >= 0
  <2>1. reading(s, 1)[i].open \in Int
    BY <1>1, Read DEF Readings
  <2> QED  BY <1>1, <2>1
<1> QED  BY <1>1, <1>2, <1>3 DEF leads

\* Texts with the same tokens are the same.
LEMMA SameText ==
    ASSUME NEW s, NEW t, isText(s), isText(t), Len(s) = Len(t), \A i \in 1 .. Len(s) : s[i] = t[i]
    PROVE  s = t
<1> DEFINE T == Range(s) \cup Range(t)
<1>1. s \in Seq(T) /\ t \in Seq(Range(t) \cup T)
  BY TextIn
<1>2. Range(t) \cup T = T
  OBVIOUS
<1>3. t \in Seq(T)
  BY <1>1, <1>2
<1> HIDE DEF T
<1> QED  BY <1>1, <1>3

\* A text is what stands before a place in it, and what stands from there on.
LEMMA Parts ==
    ASSUME NEW s, isText(s), NEW i \in 0 .. Len(s)
    PROVE  /\ s = SubSeq(s, 1, i) \o SubSeq(s, i + 1, Len(s))
           /\ isText(SubSeq(s, 1, i)) /\ isText(SubSeq(s, i + 1, Len(s)))
           /\ Len(SubSeq(s, 1, i)) = i /\ Len(SubSeq(s, i + 1, Len(s))) = Len(s) - i
<1> DEFINE n == Len(s)
           a == SubSeq(s, 1, i)
           b == SubSeq(s, i + 1, n)
<1>1. n \in Nat /\ i \in Nat /\ i <= n
  BY TextIn
<1>2. /\ isText(a) /\ Len(a) = (IF 1 <= i THEN i - 1 + 1 ELSE 0) /\ \A k \in 1 .. i - 1 + 1 : a[k] = s[1 + k - 1]
      /\ isText(b) /\ Len(b) = (IF i + 1 <= n THEN n - (i + 1) + 1 ELSE 0)
      /\ \A k \in 1 .. n - (i + 1) + 1 : b[k] = s[i + 1 + k - 1]
  BY <1>1, TextPart
<1> HIDE DEF n, a, b
<1>3. Len(a) = i /\ Len(b) = n - i
  BY <1>1, <1>2
<1>4. /\ isText(a \o b) /\ Len(a \o b) = n
      /\ \A k \in 1 .. i : (a \o b)[k] = a[k]
      /\ \A k \in 1 .. n - i : (a \o b)[i + k] = b[k]
  <2>1. /\ isText(a \o b) /\ Len(a \o b) = Len(a) + Len(b)
        /\ \A k \in 1 .. Len(a) : (a \o b)[k] = a[k]
        /\ \A k \in 1 .. Len(b) : (a \o b)[Len(a) + k] = b[k]
    <3>1. isText(a) /\ isText(b)
      BY <1>2
    <3> QED  BY <3>1, TextConcat
  <2>2. i + (n - i) = n
    BY <1>1
  <2> QED  BY <1>3, <2>1, <2>2
<1>5. ASSUME NEW k \in 1 .. n PROVE s[k] = (a \o b)[k]
  <2>1. CASE k <= i
    <3>1. k \in 1 .. i /\ k \in 1 .. i - 1 + 1 /\ 1 + k - 1 = k
      BY <1>1, <2>1
    <3> QED  BY <1>2, <1>4, <3>1
  <2>2. CASE k > i
    <3> DEFINE l == k - i
    <3>1. l \in 1 .. n - i /\ l \in 1 .. n - (i + 1) + 1 /\ i + l = k /\ i + 1 + l - 1 = k
      BY <1>1, <2>2
    <3> HIDE DEF l
    <3>2. s[k] = b[l]
      BY <1>2, <3>1
    <3>3. (a \o b)[k] = b[l]
      BY <1>4, <3>1
    <3> QED  BY <3>2, <3>3
  <2>3. k <= i \/ k > i
    BY <1>1
  <2> QED  BY <2>1, <2>2, <2>3
<1>6. s = a \o b
  BY <1>4, <1>5, SameText DEF n
<1> QED  BY <1>2, <1>3, <1>6 DEF n, a, b

\* One more token is read from where the text ends.
LEMMA ReadAppend ==
    ASSUME NEW s, isText(s), NEW c
    PROVE  /\ isText(s \o <<c>>) /\ Len(s \o <<c>>) = Len(s) + 1
           /\ \A i \in 0 .. Len(s) : reading(s \o <<c>>, 1)[i] = reading(s, 1)[i]
           /\ reading(s \o <<c>>, 1)[Len(s) + 1] = readOn(after(s), c)
           /\ after(s \o <<c>>) = readOn(after(s), c)
           /\ insideLiterals(s \o <<c>>) =
                insideLiterals(s) \cup IF c # Quote /\ readOn(after(s), c).inside THEN {c} ELSE {}
<1> DEFINE u == s \o <<c>>
           m == Len(s)
<1>1. /\ isText(u) /\ Len(u) = m + 1 /\ m \in Nat
      /\ \A i \in 1 .. m : u[i] = s[i]
      /\ u[m + 1] = c
  <2>1. isText(<<c>>) /\ Len(<<c>>) = 1 /\ <<c>>[1] = c
    BY Tuples
  <2> QED  BY <2>1, TextConcat, TextIn
<1>2. \A i \in 0 .. m : reading(u, 1)[i] = reading(s, 1)[i]
  <2>1. isText(<<c>>)
    BY Tuples
  <2> QED  BY <2>1, ReadConcat
<1> HIDE DEF u, m
<1>3. m + 1 \in 1 .. Len(u) /\ m + 1 - 1 = m /\ m \in 0 .. m
  BY <1>1
<1>4. reading(u, 1)[m + 1] = readOn(after(s), c)
  <2>1. reading(u, 1)[m + 1] = readOn(reading(u, 1)[m + 1 - 1], u[m + 1])
    BY <1>1, <1>3, Read
  <2> QED  BY <1>1, <1>2, <1>3, <2>1 DEF after, m
<1>5. after(u) = readOn(after(s), c)
  BY <1>1, <1>4 DEF after
<1>6. insideLiterals(u) = insideLiterals(s) \cup IF c # Quote /\ readOn(after(s), c).inside THEN {c} ELSE {}
  <2>1. insideLiterals(u) = {u[i] : i \in {j \in 1 .. m + 1 : u[j] # Quote /\ reading(u, 1)[j].inside}}
    BY <1>1 DEF insideLiterals
  <2>2. insideLiterals(s) = {s[i] : i \in {j \in 1 .. m : s[j] # Quote /\ reading(s, 1)[j].inside}}
    BY DEF insideLiterals, m
  <2>3. \A i \in 1 .. m + 1 : i = m + 1 \/ (i \in 1 .. m /\ i \in 0 .. m)
    BY <1>1
  <2>4. \A i \in 1 .. m : i \in 1 .. m + 1 /\ i \in 0 .. m
    BY <1>1
  <2>5. m + 1 \in 1 .. m + 1
    BY <1>1
  <2>6. ASSUME NEW x \in insideLiterals(u)
        PROVE  x \in insideLiterals(s) \cup IF c # Quote /\ readOn(after(s), c).inside THEN {c} ELSE {}
    <3>1. PICK i \in 1 .. m + 1 : x = u[i] /\ u[i] # Quote /\ reading(u, 1)[i].inside
      BY <2>1, <2>6
    <3> QED  BY <1>1, <1>2, <1>4, <2>2, <2>3, <3>1
  <2>7. ASSUME NEW x \in insideLiterals(s) PROVE x \in insideLiterals(u)
    BY <1>1, <1>2, <2>1, <2>2, <2>4, <2>7
  <2>8. ASSUME c # Quote, readOn(after(s), c).inside PROVE c \in insideLiterals(u)
    BY <1>1, <1>4, <2>1, <2>5, <2>8
  <2> QED  BY <2>6, <2>7, <2>8
<1> QED  BY <1>1, <1>2, <1>4, <1>5, <1>6 DEF u, m

\* The empty text leads nowhere.
LEMMA LeadsEmpty ==
    ASSUME NEW d \in Nat
    PROVE  leads(<<>>, d, d) /\ insideLiterals(<<>>) = {} /\ after(<<>>) = Outside
<1>1. isText(<<>>) /\ Len(<<>>) = 0
  BY Tuples
<1>2. after(<<>>) = Outside
  BY <1>1, Read DEF after
<1>3. lifted(Outside, d - d) = Outside
  BY DEF lifted, Outside
<1>4. insideLiterals(<<>>) = {}
  BY <1>1 DEF insideLiterals
<1> QED  BY <1>1, <1>2, <1>3, <1>4 DEF leads

\* A text goes on with one more token.
LEMMA LeadsMore ==
    ASSUME NEW s, NEW d, NEW e, leads(s, d, e), NEW c, c # Quote
    PROVE  /\ c \notin {"(", ")"} => leads(s \o <<c>>, d, e)
           /\ c = "(" => leads(s \o <<c>>, d, e + 1)
           /\ c = ")" /\ e >= 1 => leads(s \o <<c>>, d, e - 1)
           /\ insideLiterals(s \o <<c>>) = insideLiterals(s)
<1> DEFINE u == s \o <<c>>
           b == after(s)
           m == Len(s)
<1>1. /\ isText(s) /\ d \in Nat /\ e \in Nat
      /\ b = lifted(Outside, e - d)
      /\ \A i \in 1 .. m : reading(s, 1)[i].open + d >= 0
  BY DEF leads
<1>2. /\ isText(u) /\ Len(u) = m + 1 /\ m \in Nat
      /\ \A i \in 0 .. m : reading(u, 1)[i] = reading(s, 1)[i]
      /\ reading(u, 1)[m + 1] = readOn(b, c) /\ after(u) = readOn(b, c)
      /\ insideLiterals(u) = insideLiterals(s) \cup IF c # Quote /\ readOn(b, c).inside THEN {c} ELSE {}
  BY <1>1, ReadAppend, TextIn
<1>3. b \in Readings /\ ~b.inside /\ b.open = e - d
  BY <1>1 DEF lifted, Outside, Readings
<1>4. /\ readOn(b, c) \in Readings /\ ~readOn(b, c).inside
      /\ c \notin {"(", ")"} => readOn(b, c).open = e - d
      /\ c = "(" => readOn(b, c).open = e - d + 1
      /\ c = ")" => readOn(b, c).open = e - d - 1
  <2> HIDE DEF b
  <2> QED  BY <1>3, ReadUpdates
<1> HIDE DEF u, b, m
<1>5. ASSUME NEW f \in Nat, readOn(b, c).open = f - d
      PROVE  leads(u, d, f)
  <2>1. readOn(b, c) = lifted(Outside, f - d)
    BY <1>4, <1>5, Lifted
  <2>2. \A i \in 1 .. m + 1 : (i \in 1 .. m /\ i \in 0 .. m) \/ i = m + 1
    BY <1>2
  <2>3. \A i \in 1 .. m + 1 : reading(u, 1)[i].open + d >= 0
    <3>1. readOn(b, c).open + d >= 0
      BY <1>1, <1>5
    <3> QED  BY <1>1, <1>2, <2>2, <3>1
  <2> QED  BY <1>1, <1>2, <2>1, <2>3 DEF leads
<1>6. c \notin {"(", ")"} => leads(u, d, e)
  BY <1>1, <1>4, <1>5
<1>7. c = "(" => leads(u, d, e + 1)
  <2>1. e + 1 \in Nat /\ e - d + 1 = (e + 1) - d
    BY <1>1
  <2> QED  BY <1>4, <1>5, <2>1
<1>8. c = ")" /\ e >= 1 => leads(u, d, e - 1)
  <2>1. e >= 1 => e - 1 \in Nat /\ e - d - 1 = (e - 1) - d
    BY <1>1
  <2> QED  BY <1>4, <1>5, <2>1
<1>9. insideLiterals(u) = insideLiterals(s)
  BY <1>2, <1>4
<1> QED  BY <1>6, <1>7, <1>8, <1>9 DEF u

\* The tokens alone.
LEMMA LeadsToken ==
    ASSUME NEW c, c # Quote, NEW d \in Nat
    PROVE  /\ c \notin {"(", ")"} => leads(<<c>>, d, d)
           /\ c = "(" => leads(<<c>>, d, d + 1)
           /\ c = ")" => leads(<<c>>, d + 1, d)
           /\ insideLiterals(<<c>>) = {}
<1>1. <<>> \o <<c>> = <<c>>
  OBVIOUS
<1>2. leads(<<>>, d, d) /\ leads(<<>>, d + 1, d + 1) /\ insideLiterals(<<>>) = {} /\ d + 1 >= 1 /\ d + 1 - 1 = d /\ d + 1 \in Nat
  BY LeadsEmpty
<1>3. /\ c \notin {"(", ")"} => leads(<<>> \o <<c>>, d, d)
      /\ c = "(" => leads(<<>> \o <<c>>, d, d + 1)
      /\ insideLiterals(<<>> \o <<c>>) = {}
  BY <1>2, LeadsMore
<1>4. c = ")" => leads(<<>> \o <<c>>, d + 1, d)
  <2> DEFINE e == d + 1
  <2>1. leads(<<>>, e, e) /\ e >= 1 /\ e - 1 = d
    BY <1>2
  <2> HIDE DEF e
  <2>2. c = ")" => leads(<<>> \o <<c>>, e, e - 1)
    BY <2>1, LeadsMore
  <2> QED  BY <2>1, <2>2 DEF e
<1> QED  BY <1>1, <1>3, <1>4

\* Outside literals a text parts in two that lead on from each other.
LEMMA LeadsParts ==
    ASSUME NEW s, NEW t, isText(s), isText(t), NEW d, NEW f, leads(s \o t, d, f), ~after(s).inside
    PROVE  \E e : leads(s, d, e) /\ leads(t, e, f)
<1> DEFINE u == s \o t
           m == Len(s)
           n == Len(t)
           e == after(s).open + d
<1>1. /\ isText(u) /\ d \in Nat /\ f \in Nat
      /\ after(u) = lifted(Outside, f - d)
      /\ \A i \in 1 .. Len(u) : reading(u, 1)[i].open + d >= 0
  BY DEF leads
<1>2. Len(u) = m + n /\ m \in Nat /\ n \in Nat
  BY TextConcat, TextIn
<1>3. /\ \A i \in 0 .. m : reading(u, 1)[i] = reading(s, 1)[i]
      /\ \A i \in 0 .. n : reading(u, 1)[m + i] = lifted(reading(t, 1)[i], after(s).open)
  BY ReadConcat
<1>4. /\ \A i \in 0 .. n : reading(t, 1)[i] \in Readings
      /\ after(s) \in Readings /\ after(s) = reading(s, 1)[m] /\ reading(s, 1)[0] = Outside
      /\ after(t) \in Readings /\ after(t) = reading(t, 1)[n] /\ after(u) = reading(u, 1)[m + n]
  BY <1>2, Read DEF after
<1> HIDE DEF u, m, n
<1>5. after(s).open \in Int /\ after(t).open \in Int
  BY <1>4 DEF Readings
<1>6. e \in Nat
  <2>1. CASE m = 0
    <3>1. after(s).open = 0
      BY <1>4, <2>1 DEF Outside
    <3> QED  BY <1>1, <3>1
  <2>2. CASE m > 0
    <3>1. m \in 1 .. Len(u) /\ m \in 0 .. m
      BY <1>2, <2>2
    <3>2. after(s).open + d >= 0
      BY <1>1, <1>3, <1>4, <3>1
    <3> QED  BY <1>1, <1>5, <3>2
  <2> QED  BY <1>2, <2>1, <2>2
<1>7. leads(s, d, e)
  <2>1. after(s) = lifted(Outside, after(s).open) /\ e - d = after(s).open
    BY <1>1, <1>4, <1>5, Lifted
  <2>2. \A i \in 1 .. m : i \in 0 .. m /\ i \in 1 .. Len(u)
    BY <1>2
  <2>3. \A i \in 1 .. m : reading(s, 1)[i].open + d >= 0
    BY <1>1, <1>3, <2>2
  <2> HIDE DEF e
  <2> QED  BY <1>1, <1>6, <2>1, <2>3 DEF leads, m
<1>8. leads(t, e, f)
  <2>1. n \in 0 .. n
    BY <1>2
  <2>2. after(u) = lifted(after(t), after(s).open)
    BY <1>3, <1>4, <2>1
  <2>3. after(t).inside = FALSE /\ after(t).open + after(s).open = f - d
    BY <1>1, <2>2 DEF lifted, Outside
  <2>4. after(t).open = f - e /\ f - e \in Int
    BY <1>1, <1>5, <2>3
  <2>5. after(t) = lifted(Outside, f - e)
    BY <1>4, <2>3, <2>4, Lifted
  <2>6. ASSUME NEW i \in 1 .. n PROVE reading(t, 1)[i].open + e >= 0
    <3>1. i \in 0 .. n /\ m + i \in 1 .. Len(u)
      BY <1>2
    <3>2. reading(u, 1)[m + i] = lifted(reading(t, 1)[i], after(s).open) /\ reading(t, 1)[i] \in Readings
      BY <1>3, <1>4, <3>1
    <3>3. reading(u, 1)[m + i].open = reading(t, 1)[i].open + after(s).open /\ reading(t, 1)[i].open \in Int
      BY <3>2 DEF lifted, Readings
    <3>4. reading(u, 1)[m + i].open + d >= 0
      BY <1>1, <3>1
    <3> QED  BY <1>1, <1>5, <3>3, <3>4
  <2> HIDE DEF e
  <2> QED  BY <1>1, <1>6, <2>5, <2>6 DEF leads, n
<1> QED  BY <1>7, <1>8

\* Where one part is exchanged for another as well-formed, the whole stays so, and its
\* literals are those of the parts.
LEMMA Exchanged ==
    ASSUME NEW a, NEW x, NEW b, isText(a), isText(x), isText(b), ~after(a).inside, formed(x),
           formed((a \o x) \o b), NEW y, formed(y)
    PROVE  /\ formed((a \o y) \o b)
           /\ insideLiterals((a \o x) \o b) = (insideLiterals(a) \cup insideLiterals(x)) \cup insideLiterals(b)
           /\ insideLiterals((a \o y) \o b) = (insideLiterals(a) \cup insideLiterals(y)) \cup insideLiterals(b)
<1>1. PICK e : leads(a, 0, e) /\ leads(x \o b, e, 0)
  <2>1. (a \o x) \o b = a \o (x \o b) /\ isText(x \o b)
    <3> DEFINE T == (Range(a) \cup Range(x)) \cup Range(b)
    <3>1. a \in Seq(T) /\ x \in Seq(T) /\ b \in Seq(T)
      <4>1. /\ a \in Seq(Range(a) \cup T) /\ x \in Seq(Range(x) \cup T) /\ b \in Seq(Range(b) \cup T)
            /\ Range(a) \cup T = T /\ Range(x) \cup T = T /\ Range(b) \cup T = T
        BY TextIn
      <4> QED  BY <4>1
    <3> HIDE DEF T
    <3>2. texts(T, a, x, b)
      BY <3>1 DEF texts
    <3> QED  BY <3>2, Associative, TextConcat
  <2> QED  BY <2>1, LeadsParts DEF formed
<1>2. e \in Nat /\ 0 + e = e
  BY <1>1 DEF leads
<1>3. leads(x, e, e) /\ leads(y, e, e)
  BY <1>2, LeadsDeeper DEF formed
<1>4. leads(b, e, 0)
  <2>1. after(x) = Outside
    BY DEF formed, leads, lifted, Outside
  <2>2. PICK f : leads(x, e, f) /\ leads(b, f, 0)
    BY <1>1, <2>1, LeadsParts DEF Outside
  <2>3. f = e
    <3>1. after(x) = lifted(Outside, f - e) /\ after(x) = lifted(Outside, e - e) /\ f \in Nat
      BY <1>3, <2>2 DEF leads
    <3>2. 0 + (f - e) = 0 + (e - e)
      BY <3>1 DEF lifted, Outside
    <3> QED  BY <1>2, <3>1, <3>2
  <2> QED  BY <2>2, <2>3
<1>5. /\ leads(a \o x, 0, e) /\ insideLiterals(a \o x) = insideLiterals(a) \cup insideLiterals(x)
      /\ leads(a \o y, 0, e) /\ insideLiterals(a \o y) = insideLiterals(a) \cup insideLiterals(y)
  BY <1>1, <1>3, LeadsOn
<1> QED  BY <1>4, <1>5, LeadsOn DEF formed

\* What stands between a parenthesis and the one that matches is well-formed.
LEMMA BodyFormed ==
    ASSUME NEW s, isText(s), NEW open \in 1 .. Len(s), s[open] = "(", matchParen(s, open) # 0
    PROVE  formed(SubSeq(s, open + 1, matchParen(s, open) - 1))
<1> DEFINE n == Len(s)
           end == matchParen(s, open)
           r == reading(s, open)
           x == SubSeq(s, open + 1, end - 1)
           k == end - 1 - open
<1>1. n \in Nat /\ open \in Nat /\ 1 <= open /\ open <= n /\ open \in 1 .. n + 1
  BY TextIn
<1>2. end \in open + 1 .. n /\ s[end] = ")"
  BY ParenFound
<1>3. LET balanced == {i \in open .. n : s[i] # Quote /\ ~r[i].inside /\ r[i].open = 0}
      IN end \in balanced /\ \A i \in balanced : end <= i
  BY <1>1, ParenMatched
<1>4. /\ r[open - 1] = Outside
      /\ \A i \in open - 1 .. n : r[i] \in Readings
      /\ \A i \in open .. n : r[i] = readOn(r[i - 1], s[i])
  BY <1>1, ReadSteps
<1> HIDE DEF end, r, n
<1>5. /\ isText(x) /\ Len(x) = k /\ k \in Nat /\ \A i \in 1 .. k : x[i] = s[open + i]
  <2>1. /\ isText(x) /\ Len(x) = IF open + 1 <= end - 1 THEN (end - 1) - (open + 1) + 1 ELSE 0
        /\ \A i \in 1 .. (end - 1) - (open + 1) + 1 : x[i] = s[open + 1 + i - 1]
    <3>1. open + 1 \in Int /\ open + 1 >= 1 /\ end - 1 \in Int /\ end - 1 <= Len(s)
      BY <1>1, <1>2 DEF n
    <3> QED  BY <3>1, TextPart
  <2>2. (end - 1) - (open + 1) + 1 = k /\ k \in Nat /\ \A i \in 1 .. k : open + 1 + i - 1 = open + i
    BY <1>1, <1>2
  <2>3. (IF open + 1 <= end - 1 THEN (end - 1) - (open + 1) + 1 ELSE 0) = k
    BY <1>1, <1>2
  <2> HIDE DEF x, k
  <2> QED  BY <2>1, <2>2, <2>3
<1>5a. open + k = end - 1 /\ k \in Nat
  BY <1>1, <1>2, <1>5
<1> HIDE DEF x, k
<1>6. r[open] = lifted(Outside, 1)
  <2>1. open \in open .. n
    BY <1>1
  <2>2. r[open] = readOn(Outside, "(")
    BY <1>4, <2>1
  <2> QED  BY <2>2 DEF readOn, Outside, lifted, Quote
<1>7. \A i \in 0 .. k : r[open + i] = lifted(reading(x, 1)[i], 1)
  <2>1. along(s, x, open, open + 1, 1, 1, k)
    <3>1. /\ open \in 1 .. open + 1 /\ 1 \in 1 .. 1 /\ open + 1 \in Nat /\ open + 1 + k <= n + 1 /\ 1 + k <= k + 1
          /\ \A i \in 1 .. k : open + 1 - 1 + i = open + i /\ 1 - 1 + i = i
      BY <1>1, <1>2, <1>5a
    <3> QED  BY <1>5, <3>1 DEF along, n
  <2>2. reading(s, open)[open + 1 - 1] = lifted(reading(x, 1)[1 - 1], 1)
    <3>1. open + 1 - 1 = open /\ 1 - 1 = 0 /\ reading(x, 1)[0] = Outside
      BY <1>1, <1>5, Read
    <3> QED  BY <1>6, <3>1 DEF r
  <2>3. \A i \in 0 .. k : reading(s, open)[open + 1 - 1 + i] = lifted(reading(x, 1)[1 - 1 + i], 1)
    <3> DEFINE f == open + 1
    <3>1. along(s, x, open, f, 1, 1, k) /\ reading(s, open)[f - 1] = lifted(reading(x, 1)[1 - 1], 1) /\ isText(x)
      BY <1>5, <2>1, <2>2
    <3>2. 1 \in Int
      OBVIOUS
    <3> HIDE DEF f
    <3>3. \A i \in 0 .. k : reading(s, open)[f - 1 + i] = lifted(reading(x, 1)[1 - 1 + i], 1)
      BY <3>1, <3>2, ReadAlong
    <3> QED  BY <3>3 DEF f
  <2>4. \A i \in 0 .. k : open + 1 - 1 + i = open + i /\ 1 - 1 + i = i
    BY <1>1, <1>5
  <2> QED  BY <2>3, <2>4 DEF r
<1>8. \A i \in 0 .. k : reading(x, 1)[i] \in Readings
  BY <1>5, Read
<1>9. after(x) = Outside
  <2>1. end \in open .. n /\ end - 1 = open + k /\ end - 1 \in open - 1 .. n /\ k \in 0 .. k
    BY <1>1, <1>2, <1>5a
  <2>2. r[end] = readOn(r[end - 1], ")") /\ r[end - 1] \in Readings /\ ~r[end].inside /\ r[end].open = 0
    BY <1>2, <1>3, <1>4, <2>1
  <2>3. ~r[end - 1].inside
    <3>1. ")" # Quote
      BY DEF Quote
    <3> QED  BY <2>2, <3>1, ReadUpdates
  <2>4. r[end - 1].open - 1 = 0 /\ r[end - 1].open \in Int
    BY <2>2, <2>3, ReadUpdates
  <2>5. r[end - 1] = lifted(reading(x, 1)[k], 1) /\ reading(x, 1)[k] \in Readings
    BY <1>7, <1>8, <2>1
  <2>6. ~reading(x, 1)[k].inside /\ reading(x, 1)[k].open + 1 = 1 /\ reading(x, 1)[k].open \in Int
    BY <2>3, <2>4, <2>5 DEF lifted, Readings
  <2>7. reading(x, 1)[k] = Outside
    <3>1. lifted(Outside, 0) = Outside /\ reading(x, 1)[k].open = 0
      BY <2>6 DEF lifted, Outside
    <3> QED  BY <2>5, <2>6, <3>1, Lifted
  <2> QED  BY <1>5, <2>7 DEF after
<1> DEFINE P == {i \in 0 .. k : reading(x, 1)[i].open >= 0}
<1>10. 0 \in P
  <2>1. reading(x, 1)[0] = Outside
    BY <1>5, Read
  <2> QED  BY <1>5, <2>1 DEF Outside
<1>11. ASSUME NEW i \in 0 .. k - 1, i \in P PROVE i + 1 \in P
  <2> DEFINE b == reading(x, 1)[i]
             c == reading(x, 1)[i + 1]
             j == open + (i + 1)
  <2>1. /\ i + 1 \in 1 .. k /\ i + 1 \in 0 .. k /\ i + 1 - 1 = i /\ i \in 0 .. k
        /\ j \in open .. n /\ j < end
    BY <1>1, <1>2, <1>5a
  <2>2. c = readOn(b, s[j]) /\ b \in Readings /\ c \in Readings /\ r[j] = lifted(c, 1)
    <3>1. x[i + 1] = s[j] /\ r[j] = lifted(c, 1) /\ b \in Readings /\ c \in Readings
      BY <1>5, <1>7, <1>8, <2>1
    <3>2. \A l \in 1 .. k : reading(x, 1)[l] = readOn(reading(x, 1)[l - 1], x[l])
      BY <1>5, Read
    <3>3. c = readOn(reading(x, 1)[i + 1 - 1], x[i + 1])
      BY <2>1, <3>2
    <3> QED  BY <2>1, <3>1, <3>3
  <2>3. ~(s[j] # Quote /\ ~r[j].inside /\ r[j].open = 0)
    <3> HIDE DEF j
    <3>1. j \in {l \in open .. n : s[l] # Quote /\ ~r[l].inside /\ r[l].open = 0} => end <= j
      BY <1>3
    <3>2. ~(end <= j)
      BY <1>1, <1>2, <2>1
    <3> QED  BY <2>1, <3>1, <3>2
  <2>4. b.open >= 0
    BY <1>11
  <2> HIDE DEF b, c, j
  <2>5. b.open \in Int /\ c.open \in Int /\ r[j].inside = c.inside /\ r[j].open = c.open + 1
    BY <2>2 DEF lifted, Readings
  <2>6. c.open >= 0
    <3>6. CASE s[j] = Quote
      <4>1. c.open = b.open
        BY <2>2, <3>6, ReadUpdates
      <4> QED  BY <2>4, <4>1
    <3>7. CASE s[j] # Quote /\ b.inside
      <4>1. c = b
        BY <2>2, <3>7, ReadUpdates
      <4> QED  BY <2>4, <4>1
    <3>8. CASE s[j] # Quote /\ ~b.inside
      <4>1. ~c.inside
        BY <2>2, <3>8, ReadUpdates
      <4>2. c.open + 1 # 0
        BY <2>3, <2>5, <3>8, <4>1
      <4>3. \/ c.open = b.open \/ c.open = b.open + 1 \/ c.open = b.open - 1
        <5>1. CASE s[j] = "("
          BY <2>2, <3>8, <5>1, ReadUpdates
        <5>2. CASE s[j] = ")"
          BY <2>2, <3>8, <5>2, ReadUpdates
        <5>3. CASE s[j] # "(" /\ s[j] # ")"
          <6>1. s[j] \notin {Quote, "(", ")"}
            BY <3>8, <5>3
          <6> QED  BY <2>2, <6>1, ReadUpdates
        <5> QED  BY <5>1, <5>2, <5>3
      <4>4. \A u, v \in Int : (u = v \/ u = v + 1 \/ u = v - 1) /\ v >= 0 /\ u + 1 # 0 => u >= 0
        OBVIOUS
      <4> QED  BY <2>4, <2>5, <4>2, <4>3, <4>4
    <3> QED  BY <3>6, <3>7, <3>8
  <2> QED  BY <2>1, <2>6 DEF c
<1>12. 0 .. k \subseteq P
  <2>1. inductive(P, 0, k)
    BY <1>10, <1>11 DEF inductive
  <2> HIDE DEF P, k
  <2> QED  BY <1>5, <2>1, Upwards
<1>13. ASSUME NEW i \in 1 .. k PROVE reading(x, 1)[i].open + 0 >= 0
  <2>1. i \in 0 .. k
    BY <1>5
  <2>2. reading(x, 1)[i].open \in Int /\ reading(x, 1)[i].open >= 0
    BY <1>8, <1>12, <2>1 DEF Readings
  <2> QED  BY <2>2
<1>14. formed(x)
  <2>1. lifted(Outside, 0 - 0) = Outside
    BY DEF lifted, Outside
  <2> HIDE DEF k
  <2> QED  BY <1>5, <1>9, <1>13, <2>1 DEF formed, leads
<1> QED  BY <1>14 DEF x, end

\* Well-formed pieces with a well-formed separator that says nothing make a well-formed
\* text that says what they say.
LEMMA JoinedFormed ==
    ASSUME NEW p, areTexts(p), Len(p) >= 1, \A k \in 1 .. Len(p) : formed(p[k]),
           NEW b, formed(b), insideLiterals(b) = {}
    PROVE  /\ formed(joined(p, b))
           /\ insideLiterals(joined(p, b)) = UNION {insideLiterals(p[k]) : k \in 1 .. Len(p)}
<1> DEFINE T == allOf(p) \cup Range(b)
           n == Len(p)
           f == flat(parted(p, b))
           I(i) == UNION {insideLiterals(p[k]) : k \in 1 .. i}
           P == {i \in 1 .. n : formed(f[i]) /\ insideLiterals(f[i]) = I(i)}
<1>1. p \in Seq(Seq(T)) /\ b \in Seq(T) /\ p # <<>> /\ n \in Nat
  <2>1. allOf(p) \subseteq T /\ Range(b) \cup T = T /\ isText(b)
    BY DEF formed, leads
  <2>2. b \in Seq(Range(b) \cup T)
    BY <2>1, TextIn
  <2> HIDE DEF T
  <2> QED  BY <2>1, <2>2, PiecesIn DEF areTexts
<1> HIDE DEF T
<1>2. /\ Len(parted(p, b)) = n /\ parted(p, b) \in Seq(Seq(T)) /\ parted(p, b) # <<>>
      /\ parted(p, b)[1] = p[1]
      /\ \A i \in 2 .. n : parted(p, b)[i] = b \o p[i]
      /\ joined(p, b) = f[n]
  BY <1>1, Parted
<1>3. f[1] = parted(p, b)[1] /\ \A i \in 2 .. n : f[i] = f[i - 1] \o parted(p, b)[i]
  BY <1>2, FlatSteps
<1> HIDE DEF n, f
<1>4. 1 \in P
  <2>1. 1 \in 1 .. n /\ 1 .. 1 = {1} /\ f[1] = p[1]
    BY <1>1, <1>2, <1>3 DEF n
  <2>2. formed(f[1])
    BY <2>1 DEF n
  <2>3. I(1) = insideLiterals(p[1])
    BY <2>1
  <2> QED  BY <2>1, <2>2, <2>3
<1>5. ASSUME NEW i \in 1 .. n - 1, i \in P PROVE i + 1 \in P
  <2>1. i + 1 \in 2 .. n /\ i + 1 \in 1 .. n /\ i + 1 - 1 = i
    BY <1>1
  <2>2. f[i + 1] = f[i] \o (b \o p[i + 1])
    <3> DEFINE l == i + 1
    <3>1. l \in 2 .. n /\ l - 1 = i
      BY <2>1
    <3> HIDE DEF l
    <3>2. f[l] = f[l - 1] \o parted(p, b)[l]
      BY <1>3, <3>1
    <3>3. parted(p, b)[l] = b \o p[l]
      BY <1>2, <3>1
    <3>4. f[l] = f[i] \o (b \o p[l])
      BY <3>1, <3>2, <3>3
    <3> QED  BY <3>4 DEF l
  <2>3. formed(p[i + 1])
    BY <2>1 DEF n
  <2>4. formed(b \o p[i + 1]) /\ insideLiterals(b \o p[i + 1]) = insideLiterals(p[i + 1])
    <3>1. leads(b, 0, 0) /\ leads(p[i + 1], 0, 0)
      BY <2>3 DEF formed
    <3>2. /\ leads(b \o p[i + 1], 0, 0)
          /\ insideLiterals(b \o p[i + 1]) = insideLiterals(b) \cup insideLiterals(p[i + 1])
      BY <3>1, LeadsOn
    <3> QED  BY <3>2 DEF formed
  <2>5. formed(f[i + 1]) /\ insideLiterals(f[i + 1]) = I(i) \cup insideLiterals(p[i + 1])
    <3> DEFINE y == b \o p[i + 1]
    <3> HIDE DEF y, I
    <3>1. leads(f[i], 0, 0) /\ leads(y, 0, 0) /\ insideLiterals(f[i]) = I(i)
      BY <1>5, <2>4 DEF formed, y
    <3>2. /\ leads(f[i] \o y, 0, 0)
          /\ insideLiterals(f[i] \o y) = insideLiterals(f[i]) \cup insideLiterals(y)
      BY <3>1, LeadsOn
    <3> QED  BY <2>2, <2>4, <3>1, <3>2 DEF formed, y
  <2>6. 1 .. i + 1 = 1 .. i \cup {i + 1}
    BY <1>1
  <2>7. I(i + 1) = I(i) \cup insideLiterals(p[i + 1])
    BY <2>6
  <2> HIDE DEF I
  <2> QED  BY <2>1, <2>5, <2>7
<1>6. n \in P
  <2>1. inductive(P, 1, n)
    BY <1>4, <1>5 DEF inductive
  <2>2. n \in 1 .. n
    BY <1>1 DEF n
  <2> HIDE DEF P
  <2>3. 1 .. n \subseteq P
    BY <1>1, <2>1, Upwards
  <2> QED  BY <2>2, <2>3
<1> QED  BY <1>2, <1>6 DEF n

\* What one more token makes of a text.
LEMMA Appended ==
    ASSUME NEW s, isText(s), NEW c
    PROVE  /\ isText(s \o <<c>>) /\ Len(s \o <<c>>) = Len(s) + 1 /\ Len(s) \in Nat
           /\ \A i \in 1 .. Len(s) : (s \o <<c>>)[i] = s[i]
           /\ (s \o <<c>>)[Len(s) + 1] = c
<1>1. isText(<<c>>) /\ Len(<<c>>) = 1 /\ <<c>>[1] = c /\ 1 \in 1 .. 1
  BY Tuples
<1> QED  BY <1>1, TextConcat, TextIn

\* A text with one more token.
LEMMA OneMore ==
    ASSUME NEW s, NEW t, NEW c, isText(s), isText(t), Len(t) = Len(s) + 1,
           \A i \in 1 .. Len(s) : t[i] = s[i], t[Len(s) + 1] = c
    PROVE  s \o <<c>> = t
<1> DEFINE u == s \o <<c>>
<1>1. /\ isText(u) /\ Len(u) = Len(s) + 1 /\ Len(s) \in Nat
      /\ (\A i \in 1 .. Len(s) : u[i] = s[i]) /\ u[Len(s) + 1] = c
  BY Appended
<1> HIDE DEF u
<1>2. \A i \in 1 .. Len(u) : i \in 1 .. Len(s) \/ i = Len(s) + 1
  BY <1>1
<1>3. \A i \in 1 .. Len(u) : u[i] = t[i]
  BY <1>1, <1>2
<1>4. u = t
  BY <1>1, <1>3, SameText
<1> QED  BY <1>4 DEF u

\* Texts are put together in any order.
LEMMA TextsAssociative ==
    ASSUME NEW one, NEW two, NEW three, isText(one), isText(two), isText(three)
    PROVE  (one \o two) \o three = one \o (two \o three)
<1> DEFINE T == (Range(one) \cup Range(two)) \cup Range(three)
<1>1. /\ one \in Seq(Range(one) \cup T) /\ two \in Seq(Range(two) \cup T) /\ three \in Seq(Range(three) \cup T)
      /\ Range(one) \cup T = T /\ Range(two) \cup T = T /\ Range(three) \cup T = T
  BY TextIn
<1>2. one \in Seq(T) /\ two \in Seq(T) /\ three \in Seq(T)
  BY <1>1
<1> HIDE DEF T
<1>3. texts(T, one, two, three)
  BY <1>2 DEF texts
<1> QED  BY <1>3, Associative

\* The tuples the rewriting writes, token by token.
LEMMA TuplesOn ==
    /\ \A a, b : <<a>> \o <<b>> = <<a, b>>
    /\ \A a, b, c : <<a, b>> \o <<c>> = <<a, b, c>>
    /\ \A a, b, c, d : <<a, b, c>> \o <<d>> = <<a, b, c, d>>
<1>1. ASSUME NEW a, NEW b PROVE <<a>> \o <<b>> = <<a, b>>
  <2> DEFINE s == <<a>>
             t == <<a, b>>
  <2>1. isText(s) /\ isText(t) /\ Len(s) = 1 /\ Len(t) = 2
    BY Tuples
  <2>2. t[1] = a /\ t[2] = b /\ s[1] = a
    OBVIOUS
  <2> HIDE DEF s, t
  <2>3. Len(t) = Len(s) + 1 /\ \A i \in 1 .. Len(s) : i = 1
    BY <2>1
  <2>4. (\A i \in 1 .. Len(s) : t[i] = s[i]) /\ t[Len(s) + 1] = b
    BY <2>1, <2>2, <2>3
  <2>5. s \o <<b>> = t
    BY <2>1, <2>3, <2>4, OneMore
  <2> QED  BY <2>5 DEF s, t
<1>2. ASSUME NEW a, NEW b, NEW c PROVE <<a, b>> \o <<c>> = <<a, b, c>>
  <2> DEFINE s == <<a, b>>
             t == <<a, b, c>>
  <2>1. isText(s) /\ isText(t) /\ Len(s) = 2 /\ Len(t) = 3
    BY Tuples
  <2>2. t[1] = a /\ t[2] = b /\ t[3] = c /\ s[1] = a /\ s[2] = b
    OBVIOUS
  <2> HIDE DEF s, t
  <2>3. Len(t) = Len(s) + 1 /\ \A i \in 1 .. Len(s) : i = 1 \/ i = 2
    BY <2>1
  <2>4. (\A i \in 1 .. Len(s) : t[i] = s[i]) /\ t[Len(s) + 1] = c
    BY <2>1, <2>2, <2>3
  <2>5. s \o <<c>> = t
    BY <2>1, <2>3, <2>4, OneMore
  <2> QED  BY <2>5 DEF s, t
<1>3. ASSUME NEW a, NEW b, NEW c, NEW d PROVE <<a, b, c>> \o <<d>> = <<a, b, c, d>>
  <2> DEFINE s == <<a, b, c>>
             t == <<a, b, c, d>>
  <2>1. isText(s) /\ isText(t) /\ Len(s) = 3 /\ Len(t) = 4
    BY Tuples
  <2>2. t[1] = a /\ t[2] = b /\ t[3] = c /\ t[4] = d /\ s[1] = a /\ s[2] = b /\ s[3] = c
    OBVIOUS
  <2> HIDE DEF s, t
  <2>3. Len(t) = Len(s) + 1 /\ \A i \in 1 .. Len(s) : i = 1 \/ i = 2 \/ i = 3
    BY <2>1
  <2>4. (\A i \in 1 .. Len(s) : t[i] = s[i]) /\ t[Len(s) + 1] = d
    BY <2>1, <2>2, <2>3
  <2>5. s \o <<d>> = t
    BY <2>1, <2>3, <2>4, OneMore
  <2> QED  BY <2>5 DEF s, t
<1> QED  BY <1>1, <1>2, <1>3

\* A text that has not been above the top so far, and what is open after it.
opening(s, b) == isText(s) /\ after(s) = b /\ \A i \in 1 .. Len(s) : reading(s, 1)[i].open >= 0

\* It goes on with a token that does not lead above the top, and it is well-formed when
\* nothing is open.
LEMMA Opening ==
    ASSUME NEW s, NEW b, opening(s, b)
    PROVE  /\ \A c : readOn(b, c).open >= 0 => opening(s \o <<c>>, readOn(b, c))
           /\ b = Outside => formed(s)
<1>1. isText(s) /\ after(s) = b /\ Len(s) \in Nat /\ \A i \in 1 .. Len(s) : reading(s, 1)[i].open >= 0
  BY TextIn DEF opening
<1>2. ASSUME NEW c, readOn(b, c).open >= 0 PROVE opening(s \o <<c>>, readOn(b, c))
  <2> DEFINE u == s \o <<c>>
             m == Len(s)
  <2>1. /\ isText(u) /\ Len(u) = m + 1 /\ \A i \in 0 .. m : reading(u, 1)[i] = reading(s, 1)[i]
        /\ reading(u, 1)[m + 1] = readOn(b, c) /\ after(u) = readOn(b, c)
    BY <1>1, ReadAppend
  <2> HIDE DEF u
  <2>2. \A i \in 1 .. m + 1 : (i \in 1 .. m /\ i \in 0 .. m) \/ i = m + 1
    BY <1>1
  <2>3. \A i \in 1 .. m + 1 : reading(u, 1)[i].open >= 0
    BY <1>1, <1>2, <2>1, <2>2
  <2> QED  BY <2>1, <2>3 DEF opening, u
<1>3. ASSUME b = Outside PROVE formed(s)
  <2>1. lifted(Outside, 0 - 0) = Outside
    BY DEF lifted, Outside
  <2>2. ASSUME NEW i \in 1 .. Len(s) PROVE reading(s, 1)[i].open + 0 >= 0
    <3>1. i \in 0 .. Len(s)
      BY <1>1
    <3>2. reading(s, 1)[i].open \in Int
      BY <1>1, <3>1, Read DEF Readings
    <3> QED  BY <1>1, <3>2
  <2> QED  BY <1>1, <1>3, <2>1, <2>2 DEF formed, leads
<1> QED  BY <1>2, <1>3

\* Cut at the commas so far, every piece but the last is well-formed.
pieces(v, b) == (\A k \in 1 .. Len(v) - 1 : formed(v[k])) /\ opening(v[Len(v)], b)

\* One more token: at a comma outside everything the last piece is well-formed too.
LEMMA PiecesOn ==
    ASSUME NEW T, NEW v \in nonempty(T), NEW b, pieces(v, b), NEW c \in T, NEW isCut \in BOOLEAN,
           readOn(b, c).open >= 0, isCut => b = Outside /\ readOn(b, c) = Outside
    PROVE  pieces(cutOn(v, c, isCut), readOn(b, c))
<1> DEFINE n == Len(v)
           w == cutOn(v, c, isCut)
<1>1. v \in Seq(Seq(T)) /\ v # <<>> /\ n \in Nat /\ n >= 1
  <2> DEFINE V == Seq(T)
  <2>1. v \in Seq(V) /\ v # <<>>
    BY DEF nonempty
  <2> HIDE DEF V
  <2>2. n \in Nat /\ n >= 1
    BY <2>1
  <2> QED  BY <2>1, <2>2 DEF V
<1>2. (\A k \in 1 .. n - 1 : formed(v[k])) /\ opening(v[n], b)
  BY DEF pieces
<1>3. CASE isCut
  <2>1. w = Append(v, <<>>)
    BY <1>3 DEF cutOn
  <2>2. Len(w) = n + 1 /\ w[n + 1] = <<>> /\ \A k \in 1 .. n : w[k] = v[k]
    <3> DEFINE V == Seq(T)
    <3>1. v \in Seq(V) /\ <<>> \in V
      BY <1>1, EmptySeq
    <3> HIDE DEF V, w
    <3> QED  BY <2>1, <3>1
  <2> HIDE DEF w, n
  <2>3. formed(v[n])
    BY <1>2, <1>3, Opening
  <2>4. opening(<<>>, Outside)
    <3>1. isText(<<>>) /\ Len(<<>>) = 0 /\ after(<<>>) = Outside
      BY Tuples, LeadsEmpty
    <3> QED  BY <3>1 DEF opening
  <2>5. \A k \in 1 .. n + 1 - 1 : k \in 1 .. n /\ (k \in 1 .. n - 1 \/ k = n)
    BY <1>1
  <2>6. \A k \in 1 .. n + 1 - 1 : formed(w[k])
    BY <1>2, <2>2, <2>3, <2>5
  <2>7. pieces(w, Outside)
    <3>1. Len(w) - 1 = n + 1 - 1
      BY <1>1, <2>2
    <3>3. w[Len(w)] = <<>>
      BY <2>2, Zenon
    <3>2. \A k \in 1 .. Len(w) - 1 : formed(w[k])
      BY <2>6, <3>1
    <3> QED  BY <2>4, <3>2, <3>3 DEF pieces
  <2> QED  BY <1>3, <2>7 DEF w
<1>4. CASE ~isCut
  <2>1. w = grown(v, c)
    BY <1>4 DEF cutOn
  <2>2. Len(w) = n /\ w[n] = v[n] \o <<c>> /\ \A k \in 1 .. n - 1 : w[k] = v[k]
    BY <1>1, <2>1, Grown
  <2> HIDE DEF w, n
  <2>3. opening(v[n] \o <<c>>, readOn(b, c))
    BY <1>2, Opening
  <2> QED  BY <1>2, <2>2, <2>3 DEF pieces, w
<1> QED  BY <1>3, <1>4

\* The arguments of a well-formed text are well-formed.
LEMMA ArgsFormed ==
    ASSUME NEW s, formed(s)
    PROVE  \A k \in 1 .. Len(splitArgs(s)) : formed(splitArgs(s)[k])
<1> DEFINE T == Range(s)
           n == Len(s)
           r == reading(s, 1)
           cuts == commasOf(s)
<1>1. isText(s) /\ s \in Seq(T) /\ n \in Nat /\ \A i \in 1 .. n : s[i] \in T
  BY TextIn DEF formed, leads, isText
<1>2. PICK p : /\ p \in [0 .. n -> nonempty(T)]
               /\ p[0] = <<<<>>>>
               /\ \A i \in 1 .. n : p[i] = cutOn(p[i - 1], s[i], i \in cuts)
               /\ cutAt(s, cuts) = p[n]
  BY <1>1, CutSteps
<1>3. splitArgs(s) = p[n]
  BY <1>1, <1>2, CommasFound
<1>4. /\ r[0] = Outside /\ r[n] = Outside
      /\ \A i \in 1 .. n : r[i] = readOn(r[i - 1], s[i]) /\ r[i] \in Readings /\ r[i].open >= 0
  <2>1. /\ r[0] = Outside /\ \A i \in 0 .. n : r[i] \in Readings
        /\ \A i \in 1 .. n : r[i] = readOn(r[i - 1], s[i])
    BY <1>1, Read
  <2>2. after(s) = r[n] /\ after(s) = lifted(Outside, 0 - 0) /\ \A i \in 1 .. n : r[i].open + 0 >= 0
    BY DEF formed, leads, after
  <2>3. lifted(Outside, 0 - 0) = Outside
    BY DEF lifted, Outside
  <2> HIDE DEF r, n
  <2>4. ASSUME NEW i \in 1 .. n PROVE r[i] \in Readings /\ r[i].open >= 0
    <3>1. i \in 0 .. n
      BY <1>1
    <3>2. r[i] \in Readings
      BY <2>1, <3>1
    <3>3. r[i].open \in Int
      BY <3>2 DEF Readings
    <3> QED  BY <2>2, <3>2, <3>3
  <2> QED  BY <2>1, <2>2, <2>3, <2>4
<1>5. ASSUME NEW i \in 1 .. n, i \in cuts PROVE r[i] = Outside /\ r[i - 1] = Outside
  <2>1. s[i] = "," /\ r[i] = Outside
    BY <1>5 DEF commasOf, Outside
  <2>2. i - 1 \in 0 .. n
    BY <1>1
  <2>3. r[i - 1] \in Readings
    BY <1>1, <2>2, Read
  <2>4. "," \notin {Quote, "(", ")"}
    BY DEF Quote
  <2>5. readOn(r[i - 1], ",") = r[i - 1]
    <3> HIDE DEF r
    <3> QED  BY <2>3, <2>4, ReadUpdates
  <2> QED  BY <1>4, <2>1, <2>5
<1> HIDE DEF T, n, r, cuts
<1> DEFINE P == {i \in 0 .. n : pieces(p[i], r[i])}
<1>6. 0 \in P
  <2>1. isText(<<>>) /\ Len(<<>>) = 0 /\ after(<<>>) = Outside /\ <<<<>>>>[1] = <<>> /\ Len(<<<<>>>>) = 1
    BY Tuples, LeadsEmpty
  <2>2. opening(<<>>, Outside)
    BY <2>1 DEF opening
  <2>3. pieces(<<<<>>>>, Outside)
    <3> DEFINE v == <<<<>>>>
    <3>1. Len(v) = 1 /\ v[1] = <<>>
      BY <2>1
    <3> HIDE DEF v
    <3>2. \A k \in 1 .. Len(v) - 1 : formed(v[k])
      BY <3>1
    <3>3. pieces(v, Outside)
      BY <2>2, <3>1, <3>2 DEF pieces
    <3> QED  BY <3>3 DEF v
  <2>4. 0 \in 0 .. n
    BY <1>1
  <2> QED  BY <1>2, <1>4, <2>3, <2>4
<1>7. ASSUME NEW i \in 0 .. n - 1, i \in P PROVE i + 1 \in P
  <2> DEFINE k == i + 1
             isCut == k \in cuts
  <2>1. k \in 1 .. n /\ k \in 0 .. n /\ k - 1 = i /\ i \in 0 .. n
    BY <1>1
  <2> HIDE DEF k
  <2>2. p[k] = cutOn(p[i], s[k], isCut) /\ p[i] \in nonempty(T) /\ s[k] \in T
    <3>1. p[k] = cutOn(p[k - 1], s[k], isCut)
      BY <1>2, <2>1
    <3>2. p[i] \in nonempty(T)
      BY <1>2, <2>1
    <3> QED  BY <1>1, <2>1, <3>1, <3>2
  <2>3. r[k] = readOn(r[i], s[k]) /\ r[k].open >= 0
    BY <1>4, <2>1
  <2>4. isCut => r[i] = Outside /\ r[k] = Outside
    BY <1>5, <2>1
  <2>5. pieces(p[i], r[i])
    BY <1>7
  <2>6. isCut \in BOOLEAN
    OBVIOUS
  <2> HIDE DEF isCut
  <2>7. pieces(cutOn(p[i], s[k], isCut), readOn(r[i], s[k]))
    BY <2>2, <2>3, <2>4, <2>5, <2>6, PiecesOn
  <2>8. pieces(p[k], r[k])
    BY <2>2, <2>3, <2>7
  <2>9. k \in P
    BY <2>1, <2>8
  <2> QED  BY <2>9 DEF k
<1>8. pieces(p[n], Outside) /\ p[n] \in nonempty(T)
  <2>1. inductive(P, 0, n)
    BY <1>6, <1>7 DEF inductive
  <2>2. n \in 0 .. n
    BY <1>1
  <2>3. p[n] \in nonempty(T)
    BY <1>2, <2>2
  <2> HIDE DEF P
  <2>4. 0 .. n \subseteq P
    BY <1>1, <2>1, Upwards
  <2>5. n \in P
    BY <2>2, <2>4
  <2> QED  BY <1>4, <2>3, <2>5 DEF P
<1> DEFINE v == p[n]
<1>9. Len(v) \in Nat /\ Len(v) >= 1
  <2> DEFINE V == Seq(T)
  <2>1. v \in Seq(V) /\ v # <<>>
    BY <1>8 DEF nonempty
  <2> HIDE DEF V, v
  <2> QED  BY <2>1
<1> HIDE DEF v
<1>10. ASSUME NEW k \in 1 .. Len(v) PROVE formed(v[k])
  <2>1. pieces(v, Outside)
    BY <1>8 DEF v
  <2>2. (\A l \in 1 .. Len(v) - 1 : formed(v[l])) /\ formed(v[Len(v)])
    BY <2>1, Opening DEF pieces
  <2>3. k \in 1 .. Len(v) - 1 \/ k = Len(v)
    BY <1>9
  <2> QED  BY <2>2, <2>3
<1> QED  BY <1>3, <1>10 DEF v

\* What a literal with nothing in it stands for adds nothing.
LEMMA EmptyLiteral ==
    formed(<<Quote, Quote>>) /\ insideLiterals(<<Quote, Quote>>) = {}
<1> DEFINE In == [inside |-> TRUE, open |-> 0]
<1>1. opening(<<>>, Outside) /\ Outside.open >= 0 /\ In.open >= 0
  <2>1. isText(<<>>) /\ Len(<<>>) = 0 /\ after(<<>>) = Outside
    BY Tuples, LeadsEmpty
  <2> QED  BY <2>1 DEF opening, Outside
<1>2. readOn(Outside, Quote) = In /\ readOn(In, Quote) = Outside
  BY DEF readOn, Outside
<1> HIDE DEF In
<1>3. <<>> \o <<Quote>> = <<Quote>> /\ <<Quote>> \o <<Quote>> = <<Quote, Quote>>
  <2>1. <<>> \o <<Quote>> = <<Quote>>
    OBVIOUS
  <2> QED  BY <2>1, TuplesOn
<1>4. opening(<<>> \o <<Quote>>, In) /\ insideLiterals(<<>> \o <<Quote>>) = {}
  <2>1. isText(<<>>) /\ after(<<>>) = Outside /\ insideLiterals(<<>>) = {}
    BY Tuples, LeadsEmpty
  <2> QED  BY <1>1, <1>2, <2>1, Opening, ReadAppend
<1>5. opening(<<Quote>>, In) /\ insideLiterals(<<Quote>>) = {}
  BY <1>3, <1>4
<1>6. opening(<<Quote>> \o <<Quote>>, Outside)
  BY <1>1, <1>2, <1>5, Opening
<1>7. insideLiterals(<<Quote>> \o <<Quote>>) = {}
  <2>1. isText(<<Quote>>)
    BY Tuples
  <2> QED  BY <1>5, <2>1, ReadAppend
<1> QED  BY <1>3, <1>6, <1>7, Opening

\* An argument of CONCAT in what it becomes.
LEMMA CoalescedPiece ==
    ASSUME NEW x, formed(x)
    PROVE  LET y == <<"coalesce", "(">> \o x \o <<",", Quote, Quote, ")">>
           IN formed(y) /\ insideLiterals(y) = insideLiterals(x)
<1> DEFINE a == <<"coalesce", "(">>
           b == <<",", Quote, Quote, ")">>
<1>1. leads(a, 0, 1) /\ insideLiterals(a) = {}
  <2>1. leads(<<"coalesce">>, 0, 0) /\ insideLiterals(<<"coalesce">>) = {}
    <3>1. "coalesce" \notin {Quote, "(", ")"}
      BY DEF Quote
    <3> QED  BY <3>1, LeadsToken
  <2>2. leads(<<"coalesce">> \o <<"(">>, 0, 0 + 1) /\ insideLiterals(<<"coalesce">> \o <<"(">>) = {}
    <3>1. "(" # Quote
      BY DEF Quote
    <3> QED  BY <2>1, <3>1, LeadsMore
  <2>3. <<"coalesce">> \o <<"(">> = a
    BY TuplesOn
  <2> HIDE DEF a
  <2>4. 0 + 1 = 1
    OBVIOUS
  <2> QED  BY <2>2, <2>3, <2>4
<1>2. leads(b, 1, 0) /\ insideLiterals(b) = {}
  <2>1. leads(<<",">>, 1, 1) /\ insideLiterals(<<",">>) = {}
    <3>1. "," \notin {Quote, "(", ")"}
      BY DEF Quote
    <3> QED  BY <3>1, LeadsToken
  <2>2. leads(<<Quote, Quote>>, 1, 1)
    <3>1. leads(<<Quote, Quote>>, 0 + 1, 0 + 1)
      BY EmptyLiteral, LeadsDeeper DEF formed
    <3> QED  BY <3>1
  <2> DEFINE c == <<",">> \o <<Quote, Quote>>
  <2>3. leads(c, 1, 1) /\ insideLiterals(c) = {}
    <3> DEFINE s == <<",">>
               t == <<Quote, Quote>>
    <3>1. leads(s, 1, 1) /\ leads(t, 1, 1) /\ insideLiterals(s) = {} /\ insideLiterals(t) = {}
      BY <2>1, <2>2, EmptyLiteral
    <3> HIDE DEF s, t
    <3>2. leads(s \o t, 1, 1) /\ insideLiterals(s \o t) = insideLiterals(s) \cup insideLiterals(t)
      BY <3>1, LeadsOn
    <3> QED  BY <3>1, <3>2 DEF s, t
  <2>4. c \o <<")">> = b
    <3>1. /\ <<",", Quote>> \o <<Quote>> = <<",", Quote, Quote>> /\ <<",">> \o <<Quote>> = <<",", Quote>>
          /\ <<Quote>> \o <<Quote>> = <<Quote, Quote>> /\ <<",", Quote, Quote>> \o <<")">> = b
      BY TuplesOn
    <3>2. (<<",">> \o <<Quote>>) \o <<Quote>> = <<",">> \o (<<Quote>> \o <<Quote>>)
      <4> DEFINE s == <<",">>
                 t == <<Quote>>
      <4>1. isText(s) /\ isText(t)
        BY Tuples
      <4> HIDE DEF s, t
      <4>2. (s \o t) \o t = s \o (t \o t)
        BY <4>1, TextsAssociative
      <4> QED  BY <4>2 DEF s, t
    <3> QED  BY <3>1, <3>2
  <2> HIDE DEF c, b
  <2>5. leads(c \o <<")">>, 1, 1 - 1) /\ insideLiterals(c \o <<")">>) = {}
    <3>1. ")" # Quote
      BY DEF Quote
    <3>2. 1 \in Nat /\ 1 >= 1
      OBVIOUS
    <3> QED  BY <2>3, <3>1, <3>2, LeadsMore
  <2>6. 1 - 1 = 0
    OBVIOUS
  <2> QED  BY <2>4, <2>5, <2>6
<1>3. leads(x, 1, 1)
  <2>1. leads(x, 0 + 1, 0 + 1)
    BY LeadsDeeper DEF formed
  <2> QED  BY <2>1
<1> HIDE DEF a, b
<1>4. leads(a \o x, 0, 1) /\ insideLiterals(a \o x) = insideLiterals(a) \cup insideLiterals(x)
  BY <1>1, <1>3, LeadsOn
<1>5. leads((a \o x) \o b, 0, 0) /\ insideLiterals((a \o x) \o b) = insideLiterals(a \o x) \cup insideLiterals(b)
  BY <1>2, <1>4, LeadsOn
<1>6. leads(a \o x \o b, 0, 0) /\ insideLiterals(a \o x \o b) = insideLiterals(x)
  BY <1>1, <1>2, <1>4, <1>5
<1> QED  BY <1>6 DEF formed, a, b

\* Where nothing is taken the text stays as it is.
LEMMA Untaken ==
    ASSUME NEW s, NEW m, isText(s), taken(s, m), \A i \in 1 .. Len(s) : m[i].length = 0
    PROVE  replaced(s, m) = s
<1> DEFINE n == Len(s)
<1>1. n \in Nat
  BY TextIn
<1>2. PICK rest : /\ replaced(s, m) = rest[1]
                  /\ \A i \in 1 .. n + 1 : isText(rest[i]) /\ rest[i] = replacing(s, m, rest, i)
  BY ReplacedSteps
<1> DEFINE same(k, t) == Len(t) = n + 1 - k /\ \A i \in 1 .. n + 1 - k : t[i] = s[k - 1 + i]
           P == {j \in 0 .. n : same(n + 1 - j, rest[n + 1 - j])}
<1>3. 0 \in P
  <2>1. n + 1 \in 1 .. n + 1 /\ n + 1 > n /\ n + 1 - 0 = n + 1 /\ 0 \in 0 .. n /\ n + 1 - (n + 1) = 0
    BY <1>1
  <2>2. rest[n + 1] = <<>>
    BY <1>2, <2>1 DEF replacing
  <2>3. Len(<<>>) = 0 /\ 1 .. 0 = {}
    OBVIOUS
  <2> HIDE DEF n
  <2>4. same(n + 1, rest[n + 1])
    BY <2>1, <2>2, <2>3
  <2> QED  BY <2>1, <2>4
<1>4. ASSUME NEW j \in 0 .. n - 1, j \in P PROVE j + 1 \in P
  <2> DEFINE k == n + 1 - (j + 1)
             t == rest[k + 1]
  <2>1. /\ k \in 1 .. n /\ k \in 1 .. n + 1 /\ k + 1 \in 1 .. n + 1 /\ k + 1 = n + 1 - j /\ j + 1 \in 0 .. n
        /\ k \in Nat /\ ~(k > n) /\ n + 1 - (k + 1) = n - k
    BY <1>1
  <2> DEFINE l == n + 1 - j
  <2>2. same(l, rest[l])
    BY <1>4
  <2>11. l = k + 1 /\ l - 1 = k /\ k + 1 - 1 = k /\ n + 1 - l = n - k
    BY <1>1
  <2> HIDE DEF k, l
  <2>3. isText(t) /\ Len(t) = n - k /\ \A i \in 1 .. n - k : t[i] = s[k + 1 - 1 + i]
    <3>1. isText(t)
      BY <1>2, <2>1
    <3>2. Len(rest[l]) = n + 1 - l /\ \A i \in 1 .. n + 1 - l : rest[l][i] = s[l - 1 + i]
      BY <2>2
    <3>3. rest[l] = t /\ n + 1 - l = n - k
      BY <2>11
    <3>4. Len(t) = n - k /\ \A i \in 1 .. n - k : t[i] = s[l - 1 + i]
      BY <3>2, <3>3, Zenon
    <3>5. l - 1 = k + 1 - 1
      BY <2>11
    <3> HIDE DEF t, n
    <3> QED  BY <3>1, <3>4, <3>5
  <2>4. rest[k] = <<s[k]>> \o t
    <3>1. rest[k] = replacing(s, m, rest, k) /\ m[k].length = 0
      BY <1>2, <2>1
    <3> QED  BY <2>1, <3>1 DEF replacing
  <2> HIDE DEF t
  <2> DEFINE u == <<s[k]>>
  <2>5. isText(u) /\ Len(u) = 1 /\ u[1] = s[k]
    BY Tuples
  <2> HIDE DEF u
  <2>6. /\ Len(u \o t) = 1 + (n - k) /\ (u \o t)[1] = s[k]
        /\ \A i \in 1 .. n - k : (u \o t)[1 + i] = t[i]
    <3>1. /\ Len(u \o t) = Len(u) + Len(t)
          /\ \A i \in 1 .. Len(u) : (u \o t)[i] = u[i]
          /\ \A i \in 1 .. Len(t) : (u \o t)[Len(u) + i] = t[i]
      <4>1. isText(u) /\ isText(t)
        BY <2>3, <2>5
      <4> QED  BY <4>1, TextConcat
    <3>2. 1 \in 1 .. Len(u)
      BY <2>5
    <3> QED  BY <2>3, <2>5, <3>1, <3>2
  <2> DEFINE v == u \o t
  <2>7. rest[k] = v
    BY <2>4 DEF u
  <2> HIDE DEF v
  <2>8. ASSUME NEW i \in 1 .. n + 1 - k PROVE v[i] = s[k - 1 + i]
    <3>1. CASE i = 1
      <4>1. k - 1 + i = k
        BY <2>1, <3>1
      <4> QED  BY <2>6, <3>1, <4>1 DEF v
    <3>2. CASE i # 1
      <4> DEFINE h == i - 1
      <4>1. h \in 1 .. n - k /\ i = 1 + h /\ k + 1 - 1 + h = k - 1 + i
        BY <1>1, <2>1, <3>2
      <4> HIDE DEF h
      <4>2. v[i] = t[h]
        BY <2>6, <4>1 DEF v
      <4>3. t[h] = s[k + 1 - 1 + h]
        BY <2>3, <4>1
      <4> QED  BY <4>1, <4>2, <4>3
    <3> QED  BY <3>1, <3>2
  <2>9. Len(v) = n + 1 - k
    BY <1>1, <2>1, <2>6 DEF v
  <2>10. same(k, rest[k])
    BY <2>7, <2>8, <2>9
  <2> QED  BY <2>1, <2>10 DEF k
<1>5. same(1, rest[1])
  <2>1. inductive(P, 0, n)
    BY <1>3, <1>4 DEF inductive
  <2>2. n \in 0 .. n /\ n + 1 - n = 1
    BY <1>1
  <2> HIDE DEF P
  <2>3. 0 .. n \subseteq P
    BY <1>1, <2>1, Upwards
  <2>4. n \in P
    BY <2>2, <2>3
  <2>5. same(n + 1 - n, rest[n + 1 - n])
    BY <2>4 DEF P
  <2> HIDE DEF same
  <2> QED  BY <2>2, <2>5
<1> DEFINE t == rest[1]
<1>6. isText(t)
  <2>1. 1 \in 1 .. n + 1
    BY <1>1
  <2> QED  BY <1>2, <2>1
<1>7. Len(t) = Len(s) /\ \A i \in 1 .. Len(t) : t[i] = s[i]
  <2>1. n + 1 - 1 = n /\ \A i \in 1 .. n : 1 - 1 + i = i
    BY <1>1
  <2>2. Len(t) = n + 1 - 1 /\ \A i \in 1 .. n + 1 - 1 : t[i] = s[1 - 1 + i]
    BY <1>5
  <2> HIDE DEF t
  <2> QED  BY <2>1, <2>2
<1> HIDE DEF t
<1>8. t = s
  BY <1>6, <1>7, SameText
<1> QED  BY <1>2, <1>8 DEF t

-----------------------------------------------------------------------------
(* Texts that were put together are taken apart again.                       *)

\* A text that grows at its front by the tokens of another is that text.
LEMMA Rebuilt ==
    ASSUME NEW s, isText(s), NEW f, \A k \in 1 .. Len(s) + 1 : isText(f[k]), f[Len(s) + 1] = <<>>,
           \A k \in 1 .. Len(s) : f[k] = <<s[k]>> \o f[k + 1]
    PROVE  f[1] = s
<1> DEFINE n == Len(s)
           same(k, t) == Len(t) = n + 1 - k /\ \A i \in 1 .. n + 1 - k : t[i] = s[k - 1 + i]
           P == {j \in 0 .. n : same(n + 1 - j, f[n + 1 - j])}
<1>1. n \in Nat
  BY TextIn
<1>3. 0 \in P
  <2>1. n + 1 - 0 = n + 1 /\ 0 \in 0 .. n /\ n + 1 - (n + 1) = 0
    BY <1>1
  <2>2. Len(<<>>) = 0 /\ 1 .. 0 = {}
    OBVIOUS
  <2> HIDE DEF n
  <2>3. same(n + 1, f[n + 1])
    BY <2>1, <2>2 DEF n
  <2> QED  BY <2>1, <2>3
<1>4. ASSUME NEW j \in 0 .. n - 1, j \in P PROVE j + 1 \in P
  <2> DEFINE k == n + 1 - (j + 1)
             l == n + 1 - j
             t == f[k + 1]
  <2>1. /\ k \in 1 .. n /\ k \in 1 .. n + 1 /\ k + 1 \in 1 .. n + 1 /\ j + 1 \in 0 .. n /\ k \in Nat
        /\ l = k + 1 /\ l - 1 = k /\ k + 1 - 1 = k /\ n + 1 - l = n - k
    BY <1>1
  <2>2. same(l, f[l])
    BY <1>4
  <2> HIDE DEF k, l
  <2>3. isText(t) /\ Len(t) = n - k /\ \A i \in 1 .. n - k : t[i] = s[k + 1 - 1 + i]
    <3>1. isText(t)
      BY <2>1
    <3>2. Len(f[l]) = n + 1 - l /\ \A i \in 1 .. n + 1 - l : f[l][i] = s[l - 1 + i]
      BY <2>2
    <3>3. f[l] = t /\ n + 1 - l = n - k
      BY <2>1
    <3>4. Len(t) = n - k /\ \A i \in 1 .. n - k : t[i] = s[l - 1 + i]
      BY <3>2, <3>3, Zenon
    <3>5. l - 1 = k + 1 - 1
      BY <2>1
    <3> HIDE DEF t, n
    <3> QED  BY <3>1, <3>4, <3>5
  <2>4. f[k] = <<s[k]>> \o t
    BY <2>1
  <2> HIDE DEF t
  <2> DEFINE u == <<s[k]>>
  <2>5. isText(u) /\ Len(u) = 1 /\ u[1] = s[k]
    BY Tuples
  <2> HIDE DEF u
  <2>6. /\ Len(u \o t) = 1 + (n - k) /\ (u \o t)[1] = s[k]
        /\ \A i \in 1 .. n - k : (u \o t)[1 + i] = t[i]
    <3>1. /\ Len(u \o t) = Len(u) + Len(t)
          /\ \A i \in 1 .. Len(u) : (u \o t)[i] = u[i]
          /\ \A i \in 1 .. Len(t) : (u \o t)[Len(u) + i] = t[i]
      <4>1. isText(u) /\ isText(t)
        BY <2>3, <2>5
      <4> QED  BY <4>1, TextConcat
    <3>2. 1 \in 1 .. Len(u)
      BY <2>5
    <3> QED  BY <2>3, <2>5, <3>1, <3>2
  <2> DEFINE v == u \o t
  <2>7. f[k] = v
    BY <2>4 DEF u
  <2> HIDE DEF v
  <2>8. ASSUME NEW i \in 1 .. n + 1 - k PROVE v[i] = s[k - 1 + i]
    <3>1. CASE i = 1
      <4>1. k - 1 + i = k
        BY <2>1, <3>1
      <4> QED  BY <2>6, <3>1, <4>1 DEF v
    <3>2. CASE i # 1
      <4> DEFINE h == i - 1
      <4>1. h \in 1 .. n - k /\ i = 1 + h /\ k + 1 - 1 + h = k - 1 + i
        BY <1>1, <2>1, <3>2
      <4> HIDE DEF h
      <4>2. v[i] = t[h]
        BY <2>6, <4>1 DEF v
      <4>3. t[h] = s[k + 1 - 1 + h]
        BY <2>3, <4>1
      <4> QED  BY <4>1, <4>2, <4>3
    <3> QED  BY <3>1, <3>2
  <2>9. Len(v) = n + 1 - k
    BY <1>1, <2>1, <2>6 DEF v
  <2>10. same(k, f[k])
    BY <2>7, <2>8, <2>9
  <2> QED  BY <2>1, <2>10 DEF k
<1>5. same(1, f[1])
  <2>1. inductive(P, 0, n)
    BY <1>3, <1>4 DEF inductive
  <2>2. n \in 0 .. n /\ n + 1 - n = 1
    BY <1>1
  <2> HIDE DEF P
  <2>3. 0 .. n \subseteq P
    BY <1>1, <2>1, Upwards
  <2>4. n \in P
    BY <2>2, <2>3
  <2>5. same(n + 1 - n, f[n + 1 - n])
    BY <2>4 DEF P
  <2> HIDE DEF same
  <2> QED  BY <2>2, <2>5
<1> DEFINE t == f[1]
<1>6. isText(t)
  <2>1. 1 \in 1 .. n + 1
    BY <1>1
  <2> QED  BY <2>1
<1>7. Len(t) = Len(s) /\ \A i \in 1 .. Len(t) : t[i] = s[i]
  <2>1. n + 1 - 1 = n /\ \A i \in 1 .. n : 1 - 1 + i = i
    BY <1>1
  <2>2. Len(t) = n + 1 - 1 /\ \A i \in 1 .. n + 1 - 1 : t[i] = s[1 - 1 + i]
    BY <1>5
  <2> HIDE DEF t
  <2> QED  BY <2>1, <2>2
<1> HIDE DEF t
<1>8. t = s
  BY <1>6, <1>7, SameText
<1> QED  BY <1>8 DEF t

\* The parenthesis that closes one is the one after a well-formed text.
LEMMA ParenAround ==
    ASSUME NEW s, isText(s), NEW open \in 1 .. Len(s), s[open] = "(", NEW x, formed(x),
           open + Len(x) + 1 <= Len(s), \A i \in 1 .. Len(x) : s[open + i] = x[i],
           s[open + Len(x) + 1] = ")"
    PROVE  matchParen(s, open) = open + Len(x) + 1
<1> DEFINE n == Len(x)
           r == reading(s, open)
           end == matchParen(s, open)
           close == open + n + 1
           balanced == {i \in open .. Len(s) : s[i] # Quote /\ ~r[i].inside /\ r[i].open = 0}
<1>1. /\ isText(x) /\ n \in Nat /\ Len(s) \in Nat /\ open \in Nat
      /\ close \in open .. Len(s) /\ open \in 1 .. Len(s) + 1
  BY TextIn DEF formed, leads
<1>2. IF end = 0 THEN balanced = {} ELSE end \in balanced /\ \A i \in balanced : end <= i
  BY <1>1, ParenMatched
<1>3. /\ r[open - 1] = Outside
      /\ \A i \in open - 1 .. Len(s) : r[i] \in Readings
      /\ \A i \in open .. Len(s) : r[i] = readOn(r[i - 1], s[i])
  BY <1>1, ReadSteps
<1> HIDE DEF r, end, n
<1>4. r[open] = lifted(Outside, 1)
  <2>1. open \in open .. Len(s)
    BY <1>1
  <2>2. r[open] = readOn(Outside, "(")
    BY <1>3, <2>1
  <2> QED  BY <2>2 DEF readOn, lifted, Outside, Quote
<1>5. /\ reading(x, 1)[0] = Outside /\ after(x) = Outside
      /\ \A i \in 0 .. n : reading(x, 1)[i] \in Readings /\ reading(x, 1)[i].open >= 0
  <2>1. reading(x, 1)[0] = Outside /\ \A i \in 0 .. n : reading(x, 1)[i] \in Readings
    BY <1>1, Read DEF n
  <2>2. after(x) = lifted(Outside, 0 - 0) /\ \A i \in 1 .. n : reading(x, 1)[i].open + 0 >= 0
    BY DEF formed, leads, n
  <2>3. lifted(Outside, 0 - 0) = Outside
    BY DEF lifted, Outside
  <2>4. ASSUME NEW i \in 0 .. n PROVE reading(x, 1)[i].open >= 0
    <3>1. CASE i = 0
      BY <2>1, <3>1 DEF Outside
    <3>2. CASE i # 0
      <4>1. i \in 1 .. n
        BY <1>1, <3>2
      <4>2. reading(x, 1)[i].open \in Int /\ reading(x, 1)[i].open + 0 >= 0
        BY <2>1, <2>2, <4>1 DEF Readings
      <4> QED  BY <4>2
    <3> QED  BY <3>1, <3>2
  <2> QED  BY <2>1, <2>2, <2>3, <2>4
<1>6. ASSUME NEW i \in 0 .. n PROVE r[open + i] = lifted(reading(x, 1)[i], 1)
  <2>1. along(s, x, open, open + 1, 1, 1, n)
    <3>1. \A j \in 1 .. n : open + 1 - 1 + j = open + j /\ 1 - 1 + j = j
      BY <1>1
    <3>2. /\ open \in 1 .. open + 1 /\ 1 \in 1 .. 1 /\ open + 1 \in Nat /\ open + 1 + n <= Len(s) + 1
          /\ 1 + n <= Len(x) + 1 /\ 1 \in Nat
      BY <1>1 DEF n
    <3>3. \A j \in 1 .. n : s[open + 1 - 1 + j] = x[1 - 1 + j]
      BY <3>1 DEF n
    <3> QED  BY <1>1, <3>2, <3>3 DEF along
  <2>2. reading(s, open)[open + 1 - 1] = lifted(reading(x, 1)[1 - 1], 1)
    <3>1. open + 1 - 1 = open /\ 1 - 1 = 0
      BY <1>1
    <3> QED  BY <1>4, <1>5, <3>1 DEF r
  <2>3. \A j \in 0 .. n : reading(s, open)[open + 1 - 1 + j] = lifted(reading(x, 1)[1 - 1 + j], 1)
    <3> DEFINE f == open + 1
               d == 1
    <3>1. isText(s) /\ isText(x) /\ d \in Int
      BY <1>1
    <3>2. along(s, x, open, f, 1, 1, n) /\ reading(s, open)[f - 1] = lifted(reading(x, 1)[1 - 1], d)
      BY <2>1, <2>2
    <3> HIDE DEF f, d
    <3>3. \A j \in 0 .. n : reading(s, open)[f - 1 + j] = lifted(reading(x, 1)[1 - 1 + j], d)
      BY <3>1, <3>2, ReadAlong
    <3> QED  BY <3>3 DEF f, d
  <2>4. open + 1 - 1 + i = open + i /\ 1 - 1 + i = i
    BY <1>1
  <2>5. reading(s, open)[open + 1 - 1 + i] = lifted(reading(x, 1)[1 - 1 + i], 1)
    BY <2>3
  <2> QED  BY <2>4, <2>5 DEF r
<1>7. ASSUME NEW i \in balanced PROVE close <= i
  <2> SUFFICES ASSUME ~(close <= i) PROVE FALSE
    OBVIOUS
  <2> DEFINE j == i - open
             b == reading(x, 1)[j]
  <2>1. j \in 0 .. n /\ i = open + j
    BY <1>1
  <2> HIDE DEF j
  <2>2. r[i] = lifted(b, 1) /\ b \in Readings /\ b.open >= 0
    BY <1>5, <1>6, <2>1
  <2> HIDE DEF b
  <2>3. r[i].open = b.open + 1 /\ b.open \in Int
    BY <2>2 DEF lifted, Readings
  <2> QED  BY <2>2, <2>3
<1>8. close \in balanced
  <2>1. r[open + n] = lifted(Outside, 1) /\ close - 1 = open + n /\ n \in 0 .. n
    <3>1. n \in 0 .. n /\ close - 1 = open + n
      BY <1>1
    <3>2. reading(x, 1)[n] = Outside
      BY <1>5 DEF after, n
    <3> QED  BY <1>6, <3>1, <3>2
  <2>2. r[close] = readOn(lifted(Outside, 1), ")")
    <3>1. s[close] = ")"
      BY DEF n
    <3> HIDE DEF close
    <3>2. r[close] = readOn(r[close - 1], s[close])
      BY <1>1, <1>3
    <3> QED  BY <2>1, <3>1, <3>2
  <2>3. r[close].inside = FALSE /\ r[close].open = 0
    BY <2>2 DEF readOn, lifted, Outside, Quote
  <2>4. s[close] # Quote
    BY DEF n, Quote
  <2> QED  BY <1>1, <2>3, <2>4
<1>9. end = close
  <2>1. end \in balanced /\ end <= close
    BY <1>2, <1>8
  <2>2. close <= end
    BY <1>7, <2>1
  <2>3. end \in Int
    BY <1>1, <2>1
  <2> HIDE DEF close, balanced
  <2>4. close \in Int
    BY <1>1
  <2> QED  BY <2>1, <2>2, <2>3, <2>4
<1> QED  BY <1>9 DEF end, n

\* A well-formed text without a comma that separates.
plain(s) == formed(s) /\ commasOf(s) = {}

\* The last piece grows, and no other.
LEMMA GrownLast ==
    ASSUME NEW T, NEW v \in Seq(Seq(T)), NEW x \in Seq(T), NEW c \in T
    PROVE  grown(Append(v, x), c) = Append(v, x \o <<c>>)
<1> DEFINE n == Len(v)
           p == Append(v, x)
           g == grown(p, c)
           y == x \o <<c>>
           w == Append(v, y)
<1>1. n \in Nat /\ y \in Seq(T)
  OBVIOUS
<1>2. p \in Seq(Seq(T)) /\ p # <<>> /\ Len(p) = n + 1 /\ p[n + 1] = x /\ \A i \in 1 .. n : p[i] = v[i]
  <2>1. p \in Seq(Seq(T)) /\ Len(p) = n + 1 /\ p[n + 1] = x /\ \A i \in 1 .. n : p[i] = v[i]
    OBVIOUS
  <2>2. Len(p) # 0
    BY <1>1, <2>1
  <2> QED  BY <2>1, <2>2
<1>3. w \in Seq(Seq(T)) /\ Len(w) = n + 1 /\ w[n + 1] = y /\ \A i \in 1 .. n : w[i] = v[i]
  BY <1>1
<1> HIDE DEF p, w, y, n
<1>4. /\ g \in Seq(Seq(T)) /\ Len(g) = n + 1 /\ g[n + 1] = y
      /\ \A i \in 1 .. n : g[i] = p[i]
  <2>1. /\ g \in Seq(Seq(T)) /\ Len(g) = Len(p) /\ g[Len(p)] = p[Len(p)] \o <<c>>
        /\ \A i \in 1 .. Len(p) - 1 : g[i] = p[i]
    BY <1>2, Grown
  <2>2. \A m \in Int : m = n + 1 => 1 .. m - 1 = 1 .. n
    BY <1>1
  <2>3. Len(p) = n + 1 /\ Len(p) \in Int
    BY <1>1, <1>2
  <2>4. 1 .. Len(p) - 1 = 1 .. n
    BY <2>2, <2>3
  <2> HIDE DEF g
  <2> QED  BY <1>2, <2>1, <2>4 DEF y
<1> HIDE DEF g
<1>5. \A i \in 1 .. n + 1 : g[i] = w[i]
  <2>1. \A i \in 1 .. n + 1 : i = n + 1 \/ i \in 1 .. n
    BY <1>1
  <2> QED  BY <1>2, <1>3, <1>4, <2>1
<1>6. g = w
  BY <1>1, <1>3, <1>4, <1>5
<1> QED  BY <1>6 DEF g, p, w, y

\* A plain text is one argument.
LEMMA SplitOne ==
    ASSUME NEW s, plain(s)
    PROVE  splitArgs(s) = <<s>>
<1> DEFINE T == Range(s) \cup {","}
           v == splitArgs(s)
<1>1. isText(s) /\ s \in Seq(T) /\ "," \in T /\ <<",">> \in Seq(T)
  <2>1. isText(s) /\ "," \in T
    BY DEF plain, formed, leads
  <2>2. s \in Seq(T)
    BY <2>1, TextIn
  <2> HIDE DEF T
  <2>3. <<",">> \in Seq(T)
    <3> DEFINE comma == ","
    <3>1. comma \in T
      BY <2>1
    <3> HIDE DEF comma
    <3>2. <<comma>> \in Seq(T)
      BY <3>1
    <3> QED  BY <3>2 DEF comma
  <2> QED  BY <2>1, <2>2, <2>3
<1>2. v \in nonempty(T) /\ joined(v, <<",">>) = s /\ Len(v) = Cardinality(commasOf(s)) + 1
  <2> HIDE DEF T
  <2> QED  BY <1>1, ArgsSplit
<1> HIDE DEF v, T
<1>3. Len(v) = 1
  <2>1. commasOf(s) = {}
    BY DEF plain
  <2>2. Cardinality(commasOf(s)) = 0
    BY <2>1, FS_EmptySet
  <2>3. Len(v) = Cardinality(commasOf(s)) + 1
    BY <1>2
  <2> QED  BY <2>2, <2>3
<1>4. v = <<v[1]>> /\ v[1] \in Seq(T)
  <2>1. v \in Seq(Seq(T))
    BY <1>2 DEF nonempty
  <2>2. v[1] \in Seq(T)
    BY <1>3, <2>1
  <2> QED  BY <1>3, <2>1, <2>2
<1>5. joined(<<v[1]>>, <<",">>) = v[1]
  BY <1>1, <1>4, JoinedOne
<1>6. v[1] = s
  BY <1>2, <1>4, <1>5
<1> QED  BY <1>4, <1>6 DEF v

\* After a well-formed text and a comma, a plain text is one more argument.
LEMMA SplitMore ==
    ASSUME NEW s, formed(s), NEW t, plain(t)
    PROVE  splitArgs((s \o <<",">>) \o t) = Append(splitArgs(s), t)
<1> DEFINE comma == ","
           u == s \o <<comma>>
           w == u \o t
           n == Len(s)
           k == Len(t)
           T == Range(w) \cup {comma}
<1>1. isText(s) /\ isText(t) /\ n \in Nat /\ k \in Nat
  BY TextIn DEF plain, formed, leads
<1>2. isText(u) /\ Len(u) = n + 1 /\ u[n + 1] = comma /\ \A i \in 1 .. n : u[i] = s[i]
  <2> HIDE DEF comma
  <2> QED  BY <1>1, Appended
<1>3. after(s) = Outside /\ after(t) = Outside
  BY DEF plain, formed, leads, lifted, Outside
<1>4. /\ \A i \in 0 .. n : reading(u, 1)[i] = reading(s, 1)[i]
      /\ reading(u, 1)[n + 1] = Outside /\ after(u) = Outside
  <2>1. readOn(Outside, comma) = Outside
    BY DEF readOn, Outside, Quote
  <2> HIDE DEF comma
  <2> QED  BY <1>1, <1>3, <2>1, ReadAppend
<1> HIDE DEF u
<1>5. /\ isText(w) /\ Len(w) = n + 1 + k
      /\ \A i \in 1 .. n + 1 : w[i] = u[i]
      /\ \A i \in 1 .. k : w[n + 1 + i] = t[i]
  <2>1. /\ isText(w) /\ Len(w) = Len(u) + Len(t)
        /\ \A i \in 1 .. Len(u) : w[i] = u[i]
        /\ \A i \in 1 .. Len(t) : w[Len(u) + i] = t[i]
    <3>1. isText(u) /\ isText(t)
      BY <1>1, <1>2
    <3> QED  BY <3>1, TextConcat
  <2> HIDE DEF w
  <2> QED  BY <1>2, <2>1
<1>6. /\ \A i \in 0 .. n + 1 : reading(w, 1)[i] = reading(u, 1)[i]
      /\ \A i \in 0 .. k : reading(w, 1)[n + 1 + i] = reading(t, 1)[i]
  <2>1. /\ \A i \in 0 .. Len(u) : reading(w, 1)[i] = reading(u, 1)[i]
        /\ ~after(u).inside => \A i \in 0 .. Len(t) : reading(w, 1)[Len(u) + i] = lifted(reading(t, 1)[i], after(u).open)
    BY <1>1, <1>2, ReadConcat
  <2>2. ~after(u).inside /\ after(u).open = 0
    BY <1>4 DEF Outside
  <2>3. \A i \in 0 .. k : lifted(reading(t, 1)[i], 0) = reading(t, 1)[i]
    BY <1>1, Read, Lifted
  <2> HIDE DEF w
  <2> QED  BY <1>2, <2>1, <2>2, <2>3
<1> DEFINE A == commasOf(s)
           C == commasOf(w)
<1>7. /\ \A i \in 1 .. n : i \in C <=> i \in A
      /\ n + 1 \in C
      /\ \A i \in 1 .. k : n + 1 + i \notin C
  <2>1. ASSUME NEW i \in 1 .. n PROVE i \in C <=> i \in A
    <3>1. i \in 1 .. Len(w) /\ i \in 1 .. n + 1 /\ i \in 0 .. n /\ i \in 0 .. n + 1
      BY <1>1, <1>5
    <3> HIDE DEF w, n
    <3>3. w[i] = u[i] /\ reading(w, 1)[i] = reading(u, 1)[i]
      BY <1>5, <1>6, <3>1
    <3>4. u[i] = s[i] /\ reading(u, 1)[i] = reading(s, 1)[i]
      BY <1>2, <1>4, <3>1
    <3>2. w[i] = s[i] /\ reading(w, 1)[i] = reading(s, 1)[i]
      BY <3>3, <3>4
    <3>5. i \in 1 .. Len(s)
      BY DEF n
    <3> QED  BY <3>1, <3>2, <3>5 DEF commasOf
  <2>2. n + 1 \in C
    <3>1. n + 1 \in 1 .. Len(w) /\ n + 1 \in 1 .. n + 1 /\ n + 1 \in 0 .. n + 1
      BY <1>1, <1>5
    <3>2. w[n + 1] = "," /\ reading(w, 1)[n + 1] = Outside
      BY <1>2, <1>4, <1>5, <1>6, <3>1
    <3> HIDE DEF w
    <3> QED  BY <3>1, <3>2 DEF commasOf, Outside
  <2>3. ASSUME NEW i \in 1 .. k PROVE n + 1 + i \notin C
    <3>1. i \in 0 .. k /\ i \notin commasOf(t)
      BY <1>1 DEF plain
    <3>2. w[n + 1 + i] = t[i] /\ reading(w, 1)[n + 1 + i] = reading(t, 1)[i]
      BY <1>5, <1>6, <3>1
    <3> HIDE DEF w
    <3> QED  BY <3>1, <3>2 DEF commasOf
  <2> QED  BY <2>1, <2>2, <2>3
<1>8. splitArgs(s) = cutAt(s, A) /\ splitArgs(w) = cutAt(w, C)
  BY <1>1, <1>5, CommasFound
<1> HIDE DEF A, C, w
<1>9. /\ w \in Seq(T) /\ s \in Seq(T) /\ t \in Seq(T) /\ \A i \in 1 .. n : s[i] \in T
      /\ \A i \in 1 .. k : t[i] \in T
  <2>1. w \in Seq(T)
    BY <1>5, TextIn
  <2> HIDE DEF T
  <2>2. \A i \in 1 .. n + 1 + k : w[i] \in T
    <3>1. \A i \in 1 .. Len(w) : w[i] \in T
      BY <2>1
    <3> QED  BY <1>5, <3>1
  <2>3. ASSUME NEW i \in 1 .. n PROVE s[i] \in T
    <3> HIDE DEF n
    <3>1. i \in 1 .. n + 1 /\ i \in 1 .. n + 1 + k
      BY <1>1
    <3> QED  BY <1>2, <1>5, <2>2, <3>1
  <2>4. ASSUME NEW i \in 1 .. k PROVE t[i] \in T
    <3>1. n + 1 + i \in 1 .. n + 1 + k
      BY <1>1
    <3> QED  BY <1>5, <2>2, <3>1
  <2> HIDE DEF T, n, k
  <2>5. s \in Seq(T)
    <3>1. s = [i \in 1 .. n |-> s[i]]
      BY <1>1 DEF isText, n
    <3>2. [i \in 1 .. n |-> s[i]] \in [1 .. n -> T]
      BY <2>3
    <3> QED  BY <1>1, <3>1, <3>2, FunctionSeq
  <2>6. t \in Seq(T)
    <3>1. t = [i \in 1 .. k |-> t[i]]
      BY <1>1 DEF isText, k
    <3>2. [i \in 1 .. k |-> t[i]] \in [1 .. k -> T]
      BY <2>4
    <3> QED  BY <1>1, <3>1, <3>2, FunctionSeq
  <2> QED  BY <2>1, <2>3, <2>4, <2>5, <2>6
<1> HIDE DEF T
<1>10. PICK p : /\ p \in [0 .. n -> nonempty(T)] /\ p[0] = <<<<>>>>
                /\ \A i \in 1 .. n : p[i] = cutOn(p[i - 1], s[i], i \in A)
                /\ cutAt(s, A) = p[n]
  <2>1. s \in Seq(T)
    BY <1>9
  <2>2. \E p : /\ p \in [0 .. n -> nonempty(T)]
               /\ p[0] = <<<<>>>>
               /\ \A i \in 1 .. n : p[i] = cutOn(p[i - 1], s[i], i \in commasOf(s))
               /\ cutAt(s, commasOf(s)) = p[n]
    BY <2>1, CutSteps
  <2> QED  BY <2>2 DEF A
<1>11. PICK r : /\ r \in [0 .. Len(w) -> nonempty(T)] /\ r[0] = <<<<>>>>
                /\ \A i \in 1 .. Len(w) : r[i] = cutOn(r[i - 1], w[i], i \in C)
                /\ cutAt(w, C) = r[Len(w)]
  <2>1. w \in Seq(T)
    BY <1>9
  <2>2. \E r : /\ r \in [0 .. Len(w) -> nonempty(T)]
               /\ r[0] = <<<<>>>>
               /\ \A i \in 1 .. Len(w) : r[i] = cutOn(r[i - 1], w[i], i \in commasOf(w))
               /\ cutAt(w, commasOf(w)) = r[Len(w)]
    BY <2>1, CutSteps
  <2> QED  BY <2>2 DEF C
<1>12. r[n] = p[n] /\ p[n] \in Seq(Seq(T))
  <2> DEFINE P == {i \in 0 .. n : r[i] = p[i]}
  <2>1. 0 \in P
    <3>1. 0 \in 0 .. n /\ r[0] = p[0]
      BY <1>1, <1>10, <1>11
    <3> QED  BY <3>1
  <2>2. ASSUME NEW i \in 0 .. n - 1, i \in P PROVE i + 1 \in P
    <3> DEFINE j == i + 1
    <3>1. j \in 1 .. n /\ j \in 1 .. Len(w) /\ j - 1 = i /\ j \in 0 .. n /\ j \in 1 .. n + 1
      BY <1>1, <1>5
    <3> HIDE DEF j
    <3>2. r[j] = cutOn(r[j - 1], w[j], j \in C) /\ p[j] = cutOn(p[j - 1], s[j], j \in A)
      BY <1>10, <1>11, <3>1
    <3>3. w[j] = s[j] /\ (j \in C <=> j \in A)
      BY <1>2, <1>5, <1>7, <3>1
    <3>4. r[j - 1] = p[j - 1]
      BY <2>2, <3>1
    <3>5. r[j] = p[j]
      BY <3>2, <3>3, <3>4 DEF cutOn
    <3> QED  BY <3>1, <3>5 DEF j
  <2>3. inductive(P, 0, n)
    BY <2>1, <2>2 DEF inductive
  <2>4. n \in 0 .. n
    BY <1>1
  <2>5. n \in P
    <3> HIDE DEF P, n
    <3>1. 0 .. n \subseteq P
      BY <1>1, <2>3, Upwards
    <3> QED  BY <2>4, <3>1
  <2>6. p[n] \in nonempty(T)
    BY <1>10, <2>4
  <2> QED  BY <2>5, <2>6 DEF nonempty
<1> DEFINE v == p[n]
           upto(j) == SubSeq(t, 1, j)
           Q == {j \in 0 .. k : r[n + 1 + j] = Append(v, upto(j))}
<1>13. 0 \in Q
  <2>1. n + 1 \in 1 .. Len(w) /\ n + 1 - 1 = n /\ n + 1 + 0 = n + 1 /\ 0 \in 0 .. k
    BY <1>1, <1>5
  <2>2. r[n + 1] = cutOn(r[n + 1 - 1], w[n + 1], n + 1 \in C)
    BY <1>11, <2>1
  <2>3. r[n + 1] = Append(v, <<>>)
    BY <1>7, <1>12, <2>1, <2>2 DEF cutOn
  <2>4. upto(0) = <<>>
    BY <1>9
  <2> HIDE DEF v, upto
  <2> QED  BY <2>1, <2>3, <2>4
<1>14. ASSUME NEW j \in 0 .. k - 1, j \in Q PROVE j + 1 \in Q
  <2> DEFINE l == j + 1
             i == n + 1 + l
  <2>1. /\ l \in 1 .. k /\ l \in 0 .. k /\ l - 1 = j /\ i \in 1 .. Len(w) /\ i - 1 = n + 1 + j
        /\ i = n + 1 + l
    BY <1>1, <1>5
  <2> HIDE DEF l, i
  <2>2. r[i] = cutOn(r[i - 1], w[i], i \in C)
    BY <1>11, <2>1
  <2>3. w[i] = t[l] /\ i \notin C /\ t[l] \in T
    BY <1>5, <1>7, <1>9, <2>1
  <2>4. r[i - 1] = Append(v, upto(j))
    BY <1>14, <2>1
  <2>5. upto(j) \in Seq(T) /\ upto(l) = upto(j) \o <<t[l]>>
    <3>1. upto(j) \in Seq(T)
      BY <1>9, <2>1
    <3>2. upto(l) = Append(upto(j), t[l])
      BY <1>9, <2>1
    <3> HIDE DEF upto
    <3> QED  BY <2>3, <3>1, <3>2
  <2> HIDE DEF upto, v
  <2>6. grown(Append(v, upto(j)), t[l]) = Append(v, upto(j) \o <<t[l]>>)
    <3>1. v \in Seq(Seq(T))
      BY <1>12 DEF v
    <3> QED  BY <2>3, <2>5, <3>1, GrownLast
  <2>7. r[i] = Append(v, upto(l))
    BY <2>2, <2>3, <2>4, <2>5, <2>6 DEF cutOn
  <2> QED  BY <2>1, <2>7 DEF l
<1>15. k \in Q
  <2>1. inductive(Q, 0, k)
    BY <1>13, <1>14 DEF inductive
  <2>2. k \in 0 .. k
    BY <1>1
  <2> HIDE DEF Q, k
  <2>3. 0 .. k \subseteq Q
    BY <1>1, <2>1, Upwards
  <2> QED  BY <2>2, <2>3
<1>16. upto(k) = t
  <2>1. t \in Seq(T)
    BY <1>9
  <2> HIDE DEF T
  <2> QED  BY <2>1
<1>17. r[Len(w)] = Append(v, t)
  <2> HIDE DEF v, upto
  <2> QED  BY <1>5, <1>15, <1>16
<1> QED  BY <1>8, <1>10, <1>11, <1>17 DEF w, u

\* What is joined grows piece by piece.
LEMMA JoinedSteps ==
    ASSUME NEW p, areTexts(p), Len(p) >= 1, NEW b, isText(b)
    PROVE  \E f : /\ f[1] = p[1] /\ joined(p, b) = f[Len(p)]
                  /\ \A i \in 1 .. Len(p) : isText(f[i])
                  /\ \A i \in 2 .. Len(p) : f[i] = f[i - 1] \o (b \o p[i])
<1> DEFINE T == allOf(p) \cup Range(b)
           n == Len(p)
           f == flat(parted(p, b))
<1>1. p \in Seq(Seq(T)) /\ b \in Seq(T) /\ p # <<>> /\ n \in Nat
  <2>1. allOf(p) \subseteq T /\ Range(b) \cup T = T
    OBVIOUS
  <2>2. b \in Seq(Range(b) \cup T)
    BY <2>1, TextIn
  <2> HIDE DEF T
  <2> QED  BY <2>1, <2>2, PiecesIn DEF areTexts
<1> HIDE DEF T
<1>2. /\ Len(parted(p, b)) = n /\ parted(p, b) \in Seq(Seq(T)) /\ parted(p, b) # <<>>
      /\ parted(p, b)[1] = p[1]
      /\ \A i \in 2 .. n : parted(p, b)[i] = b \o p[i]
      /\ joined(p, b) = f[n]
  BY <1>1, Parted
<1>3. /\ f[1] = parted(p, b)[1] /\ \A i \in 2 .. n : f[i] = f[i - 1] \o parted(p, b)[i]
      /\ \A i \in 1 .. n : f[i] \in Seq(T)
  BY <1>2, FlatSteps
<1> HIDE DEF f
<1>4. \A i \in 1 .. n : isText(f[i])
  BY <1>3, TextOf
<1>5. \A i \in 2 .. n : f[i] = f[i - 1] \o (b \o p[i])
  BY <1>2, <1>3
<1>6. f[1] = p[1] /\ joined(p, b) = f[n]
  BY <1>2, <1>3
<1> QED  BY <1>4, <1>5, <1>6

\* What is joined by commas is split into the pieces again, if no comma in them separates.
LEMMA SplitJoined ==
    ASSUME NEW p, areTexts(p), Len(p) >= 1, \A k \in 1 .. Len(p) : plain(p[k])
    PROVE  splitArgs(joined(p, <<",">>)) = p /\ formed(joined(p, <<",">>))
<1> DEFINE comma == ","
           b == <<comma>>
           n == Len(p)
<1>1. n \in Nat /\ n >= 1 /\ isText(b) /\ formed(b)
  <2>1. comma \notin {Quote, "(", ")"}
    BY DEF Quote
  <2> HIDE DEF comma
  <2> QED  BY <2>1, LeadsToken, Tuples DEF areTexts, formed
<1> HIDE DEF b
<1>2. PICK f : /\ f[1] = p[1] /\ joined(p, b) = f[n]
               /\ \A i \in 1 .. n : isText(f[i])
               /\ \A i \in 2 .. n : f[i] = f[i - 1] \o (b \o p[i])
  BY <1>1, JoinedSteps
<1> DEFINE P == {i \in 1 .. n : splitArgs(f[i]) = SubSeq(p, 1, i) /\ formed(f[i])}
<1>3. \A i \in 1 .. n : isText(p[i]) /\ plain(p[i]) /\ formed(p[i])
  BY DEF areTexts, plain
<1> DEFINE T == allOf(p)
<1>4. p \in Seq(Seq(T))
  BY PiecesIn
<1> HIDE DEF T
<1>5. 1 \in P
  <2>1. 1 \in 1 .. n
    BY <1>1
  <2>2. splitArgs(f[1]) = <<p[1]>> /\ formed(f[1])
    BY <1>2, <1>3, <2>1, SplitOne
  <2>3. SubSeq(p, 1, 1) = <<p[1]>>
    <3> DEFINE W == Seq(T)
    <3>1. p \in Seq(W) /\ Len(p) >= 1
      BY <1>4
    <3> HIDE DEF W
    <3> DEFINE w == SubSeq(p, 1, 1)
    <3>2. w \in Seq(W) /\ Len(w) = 1 /\ w[1] = p[1]
      BY <3>1
    <3> HIDE DEF w
    <3>3. w = <<w[1]>>
      BY <3>2
    <3> QED  BY <3>2, <3>3 DEF w
  <2> QED  BY <2>1, <2>2, <2>3
<1>6. ASSUME NEW i \in 1 .. n - 1, i \in P PROVE i + 1 \in P
  <2> DEFINE j == i + 1
  <2>1. j \in 2 .. n /\ j \in 1 .. n /\ j - 1 = i /\ i \in 1 .. n
    BY <1>1
  <2> HIDE DEF j, b, n
  <2>2. f[j] = f[i] \o (b \o p[j])
    BY <1>2, <2>1
  <2>3. f[j] = (f[i] \o b) \o p[j]
    <3>1. isText(f[i]) /\ isText(b) /\ isText(p[j])
      BY <1>1, <1>2, <1>3, <2>1
    <3>2. (f[i] \o b) \o p[j] = f[i] \o (b \o p[j])
      <4> DEFINE x == f[i]
                 z == p[j]
      <4>1. isText(x) /\ isText(b) /\ isText(z)
        BY <3>1
      <4> HIDE DEF x, z
      <4>2. (x \o b) \o z = x \o (b \o z)
        BY <4>1, TextsAssociative
      <4> QED  BY <4>2 DEF x, z
    <3> QED  BY <2>2, <3>2
  <2>4. formed(f[i]) /\ splitArgs(f[i]) = SubSeq(p, 1, i)
    BY <1>6
  <2>5. splitArgs(f[j]) = Append(SubSeq(p, 1, i), p[j])
    <3>1. plain(p[j])
      BY <1>3, <2>1
    <3>2. splitArgs((f[i] \o <<",">>) \o p[j]) = Append(splitArgs(f[i]), p[j])
      BY <2>4, <3>1, SplitMore
    <3> QED  BY <2>3, <2>4, <3>2 DEF b
  <2>6. Append(SubSeq(p, 1, i), p[j]) = SubSeq(p, 1, j)
    BY <1>1, <1>4, <2>1 DEF n
  <2>7. formed(f[j])
    <3>1. leads(f[i], 0, 0) /\ leads(b, 0, 0) /\ leads(p[j], 0, 0)
      BY <1>1, <1>3, <2>1, <2>4 DEF formed
    <3>2. leads(f[i] \o b, 0, 0)
      BY <3>1, LeadsOn
    <3>3. leads((f[i] \o b) \o p[j], 0, 0)
      BY <3>1, <3>2, LeadsOn
    <3> QED  BY <2>3, <3>3 DEF formed
  <2>8. j \in P
    BY <2>1, <2>5, <2>6, <2>7
  <2> QED  BY <2>8 DEF j
<1>7. n \in P
  <2>1. inductive(P, 1, n)
    BY <1>5, <1>6 DEF inductive
  <2>2. n \in 1 .. n
    BY <1>1
  <2> HIDE DEF P
  <2>3. 1 .. n \subseteq P
    BY <1>1, <2>1, Upwards
  <2> QED  BY <2>2, <2>3
<1>8. SubSeq(p, 1, n) = p
  BY <1>4
<1> QED  BY <1>2, <1>7, <1>8 DEF b

-----------------------------------------------------------------------------
(* Literals.                                                                 *)

\* A literal is open at the end of a text, outside parentheses, and no comma separates.
midText(s) ==
    /\ isText(s) /\ after(s) = [inside |-> TRUE, open |-> 0]
    /\ \A i \in 1 .. Len(s) : reading(s, 1)[i].open = 0 /\ (s[i] = "," => reading(s, 1)[i].inside)

\* It stays open until there is one more quote.
LEMMA QuotedOn ==
    ASSUME NEW s, midText(s)
    PROVE  /\ \A c : c # Quote => midText(s \o <<c>>)
           /\ plain(s \o <<Quote>>)
           /\ midText(s \o <<Quote, Quote>>)
<1> DEFINE Within == [inside |-> TRUE, open |-> 0]
           n == Len(s)
<1>1. isText(s) /\ n \in Nat /\ after(s) = Within
  BY TextIn DEF midText
<1>2. \A i \in 1 .. n : reading(s, 1)[i].open = 0 /\ (s[i] = "," => reading(s, 1)[i].inside)
  BY DEF midText
<1> HIDE DEF n
<1>3. ASSUME NEW c PROVE LET t == s \o <<c>>
                         IN /\ isText(t) /\ Len(t) = n + 1 /\ after(t) = readOn(Within, c)
                            /\ t[n + 1] = c
                            /\ \A i \in 1 .. n : reading(t, 1)[i] = reading(s, 1)[i] /\ t[i] = s[i]
                            /\ reading(t, 1)[n + 1] = readOn(Within, c)
  <2>1. /\ isText(s \o <<c>>) /\ Len(s \o <<c>>) = Len(s) + 1
        /\ \A i \in 1 .. Len(s) : (s \o <<c>>)[i] = s[i]
        /\ (s \o <<c>>)[Len(s) + 1] = c
    BY <1>1, Appended
  <2>2. /\ \A i \in 0 .. Len(s) : reading(s \o <<c>>, 1)[i] = reading(s, 1)[i]
        /\ reading(s \o <<c>>, 1)[Len(s) + 1] = readOn(after(s), c)
        /\ after(s \o <<c>>) = readOn(after(s), c)
    BY <1>1, ReadAppend
  <2>3. \A i \in 1 .. n : i \in 0 .. n
    BY <1>1
  <2> QED  BY <1>1, <2>1, <2>2, <2>3 DEF n
<1>4. ASSUME NEW c, c # Quote PROVE midText(s \o <<c>>)
  <2> DEFINE t == s \o <<c>>
  <2>1. /\ isText(t) /\ Len(t) = n + 1 /\ after(t) = readOn(Within, c)
        /\ t[n + 1] = c
        /\ \A i \in 1 .. n : reading(t, 1)[i] = reading(s, 1)[i] /\ t[i] = s[i]
        /\ reading(t, 1)[n + 1] = readOn(Within, c)
    BY <1>3
  <2> HIDE DEF t
  <2>2. readOn(Within, c) = Within
    BY <1>4 DEF readOn
  <2>3. \A i \in 1 .. n + 1 : i = n + 1 \/ i \in 1 .. n
    BY <1>1
  <2>4. \A i \in 1 .. Len(t) : reading(t, 1)[i].open = 0 /\ (t[i] = "," => reading(t, 1)[i].inside)
    <3> SUFFICES ASSUME NEW i \in 1 .. n + 1
                 PROVE  reading(t, 1)[i].open = 0 /\ (t[i] = "," => reading(t, 1)[i].inside)
      BY <2>1
    <3>1. CASE i = n + 1
      <4>1. reading(t, 1)[n + 1] = Within /\ Within.open = 0 /\ Within.inside
        BY <2>1, <2>2
      <4> HIDE DEF Within
      <4> QED  BY <3>1, <4>1
    <3>2. CASE i \in 1 .. n
      BY <1>2, <2>1, <3>2
    <3> QED  BY <2>3, <3>1, <3>2
  <2>5. midText(t)
    BY <2>1, <2>2, <2>4 DEF midText
  <2> QED  BY <2>5 DEF t
<1> DEFINE u == s \o <<Quote>>
<1>5. /\ isText(u) /\ Len(u) = n + 1 /\ after(u) = Outside
      /\ u[n + 1] = Quote
      /\ \A i \in 1 .. n : reading(u, 1)[i] = reading(s, 1)[i] /\ u[i] = s[i]
      /\ reading(u, 1)[n + 1] = Outside
  <2>1. readOn(Within, Quote) = Outside
    BY DEF readOn, Outside
  <2> QED  BY <1>3, <2>1
<1> HIDE DEF u
<1>6. ASSUME NEW i \in 1 .. n + 1
      PROVE  reading(u, 1)[i].open = 0 /\ (u[i] = "," => reading(u, 1)[i].inside)
  <2>1. CASE i = n + 1
    <3>1. reading(u, 1)[n + 1] = Outside /\ u[n + 1] = Quote
      BY <1>5
    <3>2. Outside.open = 0 /\ Quote # ","
      BY DEF Outside, Quote
    <3> QED  BY <2>1, <3>1, <3>2
  <2>2. CASE i \in 1 .. n
    BY <1>2, <1>5, <2>2
  <2>3. i = n + 1 \/ i \in 1 .. n
    BY <1>1
  <2> QED  BY <2>1, <2>2, <2>3
<1>7. plain(u)
  <2>1. \A i \in 1 .. Len(u) : reading(u, 1)[i].open + 0 >= 0
    <3>1. Len(u) = n + 1
      BY <1>5
    <3>2. ASSUME NEW i \in 1 .. n + 1 PROVE reading(u, 1)[i].open + 0 >= 0
      <4>1. reading(u, 1)[i].open = 0
        BY <1>6
      <4> QED  BY <4>1
    <3> QED  BY <3>1, <3>2
  <2>2. lifted(Outside, 0 - 0) = Outside
    BY DEF lifted, Outside
  <2>3. formed(u)
    BY <1>5, <2>1, <2>2 DEF formed, leads
  <2>4. commasOf(u) = {}
    <3> SUFFICES ASSUME NEW i \in commasOf(u) PROVE FALSE
      OBVIOUS
    <3>1. i \in 1 .. n + 1 /\ u[i] = ","
      BY <1>5 DEF commasOf
    <3>2. reading(u, 1)[i].inside
      BY <1>6, <3>1
    <3>3. reading(u, 1)[i] = [inside |-> FALSE, open |-> 0]
      BY DEF commasOf
    <3>4. ~[inside |-> FALSE, open |-> 0].inside
      OBVIOUS
    <3> QED  BY <3>2, <3>3, <3>4
  <2> QED  BY <2>3, <2>4 DEF plain
<1> DEFINE c == Quote
           v == u \o <<c>>
<1>8. /\ isText(v) /\ Len(v) = n + 2 /\ after(v) = Within
      /\ v[n + 2] = Quote
      /\ \A i \in 1 .. n + 1 : reading(v, 1)[i] = reading(u, 1)[i] /\ v[i] = u[i]
      /\ reading(v, 1)[n + 2] = Within
  <2> HIDE DEF c
  <2>1. /\ isText(v) /\ Len(v) = Len(u) + 1
        /\ \A i \in 1 .. Len(u) : v[i] = u[i]
        /\ v[Len(u) + 1] = c
    <3>1. isText(u)
      BY <1>5
    <3> QED  BY <3>1, Appended
  <2>2. /\ \A i \in 0 .. Len(u) : reading(v, 1)[i] = reading(u, 1)[i]
        /\ reading(v, 1)[Len(u) + 1] = readOn(after(u), c)
        /\ after(v) = readOn(after(u), c)
    BY <1>5, ReadAppend
  <2>3. \A i \in 1 .. n + 1 : i \in 0 .. n + 1
    BY <1>1
  <2>4. readOn(after(u), c) = Within
    <3>1. after(u) = Outside
      BY <1>5
    <3>2. readOn(Outside, Quote) = Within
      BY DEF readOn, Outside
    <3> QED  BY <3>1, <3>2 DEF c
  <2>5. Len(u) + 1 = n + 2
    BY <1>1, <1>5
  <2> HIDE DEF v
  <2> QED  BY <1>5, <2>1, <2>2, <2>3, <2>4, <2>5 DEF c
<1> HIDE DEF v
<1>9. midText(v)
  <2>1. ASSUME NEW i \in 1 .. n + 2
        PROVE  reading(v, 1)[i].open = 0 /\ (v[i] = "," => reading(v, 1)[i].inside)
    <3>1. CASE i = n + 2
      <4>1. reading(v, 1)[n + 2] = Within /\ Within.open = 0 /\ Within.inside
        BY <1>8
      <4> HIDE DEF Within
      <4> QED  BY <3>1, <4>1
    <3>2. CASE i \in 1 .. n + 1
      BY <1>6, <1>8, <3>2
    <3>3. i = n + 2 \/ i \in 1 .. n + 1
      BY <1>1
    <3> QED  BY <3>1, <3>2, <3>3
  <2> QED  BY <1>8, <2>1 DEF midText
<1>10. s \o <<Quote, Quote>> = v
  <2>1. isText(<<Quote>>) /\ <<Quote>> \o <<Quote>> = <<Quote, Quote>>
    BY Tuples, TuplesOn
  <2>2. (s \o <<Quote>>) \o <<Quote>> = s \o (<<Quote>> \o <<Quote>>)
    BY <1>1, <2>1, TextsAssociative
  <2> QED  BY <2>1, <2>2 DEF v, u
<1> QED  BY <1>4, <1>7, <1>9, <1>10 DEF u

\* f is a text after each of the n pieces p.
growing(f, p, n) ==
    /\ n \in Nat /\ f[0] = <<>> /\ \A i \in 0 .. n : isText(f[i])
    /\ \A i \in 1 .. n : isText(p[i]) /\ f[i] = f[i - 1] \o p[i]

\* Every piece stands in f[n] where it was put.
standing(f, p, n) ==
    /\ \A k \in 0 .. n : Len(f[k]) \in Nat /\ Len(f[k]) <= Len(f[n])
    /\ \A k \in 1 .. n : /\ Len(f[k]) = Len(f[k - 1]) + Len(p[k])
                         /\ \A i \in 1 .. Len(p[k]) : f[n][Len(f[k - 1]) + i] = p[k][i]

\* In a text that grows piece by piece every piece stands where it was put.
LEMMA Grows ==
    ASSUME NEW n, NEW f, NEW p, growing(f, p, n)
    PROVE  standing(f, p, n)
<1> DEFINE N == Len(f[n])
<1>0. /\ n \in Nat /\ f[0] = <<>> /\ \A i \in 0 .. n : isText(f[i])
      /\ \A i \in 1 .. n : isText(p[i]) /\ f[i] = f[i - 1] \o p[i]
  BY DEF growing
<1>1. \A k \in 0 .. n : Len(f[k]) \in Nat
  BY <1>0, TextIn
<1>2. ASSUME NEW k \in 1 .. n
      PROVE  /\ Len(f[k - 1]) \in Nat /\ Len(p[k]) \in Nat /\ Len(f[k]) = Len(f[k - 1]) + Len(p[k])
             /\ \A i \in 1 .. Len(f[k - 1]) : f[k][i] = f[k - 1][i]
             /\ \A i \in 1 .. Len(p[k]) : f[k][Len(f[k - 1]) + i] = p[k][i]
  <2> DEFINE x == f[k - 1]
             y == p[k]
  <2>1. isText(x) /\ isText(y) /\ f[k] = x \o y
    <3>1. k - 1 \in 0 .. n
      BY <1>0
    <3> QED  BY <1>0, <3>1
  <2> HIDE DEF x, y
  <2>2. /\ Len(x \o y) = Len(x) + Len(y)
        /\ \A i \in 1 .. Len(x) : (x \o y)[i] = x[i]
        /\ \A i \in 1 .. Len(y) : (x \o y)[Len(x) + i] = y[i]
    BY <2>1, TextConcat
  <2>3. Len(x) \in Nat /\ Len(y) \in Nat
    BY <2>1, TextIn
  <2> QED  BY <2>1, <2>2, <2>3 DEF x, y
<1> DEFINE begins(k) == Len(f[k]) <= N /\ \A i \in 1 .. Len(f[k]) : f[n][i] = f[k][i]
           P == {j \in 0 .. n : begins(n - j)}
<1>3. 0 \in P
  <2>1. 0 \in 0 .. n /\ n - 0 = n /\ n \in 0 .. n
    BY <1>0
  <2>2. begins(n)
    BY <1>1, <2>1
  <2> HIDE DEF begins
  <2> QED  BY <2>1, <2>2
<1>4. ASSUME NEW j \in 0 .. n - 1, j \in P PROVE j + 1 \in P
  <2> DEFINE k == n - j
  <2>1. k \in 1 .. n /\ k \in 0 .. n /\ k - 1 = n - (j + 1) /\ j + 1 \in 0 .. n /\ k - 1 \in 0 .. n /\ n \in 0 .. n
    BY <1>0
  <2>2. begins(k)
    BY <1>4
  <2> HIDE DEF k
  <2>3. /\ Len(p[k]) \in Nat /\ Len(f[k]) = Len(f[k - 1]) + Len(p[k])
        /\ \A i \in 1 .. Len(f[k - 1]) : f[k][i] = f[k - 1][i]
    BY <1>2, <2>1
  <2>4. Len(f[k - 1]) \in Nat /\ Len(f[k]) \in Nat /\ N \in Nat
    BY <1>1, <2>1
  <2> HIDE DEF N
  <2>5. Len(f[k - 1]) <= Len(f[k])
    <3> DEFINE a == Len(f[k - 1])
               b == Len(p[k])
               c == Len(f[k])
    <3>1. a \in Nat /\ b \in Nat /\ c = a + b
      BY <2>3, <2>4
    <3> HIDE DEF a, b, c
    <3>2. a <= c
      BY <3>1
    <3> QED  BY <3>2 DEF a, c
  <2>6. Len(f[k - 1]) <= N
    BY <2>2, <2>4, <2>5
  <2>7. ASSUME NEW i \in 1 .. Len(f[k - 1]) PROVE f[n][i] = f[k - 1][i]
    <3>1. i \in 1 .. Len(f[k])
      BY <2>4, <2>5
    <3> QED  BY <2>2, <2>3, <3>1
  <2>8. begins(k - 1)
    BY <2>6, <2>7
  <2> HIDE DEF begins
  <2> QED  BY <2>1, <2>8
<1>5. ASSUME NEW k \in 0 .. n PROVE begins(k)
  <2>1. inductive(P, 0, n)
    BY <1>3, <1>4 DEF inductive
  <2>2. n - k \in 0 .. n /\ n - (n - k) = k
    BY <1>0
  <2>3. n - k \in P
    <3>0. n \in Int /\ 0 \in Int
      BY <1>0
    <3> HIDE DEF P, begins, N
    <3>1. 0 .. n \subseteq P
      BY <2>1, <3>0, Upwards
    <3> QED  BY <2>2, <3>1
  <2>4. begins(n - (n - k))
    BY <2>3
  <2> HIDE DEF begins
  <2> QED  BY <2>2, <2>4
<1>6. ASSUME NEW k \in 1 .. n, NEW i \in 1 .. Len(p[k]) PROVE f[n][Len(f[k - 1]) + i] = p[k][i]
  <2>1. k \in 0 .. n
    BY <1>0
  <2>2. /\ Len(f[k - 1]) \in Nat /\ Len(p[k]) \in Nat /\ Len(f[k]) = Len(f[k - 1]) + Len(p[k])
        /\ f[k][Len(f[k - 1]) + i] = p[k][i]
    BY <1>2
  <2>3. Len(f[k - 1]) + i \in 1 .. Len(f[k])
    <3> DEFINE a == Len(f[k - 1])
               b == Len(p[k])
               c == Len(f[k])
    <3>1. a \in Nat /\ b \in Nat /\ c = a + b /\ i \in 1 .. b
      BY <1>6, <2>2
    <3> HIDE DEF a, b, c
    <3>2. a + i \in 1 .. c
      BY <3>1
    <3> QED  BY <3>2 DEF a, c
  <2>4. \A l \in 1 .. Len(f[k]) : f[n][l] = f[k][l]
    BY <1>5, <2>1
  <2> QED  BY <2>2, <2>3, <2>4
<1> QED  BY <1>1, <1>2, <1>5, <1>6 DEF standing

\* How SQL spells a token in a literal.
spelled(c) == IF c = Quote THEN <<Quote, Quote>> ELSE <<c>>

\* The spelling of a text grows token by token.
LEMMA DoubledSteps ==
    ASSUME NEW s, isText(s)
    PROVE  \E f : /\ f[0] = <<>> /\ doubled(s) = f[Len(s)]
                  /\ \A i \in 0 .. Len(s) : isText(f[i])
                  /\ \A i \in 1 .. Len(s) : f[i] = f[i - 1] \o spelled(s[i])
<1> DEFINE n == Len(s)
           p == [k \in DOMAIN s |-> IF s[k] = Quote THEN <<Quote, Quote>> ELSE <<s[k]>>]
           b == <<>>
<1>1. n \in Nat /\ DOMAIN s = 1 .. n /\ isText(b)
  BY TextIn, LenProperties, Tuples DEF isText
<1>2. /\ Len(p) = n /\ p = [k \in 1 .. Len(p) |-> p[k]] /\ doubled(s) = joined(p, b)
      /\ \A k \in 1 .. n : p[k] = spelled(s[k])
  BY <1>1 DEF doubled, spelled
<1>3. \A c : isText(spelled(c))
  BY Tuples DEF spelled
<1>4. areTexts(p)
  BY <1>1, <1>2, <1>3 DEF areTexts
<1> HIDE DEF p, n
<1>5. CASE n = 0
  <2> DEFINE f == [i \in {0} |-> <<>>]
  <2>1. doubled(s) = <<>>
    <3>1. p = <<>>
      <4>1. Len(p) = 0 /\ 1 .. 0 = {}
        BY <1>1, <1>2, <1>5
      <4>2. p = [k \in {} |-> p[k]]
        BY <1>2, <4>1
      <4> QED  BY <4>2
    <3>2. parted(<<>>, b) = <<>> /\ FlattenSeq(<<>>) = <<>>
      BY DEF parted, FlattenSeq
    <3>3. joined(p, b) = FlattenSeq(parted(p, b))
      BY DEF joined, parted
    <3> QED  BY <1>2, <3>1, <3>2, <3>3
  <2>2. /\ f[0] = <<>> /\ doubled(s) = f[Len(s)] /\ \A i \in 0 .. Len(s) : isText(f[i])
        /\ \A i \in 1 .. Len(s) : f[i] = f[i - 1] \o spelled(s[i])
    BY <1>1, <1>5, <2>1 DEF n
  <2> QED  BY <2>2
<1>6. CASE n # 0
  <2>1. Len(p) >= 1
    BY <1>1, <1>2, <1>6
  <2>2. PICK g : /\ g[1] = p[1] /\ joined(p, b) = g[Len(p)]
                 /\ \A i \in 1 .. Len(p) : isText(g[i])
                 /\ \A i \in 2 .. Len(p) : g[i] = g[i - 1] \o (b \o p[i])
    BY <1>1, <1>4, <2>1, JoinedSteps
  <2> DEFINE f == [i \in 0 .. n |-> IF i = 0 THEN <<>> ELSE g[i]]
  <2>3. f[0] = <<>> /\ f[n] = g[n] /\ \A i \in 1 .. n : f[i] = g[i]
    BY <1>1, <1>6
  <2>4. \A i \in 0 .. n : isText(f[i])
    BY <1>1, <1>2, <2>2
  <2> HIDE DEF f
  <2>5. ASSUME NEW i \in 1 .. n PROVE f[i] = f[i - 1] \o spelled(s[i])
    <3>0. isText(spelled(s[i])) /\ p[i] = spelled(s[i]) /\ f[i] = g[i]
      BY <1>2, <1>3, <2>3
    <3>9. <<>> \o spelled(s[i]) = spelled(s[i])
      <4> DEFINE x == spelled(s[i])
      <4>1. x \in Seq(Range(x))
        BY <3>0 DEF isText
      <4> HIDE DEF x
      <4>2. <<>> \o x = x
        BY <4>1
      <4> QED  BY <4>2 DEF x
    <3>1. CASE i = 1
      <4>1. f[i] = spelled(s[i]) /\ f[i - 1] = <<>>
        BY <1>2, <2>2, <2>3, <3>0, <3>1
      <4> QED  BY <3>9, <4>1
    <3>2. CASE i # 1
      <4>1. i \in 2 .. n /\ i - 1 \in 1 .. n
        BY <1>1, <3>2
      <4>2. g[i] = g[i - 1] \o (b \o p[i])
        BY <1>2, <2>2, <4>1
      <4>3. f[i - 1] = g[i - 1]
        BY <2>3, <4>1
      <4> QED  BY <3>0, <3>9, <4>2, <4>3
    <3> QED  BY <3>1, <3>2
  <2>6. doubled(s) = f[n]
    BY <1>2, <2>2, <2>3
  <2>7. f[0] = <<>>
    BY <2>3
  <2> QED  BY <2>4, <2>5, <2>6, <2>7 DEF n
<1> QED  BY <1>5, <1>6

\* The literal of a text is one argument, and its text stands between its quotes.
LEMMA LiteralPlain ==
    ASSUME NEW s, isText(s)
    PROVE  LET l == literalOf(doubled(s))
           IN plain(l) /\ isText(l) /\ isLiteral(l) /\ inside(l) = doubled(s) /\ l[1] = Quote
<1> DEFINE n == Len(s)
           a == <<Quote>>
           d == doubled(s)
           l == (a \o d) \o a
<1>1. n \in Nat /\ isText(a) /\ Len(a) = 1 /\ a[1] = Quote /\ isText(d) /\ Len(d) \in Nat
  BY TextIn, Tuples, DoubledText
<1>2. PICK f : /\ f[0] = <<>> /\ d = f[n]
               /\ \A i \in 0 .. n : isText(f[i])
               /\ \A i \in 1 .. n : f[i] = f[i - 1] \o spelled(s[i])
  BY DoubledSteps
<1> DEFINE P == {i \in 0 .. n : midText(a \o f[i])}
<1>3. 0 \in P
  <2>1. a \o <<>> = a
    BY <1>1
  <2>2. midText(a)
    <3>1. isText(<<>>) /\ <<>> \o a = a /\ Len(<<>>) = 0 /\ after(<<>>) = Outside
      BY Tuples, LeadsEmpty
    <3>2. reading(a, 1)[0 + 1] = readOn(Outside, Quote) /\ after(a) = readOn(Outside, Quote)
      BY <3>1, ReadAppend
    <3>3. readOn(Outside, Quote) = [inside |-> TRUE, open |-> 0]
      BY DEF readOn, Outside
    <3>4. [inside |-> TRUE, open |-> 0].open = 0 /\ [inside |-> TRUE, open |-> 0].inside
      OBVIOUS
    <3>5. reading(a, 1)[1].open = 0 /\ reading(a, 1)[1].inside
      BY <3>2, <3>3, <3>4
    <3>6. after(a) = [inside |-> TRUE, open |-> 0]
      BY <3>2, <3>3
    <3> HIDE DEF a
    <3>7. isText(a) /\ 1 .. Len(a) = {1}
      BY <1>1
    <3>8. \A i \in 1 .. Len(a) : reading(a, 1)[i].open = 0 /\ (a[i] = "," => reading(a, 1)[i].inside)
      BY <3>5, <3>7
    <3> QED  BY <3>6, <3>7, <3>8 DEF midText
  <2> HIDE DEF a
  <2>3. f[0] = <<>> /\ 0 \in 0 .. n
    BY <1>1, <1>2
  <2>4. midText(a \o f[0])
    BY <2>1, <2>2, <2>3
  <2> QED  BY <2>3, <2>4
<1>4. ASSUME NEW i \in 0 .. n - 1, i \in P PROVE i + 1 \in P
  <2> DEFINE j == i + 1
  <2>1. j \in 1 .. n /\ j \in 0 .. n /\ j - 1 = i /\ i \in 0 .. n
    BY <1>1
  <2> HIDE DEF j, a, n
  <2>2. f[j] = f[i] \o spelled(s[j])
    BY <1>2, <2>1
  <2>3. midText((a \o f[i]) \o spelled(s[j]))
    <3>1. midText(a \o f[i])
      BY <1>4
    <3>2. /\ \A c : c # Quote => midText((a \o f[i]) \o <<c>>)
          /\ midText((a \o f[i]) \o <<Quote, Quote>>)
      BY <3>1, QuotedOn
    <3> QED  BY <3>2 DEF spelled
  <2>4. (a \o f[i]) \o spelled(s[j]) = a \o f[j]
    <3> DEFINE x == f[i]
               y == spelled(s[j])
    <3>1. isText(a) /\ isText(x) /\ isText(y)
      BY <1>1, <1>2, <2>1, Tuples DEF spelled
    <3>2. f[j] = x \o y
      BY <2>2
    <3> HIDE DEF x, y
    <3>3. (a \o x) \o y = a \o (x \o y)
      BY <3>1, TextsAssociative
    <3>4. (a \o x) \o y = a \o f[j]
      BY <3>2, <3>3
    <3> QED  BY <3>4 DEF x, y
  <2>5. j \in P
    BY <2>1, <2>3, <2>4
  <2> QED  BY <2>5 DEF j
<1>5. midText(a \o d)
  <2>1. inductive(P, 0, n)
    BY <1>3, <1>4 DEF inductive
  <2>2. n \in 0 .. n
    BY <1>1
  <2>3. n \in P
    <3> HIDE DEF P, n
    <3>1. 0 .. n \subseteq P
      BY <1>1, <2>1, Upwards
    <3> QED  BY <2>2, <3>1
  <2> QED  BY <1>2, <2>3
<1>6. plain(l)
  <2>1. plain((a \o d) \o <<Quote>>)
    <3> HIDE DEF a, d
    <3> QED  BY <1>5, QuotedOn
  <2> QED  BY <2>1
<1> HIDE DEF a, d
<1>7. isText(a \o d) /\ Len(a \o d) = 1 + Len(d) /\ (a \o d)[1] = Quote /\ \A i \in 1 .. Len(d) : (a \o d)[1 + i] = d[i]
  <2>1. /\ isText(a \o d) /\ Len(a \o d) = Len(a) + Len(d)
        /\ \A i \in 1 .. Len(a) : (a \o d)[i] = a[i]
        /\ \A i \in 1 .. Len(d) : (a \o d)[Len(a) + i] = d[i]
    <3>1. isText(a) /\ isText(d)
      BY <1>1
    <3> QED  BY <3>1, TextConcat
  <2>2. 1 \in 1 .. Len(a)
    BY <1>1
  <2> QED  BY <1>1, <2>1, <2>2
<1>8. /\ isText(l) /\ Len(l) = Len(d) + 2 /\ l[1] = Quote /\ l[Len(d) + 2] = Quote
      /\ \A i \in 1 .. Len(d) : l[1 + i] = d[i]
  <2> DEFINE h == a \o d
             c == Quote
  <2>1. /\ isText(h \o <<c>>) /\ Len(h \o <<c>>) = Len(h) + 1
        /\ \A i \in 1 .. Len(h) : (h \o <<c>>)[i] = h[i]
        /\ (h \o <<c>>)[Len(h) + 1] = c
    <3> HIDE DEF h, c
    <3>1. isText(h)
      BY <1>7 DEF h
    <3> QED  BY <3>1, Appended
  <2>2. l = h \o <<c>>
    BY DEF a
  <2>3. Len(h) = 1 + Len(d) /\ h[1] = Quote /\ \A i \in 1 .. Len(d) : h[1 + i] = d[i]
    BY <1>7
  <2> HIDE DEF h, l, c
  <2>4. Len(h) + 1 = Len(d) + 2 /\ 1 \in 1 .. Len(h) /\ \A i \in 1 .. Len(d) : 1 + i \in 1 .. Len(h)
    BY <1>1, <2>3
  <2> QED  BY <2>1, <2>2, <2>3, <2>4 DEF c
<1> HIDE DEF l
<1>9. isLiteral(l)
  BY <1>1, <1>8 DEF isLiteral
<1>10. inside(l) = d
  <2> DEFINE e == SubSeq(l, 2, Len(d) + 1)
  <2>1. Len(l) - 1 = Len(d) + 1 /\ 2 \in Int /\ Len(d) + 1 \in Int /\ Len(d) + 1 <= Len(l) /\ Len(d) + 1 - 2 + 1 = Len(d)
    BY <1>1, <1>8
  <2>2. /\ isText(e) /\ Len(e) = IF 2 <= Len(d) + 1 THEN Len(d) + 1 - 2 + 1 ELSE 0
        /\ \A i \in 1 .. Len(d) + 1 - 2 + 1 : e[i] = l[2 + i - 1]
    BY <1>8, <2>1, TextPart
  <2>3. inside(l) = e
    BY <2>1 DEF inside
  <2> HIDE DEF e
  <2>4. Len(e) = Len(d)
    BY <1>1, <2>2
  <2>5. \A i \in 1 .. Len(d) : e[i] = d[i]
    <3> SUFFICES ASSUME NEW i \in 1 .. Len(d) PROVE e[i] = d[i]
      OBVIOUS
    <3>1. e[i] = l[2 + i - 1] /\ 2 + i - 1 = 1 + i
      BY <1>1, <2>1, <2>2
    <3> QED  BY <1>8, <3>1
  <2>6. e = d
    BY <1>1, <2>2, <2>4, <2>5, SameText
  <2> QED  BY <2>3, <2>6
<1>11. literalOf(doubled(s)) = l
  BY DEF literalOf, l, a, d
<1> QED  BY <1>6, <1>8, <1>9, <1>10, <1>11 DEF d

\* The text of a literal reads as it was written.
LEMMA DoubledBack ==
    ASSUME NEW s, isText(s)
    PROVE  unescaped(doubled(s)) = s
<1> DEFINE n == Len(s)
           d == doubled(s)
           N == Len(d)
           m == [i \in 1 .. N |->
                   IF i < N /\ d[i] = Quote /\ d[i + 1] = Quote THEN taking(2, <<Quote>>) ELSE nothing]
<1>1. n \in Nat /\ isText(d) /\ N \in Nat
  BY TextIn, DoubledText
<1>2. unescaped(d) = replaced(d, m)
  BY DEF unescaped
<1>3. \A i \in 1 .. N : m[i] = IF i < N /\ d[i] = Quote /\ d[i + 1] = Quote THEN taking(2, <<Quote>>) ELSE nothing
  OBVIOUS
<1> HIDE DEF m
<1>4. taken(d, m)
  <2> SUFFICES ASSUME NEW i \in 1 .. N PROVE within(d, i, m[i])
    BY DEF taken
  <2>1. /\ taking(2, <<Quote>>).length = 2 /\ taking(2, <<Quote>>).by = <<Quote>>
        /\ nothing.length = 0 /\ nothing.by = <<>>
    BY DEF taking, nothing
  <2>2. isText(<<Quote>>) /\ isText(<<>>)
    BY Tuples
  <2>3. i + 0 <= N + 1 /\ (i < N => i + 2 <= N + 1) /\ 2 \in Nat /\ 0 \in Nat
    BY <1>1
  <2>4. within(d, i, nothing) /\ (i < N => within(d, i, taking(2, <<Quote>>)))
    BY <2>1, <2>2, <2>3 DEF within
  <2> QED  BY <1>3, <2>4
<1>5. PICK rest : /\ replaced(d, m) = rest[1]
                  /\ \A i \in 1 .. N + 1 : isText(rest[i]) /\ rest[i] = replacing(d, m, rest, i)
  BY <1>1, <1>4, ReplacedSteps
<1>6. PICK f : /\ f[0] = <<>> /\ d = f[n]
               /\ \A i \in 0 .. n : isText(f[i])
               /\ \A i \in 1 .. n : f[i] = f[i - 1] \o spelled(s[i])
  BY DoubledSteps
<1> HIDE DEF d, n
<1>7. /\ \A k \in 0 .. n : Len(f[k]) \in Nat /\ Len(f[k]) <= N
      /\ \A k \in 1 .. n : /\ Len(f[k]) = Len(f[k - 1]) + Len(spelled(s[k]))
                          /\ \A i \in 1 .. Len(spelled(s[k])) : d[Len(f[k - 1]) + i] = spelled(s[k])[i]
  <2> DEFINE p == [i \in 1 .. n |-> spelled(s[i])]
  <2>1. \A i \in 1 .. n : isText(p[i]) /\ f[i] = f[i - 1] \o p[i] /\ p[i] = spelled(s[i])
    <3>1. \A c : isText(spelled(c))
      BY Tuples DEF spelled
    <3> QED  BY <1>6, <3>1
  <2> HIDE DEF p
  <2>2. /\ \A k \in 0 .. n : Len(f[k]) \in Nat /\ Len(f[k]) <= Len(f[n])
        /\ \A k \in 1 .. n : /\ Len(f[k]) = Len(f[k - 1]) + Len(p[k])
                            /\ \A i \in 1 .. Len(p[k]) : f[n][Len(f[k - 1]) + i] = p[k][i]
    <3>1. n \in Nat /\ f[0] = <<>>
      BY <1>1, <1>6
    <3>2. \A i \in 0 .. n : isText(f[i])
      BY <1>6
    <3>3. \A i \in 1 .. n : isText(p[i]) /\ f[i] = f[i - 1] \o p[i]
      BY <2>1
    <3>4. growing(f, p, n)
      BY <3>1, <3>2, <3>3 DEF growing
    <3>5. standing(f, p, n)
      BY <3>4, Grows
    <3> QED  BY <3>5 DEF standing
  <2> QED  BY <1>6, <2>1, <2>2
<1> DEFINE g == [k \in 1 .. n + 1 |-> rest[Len(f[k - 1]) + 1]]
<1>12. \A k \in 1 .. n + 1 : isText(g[k])
  <2> SUFFICES ASSUME NEW k \in 1 .. n + 1 PROVE isText(g[k])
    OBVIOUS
  <2>1. k - 1 \in 0 .. n
    BY <1>1
  <2>2. Len(f[k - 1]) \in Nat /\ Len(f[k - 1]) <= N
    BY <1>7, <2>1
  <2>3. Len(f[k - 1]) + 1 \in 1 .. N + 1
    BY <1>1, <2>2
  <2>4. isText(rest[Len(f[k - 1]) + 1])
    BY <1>5, <2>3
  <2> QED  BY <2>4
<1>13. g[n + 1] = <<>>
  <2>1. n + 1 \in 1 .. n + 1 /\ n + 1 - 1 = n /\ N + 1 \in 1 .. N + 1 /\ N + 1 > N
    BY <1>1
  <2>2. rest[N + 1] = <<>>
    BY <1>5, <2>1 DEF replacing
  <2> DEFINE l == n + 1
  <2>3. l \in 1 .. n + 1 /\ l - 1 = n
    BY <1>1
  <2> HIDE DEF l
  <2>4. g[l] = rest[Len(f[l - 1]) + 1]
    BY <2>3
  <2>5. f[l - 1] = d
    BY <1>6, <2>3
  <2>6. g[l] = <<>>
    BY <2>2, <2>4, <2>5
  <2> HIDE DEF g
  <2> QED  BY <2>6 DEF l
<1>14. ASSUME NEW k \in 1 .. n PROVE g[k] = <<s[k]>> \o g[k + 1]
  <2> DEFINE i == Len(f[k - 1]) + 1
             e == Len(f[k])
  <2>1. /\ k \in 0 .. n /\ k - 1 \in 0 .. n /\ k \in 1 .. n + 1 /\ k + 1 \in 1 .. n + 1 /\ k + 1 - 1 = k
    BY <1>1
  <2>2. /\ Len(f[k - 1]) \in Nat /\ e \in Nat /\ e <= N /\ e = Len(f[k - 1]) + Len(spelled(s[k]))
        /\ \A l \in 1 .. Len(spelled(s[k])) : d[Len(f[k - 1]) + l] = spelled(s[k])[l]
    BY <1>7, <2>1
  <2>3. /\ s[k] = Quote => Len(spelled(s[k])) = 2 /\ spelled(s[k])[1] = s[k] /\ spelled(s[k])[2] = s[k]
        /\ s[k] # Quote => Len(spelled(s[k])) = 1 /\ spelled(s[k])[1] = s[k]
    BY DEF spelled
  <2>4. g[k] = rest[i] /\ g[k + 1] = rest[e + 1]
    BY <2>1
  <2>11. /\ s[k] = Quote => e = Len(f[k - 1]) + 2
         /\ s[k] # Quote => e = Len(f[k - 1]) + 1
    BY <2>2, <2>3
  <2> HIDE DEF e, N
  <2>5. i \in 1 .. N /\ i \in 1 .. N + 1 /\ ~(i > N) /\ Len(f[k - 1]) + 2 = i + 1
    <3>1. Len(f[k - 1]) \in Nat /\ e \in Nat /\ e <= N /\ N \in Nat
      BY <1>1, <2>2
    <3>2. e = Len(f[k - 1]) + 2 \/ e = Len(f[k - 1]) + 1
      BY <2>11
    <3> QED  BY <3>1, <3>2
  <2> HIDE DEF i, g
  <2>6. d[i] = s[k] /\ (s[k] = Quote => d[i + 1] = s[k])
    <3>1. 1 \in 1 .. Len(spelled(s[k])) /\ (s[k] = Quote => 2 \in 1 .. Len(spelled(s[k])))
      BY <2>3
    <3>2. d[Len(f[k - 1]) + 1] = s[k] /\ (s[k] = Quote => d[Len(f[k - 1]) + 2] = s[k])
      BY <2>2, <2>3, <3>1
    <3> QED  BY <2>5, <3>2 DEF i
  <2>7. rest[i] = IF m[i].length = 0 THEN <<d[i]>> \o rest[i + 1] ELSE m[i].by \o rest[i + m[i].length]
    <3>1. rest[i] = replacing(d, m, rest, i)
      BY <1>5, <2>5
    <3> QED  BY <2>5, <3>1 DEF replacing, N
  <2>8. taking(2, <<Quote>>).length = 2 /\ taking(2, <<Quote>>).by = <<Quote>> /\ nothing.length = 0
    BY DEF taking, nothing
  <2>9. CASE s[k] = Quote
    <3>1. e = i + 1 /\ i < N /\ i + 2 = e + 1
      <4>1. e = i + 1
        BY <2>5, <2>9, <2>11
      <4>2. e \in Nat /\ e <= N /\ N \in Nat /\ i \in 1 .. N
        BY <1>1, <2>2, <2>5
      <4> QED  BY <4>1, <4>2
    <3>2. d[i + 1] = Quote
      BY <2>6, <2>9
    <3>3. m[i] = taking(2, <<Quote>>)
      BY <1>3, <2>5, <2>6, <2>9, <3>1, <3>2
    <3>4. rest[i] = <<Quote>> \o rest[i + 2]
      <4>1. m[i].length = 2 /\ m[i].by = <<Quote>> /\ 2 # 0
        BY <2>8, <3>3
      <4> QED  BY <2>7, <4>1
    <3> QED  BY <2>4, <2>9, <3>1, <3>4
  <2>10. CASE s[k] # Quote
    <3>1. i + 1 = e + 1
      <4>1. e = Len(f[k - 1]) + 1
        BY <2>10, <2>11
      <4> QED  BY <4>1 DEF i
    <3>2. m[i] = nothing
      BY <1>3, <2>5, <2>6, <2>10
    <3>3. rest[i] = <<s[k]>> \o rest[i + 1]
      BY <2>6, <2>7, <2>8, <3>2
    <3> QED  BY <2>4, <3>1, <3>3
  <2> QED  BY <2>9, <2>10
<1>15. g[1] = rest[1]
  <2>1. 1 \in 1 .. n + 1 /\ 1 - 1 = 0 /\ Len(<<>>) + 1 = 1
    BY <1>1
  <2> QED  BY <1>6, <2>1
<1> HIDE DEF g
<1>16. g[1] = s
  BY <1>12, <1>13, <1>14, Rebuilt DEF n
<1> QED  BY <1>2, <1>5, <1>15, <1>16 DEF d
============================================================================
