--------------------------- MODULE RewriteProofs ---------------------------
(***************************************************************************)
(* Theorems of Rewrite, for every text: the scanners are right about it,   *)
(* every pass leaves a text, every loop ends and leaves literals and       *)
(* parentheses as they were, and a statement without PostgreSQL notation   *)
(* is left as it is; and of Tables: the membership tests of every table    *)
(* are found with the labels the client wrote.                             *)
(***************************************************************************)
EXTENDS Tables, ScanProofs

\* Both scanners are right about every text.
LEMMA Correct ==
    ASSUME isText(q)
    PROVE  ScannersCorrect
<1> DEFINE T == Range(q) \cup {","}
<1>1. Len(q) \in Nat /\ q \in Seq(T) /\ "," \in T
  BY TextIn
<1>2. MatchParenCorrect
  BY <1>1, ParenMatched DEF MatchParenCorrect
<1>3. SplitArgsCorrect
  <2> HIDE DEF T
  <2> QED  BY <1>1, ArgsSplit DEF SplitArgsCorrect, commasOf
<1> QED  BY <1>2, <1>3 DEF ScannersCorrect

-----------------------------------------------------------------------------
(* What the matchers look at, and what they put in.                          *)

\* Tokens that are found lie within the text.
LEMMA Continues ==
    ASSUME NEW s, isText(s), NEW i \in Nat, i >= 1, NEW tokens, Len(tokens) \in Nat, continues(s, i, tokens)
    PROVE  i <= Len(s) /\ i + Len(tokens) <= Len(s) + 1
<1>1. Len(s) \in Nat /\ i <= Len(s)
  BY TextIn DEF continues
<1>2. Len(tokens) <= Len(SubSeq(s, i, Len(s)))
  BY DEF continues, IsPrefix
<1>3. Len(SubSeq(s, i, Len(s))) = Len(s) - i + 1
  BY <1>1, TextPart
<1> QED  BY <1>1, <1>2, <1>3

\* The next of some tokens is not before the place the search starts at, nor behind the
\* end.
LEMMA NextIn ==
    ASSUME NEW s, isText(s), NEW i \in Nat, NEW tokens
    PROVE  /\ next(s, i, tokens) \in Nat /\ next(s, i, tokens) <= Len(s) + 1
           /\ i <= Len(s) + 1 => i <= next(s, i, tokens)
<1> DEFINE S == {k \in i .. Len(s) : s[k] \in tokens} \cup {Len(s) + 1}
<1>1. Len(s) \in Nat
  BY TextIn
<1>2. S \in SUBSET Nat /\ S # {} /\ Len(s) + 1 \in S /\ \A k \in S : k = Len(s) + 1 \/ i <= k
  BY <1>1
<1>3. next(s, i, tokens) = least(S)
  BY DEF next
<1> HIDE DEF S
<1>4. least(S) \in S /\ \A k \in S : least(S) <= k
  BY <1>2, LeastIn
<1> QED  BY <1>1, <1>2, <1>3, <1>4

\* The same for one token,
LEMMA Continues1 ==
    ASSUME NEW s, isText(s), NEW i \in Nat, i >= 1, NEW a, continues(s, i, <<a>>)
    PROVE  i + 1 <= Len(s) + 1
<1>1. Len(<<a>>) = 1
  OBVIOUS
<1> DEFINE tokens == <<a>>
<1> HIDE DEF tokens
<1>2. Len(tokens) = 1 /\ continues(s, i, tokens)
  BY <1>1 DEF tokens
<1> QED  BY <1>2, Continues

\* for two
LEMMA Continues2 ==
    ASSUME NEW s, isText(s), NEW i \in Nat, i >= 1, NEW a, NEW b, continues(s, i, <<a, b>>)
    PROVE  i + 2 <= Len(s) + 1
<1>1. Len(<<a, b>>) = 2
  OBVIOUS
<1> DEFINE tokens == <<a, b>>
<1> HIDE DEF tokens
<1>2. Len(tokens) = 2 /\ continues(s, i, tokens)
  BY <1>1 DEF tokens
<1> QED  BY <1>2, Continues

\* and for three.
LEMMA Continues3 ==
    ASSUME NEW s, isText(s), NEW i \in Nat, i >= 1, NEW a, NEW b, NEW c, continues(s, i, <<a, b, c>>)
    PROVE  i + 3 <= Len(s) + 1
<1>1. Len(<<a, b, c>>) = 3
  OBVIOUS
<1> DEFINE tokens == <<a, b, c>>
<1> HIDE DEF tokens
<1>2. Len(tokens) = 3 /\ 3 \in Nat /\ continues(s, i, tokens)
  BY <1>1 DEF tokens
<1> QED  BY <1>2, Continues, Zenon

-----------------------------------------------------------------------------
(* What each matcher takes is within the text.                               *)

\* What is taken is within the text if its length is.
LEMMA Takes ==
    ASSUME NEW s, isText(s), NEW i \in 1 .. Len(s)
    PROVE  /\ within(s, i, nothing)
           /\ \A length \in Nat : \A by : i + length <= Len(s) + 1 /\ isText(by) => within(s, i, taking(length, by))
           /\ Len(s) \in Nat /\ i \in Nat /\ i >= 1
  BY TextIn, Tuples DEF within, nothing, taking

\* OPERATOR(op), rewrite.go:42.
LEMMA TakesOperator ==
    ASSUME NEW s, isText(s), NEW i \in 1 .. Len(s)
    PROVE  within(s, i, operator(s, i))
<1> DEFINE op == IF continues(s, i + 2, <<"pg_catalog.">>) THEN i + 3 ELSE i + 2
<1> SUFFICES ASSUME continues(s, op + 1, <<")">>) PROVE within(s, i, taking(op + 2 - i, unwrapOperator(s[op])))
  BY Takes DEF operator
<1>1. op \in Nat /\ op >= i + 2
  BY Takes
<1> HIDE DEF op
<1>2. op + 1 + 1 <= Len(s) + 1
  BY <1>1, Continues, Tuples
<1>3. isText(unwrapOperator(s[op]))
  BY Tuples DEF unwrapOperator
<1>4. op + 2 - i \in Nat /\ i + (op + 2 - i) <= Len(s) + 1
  BY <1>1, <1>2, Takes
<1> QED  BY <1>3, <1>4, Takes

\* ILIKE.
LEMMA TakesIlike ==
    ASSUME NEW s, isText(s), NEW i \in 1 .. Len(s)
    PROVE  within(s, i, ilike(s, i))
<1>1. isText(<<"LIKE">>) /\ 1 \in Nat /\ i + 1 <= Len(s) + 1
  BY Tuples, Takes
<1> QED  BY <1>1, Takes DEF ilike

\* = ANY(ARRAY[...]).
LEMMA TakesAnyArray ==
    ASSUME NEW s, isText(s), NEW i \in 1 .. Len(s)
    PROVE  within(s, i, anyArray(s, i))
<1> DEFINE close == next(s, i + 4, {"]", "[]"})
           by == <<"IN", "(">> \o SubSeq(s, i + 4, close - 1) \o <<")">>
<1> SUFFICES ASSUME continues(s, i, <<"=", "ANY", "(", "ARRAY[">>), continues(s, close, <<"]", ")">>)
             PROVE  within(s, i, taking(close + 2 - i, by))
  BY Takes DEF anyArray
<1>1. i + 4 <= Len(s) + 1
  BY Takes, Continues, Tuples
<1>2. close \in Nat /\ i + 4 <= close
  BY <1>1, NextIn, Takes
<1> HIDE DEF close
<1>3. close + 2 <= Len(s) + 1
  BY <1>2, Takes, Continues2
<1>4. isText(by)
  <2>1. isText(SubSeq(s, i + 4, close - 1))
    BY <1>2, <1>3, Takes, TextPart
  <2> QED  BY <2>1, TextConcat, Tuples
<1>5. close + 2 - i \in Nat /\ i + (close + 2 - i) <= Len(s) + 1
  BY <1>2, <1>3, Takes
<1> QED  BY <1>4, <1>5, Takes

\* The list rewriteAnyBrace makes of an array literal.
LEMMA BraceText ==
    ASSUME NEW inner, isText(inner)
    PROVE  isText(rewriteAnyBrace(inner))
<1> DEFINE T == Range(inner) \cup {","}
           comma == ","
           cuts == {k \in 1 .. Len(inner) : inner[k] = comma}
           parts == cutAt(inner, cuts)
           p == [k \in DOMAIN parts |-> literalOf(doubled(parts[k]))]
<1>1. inner \in Seq(T) /\ comma \in T
  BY TextIn
<1>2. cuts \in SUBSET (1 .. Len(inner)) /\ separators(inner, cuts, comma)
  BY DEF separators
<1> HIDE DEF T, comma, cuts
<1>3. parts \in Seq(Seq(T))
  BY <1>1, <1>2, CutAt DEF nonempty
<1> HIDE DEF parts
<1>4. areTexts(parts) /\ DOMAIN parts = 1 .. Len(parts)
  BY <1>3, PiecesAre, LenProperties
<1>5. ASSUME NEW k \in 1 .. Len(parts) PROVE isText(literalOf(doubled(parts[k])))
  <2>1. isText(doubled(parts[k]))
    BY <1>4, DoubledText DEF areTexts
  <2> QED  BY <2>1, TextConcat, Tuples DEF literalOf
<1>6. areTexts(p)
  <2>1. Len(parts) \in Nat
    BY <1>4 DEF areTexts
  <2>2. Len(p) = Len(parts) /\ p = [k \in 1 .. Len(p) |-> p[k]]
    BY <1>4, <2>1
  <2>3. \A k \in 1 .. Len(parts) : isText(p[k])
    BY <1>4, <1>5
  <2> HIDE DEF p
  <2> QED  BY <2>1, <2>2, <2>3 DEF areTexts
<1> HIDE DEF p
<1>7. isText(<<"IN", "(">> \o joined(p, <<",">>) \o <<")">>)
  BY <1>6, JoinedText, TextConcat, Tuples
<1>8. CASE inner = <<>>
  BY <1>8, Tuples DEF rewriteAnyBrace
<1>9. CASE inner # <<>>
  BY <1>7, <1>9 DEF rewriteAnyBrace, p, parts, cuts, comma
<1> QED  BY <1>8, <1>9

\* = ANY('{...}'), with a cast or without.
LEMMA TakesAnyBrace ==
    ASSUME NEW s, isText(s), NEW i \in 1 .. Len(s)
    PROVE  within(s, i, anyBrace(s, i))
<1> DEFINE start1 == <<"=", "ANY", "(", Quote, "{">>
           close == next(s, i + 5, {"}"})
           name == Punctuation \ typeTokens
           end == IF continues(s, close + 2, <<"::">>) THEN next(s, close + 3, name) ELSE close + 2
           inner == SubSeq(s, i + 5, close - 1)
           found == /\ continues(s, i, start1) /\ continues(s, close, <<"}", Quote>>)
                    /\ continues(s, end, <<")">>) /\ end # close + 3
<1>1. anyBrace(s, i) = IF found THEN taking(end + 1 - i, rewriteAnyBrace(inner)) ELSE nothing
  BY DEF anyBrace
<1> SUFFICES ASSUME found PROVE within(s, i, taking(end + 1 - i, rewriteAnyBrace(inner)))
  BY <1>1, Takes
<1>2. Len(s) \in Nat /\ i \in Nat /\ i >= 1
  BY Takes
<1>3. Len(start1) = 5
  BY Tuples
<1> HIDE DEF start1
<1>6. continues(s, i, start1)
  OBVIOUS
<1>12. continues(s, close, <<"}", Quote>>)
  OBVIOUS
<1>13. continues(s, end, <<")">>)
  OBVIOUS
<1> HIDE DEF found, close, name
<1>4. i + 5 <= Len(s) + 1
  <2>1. 5 \in Nat
    OBVIOUS
  <2> QED  BY <1>2, <1>3, <1>6, <2>1, Continues, Zenon
<1>5. close \in Nat /\ i + 5 <= close
  <2>1. i + 5 \in Nat
    BY <1>2
  <2> QED  BY <1>4, <2>1, NextIn, Zenon DEF close
<1>7. close + 2 <= Len(s) + 1
  <2>1. close \in Nat /\ close >= 1
    BY <1>2, <1>5
  <2> QED  BY <1>12, <2>1, Continues2, Zenon
<1>8. end \in Nat /\ close + 2 <= end
  <2>1. CASE continues(s, close + 2, <<"::">>)
    <3>1. close + 2 + 1 <= Len(s) + 1
      BY <1>2, <1>5, <2>1, Continues1
    <3>2. next(s, close + 3, name) \in Nat /\ close + 3 <= next(s, close + 3, name)
      BY <1>2, <1>5, <3>1, NextIn
    <3> QED  BY <1>5, <2>1, <3>2
  <2>2. CASE ~continues(s, close + 2, <<"::">>)
    BY <1>5, <2>2
  <2> QED  BY <2>1, <2>2
<1> HIDE DEF end
<1>9. end + 1 <= Len(s) + 1
  <2>1. end \in Nat /\ end >= 1
    BY <1>2, <1>5, <1>8
  <2> QED  BY <1>13, <2>1, Continues1, Zenon
<1>10. isText(inner)
  BY <1>2, <1>5, <1>7, TextPart
<1> HIDE DEF inner
<1>11. end + 1 - i \in Nat /\ i + (end + 1 - i) <= Len(s) + 1
  BY <1>2, <1>5, <1>8, <1>9
<1> QED  BY <1>10, <1>11, BraceText, Takes

\* AT TIME ZONE and the zone.
LEMMA TakesAtTimeZone ==
    ASSUME NEW s, isText(s), NEW i \in 1 .. Len(s)
    PROVE  within(s, i, atTimeZone(s, i))
<1> DEFINE quoted == IF continues(s, i + 1, <<Quote>>) THEN next(s, i + 2, {Quote}) ELSE Len(s) + 1
           called == IF isWord(s, i + 1) /\ continues(s, i + 2, <<"(">>) THEN next(s, i + 3, {")"}) ELSE Len(s) + 1
           named  == IF ~isWord(s, i + 1) THEN Len(s) + 1
                     ELSE IF continues(s, i + 2, <<".">>) /\ isWord(s, i + 3) THEN i + 3 ELSE i + 1
           ends   == {quoted, called} \cap 1 .. Len(s)
           end    == IF ends # {} THEN least(ends) ELSE named
<1> SUFFICES ASSUME end <= Len(s) PROVE within(s, i, taking(end + 1 - i, <<>>))
  BY Takes DEF atTimeZone
<1>1. quoted \in Nat /\ i + 1 <= quoted
  <2>1. CASE continues(s, i + 1, <<Quote>>)
    <3>1. i + 1 + 1 <= Len(s) + 1
      BY <2>1, Takes, Continues, Tuples
    <3> QED  BY <2>1, <3>1, NextIn, Takes
  <2>2. CASE ~continues(s, i + 1, <<Quote>>)
    BY <2>2, Takes
  <2> QED  BY <2>1, <2>2
<1>2. called \in Nat /\ i + 1 <= called
  <2>1. CASE isWord(s, i + 1) /\ continues(s, i + 2, <<"(">>)
    <3>1. i + 2 + 1 <= Len(s) + 1
      BY <2>1, Takes, Continues, Tuples
    <3> QED  BY <2>1, <3>1, NextIn, Takes
  <2>2. CASE ~(isWord(s, i + 1) /\ continues(s, i + 2, <<"(">>))
    BY <2>2, Takes
  <2> QED  BY <2>1, <2>2
<1>3. named \in Nat /\ i + 1 <= named
  BY Takes
<1> HIDE DEF quoted, called, named
<1>4. end \in Nat /\ i + 1 <= end
  <2>1. CASE ends # {}
    <3>1. ends \in SUBSET Nat /\ \A e \in ends : i + 1 <= e
      BY <1>1, <1>2
    <3> HIDE DEF ends
    <3>2. least(ends) \in ends
      BY <2>1, <3>1, LeastIn
    <3> QED  BY <2>1, <3>1, <3>2
  <2>2. CASE ends = {}
    BY <1>3, <2>2
  <2> QED  BY <2>1, <2>2
<1> HIDE DEF end
<1>5. end + 1 - i \in Nat /\ i + (end + 1 - i) <= Len(s) + 1 /\ isText(<<>>)
  BY <1>4, Takes, Tuples
<1> QED  BY <1>5, Takes

\* string_agg(.
LEMMA TakesStringAgg ==
    ASSUME NEW s, isText(s), NEW i \in 1 .. Len(s)
    PROVE  within(s, i, stringAgg(s, i))
<1> SUFFICES ASSUME continues(s, i, <<"string_agg", "(">>) PROVE within(s, i, taking(2, <<"group_concat", "(">>))
  BY Takes DEF stringAgg
<1>1. i \in Nat /\ i >= 1
  BY Takes
<1>2. i + 2 <= Len(s) + 1
  BY <1>1, Continues2, Zenon
<1>3. isText(<<"group_concat", "(">>)
  BY Tuples, Zenon
<1>4. 2 \in Nat
  OBVIOUS
<1> QED  BY <1>2, <1>3, <1>4, Takes, Zenon

\* UNNEST with its alias and columns.
LEMMA TakesUnnest ==
    ASSUME NEW s, isText(s), NEW i \in 1 .. Len(s)
    PROVE  within(s, i, unnest(s, i))
<1> DEFINE u == unnestAt(s, i)
           at1  == IF s[i] = "LATERAL" THEN i + 1 ELSE i
           close == next(s, at1 + 2, {"(", ")"})
           with  == IF continues(s, close + 1, <<"WITH ORDINALITY">>) THEN close + 2 ELSE close + 1
           t     == IF continues(s, with, <<"AS">>) THEN with + 1 ELSE with
           ord   == IF continues(s, t + 3, <<",">>) THEN t + 4 ELSE 0
           end   == IF ord = 0 THEN t + 3 ELSE t + 5
           arr   == SubSeq(s, at1 + 2, close - 1)
           by    == <<"json_each", "(", "COALESCE", "(">> \o arr \o <<",", Quote, "[]", Quote, ")", ")", s[t]>>
<1>1. /\ u.found => /\ continues(s, at1, <<"UNNEST", "(">>) /\ continues(s, close, <<")">>)
                    /\ continues(s, end, <<")">>)
      /\ u.arr = arr /\ u.end = end /\ u.alias = t
  BY DEF unnestAt
<1>2. unnest(s, i) = IF u.found THEN taking(end + 1 - i, by) ELSE nothing
  BY <1>1 DEF unnest
<1> SUFFICES ASSUME u.found PROVE within(s, i, taking(end + 1 - i, by))
  BY <1>2, Takes
<1>3. continues(s, at1, <<"UNNEST", "(">>)
  BY <1>1
<1>4. continues(s, close, <<")">>)
  BY <1>1
<1>5. continues(s, end, <<")">>)
  BY <1>1
<1>6. Len(s) \in Nat /\ i \in Nat /\ i >= 1
  BY Takes
<1>7. at1 \in Nat /\ at1 >= i /\ at1 >= 1
  BY <1>6
<1> HIDE DEF u, at1
<1>8. at1 + 2 <= Len(s) + 1
  BY <1>3, <1>7, Continues2, Zenon
<1>9. close \in Nat /\ at1 + 2 <= close
  <2>1. at1 + 2 \in Nat
    BY <1>7
  <2> QED  BY <1>8, <2>1, NextIn, Zenon
<1> HIDE DEF close
<1>10. close >= 1 /\ close >= i
  BY <1>6, <1>7, <1>9
<1>11. close + 1 <= Len(s) + 1
  BY <1>4, <1>9, <1>10, Continues1, Zenon
<1>12. t \in Nat /\ close + 1 <= t
  <2>1. with \in Nat /\ close + 1 <= with
    <3>1. with = close + 1 \/ with = close + 2
      BY Zenon
    <3> HIDE DEF with
    <3> QED  BY <1>9, <3>1
  <2> HIDE DEF with
  <2> QED  BY <1>9, <2>1
<1> HIDE DEF t, ord
<1>13. end \in Nat /\ end >= 1 /\ end >= i
  <2>1. end = t + 3 \/ end = t + 5
    OBVIOUS
  <2> HIDE DEF end
  <2> QED  BY <1>6, <1>10, <1>9, <1>12, <2>1
<1> HIDE DEF end
<1>14. end + 1 <= Len(s) + 1
  BY <1>5, <1>13, Continues1, Zenon
<1>15. end + 1 - i \in Nat /\ i + (end + 1 - i) <= Len(s) + 1
  BY <1>6, <1>13, <1>14
<1>16. isText(by)
  <2>1. isText(arr)
    BY <1>6, <1>7, <1>9, <1>11, TextPart
  <2> HIDE DEF arr
  <2>2. isText(<<"json_each", "(", "COALESCE", "(">>) /\ isText(<<",", Quote, "[]", Quote, ")", ")", s[t]>>)
    BY Tuples, Zenon
  <2> QED  BY <2>1, <2>2, TextConcat, Zenon
<1> HIDE DEF by
<1> QED  BY <1>15, <1>16, Takes, Zenon

\* 'name'::regclass.
LEMMA TakesRegclassOid ==
    ASSUME NEW s, isText(s), NEW i \in 1 .. Len(s)
    PROVE  within(s, i, regclassOid(s, i))
<1> DEFINE close == next(s, i + 1, {Quote})
           by == relationOf("oid", "relname", SubSeq(s, i, close))
<1> SUFFICES ASSUME continues(s, close, <<Quote, "::", "regclass">>)
             PROVE  within(s, i, taking(close + 3 - i, by))
  BY Takes DEF regclassOid
<1>1. Len(s) \in Nat /\ i \in Nat /\ i >= 1 /\ i + 1 \in Nat /\ i + 1 <= Len(s) + 1
  BY Takes
<1>2. close \in Nat /\ i + 1 <= close
  BY <1>1, NextIn, Zenon
<1> HIDE DEF close
<1>3. close >= 1
  BY <1>1, <1>2
<1>4. close + 3 <= Len(s) + 1
  BY <1>2, <1>3, Continues3, Zenon
<1>5. close + 3 - i \in Nat /\ i + (close + 3 - i) <= Len(s) + 1 /\ close \in Int /\ close <= Len(s)
  BY <1>1, <1>2, <1>4
<1>6. isText(SubSeq(s, i, close))
  <2>1. i \in Int
    BY <1>1
  <2> QED  BY <1>1, <1>5, <2>1, TextPart, Zenon
<1>7. isText(by)
  BY <1>6, TextConcat, Tuples, Zenon DEF relationOf
<1> HIDE DEF by
<1> QED  BY <1>5, <1>7, Takes, Zenon

\* oid::regclass and a cast of it.
LEMMA TakesRegclassName ==
    ASSUME NEW s, isText(s), NEW i \in 1 .. Len(s)
    PROVE  within(s, i, regclassName(s, i))
<1> DEFINE end == IF isWord(s, i) /\ continues(s, i + 1, <<".">>) /\ isWord(s, i + 2) THEN i + 2 ELSE i
           text == \E t \in {"text", "varchar", "name"} : continues(s, end + 3, <<"::", t>>)
           past == IF text THEN 5 ELSE 3
           by == relationOf("relname", "oid", SubSeq(s, i, end))
<1>1. regclassName(s, i) = IF isWord(s, i) /\ continues(s, end + 1, <<"::", "regclass">>)
                           THEN taking(end + past - i, by) ELSE nothing
  BY DEF regclassName
<1> SUFFICES ASSUME continues(s, end + 1, <<"::", "regclass">>) PROVE within(s, i, taking(end + past - i, by))
  BY <1>1, Takes
<1>2. Len(s) \in Nat /\ i \in Nat /\ i >= 1
  BY Takes
<1>3. end \in Nat /\ end >= i
  BY <1>2
<1> HIDE DEF end
<1>4. end + 1 \in Nat /\ end + 1 >= 1 /\ end + 3 \in Nat /\ end + 3 >= 1 /\ end + 1 + 2 = end + 3 /\ end + 3 + 2 = end + 5
  BY <1>3
<1>5. end + 1 + 2 <= Len(s) + 1
  BY <1>4, Continues2, Zenon
<1>6. text => end + 3 + 2 <= Len(s) + 1
  BY <1>4, Continues2, Zenon
<1> HIDE DEF text
<1>7. end + past - i \in Nat /\ i + (end + past - i) <= Len(s) + 1 /\ end \in Int /\ i \in Int /\ end <= Len(s)
  BY <1>2, <1>3, <1>4, <1>5, <1>6
<1>8. isText(SubSeq(s, i, end))
  BY <1>2, <1>7, TextPart, Zenon
<1>9. isText(by)
  BY <1>8, TextConcat, Tuples, Zenon DEF relationOf
<1> HIDE DEF by, past
<1> QED  BY <1>7, <1>9, Takes, Zenon

\* The qualifiers of the two catalogs.
LEMMA TakesQualifier ==
    ASSUME NEW s, isText(s), NEW i \in 1 .. Len(s)
    PROVE  within(s, i, qualifier(s, i))
<1>1. Len(s) \in Nat /\ i \in Nat /\ 1 \in Nat /\ 2 \in Nat /\ i + 1 <= Len(s) + 1
  BY Takes
<1>2. within(s, i, taking(1, <<>>)) /\ within(s, i, nothing)
  BY <1>1, Takes, Tuples, Zenon
<1>3. ASSUME isWord(s, i + 1) PROVE within(s, i, taking(2, <<"information_schema_", s[i + 1]>>))
  <2>1. i + 2 <= Len(s) + 1
    BY <1>1, <1>3 DEF isWord
  <2>2. isText(<<"information_schema_", s[i + 1]>>)
    BY Tuples, Zenon
  <2> QED  BY <1>1, <2>1, <2>2, Takes, Zenon
<1> QED  BY <1>2, <1>3 DEF qualifier

\* pg_get_keywords().
LEMMA TakesKeywordsCall ==
    ASSUME NEW s, isText(s), NEW i \in 1 .. Len(s)
    PROVE  within(s, i, keywordsCall(s, i))
<1> SUFFICES ASSUME continues(s, i, <<"pg_get_keywords", "(", ")">>) PROVE within(s, i, taking(3, <<"pg_get_keywords">>))
  BY Takes DEF keywordsCall
<1>1. i \in Nat /\ i >= 1
  BY Takes
<1>2. i + 3 <= Len(s) + 1
  BY <1>1, Continues3, Zenon
<1>3. 3 \in Nat /\ isText(<<"pg_get_keywords">>)
  BY Tuples
<1> QED  BY <1>2, <1>3, Takes, Zenon

\* A cast, with the arguments and brackets of its type.
LEMMA TakesCast ==
    ASSUME NEW s, isText(s), NEW i \in 1 .. Len(s)
    PROVE  within(s, i, cast(s, i))
<1> DEFINE name  == IF continues(s, i + 2, <<".">>) /\ isWord(s, i + 3) THEN i + 3 ELSE i + 1
           close == next(s, name + 2, {")"})
           args  == IF continues(s, name + 1, <<"(">>) /\ close <= Len(s) THEN close ELSE name
           ends  == {k \in args + 1 .. Len(s) + 1 : k > Len(s) \/ s[k] # "[]"}
           past  == least(ends)
<1> SUFFICES ASSUME isWord(s, i + 1) PROVE within(s, i, taking(past - i, <<>>))
  BY Takes DEF cast
<1>1. Len(s) \in Nat /\ i \in Nat /\ i >= 1
  BY Takes
<1>2. name \in Nat /\ i + 1 <= name /\ name <= Len(s)
  BY <1>1 DEF isWord
<1> HIDE DEF name
<1>3. name + 2 \in Nat /\ name + 1 \in Nat /\ name + 1 >= 1
  BY <1>2
<1>4. args \in Nat /\ name <= args /\ args <= Len(s)
  <2>1. CASE continues(s, name + 1, <<"(">>) /\ close <= Len(s)
    <3>1. name + 1 + 1 <= Len(s) + 1
      BY <1>3, <2>1, Continues1, Zenon
    <3>2. name + 2 <= Len(s) + 1
      BY <1>2, <3>1
    <3>3. close \in Nat /\ name + 2 <= close
      BY <1>3, <3>2, NextIn, Zenon
    <3> HIDE DEF close
    <3> QED  BY <1>1, <1>2, <2>1, <3>3
  <2>2. CASE ~(continues(s, name + 1, <<"(">>) /\ close <= Len(s))
    BY <1>2, <2>2
  <2> QED  BY <2>1, <2>2
<1> HIDE DEF close, args
<1>5. ends \in SUBSET Nat /\ ends # {} /\ \A k \in ends : args + 1 <= k /\ k <= Len(s) + 1
  <2>1. Len(s) + 1 \in ends
    BY <1>1, <1>4
  <2> QED  BY <1>1, <1>4, <2>1
<1> HIDE DEF ends
<1>6. past \in ends
  BY <1>5, LeastIn
<1>7. past \in Nat /\ args + 1 <= past /\ past <= Len(s) + 1
  BY <1>5, <1>6
<1> HIDE DEF past
<1>8. past - i \in Nat /\ i + (past - i) <= Len(s) + 1
  BY <1>1, <1>2, <1>4, <1>7
<1>9. isText(<<>>)
  BY Tuples
<1> QED  BY <1>8, <1>9, Takes, Zenon

\* The functions that are called without parentheses.
LEMMA TakesSystemFunction ==
    ASSUME NEW s, isText(s), NEW i \in 1 .. Len(s)
    PROVE  within(s, i, systemFunction(s, i))
<1>1. 1 \in Nat /\ i + 1 <= Len(s) + 1
  BY Takes
<1>2. isText(<<s[i], "(", ")">>)
  BY Tuples, Zenon
<1>3. within(s, i, taking(1, <<s[i], "(", ")">>)) /\ within(s, i, nothing)
  BY <1>1, <1>2, Takes, Zenon
<1> QED  BY <1>3 DEF systemFunction

\* SHOW.
LEMMA TakesShow ==
    ASSUME NEW s, isText(s), NEW i \in 1 .. Len(s)
    PROVE  within(s, i, show(s, i))
<1> DEFINE by == <<"SELECT", "show", "(", Quote, s[2], Quote, ")", "AS", s[2]>>
<1>1. isText(by)
  BY Tuples, Zenon
<1>2. show(s, i) = IF i = 1 /\ s[1] = "SHOW" /\ isWord(s, 2) THEN taking(2, by) ELSE nothing
  BY DEF show
<1> HIDE DEF by
<1>3. ASSUME i = 1, isWord(s, 2) PROVE within(s, i, taking(2, by))
  <2>1. 2 \in Nat /\ i + 2 <= Len(s) + 1
    BY <1>3, Takes DEF isWord
  <2> QED  BY <1>1, <2>1, Takes, Zenon
<1> QED  BY <1>2, <1>3, Takes

\* current_database().
LEMMA TakesCurrentDatabase ==
    ASSUME NEW s, isText(s), NEW i \in 1 .. Len(s)
    PROVE  within(s, i, currentDatabase(s, i))
<1> SUFFICES ASSUME continues(s, i, <<"current_database", "(", ")">>) PROVE within(s, i, taking(3, literalOf(<<database>>)))
  BY Takes DEF currentDatabase
<1>1. i \in Nat /\ i >= 1
  BY Takes
<1>2. i + 3 <= Len(s) + 1
  BY <1>1, Continues3, Zenon
<1>3. 3 \in Nat
  OBVIOUS
<1>4. isText(literalOf(<<database>>))
  BY Tuples, TextConcat, Zenon DEF literalOf
<1> QED  BY <1>2, <1>3, <1>4, Takes, Zenon

-----------------------------------------------------------------------------
(* translateDDL: what its rules look for, and what they leave.               *)

\* A rule looks for texts of one word or more, each of which ends with a type word.
isRule(r) == \A f \in r.from : isText(f) /\ Len(f) >= 1 /\ f[Len(f)] \in typeWords

\* The rules look for such texts.
LEMMA RuleTexts == \A r \in rules : \A f \in r.from : isText(f) /\ Len(f) >= 1
<1>1. \A words : \A f \in alone(words) : isText(f) /\ Len(f) >= 1
  <2> SUFFICES ASSUME NEW w PROVE isText(<<w>>) /\ Len(<<w>>) >= 1
    BY DEF alone
  <2> QED  BY Tuples
<1>2. \A type : \A f \in withZone(type) : isText(f) /\ Len(f) >= 1
  <2> SUFFICES ASSUME NEW type, NEW z PROVE isText(<<type, z, "time", "zone">>) /\ Len(<<type, z, "time", "zone">>) >= 1
    BY DEF withZone
  <2> QED  BY Tuples
<1>3. /\ isText(<<"character", "varying">>) /\ Len(<<"character", "varying">>) >= 1
      /\ isText(<<"character">>) /\ Len(<<"character">>) >= 1
      /\ isText(<<"double", "precision">>) /\ Len(<<"double", "precision">>) >= 1
  BY Tuples
<1> DEFINE good(names) == \A f \in names : isText(f) /\ Len(f) >= 1
<1>4. \A words : good(alone(words))
  BY <1>1
<1>5. \A type : good(withZone(type))
  BY <1>2
<1>6. good({<<"character", "varying">>}) /\ good({<<"character">>}) /\ good({<<"double", "precision">>})
  BY <1>3
<1> HIDE DEF good
<1>7. ASSUME NEW r \in rules PROVE good(r.from)
  <2>1. r = serials \/ \E n \in 1 .. 12 : r = ddlTypeMappings[n]
    <3>1. DOMAIN ddlTypeMappings = 1 .. 12
      BY DEF ddlTypeMappings
    <3> QED  BY <3>1 DEF rules, Range
  <2>2. good(serials.from)
    BY <1>4 DEF serials, mapping
  <2>3. ASSUME NEW n \in 1 .. 12 PROVE good(ddlTypeMappings[n].from)
    <3> DEFINE of(k) == ddlTypeMappings[k].from
    <3>1. /\ of(1) = withZone("timestamp") /\ of(2) = alone({"timestamptz"})
          /\ of(3) = withZone("time") /\ of(4) = alone({"timetz"})
          /\ of(5) = {<<"character", "varying">>} /\ of(6) = {<<"character">>}
          /\ of(7) = alone({"bpchar"}) /\ of(8) = {<<"double", "precision">>}
          /\ of(9) = alone({"bytea"}) /\ of(10) = alone({"boolean"})
          /\ of(11) = integers /\ of(12) = textual
      BY DEF ddlTypeMappings, mapping, mappingOf
    <3> HIDE DEF of
    <3>2. good(of(1)) /\ good(of(2)) /\ good(of(3)) /\ good(of(4))
      BY <1>4, <1>5, <3>1
    <3>3. good(of(5)) /\ good(of(6)) /\ good(of(7)) /\ good(of(8))
      BY <1>4, <1>6, <3>1, Zenon
    <3>4. good(of(9)) /\ good(of(10)) /\ good(of(11)) /\ good(of(12))
      BY <1>4, <3>1 DEF integers, textual
    <3>5. n \in 1 .. 4 \/ n \in 5 .. 8 \/ n \in 9 .. 12
      BY <2>3
    <3>6. n \in 1 .. 4 => good(of(n))
      BY <3>2
    <3>7. n \in 5 .. 8 => good(of(n))
      BY <3>3
    <3>8. n \in 9 .. 12 => good(of(n))
      BY <3>4
    <3>9. good(of(n))
      BY <3>5, <3>6, <3>7, <3>8, Zenon
    <3> QED  BY <3>9 DEF of
  <2> QED  BY <2>1, <2>2, <2>3
<1> QED  BY <1>7 DEF good

\* Each rule is one.
LEMMA Rules == \A r \in rules : isRule(r)
<1> SUFFICES ASSUME NEW r \in rules, NEW f \in r.from PROVE f[Len(f)] \in typeWords
  BY RuleTexts DEF isRule
<1>1. f[Len(f)] \in lastWords(r)
  BY DEF Last, lastWords
<1>2. \A w \in lastWords(r) : w \in ruleWords
  BY DEF ruleWords
<1>3. \A w \in ruleWords : w \in typeWords
  BY DEF typeWords
<1> QED  BY <1>1, <1>2, <1>3

\* What a rule takes is within the text.
LEMMA TakesType ==
    ASSUME NEW s, isText(s), NEW i \in 1 .. Len(s), NEW rule, isRule(rule)
    PROVE  within(s, i, typeAt(rule, s, i))
<1> DEFINE found   == {f \in rule.from : continues(s, i, f)}
           name    == CHOOSE f \in found : TRUE
           past    == i + Len(name)
           close   == IF continues(s, past, <<"(">>) THEN next(s, past, {")"}) ELSE Len(s) + 1
           grouped == rule.group # "none" /\ close <= Len(s)
<1>1. typeAt(rule, s, i) =
        IF found = {} \/ (rule.group = "required" /\ ~grouped) THEN nothing
        ELSE IF grouped THEN taking(close + 1 - i, <<rule.to>> \o SubSeq(s, past, close))
        ELSE taking(past - i, <<rule.to>>)
  BY DEF typeAt
<1>2. CASE found = {}
  BY <1>1, <1>2, Takes
<1>3. CASE found # {}
  <2>1. name \in found
    BY <1>3
  <2> HIDE DEF name
  <2>2. isText(name) /\ continues(s, i, name)
    BY <2>1 DEF isRule
  <2>3. Len(name) \in Nat
    BY <2>2, TextIn
  <2>4. i + Len(name) <= Len(s) + 1
    BY <2>2, <2>3, Continues, Takes
  <2>5. past \in Nat /\ past >= i /\ past <= Len(s) + 1 /\ past - i \in Nat /\ i + (past - i) <= Len(s) + 1
    BY <2>3, <2>4, Takes
  <2> HIDE DEF past, found
  <2>6. within(s, i, taking(past - i, <<rule.to>>))
    BY <2>5, Takes, Tuples
  <2>7. ASSUME grouped PROVE within(s, i, taking(close + 1 - i, <<rule.to>> \o SubSeq(s, past, close)))
    <3>1. close \in Nat /\ close <= Len(s) /\ past <= close
      BY <2>5, <2>7, NextIn, Takes
    <3> HIDE DEF close
    <3>2. close + 1 - i \in Nat /\ i + (close + 1 - i) <= Len(s) + 1 /\ past \in Int /\ past >= 1 /\ close \in Int
      BY <2>5, <3>1, Takes
    <3>3. isText(SubSeq(s, past, close))
      BY <3>1, <3>2, TextPart
    <3>4. isText(<<rule.to>> \o SubSeq(s, past, close))
      BY <3>3, TextConcat, Tuples
    <3> QED  BY <3>2, <3>4, Takes
  <2> HIDE DEF grouped, close
  <2> QED  BY <1>1, <2>6, <2>7, Takes
<1> QED  BY <1>2, <1>3

\* DEFAULT nextval(...).
LEMMA TakesNextval ==
    ASSUME NEW s, isText(s), NEW i \in 1 .. Len(s)
    PROVE  within(s, i, nextvalDefault(s, i))
<1> DEFINE close == next(s, i + 3, {")"})
<1>1. nextvalDefault(s, i) = IF continues(s, i, <<"DEFAULT", "nextval", "(">>) /\ close <= Len(s)
                             THEN taking(close + 1 - i, <<>>) ELSE nothing
  BY DEF nextvalDefault
<1>2. ASSUME continues(s, i, <<"DEFAULT", "nextval", "(">>), close <= Len(s)
      PROVE  within(s, i, taking(close + 1 - i, <<>>))
  <2>1. i + 3 <= Len(s) + 1
    BY <1>2, Continues3, Takes
  <2>2. close \in Nat /\ i + 3 <= close
    BY <2>1, NextIn, Takes
  <2> HIDE DEF close
  <2>3. close + 1 - i \in Nat /\ i + (close + 1 - i) <= Len(s) + 1
    BY <1>2, <2>2, Takes
  <2> QED  BY <2>3, Takes, Tuples
<1> HIDE DEF close
<1> QED  BY <1>1, <1>2, Takes, Zenon

\* A rule leaves a text, and the removal of defaults does.
LEMMA RenamedText ==
    ASSUME NEW s, isText(s)
    PROVE  /\ \A rule \in rules : isText(renamed(s, rule))
           /\ isText(everywhere(s, nextvalDefault))
<1>1. ASSUME NEW rule \in rules PROVE isText(renamed(s, rule))
  <2> DEFINE m == [i \in 1 .. Len(s) |-> typeAt(rule, s, i)]
  <2>1. taken(s, m)
    BY Rules, TakesType DEF taken
  <2>2. renamed(s, rule) = replaced(s, m)
    BY DEF renamed
  <2> HIDE DEF m
  <2> QED  BY <2>1, <2>2, Replaced
<1>2. isText(everywhere(s, nextvalDefault))
  <2> DEFINE m == [i \in 1 .. Len(s) |-> nextvalDefault(s, i)]
  <2>1. taken(s, m)
    BY TakesNextval DEF taken
  <2>2. everywhere(s, nextvalDefault) = replaced(s, m)
    BY DEF everywhere
  <2> HIDE DEF m
  <2> QED  BY <2>1, <2>2, Replaced
<1> QED  BY <1>1, <1>2

\* The texts between the rules.
between(f, s, n) ==
    /\ f[0] = everywhere(renamed(s, serials), nextvalDefault)
    /\ \A i \in 1 .. n : f[i] = renamed(f[i - 1], ddlTypeMappings[i])

\* There are such texts, and the last of them is what translateTypes leaves.
LEMMA TypesAfter ==
    ASSUME NEW s
    PROVE  \E f : between(f, s, 12) /\ translateTypes(s) = f[12]
<1> DEFINE first == everywhere(renamed(s, serials), nextvalDefault)
           rhs(f, n) == [i \in 0 .. n |-> IF i = 0 THEN first ELSE renamed(f[i - 1], ddlTypeMappings[i])]
           P == {k \in 0 .. 12 : \E f : f = rhs(f, k)}
           last == CHOOSE f : f = rhs(f, 12)
<1>1. translateTypes(s) = last[12]
  <2>1. Len(ddlTypeMappings) = 12
    BY DEF ddlTypeMappings
  <2> QED  BY <2>1 DEF translateTypes
<1> HIDE DEF first
<1>2. 0 \in P
  <2> DEFINE f == [i \in 0 .. 0 |-> first]
  <2>1. f = rhs(f, 0)
    OBVIOUS
  <2> HIDE DEF f, rhs
  <2> QED  BY <2>1
<1>3. ASSUME NEW k \in 0 .. 12 - 1, k \in P PROVE k + 1 \in P
  <2>1. PICK f : f = rhs(f, k)
    BY <1>3
  <2> DEFINE new == renamed(f[k], ddlTypeMappings[k + 1])
             g == [i \in 0 .. k + 1 |-> IF i = k + 1 THEN new ELSE f[i]]
  <2>2. ASSUME NEW i \in 0 .. k + 1
        PROVE  g[i] = IF i = 0 THEN first ELSE renamed(g[i - 1], ddlTypeMappings[i])
    <3>1. CASE i = 0
      <4>1. f[0] = first /\ g[0] = f[0]
        BY <2>1
      <4> QED  BY <3>1, <4>1
    <3>2. CASE i = k + 1
      <4>1. g[k + 1] = new /\ g[k] = f[k] /\ k + 1 - 1 = k /\ k + 1 # 0
        OBVIOUS
      <4> HIDE DEF g
      <4> QED  BY <3>2, <4>1
    <3>3. CASE i \in 1 .. k
      <4>1. g[i] = f[i] /\ g[i - 1] = f[i - 1] /\ i # 0
        BY <3>3
      <4>2. f[i] = renamed(f[i - 1], ddlTypeMappings[i])
        BY <2>1, <3>3
      <4> HIDE DEF g
      <4> QED  BY <4>1, <4>2
    <3> QED  BY <3>1, <3>2, <3>3
  <2>3. g = rhs(g, k + 1)
    BY <2>2
  <2>4. k + 1 \in 0 .. 12
    OBVIOUS
  <2> HIDE DEF g, rhs
  <2> QED  BY <2>3, <2>4
<1>4. \E f : f = rhs(f, 12)
  <2>1. inductive(P, 0, 12)
    BY <1>2, <1>3 DEF inductive
  <2> HIDE DEF P
  <2>2. 0 .. 12 \subseteq P
    BY <2>1, Upwards
  <2> QED  BY <2>2 DEF P
<1> HIDE DEF rhs
<1>5. last = rhs(last, 12)
  BY <1>4
<1> HIDE DEF last
<1>6. between(last, s, 12)
  BY <1>5 DEF rhs, first, between
<1> QED  BY <1>1, <1>6

\* translateDDL leaves a text.
LEMMA DDLText ==
    ASSUME NEW s, isText(s)
    PROVE  isText(translateDDL(s))
<1>1. isText(translateTypes(s))
  <2>1. PICK f : between(f, s, 12) /\ translateTypes(s) = f[12]
    BY TypesAfter
  <2> DEFINE P == {i \in 0 .. 12 : isText(f[i])}
  <2>2. 0 \in P
    BY <2>1, RenamedText DEF between, rules
  <2>3. ASSUME NEW i \in 0 .. 12 - 1, i \in P PROVE i + 1 \in P
    <3>1. i + 1 \in 1 .. 12 /\ i + 1 - 1 = i
      OBVIOUS
    <3>2. f[i + 1] = renamed(f[i], ddlTypeMappings[i + 1])
      BY <2>1, <3>1 DEF between
    <3>3. ddlTypeMappings[i + 1] \in rules
      <4>1. DOMAIN ddlTypeMappings = 1 .. 12
        BY DEF ddlTypeMappings
      <4> QED  BY <3>1, <4>1 DEF rules, Range
    <3>4. isText(f[i])
      BY <2>3
    <3>5. isText(renamed(f[i], ddlTypeMappings[i + 1]))
      BY <3>3, <3>4, RenamedText
    <3>6. isText(f[i + 1]) /\ i + 1 \in 0 .. 12
      BY <3>1, <3>2, <3>5
    <3> QED  BY <3>6
  <2>4. inductive(P, 0, 12)
    BY <2>2, <2>3 DEF inductive
  <2> HIDE DEF P
  <2>5. 0 .. 12 \subseteq P
    BY <2>4, Upwards
  <2>6. 12 \in P
    BY <2>5
  <2> QED  BY <2>1, <2>6 DEF P
<1>2. isText(<<"SELECT">> \o literalOf(<<s[1], "sequence">>))
  BY TextConcat, Tuples, Zenon DEF literalOf
<1> QED  BY <1>1, <1>2 DEF translateDDL

-----------------------------------------------------------------------------
\* Each pass leaves a text.
LEMMA EveryPass ==
    ASSUME NEW s, isText(s)
    PROVE
        /\ isText(everywhere(s, operator))
        /\ isText(everywhere(s, ilike))
        /\ isText(everywhere(s, anyArray))
        /\ isText(everywhere(s, anyBrace))
        /\ isText(everywhere(s, atTimeZone))
        /\ isText(everywhere(s, stringAgg))
        /\ isText(everywhere(s, unnest))
        /\ isText(everywhere(s, regclassOid))
        /\ isText(everywhere(s, regclassName))
        /\ isText(everywhere(s, qualifier))
        /\ isText(everywhere(s, keywordsCall))
        /\ isText(everywhere(s, cast))
        /\ isText(everywhere(s, systemFunction))
        /\ isText(everywhere(s, show))
        /\ isText(everywhere(s, currentDatabase))
<1>1. isText(everywhere(s, operator))
  <2> DEFINE m == [i \in 1 .. Len(s) |-> operator(s, i)]
  <2>1. taken(s, m)
    BY TakesOperator DEF taken
  <2>2. everywhere(s, operator) = replaced(s, m)
    BY DEF everywhere
  <2> HIDE DEF m
  <2> QED  BY <2>1, <2>2, Replaced
<1>2. isText(everywhere(s, ilike))
  <2> DEFINE m == [i \in 1 .. Len(s) |-> ilike(s, i)]
  <2>1. taken(s, m)
    BY TakesIlike DEF taken
  <2>2. everywhere(s, ilike) = replaced(s, m)
    BY DEF everywhere
  <2> HIDE DEF m
  <2> QED  BY <2>1, <2>2, Replaced
<1>3. isText(everywhere(s, anyArray))
  <2> DEFINE m == [i \in 1 .. Len(s) |-> anyArray(s, i)]
  <2>1. taken(s, m)
    BY TakesAnyArray DEF taken
  <2>2. everywhere(s, anyArray) = replaced(s, m)
    BY DEF everywhere
  <2> HIDE DEF m
  <2> QED  BY <2>1, <2>2, Replaced
<1>4. isText(everywhere(s, anyBrace))
  <2> DEFINE m == [i \in 1 .. Len(s) |-> anyBrace(s, i)]
  <2>1. taken(s, m)
    BY TakesAnyBrace DEF taken
  <2>2. everywhere(s, anyBrace) = replaced(s, m)
    BY DEF everywhere
  <2> HIDE DEF m
  <2> QED  BY <2>1, <2>2, Replaced
<1>5. isText(everywhere(s, atTimeZone))
  <2> DEFINE m == [i \in 1 .. Len(s) |-> atTimeZone(s, i)]
  <2>1. taken(s, m)
    BY TakesAtTimeZone DEF taken
  <2>2. everywhere(s, atTimeZone) = replaced(s, m)
    BY DEF everywhere
  <2> HIDE DEF m
  <2> QED  BY <2>1, <2>2, Replaced
<1>6. isText(everywhere(s, stringAgg))
  <2> DEFINE m == [i \in 1 .. Len(s) |-> stringAgg(s, i)]
  <2>1. taken(s, m)
    BY TakesStringAgg DEF taken
  <2>2. everywhere(s, stringAgg) = replaced(s, m)
    BY DEF everywhere
  <2> HIDE DEF m
  <2> QED  BY <2>1, <2>2, Replaced
<1>7. isText(everywhere(s, unnest))
  <2> DEFINE m == [i \in 1 .. Len(s) |-> unnest(s, i)]
  <2>1. taken(s, m)
    BY TakesUnnest DEF taken
  <2>2. everywhere(s, unnest) = replaced(s, m)
    BY DEF everywhere
  <2> HIDE DEF m
  <2> QED  BY <2>1, <2>2, Replaced
<1>8. isText(everywhere(s, regclassOid))
  <2> DEFINE m == [i \in 1 .. Len(s) |-> regclassOid(s, i)]
  <2>1. taken(s, m)
    BY TakesRegclassOid DEF taken
  <2>2. everywhere(s, regclassOid) = replaced(s, m)
    BY DEF everywhere
  <2> HIDE DEF m
  <2> QED  BY <2>1, <2>2, Replaced
<1>9. isText(everywhere(s, regclassName))
  <2> DEFINE m == [i \in 1 .. Len(s) |-> regclassName(s, i)]
  <2>1. taken(s, m)
    BY TakesRegclassName DEF taken
  <2>2. everywhere(s, regclassName) = replaced(s, m)
    BY DEF everywhere
  <2> HIDE DEF m
  <2> QED  BY <2>1, <2>2, Replaced
<1>10. isText(everywhere(s, qualifier))
  <2> DEFINE m == [i \in 1 .. Len(s) |-> qualifier(s, i)]
  <2>1. taken(s, m)
    BY TakesQualifier DEF taken
  <2>2. everywhere(s, qualifier) = replaced(s, m)
    BY DEF everywhere
  <2> HIDE DEF m
  <2> QED  BY <2>1, <2>2, Replaced
<1>11. isText(everywhere(s, keywordsCall))
  <2> DEFINE m == [i \in 1 .. Len(s) |-> keywordsCall(s, i)]
  <2>1. taken(s, m)
    BY TakesKeywordsCall DEF taken
  <2>2. everywhere(s, keywordsCall) = replaced(s, m)
    BY DEF everywhere
  <2> HIDE DEF m
  <2> QED  BY <2>1, <2>2, Replaced
<1>12. isText(everywhere(s, cast))
  <2> DEFINE m == [i \in 1 .. Len(s) |-> cast(s, i)]
  <2>1. taken(s, m)
    BY TakesCast DEF taken
  <2>2. everywhere(s, cast) = replaced(s, m)
    BY DEF everywhere
  <2> HIDE DEF m
  <2> QED  BY <2>1, <2>2, Replaced
<1>13. isText(everywhere(s, systemFunction))
  <2> DEFINE m == [i \in 1 .. Len(s) |-> systemFunction(s, i)]
  <2>1. taken(s, m)
    BY TakesSystemFunction DEF taken
  <2>2. everywhere(s, systemFunction) = replaced(s, m)
    BY DEF everywhere
  <2> HIDE DEF m
  <2> QED  BY <2>1, <2>2, Replaced
<1>14. isText(everywhere(s, show))
  <2> DEFINE m == [i \in 1 .. Len(s) |-> show(s, i)]
  <2>1. taken(s, m)
    BY TakesShow DEF taken
  <2>2. everywhere(s, show) = replaced(s, m)
    BY DEF everywhere
  <2> HIDE DEF m
  <2> QED  BY <2>1, <2>2, Replaced
<1>15. isText(everywhere(s, currentDatabase))
  <2> DEFINE m == [i \in 1 .. Len(s) |-> currentDatabase(s, i)]
  <2>1. taken(s, m)
    BY TakesCurrentDatabase DEF taken
  <2>2. everywhere(s, currentDatabase) = replaced(s, m)
    BY DEF everywhere
  <2> HIDE DEF m
  <2> QED  BY <2>1, <2>2, Replaced
<1> QED  BY <1>1, <1>2, <1>3, <1>4, <1>5, <1>6, <1>7, <1>8, <1>9, <1>10, <1>11, <1>12, <1>13, <1>14, <1>15

\* A column of an expanded array.
LEMMA TakesUnnested ==
    ASSUME NEW s, NEW found, NEW t, isText(t), NEW i \in 1 .. Len(t)
    PROVE  within(t, i, unnested(s, found, t, i))
<1> DEFINE is(u, col) == continues(t, i, <<s[u.alias], ".", s[col]>>)
           values == {k \in found : is(unnestAt(s, k), unnestAt(s, k).valCol)}
           ordinals == {k \in found : unnestAt(s, k).ordCol # 0 /\ is(unnestAt(s, k), unnestAt(s, k).ordCol)}
<1>1. i \in Nat /\ i >= 1 /\ 3 \in Nat
  BY Takes
<1>2. \A a, b, c : continues(t, i, <<a, b, c>>) => i + 3 <= Len(t) + 1
  BY <1>1, Continues3, Zenon
<1>3. values # {} \/ ordinals # {} => i + 3 <= Len(t) + 1
  BY <1>2
<1>4. isText(<<t[i], ".", "value">>) /\ isText(<<"(", t[i], ".", "key + 1", ")">>)
  BY Tuples, Zenon
<1>5. /\ i + 3 <= Len(t) + 1 => /\ within(t, i, taking(3, <<t[i], ".", "value">>))
                                /\ within(t, i, taking(3, <<"(", t[i], ".", "key + 1", ")">>))
      /\ within(t, i, nothing)
  BY <1>1, <1>4, Takes, Zenon
<1>6. unnested(s, found, t, i) =
        IF values # {} THEN taking(3, <<t[i], ".", "value">>)
        ELSE IF ordinals # {} THEN taking(3, <<"(", t[i], ".", "key + 1", ")">>)
        ELSE nothing
  BY DEF unnested
<1> HIDE DEF values, ordinals
<1> QED  BY <1>3, <1>5, <1>6, Zenon

\* rewriteUnnest leaves a text.
LEMMA UnnestText ==
    ASSUME NEW s, isText(s)
    PROVE  isText(rewriteUnnest(s))
<1> DEFINE found == {i \in 1 .. Len(s) : unnestAt(s, i).found}
           t == everywhere(s, unnest)
           m == [i \in 1 .. Len(t) |-> unnested(s, found, t, i)]
<1>1. rewriteUnnest(s) = replaced(t, m)
  BY DEF rewriteUnnest
<1>2. isText(t)
  BY EveryPass
<1> HIDE DEF t, found
<1>3. taken(t, m)
  BY <1>2, TakesUnnested DEF taken
<1> HIDE DEF m
<1> QED  BY <1>1, <1>2, <1>3, Replaced

\* So do all the passes before the loops and after them, and the answers without SQLite.
LEMMA PassesText ==
    ASSUME NEW s, isText(s)
    PROVE  isText(passesBefore(s)) /\ isText(passesAfter(s)) /\ isText(Accepted(s))
<1>1. isText(passesBefore(s))
  BY DDLText, EveryPass DEF passesBefore
<1>2. isText(passesAfter(s))
  BY EveryPass, UnnestText DEF passesAfter
<1>3. isText(Accepted(s))
  <2>1. isText(<<"SELECT">> \o literalOf(<<"set">>)) /\ isText(<<>>)
    BY TextConcat, Tuples, Zenon DEF literalOf
  <2>2. ASSUME Len(s) > 1 PROVE isText(<<"SELECT">> \o literalOf(SubSeq(s, 1, 2)))
    <3>1. isText(SubSeq(s, 1, 2))
      BY <2>2, TextIn, TextPart
    <3> QED  BY <3>1, TextConcat, Tuples, Zenon DEF literalOf
  <2> QED  BY <2>1, <2>2 DEF Accepted
<1> QED  BY <1>1, <1>2, <1>3

-----------------------------------------------------------------------------
(* The iterations of the loops.                                              *)

\* findCall finds a call of the word, not before the place it starts at.
LEMMA CallFound ==
    ASSUME NEW s, isText(s), NEW word, NEW start1 \in Nat, findCall(s, word, start1) # 0
    PROVE  /\ findCall(s, word, start1) \in start1 .. Len(s) - 1
           /\ s[findCall(s, word, start1)] = word
           /\ s[findCall(s, word, start1) + 1] = "("
<1> DEFINE heads == {i \in start1 .. Len(s) - 1 : s[i] = word /\ s[i + 1] = "("}
<1>1. Len(s) \in Nat
  BY TextIn
<1>2. findCall(s, word, start1) = IF heads = {} THEN 0 ELSE least(heads)
  BY DEF findCall
<1>3. heads \in SUBSET Nat
  BY <1>1
<1>4. heads # {} /\ findCall(s, word, start1) = least(heads)
  BY <1>2
<1>5. findCall(s, word, start1) \in heads
  <2> HIDE DEF heads
  <2> QED  BY <1>3, <1>4, LeastIn
<1> QED  BY <1>5

\* The text and the length after a splice.
LEMMA SplicedText ==
    ASSUME NEW s, isText(s), NEW first \in 1 .. Len(s), NEW repl, isText(repl), NEW end \in first .. Len(s)
    PROVE  /\ isText(spliced(s, first, repl, end))
           /\ Len(spliced(s, first, repl, end)) = first - 1 + Len(repl) + Len(s) - end
           /\ Len(repl) \in Nat
<1> DEFINE head == SubSeq(s, 1, first - 1)
           tail == SubSeq(s, end + 1, Len(s))
<1>1. Len(s) \in Nat /\ first \in Nat /\ end \in Nat /\ Len(repl) \in Nat
  BY TextIn
<1>2. isText(head) /\ Len(head) = first - 1
  BY <1>1, TextPart
<1>3. isText(tail) /\ Len(tail) = Len(s) - end
  BY <1>1, TextPart
<1>4. spliced(s, first, repl, end) = head \o repl \o tail
  BY DEF spliced
<1> HIDE DEF head, tail
<1>5. isText(head \o repl) /\ Len(head \o repl) = first - 1 + Len(repl)
  BY <1>2, TextConcat
<1>6. isText((head \o repl) \o tail) /\ Len((head \o repl) \o tail) = (first - 1 + Len(repl)) + (Len(s) - end)
  BY <1>3, <1>5, TextConcat
<1> QED  BY <1>1, <1>4, <1>6

\* What TO_CHAR becomes.
LEMMA StrftimeText ==
    ASSUME NEW expr, isText(expr), NEW format, isText(format)
    PROVE  isText(strftime(expr, format))
<1> DEFINE f == [k \in DOMAIN format |-> IF format[k] = "MM" THEN "%m" ELSE format[k]]
           T == Range(format) \cup {"%m"}
<1>1. isText(f)
  <2>1. format \in Seq(T) /\ "%m" \in T
    BY TextIn
  <2> HIDE DEF T
  <2>2. Len(format) \in Nat /\ DOMAIN format = 1 .. Len(format) /\ \A k \in 1 .. Len(format) : format[k] \in T
    BY <2>1, LenProperties
  <2>3. f \in [1 .. Len(format) -> T]
    BY <2>1, <2>2
  <2> HIDE DEF f
  <2>4. f \in Seq(T)
    BY <2>2, <2>3, FunctionSeq
  <2> QED  BY <2>4, TextOf
<1>2. strftime(expr, format) = <<"strftime", "(", Quote>> \o f \o <<Quote, ",">> \o expr \o <<")">>
  BY DEF strftime
<1> HIDE DEF f
<1> QED  BY <1>1, <1>2, TextConcat, Tuples, Zenon

\* One argument of a CONCAT.
argument(a) == <<"coalesce", "(">> \o a \o <<",", Quote, Quote, ")">>
arguments(args) == [k \in DOMAIN args |-> argument(args[k])]

\* The arguments of a CONCAT, each in its coalesce.
LEMMA ArgumentsText ==
    ASSUME NEW args, areTexts(args)
    PROVE  /\ areTexts(arguments(args)) /\ Len(arguments(args)) = Len(args)
           /\ \A k \in 1 .. Len(args) : arguments(args)[k] = argument(args[k])
           /\ coalesced(args) = <<"(">> \o joined(arguments(args), <<"||">>) \o <<")">>
<1>1. Len(args) \in Nat /\ DOMAIN args = 1 .. Len(args)
  BY DEF areTexts
<1>2. ASSUME NEW a, isText(a) PROVE isText(argument(a))
  BY <1>2, TextConcat, Tuples, Zenon DEF argument
<1>3. Len(arguments(args)) = Len(args) /\ arguments(args) = [k \in 1 .. Len(arguments(args)) |-> arguments(args)[k]]
      /\ \A k \in 1 .. Len(args) : arguments(args)[k] = argument(args[k])
  BY <1>1 DEF arguments
<1>4. \A k \in 1 .. Len(args) : isText(arguments(args)[k])
  BY <1>2, <1>3 DEF areTexts
<1>5. coalesced(args) = <<"(">> \o joined(arguments(args), <<"||">>) \o <<")">>
  BY DEF coalesced, arguments, argument
<1> QED  BY <1>1, <1>3, <1>4, <1>5 DEF areTexts

\* What CONCAT becomes.
LEMMA CoalescedText ==
    ASSUME NEW args, areTexts(args)
    PROVE  isText(coalesced(args))
<1>1. isText(joined(arguments(args), <<"||">>))
  BY ArgumentsText, JoinedText, Tuples
<1> QED  BY <1>1, ArgumentsText, TextConcat, Tuples, Zenon

-----------------------------------------------------------------------------
(* A statement stays a text, on which the scanners are right.                *)

\* The inductive invariant: the text is one, and the search is within or after it.
TextInv == isText(q) /\ from \in Nat /\ from >= 1

\* The call that a loop has found, and what is in its parentheses.
LEMMA Called ==
    ASSUME TextInv, NEW word, NEW start1 \in Nat, start1 >= 1,
           findCall(q, word, start1) # 0, matchParen(q, findCall(q, word, start1) + 1) # 0
    PROVE  /\ findCall(q, word, start1) \in start1 .. Len(q) - 1
           /\ findCall(q, word, start1) \in 1 .. Len(q)
           /\ q[findCall(q, word, start1)] = word
           /\ matchParen(q, findCall(q, word, start1) + 1) \in findCall(q, word, start1) + 2 .. Len(q)
           /\ isText(SubSeq(q, findCall(q, word, start1) + 2, matchParen(q, findCall(q, word, start1) + 1) - 1))
<1> DEFINE first == findCall(q, word, start1)
           end == matchParen(q, first + 1)
<1>1. isText(q) /\ Len(q) \in Nat
  BY TextIn DEF TextInv
<1>2. first \in start1 .. Len(q) - 1 /\ q[first] = word /\ q[first + 1] = "("
  BY <1>1, CallFound
<1> HIDE DEF first
<1>3. first \in 1 .. Len(q) /\ first + 1 \in 1 .. Len(q) /\ first \in Nat
  BY <1>1, <1>2
<1>4. end # 0
  BY DEF first
<1>5. end \in first + 1 + 1 .. Len(q)
  BY <1>1, <1>2, <1>3, <1>4, ParenFound
<1> HIDE DEF end
<1>6. end \in first + 2 .. Len(q)
  BY <1>3, <1>5
<1>7. isText(SubSeq(q, first + 2, end - 1))
  BY <1>1, <1>3, <1>6, TextPart
<1> QED  BY <1>2, <1>3, <1>6, <1>7 DEF first, end

\* An iteration of rewriteToChar (rewrite.go:215-239) leaves what follows the call it
\* replaced,
LEMMA ToCharSteps ==
    ASSUME TextInv, TranslateToChar
    PROVE  /\ TextInv' /\ pass = "to_char" /\ pass' = pass
           /\ Len(q') + 1 - from' = Len(q) - toCharEnd
           /\ toCharEnd \in from + 2 .. Len(q)
<1> DEFINE a1 == toCharArgs[1]
           a2 == toCharArgs[2]
           repl == strftime(a1, inside(a2))
<1>1. /\ pass = "to_char" /\ toChar # 0 /\ toCharEnd # 0 /\ toCharFormat
      /\ q' = spliced(q, toChar, repl, toCharEnd) /\ from' = toChar + Len(repl) /\ pass' = pass
  BY DEF TranslateToChar
<1>2. isText(q) /\ Len(q) \in Nat /\ from \in Nat /\ from >= 1
  BY TextIn DEF TextInv
<1>3. /\ toChar \in from .. Len(q) - 1 /\ toChar \in 1 .. Len(q)
      /\ toCharEnd \in toChar + 2 .. Len(q)
      /\ isText(SubSeq(q, toChar + 2, toCharEnd - 1))
  BY <1>1, <1>2, Called DEF toChar, toCharEnd
<1>4. areTexts(toCharArgs)
  BY <1>3, ArgsText DEF toCharArgs
<1>5. Len(toCharArgs) = 2 /\ isLiteral(a2)
  BY <1>1 DEF toCharFormat
<1>6. isText(a1) /\ isText(a2)
  BY <1>4, <1>5 DEF areTexts
<1> HIDE DEF a1, a2
<1>7. isText(inside(a2))
  BY <1>6, TextIn, TextPart DEF inside
<1>8. isText(repl)
  BY <1>6, <1>7, StrftimeText
<1> HIDE DEF repl
<1>9. toCharEnd \in toChar .. Len(q) /\ toCharEnd \in from + 2 .. Len(q)
  BY <1>2, <1>3
<1>10. isText(q') /\ Len(q') = toChar - 1 + Len(repl) + Len(q) - toCharEnd /\ Len(repl) \in Nat
  BY <1>1, <1>2, <1>3, <1>8, <1>9, SplicedText
<1>11. from' \in Nat /\ from' >= 1 /\ Len(q') + 1 - from' = Len(q) - toCharEnd
  BY <1>1, <1>2, <1>3, <1>9, <1>10
<1> QED  BY <1>1, <1>9, <1>10, <1>11 DEF TextInv

\* or the call it left alone.
LEMMA SkipSteps ==
    ASSUME TextInv, SkipToChar
    PROVE  /\ TextInv' /\ pass = "to_char" /\ pass' = pass
           /\ Len(q') + 1 - from' = Len(q) - toCharEnd
           /\ toCharEnd \in from + 2 .. Len(q)
<1>1. /\ pass = "to_char" /\ toChar # 0 /\ toCharEnd # 0
      /\ q' = q /\ from' = toCharEnd + 1 /\ pass' = pass
  BY DEF SkipToChar
<1>2. isText(q) /\ Len(q) \in Nat /\ from \in Nat /\ from >= 1
  BY TextIn DEF TextInv
<1>3. toChar \in from .. Len(q) - 1 /\ toCharEnd \in toChar + 2 .. Len(q)
  BY <1>1, <1>2, Called DEF toChar, toCharEnd
<1>4. toCharEnd \in from + 2 .. Len(q) /\ from' \in Nat /\ from' >= 1
  BY <1>1, <1>2, <1>3
<1>5. Len(q') + 1 - from' = Len(q) - toCharEnd
  BY <1>1, <1>2, <1>4
<1>6. isText(q')
  BY <1>1, <1>2
<1> QED  BY <1>1, <1>4, <1>5, <1>6 DEF TextInv

\* An iteration of parseEnums (enum.go:136-162) leaves what follows the CHECK.
LEMMA EnumSteps ==
    ASSUME TextInv, FindEnum
    PROVE  /\ TextInv' /\ pass = "enums" /\ pass' = pass
           /\ Len(q') + 1 - from' = Len(q) - checkEnd
           /\ checkEnd \in from + 2 .. Len(q)
<1>1. /\ pass = "enums" /\ check # 0 /\ checkEnd # 0
      /\ q' = q /\ from' = checkEnd + 1 /\ pass' = pass
  BY DEF FindEnum
<1>2. isText(q) /\ Len(q) \in Nat /\ from \in Nat /\ from >= 1
  BY TextIn DEF TextInv
<1>3. check \in from .. Len(q) - 1 /\ checkEnd \in check + 2 .. Len(q)
  BY <1>1, <1>2, Called DEF check, checkEnd
<1>4. checkEnd \in from + 2 .. Len(q) /\ from' \in Nat /\ from' >= 1
  BY <1>1, <1>2, <1>3
<1>5. Len(q') + 1 - from' = Len(q) - checkEnd
  BY <1>1, <1>2, <1>4
<1>6. isText(q')
  BY <1>1, <1>2
<1> QED  BY <1>1, <1>4, <1>5, <1>6 DEF TextInv

\* How often a word occurs in a text.
places(s, w) == {i \in 1 .. Len(s) : s[i] = w}
count(s, w)  == Cardinality(places(s, w))

\* A count is a number, and zero if the word is nowhere.
LEMMA CountIs ==
    ASSUME NEW s, isText(s), NEW w
    PROVE  /\ IsFiniteSet(places(s, w)) /\ count(s, w) \in Nat
           /\ (\A i \in 1 .. Len(s) : s[i] # w) => count(s, w) = 0
<1>1. Len(s) \in Nat
  BY TextIn
<1>2. IsFiniteSet(1 .. Len(s)) /\ places(s, w) \in SUBSET (1 .. Len(s))
  BY <1>1, FS_Interval DEF places
<1>3. IsFiniteSet(places(s, w))
  BY <1>2, FS_Subset
<1>4. ASSUME \A i \in 1 .. Len(s) : s[i] # w PROVE places(s, w) = {}
  BY <1>4 DEF places
<1> QED  BY <1>3, <1>4, FS_CardinalityType, FS_EmptySet DEF count

\* The count in two texts is that of the one and that of the other.
LEMMA CountConcat ==
    ASSUME NEW s, NEW t, isText(s), isText(t), NEW w
    PROVE  count(s \o t, w) = count(s, w) + count(t, w)
<1> DEFINE n == Len(s)
           A == places(s, w)
           B == places(t, w)
           C == {n + i : i \in B}
           f == [i \in B |-> n + i]
<1>1. n \in Nat /\ Len(t) \in Nat /\ IsFiniteSet(A) /\ IsFiniteSet(B)
  BY TextIn, CountIs
<1>2. /\ Len(s \o t) = n + Len(t)
      /\ \A i \in 1 .. n : (s \o t)[i] = s[i]
      /\ \A i \in 1 .. Len(t) : (s \o t)[n + i] = t[i]
  BY TextConcat
<1>3. \A i \in A : i \in 1 .. n /\ s[i] = w
  BY DEF places
<1>4. \A i \in B : i \in 1 .. Len(t) /\ t[i] = w
  BY DEF places
<1>5. f \in Bijection(B, C)
  <2>1. f \in [B -> C] /\ \A c \in C : \E i \in B : f[i] = c
    OBVIOUS
  <2>2. \A i, j \in B : f[i] = f[j] => i = j
    BY <1>1, <1>4
  <2> HIDE DEF f, C, B
  <2> QED  BY <2>1, <2>2 DEF Bijection, Injection, Surjection, IsInjective
<1>6. IsFiniteSet(C) /\ Cardinality(C) = Cardinality(B)
  <2>1. ExistsBijection(B, C)
    BY <1>5 DEF ExistsBijection
  <2> HIDE DEF B, C
  <2> QED  BY <1>1, <2>1, FS_Bijection
<1>7. A \cap C = {}
  BY <1>1, <1>3, <1>4
<1>8. places(s \o t, w) = A \cup C
  <2>1. ASSUME NEW i \in places(s \o t, w) PROVE i \in A \cup C
    <3>1. i \in 1 .. n + Len(t) /\ (s \o t)[i] = w
      BY <1>2 DEF places
    <3>2. CASE i <= n
      <4>1. i \in 1 .. n /\ s[i] = w
        BY <1>1, <1>2, <3>1, <3>2
      <4> QED  BY <4>1 DEF places
    <3>3. CASE ~(i <= n)
      <4>1. i - n \in 1 .. Len(t) /\ n + (i - n) = i
        BY <1>1, <3>1, <3>3
      <4>2. t[i - n] = w
        BY <1>2, <3>1, <4>1
      <4>3. i - n \in B
        BY <4>1, <4>2 DEF places
      <4> QED  BY <4>1, <4>3
    <3> QED  BY <3>2, <3>3
  <2>2. ASSUME NEW i \in A PROVE i \in places(s \o t, w)
    <3>1. i \in 1 .. n + Len(t) /\ (s \o t)[i] = w
      BY <1>1, <1>2, <1>3
    <3> QED  BY <1>2, <3>1 DEF places
  <2>3. ASSUME NEW i \in B PROVE n + i \in places(s \o t, w)
    <3>1. n + i \in 1 .. n + Len(t) /\ (s \o t)[n + i] = w
      BY <1>1, <1>2, <1>4
    <3> QED  BY <1>2, <3>1 DEF places
  <2> QED  BY <2>1, <2>2, <2>3
<1> HIDE DEF A, B, C
<1>9. Cardinality(A \cup C) = Cardinality(A) + Cardinality(C)
  <2>1. Cardinality(A \cup C) = Cardinality(A) + Cardinality(C) - Cardinality(A \cap C)
    BY <1>1, <1>6, FS_Union
  <2>2. Cardinality(A) \in Nat /\ Cardinality(C) \in Nat /\ Cardinality({}) = 0
    BY <1>1, <1>6, FS_CardinalityType, FS_EmptySet
  <2>3. Cardinality(A \cap C) = 0
    BY <1>7, <2>2, Zenon
  <2> DEFINE both == A \cup C
             common == A \cap C
  <2> HIDE DEF both, common
  <2>4. Cardinality(both) = Cardinality(A) + Cardinality(C) - Cardinality(common) /\ Cardinality(common) = 0
    BY <2>1, <2>3 DEF both, common
  <2> QED  BY <2>2, <2>4 DEF both
<1> QED  BY <1>6, <1>8, <1>9 DEF count, A, B

\* Pieces with a word as often hold it as often when they are put together.
LEMMA CountJoined ==
    ASSUME NEW p, NEW r, areTexts(p), areTexts(r), Len(p) = Len(r), Len(p) >= 1,
           NEW b, NEW c, isText(b), isText(c), NEW w, count(b, w) = 0, count(c, w) = 0,
           \A k \in 1 .. Len(p) : count(p[k], w) = count(r[k], w)
    PROVE  count(joined(p, b), w) = count(joined(r, c), w)
<1> DEFINE n == Len(p)
           T == allOf(p) \cup allOf(r) \cup Range(b) \cup Range(c)
           u == parted(p, b)
           v == parted(r, c)
<1>1. p \in Seq(Seq(T)) /\ r \in Seq(Seq(T))
  BY PiecesIn
<1>2. b \in Seq(T) /\ c \in Seq(T)
  <2>1. Range(b) \cup T = T /\ Range(c) \cup T = T
    OBVIOUS
  <2> QED  BY <2>1, TextIn
<1> HIDE DEF T
<1>3. n \in Nat /\ p # <<>> /\ r # <<>>
  <2>1. n \in Nat /\ n = Len(r) /\ n >= 1
    BY DEF areTexts
  <2> HIDE DEF n
  <2>2. Len(<<>>) = 0
    OBVIOUS
  <2> QED  BY <2>1, <2>2 DEF n
<1>4. /\ Len(u) = n /\ u \in Seq(Seq(T)) /\ u # <<>> /\ u[1] = p[1]
      /\ \A i \in 2 .. n : u[i] = b \o p[i]
      /\ joined(p, b) = flat(u)[n]
  BY <1>1, <1>2, <1>3, Parted
<1>5. /\ Len(v) = n /\ v \in Seq(Seq(T)) /\ v # <<>> /\ v[1] = r[1]
      /\ \A i \in 2 .. n : v[i] = c \o r[i]
      /\ joined(r, c) = flat(v)[n]
  BY <1>1, <1>2, <1>3, Parted
<1>6. \A i \in 1 .. n : isText(p[i]) /\ isText(r[i]) /\ count(p[i], w) = count(r[i], w)
  BY DEF areTexts
<1>7. \A i \in 1 .. n : isText(p[i]) /\ isText(r[i]) /\ count(p[i], w) \in Nat /\ count(p[i], w) = count(r[i], w)
  BY <1>6, CountIs
<1> HIDE DEF u, v
<1>8. /\ flat(u)[1] = u[1] /\ \A i \in 2 .. n : flat(u)[i] = flat(u)[i - 1] \o u[i]
      /\ \A i \in 1 .. n : isText(flat(u)[i])
  BY <1>4, FlatSteps, TextOf
<1>9. /\ flat(v)[1] = v[1] /\ \A i \in 2 .. n : flat(v)[i] = flat(v)[i - 1] \o v[i]
      /\ \A i \in 1 .. n : isText(flat(v)[i])
  BY <1>5, FlatSteps, TextOf
<1> DEFINE P == {i \in 1 .. n : count(flat(u)[i], w) = count(flat(v)[i], w)}
<1>10. 1 \in P
  BY <1>3, <1>4, <1>5, <1>6, <1>8, <1>9
<1>11. ASSUME NEW i \in 1 .. n - 1, i \in P PROVE i + 1 \in P
  <2> DEFINE j == i + 1
  <2>1. j \in 2 .. n /\ j \in 1 .. n /\ j - 1 = i /\ i \in 1 .. n
    BY <1>3
  <2> HIDE DEF j
  <2>2. /\ isText(u[j]) /\ isText(v[j]) /\ count(u[j], w) = count(v[j], w)
    <3>1. u[j] = b \o p[j] /\ v[j] = c \o r[j]
      BY <1>4, <1>5, <2>1
    <3>2. isText(p[j]) /\ isText(r[j]) /\ count(p[j], w) \in Nat /\ count(p[j], w) = count(r[j], w)
      BY <1>7, <2>1
    <3>3. isText(b \o p[j]) /\ isText(c \o r[j])
      BY <3>2, TextConcat
    <3>4. count(b \o p[j], w) = count(b, w) + count(p[j], w) /\ count(c \o r[j], w) = count(c, w) + count(r[j], w)
      BY <3>2, CountConcat
    <3> QED  BY <3>1, <3>2, <3>3, <3>4
  <2>3. flat(u)[j] = flat(u)[i] \o u[j] /\ flat(v)[j] = flat(v)[i] \o v[j] /\ isText(flat(u)[i]) /\ isText(flat(v)[i])
    BY <1>8, <1>9, <2>1
  <2>4. count(flat(u)[j], w) = count(flat(u)[i], w) + count(u[j], w)
    BY <2>2, <2>3, CountConcat
  <2>5. count(flat(v)[j], w) = count(flat(v)[i], w) + count(v[j], w)
    BY <2>2, <2>3, CountConcat
  <2>6. count(flat(u)[j], w) = count(flat(v)[j], w)
    BY <1>11, <2>2, <2>4, <2>5
  <2> QED  BY <2>1, <2>6 DEF j
<1>12. n \in P
  <2>1. inductive(P, 1, n) /\ 1 \in Int /\ n \in Int /\ n \in 1 .. n
    BY <1>3, <1>10, <1>11 DEF inductive
  <2> HIDE DEF P, n
  <2> QED  BY <2>1, Upwards
<1> QED  BY <1>4, <1>5, <1>12

\* What TranslateConcat puts in has the words of the arguments.
LEMMA CountCoalesced ==
    ASSUME NEW mid, isText(mid)
    PROVE  count(coalesced(splitArgs(mid)), "concat") = count(mid, "concat")
<1> DEFINE args == splitArgs(mid)
           w == "concat"
           N(s) == count(s, w)
           T == Range(mid) \cup {","}
           head == <<"coalesce", "(">>
           tail == <<",", Quote, Quote, ")">>
           open == <<"(">>
           close == <<")">>
           comma == <<",">>
           bars == <<"||">>
<1>1. areTexts(args) /\ Len(args) >= 1
  BY ArgsText
<1>2. isText(head) /\ isText(tail) /\ isText(open) /\ isText(close) /\ isText(comma) /\ isText(bars)
  BY Tuples, Zenon
<1>3. N(head) = 0 /\ N(tail) = 0 /\ N(open) = 0 /\ N(close) = 0 /\ N(comma) = 0 /\ N(bars) = 0
  <2>1. \A i \in 1 .. Len(head) : head[i] # w
    OBVIOUS
  <2>2. \A i \in 1 .. Len(tail) : tail[i] # w
    <3>1. tail[1] # w
      OBVIOUS
    <3>2. tail[2] # w /\ tail[3] # w /\ tail[4] # w
      BY DEF Quote
    <3>3. Len(tail) = 4
      OBVIOUS
    <3> HIDE DEF tail, w
    <3> QED  BY <3>1, <3>2, <3>3
  <2>3. \A i \in 1 .. Len(open) : open[i] # w
    OBVIOUS
  <2>4. \A i \in 1 .. Len(close) : close[i] # w
    OBVIOUS
  <2>5. \A i \in 1 .. Len(comma) : comma[i] # w
    <3>1. comma[1] # w /\ Len(comma) = 1
      OBVIOUS
    <3> HIDE DEF comma, w
    <3> QED  BY <3>1
  <2>6. \A i \in 1 .. Len(bars) : bars[i] # w
    OBVIOUS
  <2> HIDE DEF head, tail, open, close, comma, bars, w
  <2> QED  BY <1>2, <2>1, <2>2, <2>3, <2>4, <2>5, <2>6, CountIs
<1>4. joined(args, comma) = mid
  <2>1. mid \in Seq(T) /\ "," \in T
    BY TextIn
  <2> HIDE DEF T
  <2> QED  BY <2>1, ArgsSplit
<1>5. /\ areTexts(arguments(args)) /\ Len(arguments(args)) = Len(args)
      /\ \A k \in 1 .. Len(args) : arguments(args)[k] = argument(args[k])
      /\ coalesced(args) = open \o joined(arguments(args), bars) \o close
  BY <1>1, ArgumentsText
<1>6. \A a : argument(a) = head \o a \o tail
  BY DEF argument
<1> HIDE DEF head, tail, open, close, comma, bars, w, N, args
<1>7. ASSUME NEW a, NEW b, isText(a), isText(b) PROVE isText(a \o b) /\ N(a \o b) = N(a) + N(b) /\ N(a) \in Nat /\ N(b) \in Nat
  BY <1>7, CountConcat, CountIs, TextConcat DEF N
<1>8. ASSUME NEW k \in 1 .. Len(args) PROVE N(args[k]) = N(arguments(args)[k])
  <2> DEFINE a == args[k]
  <2>1. isText(a)
    BY <1>1 DEF areTexts
  <2>2. arguments(args)[k] = head \o a \o tail
    BY <1>5, <1>6
  <2> HIDE DEF a
  <2>3. isText(head \o a) /\ N(head \o a) = N(a) /\ N(a) \in Nat
    BY <1>2, <1>3, <1>7, <2>1
  <2>4. N((head \o a) \o tail) = N(a)
    BY <1>2, <1>3, <1>7, <2>3
  <2> QED  BY <2>2, <2>4 DEF a
<1>9. N(joined(args, comma)) = N(joined(arguments(args), bars))
  <2> DEFINE r == arguments(args)
  <2>1. /\ areTexts(args) /\ areTexts(r) /\ Len(args) = Len(r) /\ Len(args) >= 1
        /\ isText(comma) /\ isText(bars) /\ count(comma, w) = 0 /\ count(bars, w) = 0
        /\ \A k \in 1 .. Len(args) : count(args[k], w) = count(r[k], w)
    BY <1>1, <1>2, <1>3, <1>5, <1>8 DEF N
  <2> HIDE DEF r
  <2>2. count(joined(args, comma), w) = count(joined(r, bars), w)
    BY <2>1, CountJoined
  <2> QED  BY <2>2 DEF N, r
<1>10. N(coalesced(args)) = N(joined(arguments(args), bars))
  <2> DEFINE j == joined(arguments(args), bars)
  <2>1. isText(j)
    BY <1>2, <1>5, JoinedText
  <2>2. coalesced(args) = open \o j \o close
    BY <1>5
  <2> HIDE DEF j
  <2>3. isText(open \o j) /\ N(open \o j) = N(j) /\ N(j) \in Nat
    BY <1>2, <1>3, <1>7, <2>1
  <2>4. N((open \o j) \o close) = N(j)
    BY <1>2, <1>3, <1>7, <2>3
  <2> QED  BY <2>2, <2>4 DEF j
<1> QED  BY <1>4, <1>9, <1>10 DEF N, w, args

\* Two stretches of a text that follow each other.
adjacent(s, m, k, l, n) ==
    m \in 1 .. Len(s) + 1 /\ k \in m - 1 .. Len(s) /\ l = k + 1 /\ n \in k .. Len(s)

\* The count in two stretches that follow each other.
LEMMA CountParts ==
    ASSUME NEW s, isText(s), NEW m, NEW k, NEW l, NEW n, adjacent(s, m, k, l, n), NEW w
    PROVE  /\ count(SubSeq(s, m, n), w) = count(SubSeq(s, m, k), w) + count(SubSeq(s, l, n), w)
           /\ count(SubSeq(s, m, k), w) \in Nat /\ count(SubSeq(s, l, n), w) \in Nat
<1> DEFINE x == SubSeq(s, m, k)
           y == SubSeq(s, l, n)
<1>1. Len(s) \in Nat /\ s \in Seq(Range(s))
  BY TextIn DEF isText
<1>2. m \in 1 .. Len(s) + 1 /\ k \in m - 1 .. Len(s) /\ l = k + 1 /\ n \in k .. Len(s)
  BY DEF adjacent
<1>3. x \o y = SubSeq(s, m, n)
  BY <1>1, <1>2, ConcatAdjacentSubSeq
<1>4. isText(x) /\ isText(y)
  BY <1>1, <1>2, TextPart
<1> HIDE DEF x, y
<1>5. count(x \o y, w) = count(x, w) + count(y, w) /\ count(x, w) \in Nat /\ count(y, w) \in Nat
  BY <1>4, CountConcat, CountIs
<1> QED  BY <1>3, <1>5 DEF x, y

\* An iteration of rewriteConcat (rewrite.go:244-263) leaves fewer words CONCAT: the one
\* it replaced is gone, and the arguments keep theirs.
LEMMA ConcatSteps ==
    ASSUME TextInv, TranslateConcat
    PROVE  /\ TextInv' /\ pass = "concat" /\ pass' = pass
           /\ count(q', "concat") < count(q, "concat")
           /\ count(q', "concat") \in Nat /\ count(q, "concat") \in Nat
<1> DEFINE w == "concat"
           mid == SubSeq(q, concat + 2, concatEnd - 1)
           repl == coalesced(concatArgs)
           head == SubSeq(q, 1, concat - 1)
           tail == SubSeq(q, concatEnd + 1, Len(q))
           call == SubSeq(q, concat, concatEnd)
           first == concat
           last == concatEnd
<1>1. /\ pass = "concat" /\ first # 0 /\ last # 0 /\ from' = from /\ pass' = pass
      /\ q' = spliced(q, first, repl, last) /\ concatArgs = splitArgs(mid)
  BY DEF TranslateConcat, concatArgs
<1>2. isText(q) /\ Len(q) \in Nat /\ from \in Nat /\ from >= 1
  BY TextIn DEF TextInv
<1>3. /\ first \in 1 .. Len(q) - 1 /\ q[first] = w /\ last \in first + 2 .. Len(q) /\ isText(mid)
  <2>1. 1 \in Nat /\ 1 >= 1
    OBVIOUS
  <2> QED  BY <1>1, <2>1, Called DEF concat, concatEnd
<1>4. count(repl, w) = count(mid, w) /\ isText(repl)
  <2>1. areTexts(splitArgs(mid))
    BY <1>3, ArgsText
  <2> QED  BY <1>1, <1>3, <2>1, CountCoalesced, CoalescedText
<1>5. first \in Nat /\ last \in Nat /\ first >= 1 /\ last >= first + 2 /\ last <= Len(q)
  BY <1>2, <1>3
<1>6. isText(head) /\ isText(tail) /\ isText(call)
  BY <1>2, <1>5, TextPart
<1>7. q' = head \o repl \o tail
  BY <1>1 DEF spliced
<1>8. count(q, w) = count(head, w) + count(call, w) + count(tail, w)
      /\ count(head, w) \in Nat /\ count(call, w) \in Nat /\ count(tail, w) \in Nat
  <2>1. SubSeq(q, 1, Len(q)) = q
    BY <1>2, SubSeqFull DEF isText
  <2>2. count(SubSeq(q, 1, Len(q)), w) = count(SubSeq(q, 1, last), w) + count(tail, w)
    <3>1. adjacent(q, 1, last, last + 1, Len(q))
      BY <1>2, <1>5 DEF adjacent
    <3> HIDE DEF w, last
    <3> QED  BY <1>2, <3>1, CountParts DEF last
  <2>3. count(SubSeq(q, 1, last), w) = count(head, w) + count(call, w)
    <3>1. adjacent(q, 1, first - 1, first, last)
      BY <1>2, <1>5 DEF adjacent
    <3> HIDE DEF w, last, first
    <3> QED  BY <1>2, <3>1, CountParts DEF last, first
  <2>5. count(head, w) \in Nat /\ count(call, w) \in Nat /\ count(tail, w) \in Nat
    BY <1>6, CountIs
  <2> QED  BY <2>1, <2>2, <2>3, <2>5
<1>9. count(call, w) >= 1 + count(mid, w)
  <2> DEFINE rest == SubSeq(q, first + 1, last)
             rest2 == SubSeq(q, first + 2, last)
  <2>1. count(call, w) = count(SubSeq(q, first, first), w) + count(rest, w)
    <3>1. adjacent(q, first, first, first + 1, last)
      BY <1>2, <1>5 DEF adjacent
    <3> HIDE DEF w
    <3> QED  BY <1>2, <3>1, CountParts
  <2>2. count(rest, w) = count(SubSeq(q, first + 1, first + 1), w) + count(rest2, w)
        /\ count(SubSeq(q, first + 1, first + 1), w) \in Nat
    <3>1. adjacent(q, first + 1, first + 1, first + 2, last)
      BY <1>2, <1>5 DEF adjacent
    <3> HIDE DEF w
    <3> QED  BY <1>2, <3>1, CountParts
  <2>3. count(rest2, w) = count(SubSeq(q, first + 2, last - 1), w) + count(SubSeq(q, last, last), w)
        /\ count(SubSeq(q, last, last), w) \in Nat
    <3>1. adjacent(q, first + 2, last - 1, last, last)
      BY <1>2, <1>5 DEF adjacent
    <3> HIDE DEF w
    <3> QED  BY <1>2, <3>1, CountParts
  <2>5. count(SubSeq(q, first, first), w) = 1
    <3> DEFINE one == SubSeq(q, first, first)
    <3>1. Len(one) = 1 /\ one[1] = w
      BY <1>2, <1>3, <1>5, TextPart
    <3> HIDE DEF one
    <3>2. places(one, w) = {1}
      BY <3>1 DEF places
    <3> QED  BY <3>2, FS_Singleton DEF count, one
  <2>6. count(mid, w) \in Nat
    BY <1>3, CountIs
  <2> HIDE DEF w, first, last
  <2>7. mid = SubSeq(q, first + 2, last - 1)
    BY DEF first, last
  <2> HIDE DEF mid, rest, rest2, call
  <2> QED  BY <2>1, <2>2, <2>3, <2>5, <2>6, <2>7
<1>10. count(q', w) = count(head, w) + count(repl, w) + count(tail, w) /\ count(repl, w) \in Nat
  <2> HIDE DEF head, repl, tail, w
  <2>1. isText(head \o repl) /\ count(head \o repl, w) = count(head, w) + count(repl, w)
    BY <1>4, <1>6, TextConcat, CountConcat
  <2>2. count((head \o repl) \o tail, w) = count(head \o repl, w) + count(tail, w)
    BY <1>6, <2>1, CountConcat
  <2>3. count(repl, w) \in Nat
    BY <1>4, CountIs
  <2> QED  BY <1>7, <2>1, <2>2, <2>3
<1>11. isText(q')
  <2>1. first \in 1 .. Len(q) /\ last \in first .. Len(q)
    BY <1>2, <1>5
  <2> HIDE DEF first, last, repl
  <2> QED  BY <1>1, <1>2, <1>4, <2>1, SplicedText
<1> HIDE DEF w, mid, repl, head, tail, call
<1>12. count(q', w) < count(q, w) /\ count(q', w) \in Nat /\ count(q, w) \in Nat
  BY <1>4, <1>8, <1>9, <1>10
<1> QED  BY <1>1, <1>2, <1>11, <1>12 DEF TextInv, w

-----------------------------------------------------------------------------
(* Every step.                                                               *)

\* The steps that are no iteration go to a later pass.
LEMMA PassSteps ==
    ASSUME TextInv, Accept \/ Before \/ After \/ NoToChar \/ NoConcat \/ NoEnums
    PROVE  TextInv' /\ order[pass'] > order[pass]
<1>1. isText(q) /\ from \in Nat /\ from >= 1
  BY DEF TextInv
<1>2. CASE Accept
  <2>1. isText(q')
    BY <1>1, <1>2, PassesText DEF Accept
  <2> QED  BY <1>1, <1>2, <2>1 DEF Accept, TextInv, order
<1>3. CASE Before
  <2>1. isText(q')
    BY <1>1, <1>3, PassesText DEF Before
  <2> QED  BY <1>1, <1>3, <2>1 DEF Before, TextInv, order
<1>4. CASE After
  <2>1. isText(q')
    BY <1>1, <1>4, PassesText DEF After
  <2> QED  BY <1>1, <1>4, <2>1 DEF After, TextInv, order
<1>5. CASE NoToChar
  <2>1. isText(q')
    BY <1>1, <1>5, EveryPass DEF NoToChar
  <2> QED  BY <1>1, <1>5, <2>1 DEF NoToChar, TextInv, order
<1>6. CASE NoConcat
  BY <1>1, <1>6 DEF NoConcat, TextInv, order
<1>7. CASE NoEnums
  BY <1>1, <1>7 DEF NoEnums, TextInv, order
<1> QED  BY <1>2, <1>3, <1>4, <1>5, <1>6, <1>7

\* No step leaves anything but a text.
LEMMA EveryStep ==
    ASSUME TextInv, [Next]_vars
    PROVE  TextInv'
<1>1. CASE UNCHANGED vars
  BY <1>1 DEF vars, TextInv
<1>2. CASE Accept \/ Before \/ After \/ NoToChar \/ NoConcat \/ NoEnums
  BY <1>2, PassSteps
<1>3. CASE TranslateToChar
  BY <1>3, ToCharSteps
<1>4. CASE SkipToChar
  BY <1>4, SkipSteps
<1>5. CASE TranslateConcat
  BY <1>5, ConcatSteps
<1>6. CASE FindEnum
  BY <1>6, EnumSteps
<1> QED  BY <1>1, <1>2, <1>3, <1>4, <1>5, <1>6 DEF Next

\* A statement is a text all the way through rewrite.go, and the searches start
\* within it or after it.
THEOREM StaysText == Spec => []TextInv
<1>1. Init => TextInv
  BY TextsAssumption DEF Init, start, TextInv
<1> QED  BY <1>1, EveryStep, PTL DEF Spec

\* matchParen and splitArgs read the quotes and parentheses of every statement as
\* SQL does, whatever it is and however far it has been rewritten (rewrite.go:303
\* and 333).
THEOREM Scanners == Spec => []ScannersCorrect
<1>1. TextInv => ScannersCorrect
  BY Correct DEF TextInv
<1> QED  BY <1>1, StaysText, PTL

\* The loops of rewriteToChar, rewriteConcat and parseEnums end on every statement:
\* an iteration leaves less of the text, or fewer words CONCAT in it.
THEOREM LoopsEnd == Spec => Progresses
<1> DEFINE less == pass' = pass /\ left' < left /\ left' >= 0
<1>1. ASSUME TextInv, Next PROVE order[pass'] > order[pass] \/ less
  <2>1. isText(q) /\ Len(q) \in Nat /\ from \in Nat
    BY <1>1, TextIn DEF TextInv
  <2>2. CASE Accept \/ Before \/ After \/ NoToChar \/ NoConcat \/ NoEnums
    BY <1>1, <2>2, PassSteps
  <2>3. CASE TranslateToChar
    <3>1. /\ pass = "to_char" /\ pass' = pass /\ toCharEnd \in from + 2 .. Len(q)
          /\ Len(q') + 1 - from' = Len(q) - toCharEnd
      BY <1>1, <2>3, ToCharSteps
    <3>2. left = Len(q) + 1 - from /\ left' = Len(q) - toCharEnd
      BY <3>1 DEF left
    <3> QED  BY <2>1, <3>1, <3>2
  <2>4. CASE SkipToChar
    <3>1. /\ pass = "to_char" /\ pass' = pass /\ toCharEnd \in from + 2 .. Len(q)
          /\ Len(q') + 1 - from' = Len(q) - toCharEnd
      BY <1>1, <2>4, SkipSteps
    <3>2. left = Len(q) + 1 - from /\ left' = Len(q) - toCharEnd
      BY <3>1 DEF left
    <3> QED  BY <2>1, <3>1, <3>2
  <2>5. CASE TranslateConcat
    <3>1. /\ pass = "concat" /\ pass' = pass /\ count(q', "concat") < count(q, "concat")
          /\ count(q', "concat") \in Nat
      BY <1>1, <2>5, ConcatSteps
    <3>2. left = count(q, "concat") /\ left' = count(q', "concat")
      BY <3>1 DEF left, count, places
    <3> QED  BY <3>1, <3>2
  <2>6. CASE FindEnum
    <3>1. /\ pass = "enums" /\ pass' = pass /\ checkEnd \in from + 2 .. Len(q)
          /\ Len(q') + 1 - from' = Len(q) - checkEnd
      BY <1>1, <2>6, EnumSteps
    <3>2. left = Len(q) + 1 - from /\ left' = Len(q) - checkEnd
      BY <3>1 DEF left
    <3> QED  BY <2>1, <3>1, <3>2
  <2> QED  BY <1>1, <2>2, <2>3, <2>4, <2>5, <2>6 DEF Next
<1>2. TextInv /\ [Next]_vars => [order[pass'] > order[pass] \/ less]_vars
  BY <1>1
<1> QED  BY <1>2, StaysText, PTL DEF Spec, Progresses

\* A word, what is between its parentheses, and the last of them.
called(w, x) == (<<w, "(">> \o x) \o <<")">>

\* A call of a word is as well-formed as what is in it.
LEMMA CalledFormed ==
    ASSUME NEW w, w \notin {Quote, "(", ")"}, NEW x, formed(x)
    PROVE  formed(called(w, x)) /\ insideLiterals(called(w, x)) = insideLiterals(x)
<1> DEFINE a == <<w, "(">>
<1>1. leads(a, 0, 1) /\ insideLiterals(a) = {}
  <2>1. leads(<<w>>, 0, 0) /\ insideLiterals(<<w>>) = {}
    BY LeadsToken
  <2>2. leads(<<w>> \o <<"(">>, 0, 0 + 1) /\ insideLiterals(<<w>> \o <<"(">>) = {}
    <3>1. "(" # Quote
      BY DEF Quote
    <3> QED  BY <2>1, <3>1, LeadsMore
  <2>3. <<w>> \o <<"(">> = a
    BY TuplesOn
  <2> HIDE DEF a
  <2>4. 0 + 1 = 1
    OBVIOUS
  <2> QED  BY <2>2, <2>3, <2>4
<1>2. leads(x, 1, 1)
  <2>1. leads(x, 0 + 1, 0 + 1)
    BY LeadsDeeper DEF formed
  <2> QED  BY <2>1
<1> HIDE DEF a
<1> DEFINE y == a \o x
<1>3. leads(y, 0, 1) /\ insideLiterals(y) = insideLiterals(x)
  <2>1. leads(a \o x, 0, 1) /\ insideLiterals(a \o x) = insideLiterals(a) \cup insideLiterals(x)
    BY <1>1, <1>2, LeadsOn
  <2> QED  BY <1>1, <2>1
<1> HIDE DEF y
<1>4. leads(y \o <<")">>, 0, 1 - 1) /\ insideLiterals(y \o <<")">>) = insideLiterals(y)
  <2>1. ")" # Quote /\ 1 >= 1
    BY DEF Quote
  <2> QED  BY <1>3, <2>1, LeadsMore
<1>5. 1 - 1 = 0
  OBVIOUS
<1> QED  BY <1>3, <1>4, <1>5 DEF formed, called, y, a

\* The first of three texts reads as it does alone.
LEMMA ReadFirst ==
    ASSUME NEW a, NEW x, NEW b, isText(a), isText(x), isText(b)
    PROVE  \A i \in 0 .. Len(a) : reading((a \o x) \o b, 1)[i] = reading(a, 1)[i]
<1> DEFINE y == x \o b
<1>1. isText(y) /\ (a \o x) \o b = a \o y
  BY TextConcat, TextsAssociative
<1> HIDE DEF y
<1>2. \A i \in 0 .. Len(a) : reading(a \o y, 1)[i] = reading(a, 1)[i]
  BY <1>1, ReadConcat
<1> QED  BY <1>1, <1>2

\* A call outside literals, the text before it and the text after it.
LEMMA ReadCall ==
    ASSUME NEW s, isText(s), NEW w, w \notin {Quote, "(", ")"}, NEW p \in 1 .. Len(s) - 1,
           s[p] = w, s[p + 1] = "(", ~reading(s, 1)[p].inside, matchParen(s, p + 1) # 0
    PROVE  LET end == matchParen(s, p + 1)
               a == SubSeq(s, 1, p - 1)
               x == SubSeq(s, p + 2, end - 1)
               b == SubSeq(s, end + 1, Len(s))
           IN /\ s = (a \o called(w, x)) \o b
              /\ isText(a) /\ isText(x) /\ isText(b) /\ isText(called(w, x))
              /\ ~after(a).inside /\ formed(x)
              /\ Len(a) = p - 1 /\ Len(a \o called(w, x)) = end
<1> DEFINE n == Len(s)
           end == matchParen(s, p + 1)
           a == SubSeq(s, 1, p - 1)
           x == SubSeq(s, p + 2, end - 1)
           b == SubSeq(s, end + 1, n)
           call == SubSeq(s, p, end)
           m == end - p - 2
<1>1. n \in Nat /\ p \in Nat /\ 1 <= p /\ p + 1 <= n /\ p + 1 \in 1 .. n
  BY TextIn
<1>2. end \in p + 2 .. n /\ s[end] = ")"
  <2>1. end \in p + 1 + 1 .. n /\ s[end] = ")"
    BY <1>1, ParenFound
  <2> HIDE DEF end, n
  <2>2. p + 1 + 1 = p + 2
    BY <1>1
  <2> QED  BY <2>1, <2>2
<1> HIDE DEF end, n
<1>3. end \in Nat /\ p + 2 <= end /\ end <= n /\ m \in Nat
  BY <1>1, <1>2
<1>4. formed(x)
  <2>1. formed(SubSeq(s, p + 1 + 1, matchParen(s, p + 1) - 1))
    BY <1>1, BodyFormed DEF n
  <2>2. p + 1 + 1 = p + 2
    BY <1>1
  <2> QED  BY <2>1, <2>2 DEF end
<1>5. /\ isText(x) /\ Len(x) = m /\ \A i \in 1 .. m : x[i] = s[p + 1 + i]
  <2>1. /\ isText(x) /\ Len(x) = IF p + 2 <= end - 1 THEN (end - 1) - (p + 2) + 1 ELSE 0
        /\ \A i \in 1 .. (end - 1) - (p + 2) + 1 : x[i] = s[p + 2 + i - 1]
    <3>1. p + 2 \in Int /\ p + 2 >= 1 /\ end - 1 \in Int /\ end - 1 <= Len(s)
      BY <1>1, <1>3 DEF n
    <3> QED  BY <3>1, TextPart
  <2>2. /\ (end - 1) - (p + 2) + 1 = m /\ \A i \in 1 .. m : p + 2 + i - 1 = p + 1 + i
        /\ (IF p + 2 <= end - 1 THEN (end - 1) - (p + 2) + 1 ELSE 0) = m
    BY <1>1, <1>3
  <2> HIDE DEF x, m
  <2> QED  BY <2>1, <2>2
<1>6. /\ isText(call) /\ Len(call) = m + 3 /\ \A i \in 1 .. m + 3 : call[i] = s[p + i - 1]
  <2>1. /\ isText(call) /\ Len(call) = IF p <= end THEN end - p + 1 ELSE 0
        /\ \A i \in 1 .. end - p + 1 : call[i] = s[p + i - 1]
    <3>1. p \in Int /\ p >= 1 /\ end \in Int /\ end <= Len(s)
      BY <1>1, <1>3 DEF n
    <3> QED  BY <3>1, TextPart
  <2>2. end - p + 1 = m + 3 /\ p <= end
    BY <1>1, <1>3
  <2> HIDE DEF call, m
  <2> QED  BY <2>1, <2>2
<1>7. /\ isText(a) /\ isText(b) /\ Len(a) = p - 1
      /\ s = (a \o call) \o b /\ Len(a \o call) = end
  <2> DEFINE c == SubSeq(s, 1, end)
  <2>1. s = c \o b /\ isText(c) /\ isText(b) /\ Len(c) = end
    <3>1. end \in 0 .. Len(s)
      BY <1>1, <1>3 DEF n
    <3> QED  BY <3>1, Parts DEF n
  <2>2. c = SubSeq(c, 1, p - 1) \o SubSeq(c, p - 1 + 1, end) /\ isText(SubSeq(c, 1, p - 1)) /\ Len(SubSeq(c, 1, p - 1)) = p - 1
    <3>1. p - 1 \in 0 .. Len(c)
      BY <1>1, <1>3, <2>1
    <3> HIDE DEF c
    <3> QED  BY <2>1, <3>1, Parts
  <2>3. SubSeq(c, 1, p - 1) = a /\ SubSeq(c, p - 1 + 1, end) = call
    <3>1. s \in Seq(Range(s)) /\ p - 1 + 1 = p
      BY <1>1 DEF isText
    <3>2. ASSUME NEW i \in Nat, NEW j \in Nat, 1 <= i, j <= end PROVE SubSeq(c, i, j) = SubSeq(s, i, j)
      <4> DEFINE u == SubSeq(c, i, j)
                 v == SubSeq(s, i, j)
      <4>0. \A k \in 1 .. end : c[k] = s[k]
        <5>1. \A k \in 1 .. end - 1 + 1 : c[k] = s[1 + k - 1]
          <6>1. 1 \in Int /\ 1 >= 1 /\ end \in Int /\ end <= Len(s)
            BY <1>3 DEF n
          <6> QED  BY <6>1, TextPart
        <5> HIDE DEF c
        <5>2. end - 1 + 1 = end /\ \A k \in 1 .. end : 1 + k - 1 = k
          BY <1>3
        <5> QED  BY <5>1, <5>2
      <4> HIDE DEF c
      <4>1. /\ isText(u) /\ Len(u) = (IF i <= j THEN j - i + 1 ELSE 0)
            /\ \A k \in 1 .. j - i + 1 : u[k] = c[i + k - 1]
        <5>1. i \in Int /\ i >= 1 /\ j \in Int /\ j <= Len(c)
          BY <2>1, <3>2
        <5> QED  BY <2>1, <5>1, TextPart
      <4>2. /\ isText(v) /\ Len(v) = (IF i <= j THEN j - i + 1 ELSE 0)
            /\ \A k \in 1 .. j - i + 1 : v[k] = s[i + k - 1]
        <5>1. i \in Int /\ i >= 1 /\ j \in Int /\ j <= Len(s)
          BY <1>3, <3>2 DEF n
        <5> QED  BY <5>1, TextPart
      <4> HIDE DEF u, v
      <4>3. ASSUME NEW k \in 1 .. Len(u) PROVE u[k] = v[k]
        <5>1. k \in 1 .. j - i + 1 /\ i + k - 1 \in 1 .. end
          BY <1>3, <3>2, <4>1
        <5> QED  BY <4>0, <4>1, <4>2, <5>1
      <4>4. u = v
        BY <4>1, <4>2, <4>3, SameText
      <4> QED  BY <4>4 DEF u, v
    <3>3. p - 1 \in Nat /\ p - 1 <= end /\ 1 <= p /\ end <= end /\ 1 \in Nat /\ 1 <= 1
      BY <1>1, <1>3
    <3> HIDE DEF c
    <3>4. SubSeq(c, 1, p - 1) = SubSeq(s, 1, p - 1) /\ SubSeq(c, p, end) = SubSeq(s, p, end)
      <4>1. SubSeq(c, 1, p - 1) = SubSeq(s, 1, p - 1)
        BY <3>2, <3>3
      <4>2. SubSeq(c, p, end) = SubSeq(s, p, end)
        BY <1>1, <1>3, <3>2, <3>3
      <4> QED  BY <4>1, <4>2
    <3> QED  BY <3>1, <3>4
  <2> HIDE DEF c, a, b, call
  <2> QED  BY <2>1, <2>2, <2>3
<1>8. call = called(w, x)
  <2> DEFINE h == <<w, "(">>
             y == h \o x
             z == y \o <<")">>
  <2>1. isText(h) /\ Len(h) = 2 /\ h[1] = w /\ h[2] = "("
    BY Tuples
  <2> HIDE DEF h, x, call
  <2>2. /\ isText(y) /\ Len(y) = 2 + m /\ y[1] = w /\ y[2] = "(" /\ \A i \in 1 .. m : y[2 + i] = x[i]
    <3>1. /\ isText(y) /\ Len(y) = Len(h) + Len(x)
          /\ \A i \in 1 .. Len(h) : y[i] = h[i]
          /\ \A i \in 1 .. Len(x) : y[Len(h) + i] = x[i]
      <4>1. isText(h) /\ isText(x)
        BY <1>5, <2>1
      <4> QED  BY <4>1, TextConcat
    <3>2. 1 \in 1 .. 2 /\ 2 \in 1 .. 2
      OBVIOUS
    <3> HIDE DEF y
    <3> QED  BY <1>5, <2>1, <3>1, <3>2
  <2> HIDE DEF y, m
  <2>3. /\ isText(z) /\ Len(z) = 2 + m + 1 /\ (\A i \in 1 .. 2 + m : z[i] = y[i]) /\ z[2 + m + 1] = ")"
    <3>1. /\ isText(z) /\ Len(z) = Len(y) + 1
          /\ \A i \in 1 .. Len(y) : z[i] = y[i]
          /\ z[Len(y) + 1] = ")"
      <4>1. isText(y)
        BY <2>2
      <4> QED  BY <4>1, Appended
    <3> HIDE DEF z
    <3> QED  BY <2>2, <3>1
  <2> HIDE DEF z
  <2>4. ASSUME NEW i \in 1 .. m + 3 PROVE call[i] = z[i]
    <3>1. call[i] = s[p + i - 1]
      BY <1>6
    <3>2. CASE i = 1
      <4>1. p + i - 1 = p /\ 1 \in 1 .. 2 + m
        BY <1>1, <1>3, <3>2
      <4> QED  BY <2>2, <2>3, <3>1, <3>2, <4>1
    <3>3. CASE i = 2
      <4>1. p + i - 1 = p + 1 /\ 2 \in 1 .. 2 + m
        BY <1>1, <1>3, <3>3
      <4> QED  BY <2>2, <2>3, <3>1, <3>3, <4>1
    <3>4. CASE i = m + 3
      <4>1. p + i - 1 = end /\ i = 2 + m + 1
        BY <1>1, <1>3, <3>4 DEF m
      <4> QED  BY <1>2, <2>3, <3>1, <4>1
    <3>5. CASE i > 2 /\ i < m + 3
      <4> DEFINE k == i - 2
      <4>1. k \in 1 .. m /\ i = 2 + k /\ p + i - 1 = p + 1 + k /\ i \in 1 .. 2 + m
        BY <1>1, <1>3, <3>5
      <4> HIDE DEF k
      <4>2. z[i] = x[k]
        BY <2>2, <2>3, <4>1
      <4>3. call[i] = x[k]
        BY <1>5, <3>1, <4>1
      <4> QED  BY <4>2, <4>3
    <3>6. i = 1 \/ i = 2 \/ i = m + 3 \/ (i > 2 /\ i < m + 3)
      BY <1>3
    <3> QED  BY <3>2, <3>3, <3>4, <3>5, <3>6
  <2>5. m + 3 = 2 + m + 1
    BY <1>3
  <2>6. call = z
    BY <1>6, <2>3, <2>4, <2>5, SameText
  <2> QED  BY <2>6 DEF called, z, y, h
<1>9. ~after(a).inside
  <2> DEFINE r == reading(s, 1)
  <2>1. /\ p \in 1 .. n /\ p - 1 \in 0 .. n /\ p - 1 \in 0 .. p - 1
    BY <1>1
  <2>2. r[p] = readOn(r[p - 1], w) /\ r[p - 1] \in Readings
    BY <2>1, Read DEF n
  <2> HIDE DEF r
  <2>3. r[p] = r[p - 1]
    BY <2>2, ReadUpdates
  <2>4. after(a) = r[p - 1]
    <3>1. isText(a) /\ isText(call) /\ isText(b) /\ s = (a \o call) \o b
      BY <1>6, <1>7
    <3>2. p - 1 \in 0 .. Len(a)
      BY <1>7, <2>1
    <3> HIDE DEF a, b, call
    <3>3. reading(s, 1)[p - 1] = reading(a, 1)[p - 1]
      BY <3>1, <3>2, ReadFirst
    <3> QED  BY <1>7, <3>3 DEF after, r
  <2> QED  BY <2>3, <2>4 DEF r
<1> HIDE DEF a, b, x, call
<1>10. /\ s = (a \o called(w, x)) \o b
       /\ isText(a) /\ isText(x) /\ isText(b) /\ isText(called(w, x))
       /\ ~after(a).inside /\ formed(x)
       /\ Len(a) = p - 1 /\ Len(a \o called(w, x)) = end
  BY <1>4, <1>5, <1>6, <1>7, <1>8, <1>9
<1> QED  BY <1>10 DEF a, b, x, end, n

\* A text in parentheses is as well-formed as without.
LEMMA WrappedFormed ==
    ASSUME NEW x, formed(x)
    PROVE  formed(<<"(">> \o x \o <<")">>) /\ insideLiterals(<<"(">> \o x \o <<")">>) = insideLiterals(x)
<1> DEFINE a == <<"(">>
<1>1. leads(a, 0, 1) /\ insideLiterals(a) = {}
  <2>1. "(" # Quote /\ 0 + 1 = 1
    BY DEF Quote
  <2>2. leads(a, 0, 0 + 1) /\ insideLiterals(a) = {}
    BY <2>1, LeadsToken
  <2> QED  BY <2>1, <2>2
<1>2. leads(x, 1, 1)
  <2>1. leads(x, 0 + 1, 0 + 1)
    BY LeadsDeeper DEF formed
  <2> QED  BY <2>1
<1> HIDE DEF a
<1> DEFINE y == a \o x
<1>3. leads(y, 0, 1) /\ insideLiterals(y) = insideLiterals(x)
  <2>1. leads(a \o x, 0, 1) /\ insideLiterals(a \o x) = insideLiterals(a) \cup insideLiterals(x)
    BY <1>1, <1>2, LeadsOn
  <2> QED  BY <1>1, <2>1
<1> HIDE DEF y
<1>4. leads(y \o <<")">>, 0, 1 - 1) /\ insideLiterals(y \o <<")">>) = insideLiterals(y)
  <2>1. ")" # Quote /\ 1 >= 1
    BY DEF Quote
  <2> QED  BY <1>3, <2>1, LeadsMore
<1>5. 1 - 1 = 0
  OBVIOUS
<1> QED  BY <1>3, <1>4, <1>5 DEF formed, y, a

\* What CONCAT becomes is as well-formed as its arguments, and says what they say.
LEMMA CoalescedFormed ==
    ASSUME NEW x, formed(x)
    PROVE  /\ formed(coalesced(splitArgs(x)))
           /\ insideLiterals(coalesced(splitArgs(x))) = insideLiterals(x)
<1> DEFINE p == splitArgs(x)
           r == arguments(p)
           comma == ","
           bars == "||"
           T == Range(x) \cup {comma}
           n == Len(p)
<1>1. isText(x) /\ areTexts(p) /\ n >= 1 /\ n \in Nat
  BY ArgsText DEF formed, leads, areTexts
<1>2. \A k \in 1 .. n : formed(p[k])
  BY ArgsFormed
<1>3. joined(p, <<comma>>) = x
  <2>1. x \in Seq(T)
    BY <1>1, TextIn
  <2> HIDE DEF p
  <2> QED  BY <2>1, ArgsSplit DEF p
<1>4. formed(<<comma>>) /\ insideLiterals(<<comma>>) = {} /\ formed(<<bars>>) /\ insideLiterals(<<bars>>) = {}
  <2>1. comma \notin {Quote, "(", ")"} /\ bars \notin {Quote, "(", ")"}
    BY DEF Quote
  <2> HIDE DEF comma, bars
  <2> QED  BY <2>1, LeadsToken DEF formed
<1> HIDE DEF p, T, n, comma
<1>5. insideLiterals(x) = UNION {insideLiterals(p[k]) : k \in 1 .. n}
  BY <1>1, <1>2, <1>3, <1>4, JoinedFormed DEF n
<1>6. /\ areTexts(r) /\ Len(r) = n /\ coalesced(p) = <<"(">> \o joined(r, <<bars>>) \o <<")">>
      /\ \A k \in 1 .. n : r[k] = argument(p[k])
  BY <1>1, ArgumentsText DEF n
<1> HIDE DEF r, bars
<1>7. \A k \in 1 .. n : formed(r[k]) /\ insideLiterals(r[k]) = insideLiterals(p[k])
  BY <1>2, <1>6, CoalescedPiece DEF argument
<1>8. formed(joined(r, <<bars>>)) /\ insideLiterals(joined(r, <<bars>>)) = UNION {insideLiterals(r[k]) : k \in 1 .. n}
  <2>1. Len(r) >= 1 /\ \A k \in 1 .. Len(r) : formed(r[k])
    BY <1>1, <1>6, <1>7
  <2>2. /\ formed(joined(r, <<bars>>))
        /\ insideLiterals(joined(r, <<bars>>)) = UNION {insideLiterals(r[k]) : k \in 1 .. Len(r)}
    BY <1>4, <1>6, <2>1, JoinedFormed
  <2> QED  BY <1>6, <2>2
<1>9. UNION {insideLiterals(r[k]) : k \in 1 .. n} = UNION {insideLiterals(p[k]) : k \in 1 .. n}
  BY <1>7
<1> DEFINE j == joined(r, <<bars>>)
<1> HIDE DEF j
<1>10. formed(<<"(">> \o j \o <<")">>) /\ insideLiterals(<<"(">> \o j \o <<")">>) = insideLiterals(j)
  BY <1>8, WrappedFormed DEF j
<1> QED  BY <1>5, <1>6, <1>8, <1>9, <1>10 DEF j, p

\* An iteration of rewriteConcat over a call outside literals.
LEMMA ConcatFormed ==
    ASSUME TextInv, TranslateConcat, wellFormed(q), "concat" \notin insideLiterals(q)
    PROVE  wellFormed(q') /\ insideLiterals(q') = insideLiterals(q)
<1> DEFINE w == "concat"
           p == concat
           end == matchParen(q, p + 1)
           a == SubSeq(q, 1, p - 1)
           x == SubSeq(q, p + 2, end - 1)
           b == SubSeq(q, end + 1, Len(q))
           y == coalesced(splitArgs(x))
<1>1. isText(q) /\ Len(q) \in Nat /\ formed(q) /\ p # 0 /\ end # 0
  <2>1. isText(q) /\ p # 0 /\ end # 0
    BY DEF TextInv, TranslateConcat, concatEnd
  <2> QED  BY <2>1, Formed, TextIn
<1>2. p \in 1 .. Len(q) - 1 /\ q[p] = w /\ q[p + 1] = "("
  <2>1. 1 \in Nat
    OBVIOUS
  <2> QED  BY <1>1, <2>1, CallFound DEF concat
<1>3. ~reading(q, 1)[p].inside
  <2>1. p \in 1 .. Len(q) /\ w # Quote
    BY <1>1, <1>2 DEF Quote
  <2> HIDE DEF p
  <2> QED  BY <1>2, <2>1 DEF insideLiterals
<1>4. w \notin {Quote, "(", ")"}
  BY DEF Quote
<1>5. q' = (a \o y) \o b
  BY DEF TranslateConcat, concatEnd, concatArgs, spliced
<1> HIDE DEF w, p, y
<1>6. /\ q = (a \o called(w, x)) \o b
      /\ isText(a) /\ isText(x) /\ isText(b) /\ isText(called(w, x))
      /\ ~after(a).inside /\ formed(x)
  BY <1>1, <1>2, <1>3, <1>4, ReadCall
<1>7. formed(y) /\ insideLiterals(y) = insideLiterals(x)
  BY <1>6, CoalescedFormed DEF y
<1>8. formed(called(w, x)) /\ insideLiterals(called(w, x)) = insideLiterals(x)
  BY <1>4, <1>6, CalledFormed
<1> HIDE DEF a, x, b
<1>9. /\ formed((a \o y) \o b)
      /\ insideLiterals((a \o called(w, x)) \o b)
           = (insideLiterals(a) \cup insideLiterals(called(w, x))) \cup insideLiterals(b)
      /\ insideLiterals((a \o y) \o b) = (insideLiterals(a) \cup insideLiterals(y)) \cup insideLiterals(b)
  <2> DEFINE z == called(w, x)
  <2>1. isText(z) /\ formed(z) /\ formed((a \o z) \o b)
    BY <1>1, <1>6, <1>8
  <2> HIDE DEF z
  <2>2. /\ formed((a \o y) \o b)
        /\ insideLiterals((a \o z) \o b) = (insideLiterals(a) \cup insideLiterals(z)) \cup insideLiterals(b)
        /\ insideLiterals((a \o y) \o b) = (insideLiterals(a) \cup insideLiterals(y)) \cup insideLiterals(b)
    BY <1>6, <1>7, <2>1, Exchanged
  <2> QED  BY <2>2 DEF z
<1>10. formed(q') /\ insideLiterals(q') = insideLiterals(q)
  BY <1>5, <1>6, <1>7, <1>8, <1>9
<1> QED  BY <1>10, Formed DEF formed, leads

\* What the literals of a statement say stays as it is while CONCAT is rewritten around
\* them, whatever quotes, commas and parentheses they hold (rewrite.go:243, "quoted
\* strings are respected").
THEOREM Literals == Spec => LiteralsKept
<1> DEFINE kept == pass = "concat" /\ wellFormed(q) /\ "concat" \notin insideLiterals(q)
                     => insideLiterals(q') = insideLiterals(q)
<1>1. ASSUME TextInv, Next PROVE kept
  <2>1. SUFFICES ASSUME pass = "concat", wellFormed(q), "concat" \notin insideLiterals(q)
                 PROVE  insideLiterals(q') = insideLiterals(q)
    OBVIOUS
  <2>2. CASE TranslateConcat
    BY <1>1, <2>1, <2>2, ConcatFormed
  <2>3. CASE NoConcat
    BY <2>3 DEF NoConcat
  <2>4. CASE Accept \/ Before \/ After \/ TranslateToChar \/ SkipToChar \/ NoToChar \/ FindEnum \/ NoEnums
    BY <2>1, <2>4 DEF Accept, Before, After, TranslateToChar, SkipToChar, NoToChar, FindEnum, NoEnums
  <2> QED  BY <1>1, <2>2, <2>3, <2>4 DEF Next
<1>2. TextInv /\ [Next]_vars => [kept]_vars
  BY <1>1
<1> QED  BY <1>2, StaysText, PTL DEF Spec, LiteralsKept

\* Tokens the reading takes alike.
alike(c, d) == c = d \/ (c \notin {Quote, "(", ")"} /\ d \notin {Quote, "(", ")"})

\* A text of tokens that are taken alike is as well-formed.
LEMMA AlikeFormed ==
    ASSUME NEW s, formed(s), NEW t, isText(t), Len(t) = Len(s), \A i \in 1 .. Len(s) : alike(s[i], t[i])
    PROVE  formed(t)
<1> DEFINE n == Len(s)
           f == reading(s, 1)
           g == reading(t, 1)
           P == {i \in 0 .. n : g[i] = f[i]}
<1>1. isText(s) /\ n \in Nat
  BY TextIn DEF formed, leads
<1>2. /\ f[0] = Outside /\ \A i \in 0 .. n : f[i] \in Readings
      /\ \A i \in 1 .. n : f[i] = readOn(f[i - 1], s[i])
  BY <1>1, Read
<1>3. g[0] = Outside /\ \A i \in 1 .. n : g[i] = readOn(g[i - 1], t[i])
  BY Read
<1>4. \A i \in 1 .. n : alike(s[i], t[i])
  OBVIOUS
<1> HIDE DEF n, f, g
<1>5. 0 \in P
  BY <1>1, <1>2, <1>3
<1>6. ASSUME NEW i \in 0 .. n - 1, i \in P PROVE i + 1 \in P
  <2> DEFINE k == i + 1
  <2>1. k \in 1 .. n /\ k \in 0 .. n /\ k - 1 = i /\ i \in 0 .. n
    BY <1>1
  <2> HIDE DEF k
  <2>2. f[k] = readOn(f[i], s[k]) /\ g[k] = readOn(f[i], t[k]) /\ f[i] \in Readings /\ alike(s[k], t[k])
    <3>1. g[i] = f[i]
      BY <1>6
    <3>2. f[k] = readOn(f[k - 1], s[k]) /\ g[k] = readOn(g[k - 1], t[k])
      BY <1>2, <1>3, <2>1
    <3> QED  BY <1>2, <1>4, <2>1, <3>1, <3>2
  <2>3. g[k] = f[k]
    <3>1. CASE s[k] = t[k]
      BY <2>2, <3>1
    <3>2. CASE s[k] # t[k]
      <4>1. s[k] \notin {Quote, "(", ")"} /\ t[k] \notin {Quote, "(", ")"}
        BY <2>2, <3>2 DEF alike
      <4>2. readOn(f[i], s[k]) = f[i] /\ readOn(f[i], t[k]) = f[i]
        BY <2>2, <4>1, ReadUpdates
      <4> QED  BY <2>2, <4>2
    <3> QED  BY <3>1, <3>2
  <2>4. k \in P
    BY <2>1, <2>3
  <2> QED  BY <2>4 DEF k
<1>7. \A i \in 0 .. n : g[i] = f[i]
  <2>1. inductive(P, 0, n)
    BY <1>5, <1>6 DEF inductive
  <2> HIDE DEF P
  <2>2. 0 .. n \subseteq P
    BY <1>1, <2>1, Upwards
  <2> QED  BY <2>2 DEF P
<1>8. wellFormed(s)
  BY <1>1, Formed
<1>9. wellFormed(t)
  <2>1. n \in 0 .. n /\ \A i \in 1 .. n : i \in 0 .. n
    BY <1>1
  <2>2. f[n] = [inside |-> FALSE, open |-> 0] /\ \A i \in 1 .. n : f[i].open >= 0
    BY <1>8 DEF wellFormed, f, n
  <2>3. g[n] = [inside |-> FALSE, open |-> 0] /\ \A i \in 1 .. n : g[i].open >= 0
    BY <1>7, <2>1, <2>2
  <2> QED  BY <2>3 DEF wellFormed, g, n
<1> QED  BY <1>9, Formed

\* One text after another, by name: in the proofs below only the order counts.
cat(s, t) == s \o t

\* Texts put together in any order.
LEMMA CatAssociative ==
    ASSUME NEW s, NEW t, NEW u, isText(s), isText(t), isText(u)
    PROVE  cat(cat(s, t), u) = cat(s, cat(t, u)) /\ isText(cat(s, t)) /\ isText(cat(t, u))
<1>1. (s \o t) \o u = s \o (t \o u) /\ isText(s \o t) /\ isText(t \o u)
  BY TextsAssociative, TextConcat
<1> QED  BY <1>1 DEF cat

\* Texts put together in another order.
LEMMA Regrouped ==
    ASSUME NEW h, NEW u, NEW m, NEW c, NEW e, isText(h), isText(u), isText(m), isText(c), isText(e)
    PROVE  cat(cat(cat(cat(h, u), m), cat(u, c)), e) = cat(h, cat(cat(cat(cat(u, m), u), c), e))
<1> DEFINE um  == cat(u, m)
           umu == cat(um, u)
           l   == cat(umu, c)
<1>1. isText(um) /\ cat(cat(h, u), m) = cat(h, um)
  BY CatAssociative
<1> HIDE DEF um
<1>2. isText(umu) /\ isText(cat(u, c)) /\ cat(um, cat(u, c)) = l
  BY <1>1, CatAssociative
<1>3. cat(cat(h, um), cat(u, c)) = cat(h, cat(um, cat(u, c)))
  BY <1>1, <1>2, CatAssociative
<1> HIDE DEF umu
<1>4. isText(l) /\ cat(cat(h, l), e) = cat(h, cat(l, e))
  <2>1. isText(l)
    BY <1>2, CatAssociative
  <2> HIDE DEF l
  <2> QED  BY <2>1, CatAssociative
<1> HIDE DEF l
<1>5. cat(cat(cat(cat(h, u), m), cat(u, c)), e) = cat(h, cat(l, e))
  BY <1>1, <1>2, <1>3, <1>4
<1> QED  BY <1>5 DEF l, umu, um

\* The call of strftime, with its format in a literal of its own.
LEMMA StrftimeCalled ==
    ASSUME NEW e, isText(e), NEW m, isText(m)
    PROVE  (((<<"strftime", "(", Quote>> \o m) \o <<Quote, ",">>) \o e) \o <<")">>
             = called("strftime", (((<<Quote>> \o m) \o <<Quote>>) \o <<",">>) \o e)
<1> DEFINE h == <<"strftime", "(">>
           u == <<Quote>>
           c == <<",">>
<1>1. cat(h, u) = <<"strftime", "(", Quote>> /\ cat(u, c) = <<Quote, ",">>
  BY TuplesOn DEF cat
<1>2. isText(h) /\ isText(u) /\ isText(c)
  BY Tuples
<1> HIDE DEF h, u, c
<1>3. cat(cat(cat(cat(h, u), m), cat(u, c)), e) = cat(h, cat(cat(cat(cat(u, m), u), c), e))
  BY <1>2, Regrouped
<1>4. cat(cat(cat(<<"strftime", "(", Quote>>, m), <<Quote, ",">>), e) = cat(h, cat(cat(cat(cat(u, m), u), c), e))
  BY <1>1, <1>3
<1> QED  BY <1>4 DEF called, cat, h, u, c

\* What to_char becomes is as well-formed as its arguments.
LEMMA StrftimeFormed ==
    ASSUME NEW e, formed(e), NEW l, formed(l), isLiteral(l)
    PROVE  formed(strftime(e, inside(l)))
<1> DEFINE n == Len(l)
           x == inside(l)
           m == [k \in DOMAIN x |-> IF x[k] = "MM" THEN "%m" ELSE x[k]]
           u == <<Quote>>
           y == (u \o m) \o u
<1>1. isText(e) /\ isText(l) /\ n \in Nat /\ n >= 2 /\ l[1] = Quote /\ l[n] = Quote
  BY TextIn DEF formed, leads, isLiteral
<1>2. isText(x) /\ Len(x) = n - 2 /\ \A i \in 1 .. n - 2 : x[i] = l[i + 1]
  <2>1. 2 \in Int /\ 2 >= 1 /\ n - 1 \in Int /\ n - 1 <= Len(l)
    BY <1>1
  <2>2. /\ isText(x) /\ Len(x) = IF 2 <= n - 1 THEN n - 1 - 2 + 1 ELSE 0
        /\ \A i \in 1 .. n - 1 - 2 + 1 : x[i] = l[2 + i - 1]
    BY <1>1, <2>1, TextPart DEF inside
  <2>3. /\ (IF 2 <= n - 1 THEN n - 1 - 2 + 1 ELSE 0) = n - 2 /\ n - 1 - 2 + 1 = n - 2
        /\ \A i \in 1 .. n - 2 : 2 + i - 1 = i + 1
    <3> HIDE DEF n
    <3> QED  BY <1>1
  <2> HIDE DEF x, n
  <2> QED  BY <2>2, <2>3
<1> HIDE DEF x, n
<1>3. isText(m) /\ Len(m) = n - 2 /\ \A i \in 1 .. n - 2 : m[i] = IF l[i + 1] = "MM" THEN "%m" ELSE l[i + 1]
  <2> DEFINE T == Range(x) \cup {"%m"}
  <2>1. x \in Seq(T) /\ Len(x) \in Nat
    BY <1>2, TextIn
  <2> HIDE DEF T
  <2>2. DOMAIN x = 1 .. Len(x) /\ \A i \in 1 .. Len(x) : x[i] \in T
    BY <2>1
  <2>3. "%m" \in T
    BY DEF T
  <2>4. m \in [1 .. Len(x) -> T] /\ \A i \in 1 .. Len(x) : m[i] = IF x[i] = "MM" THEN "%m" ELSE x[i]
    BY <2>2, <2>3
  <2> HIDE DEF m
  <2>5. m \in Seq(T) /\ Len(m) = Len(x)
    BY <2>1, <2>4, FunctionSeq
  <2> QED  BY <1>2, <2>4, <2>5, TextOf
<1>4. isText(u) /\ Len(u) = 1 /\ u[1] = Quote
  BY Tuples
<1> HIDE DEF m
<1>5. /\ isText(u \o m) /\ Len(u \o m) = n - 1 /\ (u \o m)[1] = Quote
      /\ \A i \in 1 .. n - 2 : (u \o m)[1 + i] = m[i]
  <2> HIDE DEF u
  <2>1. /\ isText(u \o m) /\ Len(u \o m) = Len(u) + Len(m)
        /\ \A i \in 1 .. Len(u) : (u \o m)[i] = u[i]
        /\ \A i \in 1 .. Len(m) : (u \o m)[Len(u) + i] = m[i]
    <3>1. isText(u) /\ isText(m)
      BY <1>3, <1>4
    <3> QED  BY <3>1, TextConcat
  <2>2. Len(u) + Len(m) = n - 1 /\ 1 \in 1 .. Len(u)
    BY <1>1, <1>3, <1>4
  <2> QED  BY <1>3, <1>4, <2>1, <2>2
<1> DEFINE v == u \o m
<1> HIDE DEF v
<1>6. isText(y) /\ Len(y) = n /\ y[n] = Quote /\ \A i \in 1 .. n - 1 : y[i] = v[i]
  <2>1. isText(v) /\ Len(v) = n - 1
    BY <1>5 DEF v
  <2>2. /\ isText(v \o <<Quote>>) /\ Len(v \o <<Quote>>) = Len(v) + 1
        /\ \A i \in 1 .. Len(v) : (v \o <<Quote>>)[i] = v[i]
        /\ (v \o <<Quote>>)[Len(v) + 1] = Quote
    BY <2>1, Appended
  <2>3. y = v \o <<Quote>> /\ n - 1 + 1 = n
    BY <1>1 DEF v
  <2> HIDE DEF y
  <2> QED  BY <2>1, <2>2, <2>3
<1> HIDE DEF y, u
<1>7. ASSUME NEW i \in 1 .. n PROVE alike(l[i], y[i])
  <2>1. CASE i = 1
    <3>1. 1 \in 1 .. n - 1
      BY <1>1
    <3> QED  BY <1>1, <1>5, <1>6, <2>1, <3>1 DEF alike, v
  <2>2. CASE i = n
    BY <1>1, <1>6, <2>2 DEF alike
  <2>3. CASE i # 1 /\ i # n
    <3> DEFINE k == i - 1
    <3>1. k \in 1 .. n - 2 /\ i = 1 + k /\ i = k + 1 /\ i \in 1 .. n - 1
      BY <1>1, <2>3
    <3> HIDE DEF k
    <3>2. y[i] = m[k]
      BY <1>5, <1>6, <3>1 DEF v
    <3>3. m[k] = IF l[i] = "MM" THEN "%m" ELSE l[i]
      BY <1>3, <3>1
    <3>4. "MM" \notin {Quote, "(", ")"} /\ "%m" \notin {Quote, "(", ")"}
      BY DEF Quote
    <3> QED  BY <3>2, <3>3, <3>4 DEF alike
  <2> QED  BY <2>1, <2>2, <2>3
<1>8. formed(y)
  <2>1. Len(y) = Len(l) /\ \A i \in 1 .. Len(l) : alike(l[i], y[i])
    BY <1>6, <1>7 DEF n
  <2> QED  BY <1>6, <2>1, AlikeFormed
<1> DEFINE body == (y \o <<",">>) \o e
<1>9. formed(body)
  <2>1. formed(y \o <<",">>)
    <3>1. "," # Quote /\ "," \notin {"(", ")"}
      BY DEF Quote
    <3> QED  BY <1>8, <3>1, LeadsMore DEF formed
  <2> QED  BY <2>1, LeadsOn DEF formed
<1>10. strftime(e, x) = called("strftime", body)
  <2>1. strftime(e, x) = (((<<"strftime", "(", Quote>> \o m) \o <<Quote, ",">>) \o e) \o <<")">>
    BY DEF strftime, m
  <2>2. (((<<"strftime", "(", Quote>> \o m) \o <<Quote, ",">>) \o e) \o <<")">>
          = called("strftime", (((<<Quote>> \o m) \o <<Quote>>) \o <<",">>) \o e)
    BY <1>1, <1>3, StrftimeCalled
  <2> QED  BY <2>1, <2>2 DEF y, u
<1> HIDE DEF body
<1>11. formed(called("strftime", body))
  <2>1. "strftime" \notin {Quote, "(", ")"}
    BY DEF Quote
  <2> QED  BY <1>9, <2>1, CalledFormed
<1> QED  BY <1>10, <1>11 DEF x

\* An iteration of rewriteToChar over a call outside literals.
LEMMA ToCharFormed ==
    ASSUME TextInv, TranslateToChar, wellFormed(q), "to_char" \notin insideLiterals(q)
    PROVE  wellFormed(q')
<1> DEFINE w == "to_char"
           p == toChar
           end == matchParen(q, p + 1)
           a == SubSeq(q, 1, p - 1)
           x == SubSeq(q, p + 2, end - 1)
           b == SubSeq(q, end + 1, Len(q))
           args == splitArgs(x)
           y == strftime(args[1], inside(args[2]))
<1>1. isText(q) /\ Len(q) \in Nat /\ formed(q) /\ p # 0 /\ end # 0 /\ from \in Nat /\ from >= 1
  <2>1. isText(q) /\ p # 0 /\ end # 0 /\ from \in Nat /\ from >= 1
    BY DEF TextInv, TranslateToChar, toCharEnd
  <2> QED  BY <2>1, Formed, TextIn
<1>2. p \in 1 .. Len(q) - 1 /\ q[p] = w /\ q[p + 1] = "("
  <2>1. p \in from .. Len(q) - 1 /\ q[p] = w /\ q[p + 1] = "("
    BY <1>1, CallFound DEF toChar
  <2> HIDE DEF p
  <2> QED  BY <1>1, <2>1
<1>3. ~reading(q, 1)[p].inside
  <2>1. p \in 1 .. Len(q) /\ w # Quote
    BY <1>1, <1>2 DEF Quote
  <2> HIDE DEF p
  <2> QED  BY <1>2, <2>1 DEF insideLiterals
<1>4. w \notin {Quote, "(", ")"}
  BY DEF Quote
<1>5. q' = (a \o y) \o b /\ Len(args) = 2 /\ isLiteral(args[2])
  BY DEF TranslateToChar, toCharEnd, toCharArgs, toCharFormat, spliced
<1> HIDE DEF w, p, y, args
<1>6. /\ q = (a \o called(w, x)) \o b
      /\ isText(a) /\ isText(x) /\ isText(b) /\ isText(called(w, x))
      /\ ~after(a).inside /\ formed(x)
  BY <1>1, <1>2, <1>3, <1>4, ReadCall
<1>7. formed(y)
  <2>1. formed(args[1]) /\ formed(args[2])
    <3>1. 1 \in 1 .. Len(args) /\ 2 \in 1 .. Len(args)
      BY <1>5
    <3> HIDE DEF x
    <3>2. \A k \in 1 .. Len(args) : formed(args[k])
      BY <1>6, ArgsFormed DEF args
    <3> QED  BY <3>1, <3>2
  <2> QED  BY <1>5, <2>1, StrftimeFormed DEF y
<1>8. formed(called(w, x))
  BY <1>4, <1>6, CalledFormed
<1> HIDE DEF a, x, b
<1>9. formed((a \o y) \o b)
  <2> DEFINE z == called(w, x)
  <2>1. isText(z) /\ formed(z) /\ formed((a \o z) \o b)
    BY <1>1, <1>6, <1>8
  <2> HIDE DEF z
  <2> QED  BY <1>6, <1>7, <2>1, Exchanged
<1> QED  BY <1>5, <1>9, Formed DEF formed, leads

\* An iteration of a loop breaks no text whose quotes and parentheses match, unless a
\* literal holds a word it searches.
LoopsKeepForm ==
    [][pass' = pass /\ wellFormed(q) /\ {"to_char", "concat"} \cap insideLiterals(q) = {}
         => wellFormed(q')]_vars

\* The texts rewriteToChar and rewriteConcat splice by position (rewrite.go:213 and 244)
\* stay well-formed: what stands between the parentheses matchParen finds is, and so is
\* every argument splitArgs finds in it.
THEOREM LoopsFormed == Spec => LoopsKeepForm
<1> DEFINE kept == pass' = pass /\ wellFormed(q) /\ {"to_char", "concat"} \cap insideLiterals(q) = {}
                     => wellFormed(q')
<1>1. ASSUME TextInv, Next PROVE kept
  <2>1. SUFFICES ASSUME pass' = pass, wellFormed(q), {"to_char", "concat"} \cap insideLiterals(q) = {}
                 PROVE  wellFormed(q')
    OBVIOUS
  <2>2. CASE TranslateConcat
    BY <1>1, <2>1, <2>2, ConcatFormed
  <2>3. CASE TranslateToChar
    BY <1>1, <2>1, <2>3, ToCharFormed
  <2>4. CASE SkipToChar \/ NoConcat \/ FindEnum \/ NoEnums
    <3>1. q' = q
      BY <2>4 DEF SkipToChar, NoConcat, FindEnum, NoEnums
    <3> QED  BY <2>1, <3>1
  <2>5. CASE Accept \/ Before \/ After \/ NoToChar
    BY <2>1, <2>5 DEF Accept, Before, After, NoToChar
  <2> QED  BY <1>1, <2>2, <2>3, <2>4, <2>5 DEF Next
<1>2. TextInv /\ [Next]_vars => [kept]_vars
  BY <1>1
<1> QED  BY <1>2, StaysText, PTL DEF Spec, LoopsKeepForm

\* What is found stands there.
LEMMA ContinuesAt ==
    ASSUME NEW s, isText(s), NEW i \in Nat, i >= 1, NEW tokens, isText(tokens), continues(s, i, tokens),
           NEW k \in 1 .. Len(tokens)
    PROVE  i + k - 1 \in 1 .. Len(s) /\ s[i + k - 1] = tokens[k]
<1> DEFINE n == Len(s)
           l == Len(tokens)
           t == SubSeq(s, i, n)
<1>1. n \in Nat /\ l \in Nat /\ i <= n
  BY TextIn DEF continues
<1>2. l <= Len(t) /\ SubSeq(tokens, 1, l) = SubSeq(t, 1, l)
  BY DEF continues, IsPrefix
<1>3. isText(t) /\ Len(t) = n - i + 1 /\ \A j \in 1 .. n - i + 1 : t[j] = s[i + j - 1]
  <2>1. i \in Int /\ n \in Int /\ n <= Len(s)
    BY <1>1
  <2>2. /\ isText(t) /\ Len(t) = IF i <= n THEN n - i + 1 ELSE 0
        /\ \A j \in 1 .. n - i + 1 : t[j] = s[i + j - 1]
    BY <2>1, TextPart
  <2> HIDE DEF t, n
  <2> QED  BY <1>1, <2>2
<1> HIDE DEF t, n
<1>4. SubSeq(tokens, 1, l)[k] = tokens[k] /\ SubSeq(t, 1, l)[k] = t[k]
  <2>1. 1 \in Int /\ 1 >= 1 /\ l \in Int /\ l <= Len(tokens) /\ l <= Len(t) /\ l - 1 + 1 = l /\ 1 + k - 1 = k
    BY <1>1, <1>2
  <2>2. \A j \in 1 .. l - 1 + 1 : SubSeq(tokens, 1, l)[j] = tokens[1 + j - 1]
    BY <2>1, TextPart
  <2>3. \A j \in 1 .. l - 1 + 1 : SubSeq(t, 1, l)[j] = t[1 + j - 1]
    BY <1>3, <2>1, TextPart
  <2>4. k \in 1 .. l - 1 + 1
    BY <2>1
  <2>5. SubSeq(tokens, 1, l)[k] = tokens[1 + k - 1] /\ SubSeq(t, 1, l)[k] = t[1 + k - 1]
    BY <2>2, <2>3, <2>4
  <2> QED  BY <2>1, <2>5
<1>5. k \in 1 .. n - i + 1 /\ i + k - 1 \in 1 .. n
  BY <1>1, <1>2, <1>3
<1>6. t[k] = tokens[k]
  BY <1>2, <1>4
<1> QED  BY <1>3, <1>5, <1>6 DEF n

\* No notation occurs in a text.
bare(s) == isText(s) /\ \A i \in 1 .. Len(s) : s[i] \notin Notations

\* In it nothing is found that starts with one,
LEMMA NotFound ==
    ASSUME NEW s, bare(s), NEW i \in Nat, i >= 1
    PROVE  /\ \A a \in Notations : \A b : ~continues(s, i, <<a>>) /\ ~continues(s, i, <<a, b>>)
           /\ \A a \in Notations : \A b, c : ~continues(s, i, <<a, b, c>>)
           /\ \A a \in Notations : \A b, c, d : ~continues(s, i, <<b, a, c, d>>)
           /\ \A a \in Notations : \A b, c, d, e : ~continues(s, i, <<b, a, c, d, e>>)
           /\ \A a \in Notations : \A b, c : ~continues(s, i, <<b, a, c>>)
<1>1. isText(s) /\ \A k \in 1 .. Len(s) : s[k] \notin Notations
  BY DEF bare
<1>2. ASSUME NEW tokens, isText(tokens), NEW k \in 1 .. Len(tokens), tokens[k] \in Notations
      PROVE  ~continues(s, i, tokens)
  <2> SUFFICES ASSUME continues(s, i, tokens) PROVE FALSE
    OBVIOUS
  <2>1. isText(s)
    BY <1>1
  <2>2. isText(tokens)
    BY <1>2
  <2>3. i + k - 1 \in 1 .. Len(s) /\ s[i + k - 1] = tokens[k]
    BY <2>1, <2>2, ContinuesAt
  <2> QED  BY <1>1, <1>2, <2>3
<1>3. ASSUME NEW a \in Notations, NEW b PROVE ~continues(s, i, <<a>>)
  <2> DEFINE t == <<a>>
  <2>1. isText(t) /\ Len(t) = 1 /\ t[1] = a /\ 1 \in 1 .. 1
    BY Tuples
  <2> HIDE DEF t
  <2>2. ~continues(s, i, t)
    BY <1>2, <2>1
  <2> QED  BY <2>2 DEF t
<1>4. ASSUME NEW a \in Notations, NEW b PROVE ~continues(s, i, <<a, b>>)
  <2> DEFINE t == <<a, b>>
  <2>1. isText(t) /\ Len(t) = 2 /\ t[1] = a /\ 1 \in 1 .. 2
    BY Tuples
  <2> HIDE DEF t
  <2>2. ~continues(s, i, t)
    BY <1>2, <2>1
  <2> QED  BY <2>2 DEF t
<1>5. ASSUME NEW a \in Notations, NEW b, NEW c PROVE ~continues(s, i, <<a, b, c>>)
  <2> DEFINE t == <<a, b, c>>
  <2>1. isText(t) /\ Len(t) = 3 /\ t[1] = a /\ 1 \in 1 .. 3
    BY Tuples
  <2> HIDE DEF t
  <2>2. ~continues(s, i, t)
    BY <1>2, <2>1
  <2> QED  BY <2>2 DEF t
<1>6. ASSUME NEW a \in Notations, NEW b, NEW c, NEW d PROVE ~continues(s, i, <<b, a, c, d>>)
  <2> DEFINE t == <<b, a, c, d>>
  <2>1. isText(t) /\ Len(t) = 4 /\ t[2] = a /\ 2 \in 1 .. 4
    BY Tuples
  <2> HIDE DEF t
  <2>2. ~continues(s, i, t)
    BY <1>2, <2>1
  <2> QED  BY <2>2 DEF t
<1>7. ASSUME NEW a \in Notations, NEW b, NEW c, NEW d, NEW e PROVE ~continues(s, i, <<b, a, c, d, e>>)
  <2> DEFINE t == <<b, a, c, d, e>>
  <2>1. isText(t) /\ Len(t) = 5 /\ t[2] = a /\ 2 \in 1 .. 5
    BY Tuples
  <2> HIDE DEF t
  <2>2. ~continues(s, i, t)
    BY <1>2, <2>1
  <2> QED  BY <2>2 DEF t
<1>8. ASSUME NEW a \in Notations, NEW b, NEW c PROVE ~continues(s, i, <<b, a, c>>)
  <2> DEFINE t == <<b, a, c>>
  <2>1. isText(t) /\ Len(t) = 3 /\ t[2] = a /\ 2 \in 1 .. 3
    BY Tuples
  <2> HIDE DEF t
  <2>2. ~continues(s, i, t)
    BY <1>2, <2>1
  <2> QED  BY <2>2 DEF t
<1> QED  BY <1>3, <1>4, <1>5, <1>6, <1>7, <1>8

\* No expression of the passes matches in it,
LEMMA NoMatch ==
    ASSUME NEW s, bare(s), NEW i \in 1 .. Len(s)
    PROVE
        /\ operator(s, i) = nothing
        /\ ilike(s, i) = nothing
        /\ anyArray(s, i) = nothing
        /\ anyBrace(s, i) = nothing
        /\ atTimeZone(s, i) = nothing
        /\ stringAgg(s, i) = nothing
        /\ unnest(s, i) = nothing
        /\ regclassOid(s, i) = nothing
        /\ regclassName(s, i) = nothing
        /\ qualifier(s, i) = nothing
        /\ keywordsCall(s, i) = nothing
        /\ cast(s, i) = nothing
        /\ systemFunction(s, i) = nothing
        /\ show(s, i) = nothing
        /\ currentDatabase(s, i) = nothing
        /\ ~unnestAt(s, i).found
<1>1. isText(s) /\ s[i] \notin Notations /\ Len(s) \in Nat /\ i \in Nat /\ i >= 1 /\ i + 1 \in Nat /\ i + 1 >= 1
  BY TextIn DEF bare
<1>2. operator(s, i) = nothing
  <2>1. ~continues(s, i, <<"OPERATOR", "(">>)
    BY <1>1, NotFound DEF Notations
  <2> QED  BY <2>1 DEF operator
<1>3. ilike(s, i) = nothing
  <2>1. s[i] # "ILIKE"
    BY <1>1 DEF Notations
  <2> QED  BY <2>1 DEF ilike
<1>4. anyArray(s, i) = nothing
  <2>1. ~continues(s, i, <<"=", "ANY", "(", "ARRAY[">>)
    BY <1>1, NotFound DEF Notations
  <2> QED  BY <2>1 DEF anyArray
<1>5. anyBrace(s, i) = nothing
  <2>1. ~continues(s, i, <<"=", "ANY", "(", Quote, "{">>)
    BY <1>1, NotFound DEF Notations
  <2> QED  BY <2>1 DEF anyBrace
<1>6. atTimeZone(s, i) = nothing
  <2>1. s[i] # "AT TIME ZONE"
    BY <1>1 DEF Notations
  <2> QED  BY <2>1 DEF atTimeZone
<1>7. stringAgg(s, i) = nothing
  <2>1. ~continues(s, i, <<"string_agg", "(">>)
    BY <1>1, NotFound DEF Notations
  <2> QED  BY <2>1 DEF stringAgg
<1>8. ~unnestAt(s, i).found
  <2>1. ~continues(s, i, <<"UNNEST", "(">>) /\ ~continues(s, i + 1, <<"UNNEST", "(">>)
    BY <1>1, NotFound DEF Notations
  <2> QED  BY <2>1 DEF unnestAt
<1>9. unnest(s, i) = nothing
  BY <1>8 DEF unnest
<1>10. regclassOid(s, i) = nothing
  <2> DEFINE close == next(s, i + 1, {Quote})
  <2>1. close \in Nat /\ close >= 1
    <3>1. i + 1 <= Len(s) + 1
      BY <1>1
    <3>2. close \in Nat /\ i + 1 <= close
      BY <1>1, <3>1, NextIn
    <3> HIDE DEF close
    <3> QED  BY <1>1, <3>2
  <2>2. regclassOid(s, i) = IF s[i] = Quote /\ continues(s, close, <<Quote, "::", "regclass">>)
                            THEN taking(close + 3 - i, relationOf("oid", "relname", SubSeq(s, i, close))) ELSE nothing
    BY DEF regclassOid
  <2> HIDE DEF close
  <2>3. ~continues(s, close, <<Quote, "::", "regclass">>)
    BY <2>1, NotFound DEF Notations
  <2> QED  BY <2>2, <2>3
<1>11. regclassName(s, i) = nothing
  <2>1. i + 1 \in Nat /\ i + 1 >= 1 /\ i + 2 + 1 \in Nat /\ i + 2 + 1 >= 1
    BY <1>1
  <2>2. ~continues(s, i + 1, <<"::", "regclass">>) /\ ~continues(s, i + 2 + 1, <<"::", "regclass">>)
    BY <2>1, NotFound DEF Notations
  <2> QED  BY <2>2 DEF regclassName
<1>12. qualifier(s, i) = nothing
  <2>1. s[i] # "pg_catalog." /\ s[i] # "information_schema."
    BY <1>1 DEF Notations
  <2> QED  BY <2>1 DEF qualifier
<1>13. keywordsCall(s, i) = nothing
  <2>1. ~continues(s, i, <<"pg_get_keywords", "(", ")">>)
    BY <1>1, NotFound DEF Notations
  <2> QED  BY <2>1 DEF keywordsCall
<1>14. cast(s, i) = nothing
  <2>1. s[i] # "::"
    BY <1>1 DEF Notations
  <2> QED  BY <2>1 DEF cast
<1>15. systemFunction(s, i) = nothing
  <2>1. s[i] \notin systemFunctions
    BY <1>1 DEF Notations
  <2> QED  BY <2>1 DEF systemFunction
<1>16. show(s, i) = nothing
  <2>1. ~(i = 1 /\ s[1] = "SHOW")
    BY <1>1 DEF Notations
  <2> QED  BY <2>1 DEF show
<1>17. currentDatabase(s, i) = nothing
  <2>1. ~continues(s, i, <<"current_database", "(", ")">>)
    BY <1>1, NotFound DEF Notations
  <2> QED  BY <2>1 DEF currentDatabase
<1> QED  BY <1>2, <1>3, <1>4, <1>5, <1>6, <1>7, <1>8, <1>9, <1>10, <1>11, <1>12, <1>13, <1>14, <1>15, <1>16, <1>17

\* No rule of translateDDL finds a type where there are no type words,
LEMMA NoType ==
    ASSUME NEW s, isText(s), \A i \in 1 .. Len(s) : s[i] \notin typeWords
    PROVE  /\ \A rule \in rules : renamed(s, rule) = s
           /\ everywhere(s, nextvalDefault) = s
           /\ ~ofSequence(s)
<1>1. nothing.length = 0
  BY DEF nothing, taking
<1>2. ASSUME NEW i \in Nat, i >= 1, NEW tokens, isText(tokens), NEW k \in 1 .. Len(tokens), tokens[k] \in typeWords
      PROVE  ~continues(s, i, tokens)
  <2> SUFFICES ASSUME continues(s, i, tokens) PROVE FALSE
    OBVIOUS
  <2>1. isText(tokens)
    BY <1>2
  <2>2. i + k - 1 \in 1 .. Len(s) /\ s[i + k - 1] = tokens[k]
    BY <1>2, <2>1, ContinuesAt
  <2> QED  BY <1>2, <2>2
<1>3. ASSUME NEW rule \in rules PROVE renamed(s, rule) = s
  <2> DEFINE m == [i \in 1 .. Len(s) |-> typeAt(rule, s, i)]
  <2>1. taken(s, m)
    BY Rules, TakesType DEF taken
  <2>2. ASSUME NEW i \in 1 .. Len(s) PROVE typeAt(rule, s, i) = nothing
    <3>1. \A f \in rule.from : ~continues(s, i, f)
      <4> SUFFICES ASSUME NEW f \in rule.from PROVE ~continues(s, i, f)
        OBVIOUS
      <4>1. isText(f) /\ Len(f) >= 1 /\ f[Len(f)] \in typeWords
        BY Rules DEF isRule
      <4>2. Len(f) \in Nat
        BY <4>1, TextIn
      <4> DEFINE k == Len(f)
      <4>3. k \in 1 .. Len(f) /\ f[k] \in typeWords
        BY <4>1, <4>2
      <4> HIDE DEF k
      <4> QED  BY <1>2, <4>1, <4>3, Takes
    <3>2. {f \in rule.from : continues(s, i, f)} = {}
      BY <3>1
    <3> QED  BY <3>2 DEF typeAt
  <2>3. \A i \in 1 .. Len(s) : m[i].length = 0
    BY <1>1, <2>2
  <2>4. renamed(s, rule) = replaced(s, m)
    BY DEF renamed
  <2> HIDE DEF m
  <2> QED  BY <2>1, <2>3, <2>4, Untaken
<1>4. "nextval" \in typeWords /\ "sequence" \in typeWords
  BY DEF typeWords
<1>5. everywhere(s, nextvalDefault) = s
  <2> DEFINE m == [i \in 1 .. Len(s) |-> nextvalDefault(s, i)]
             t == <<"DEFAULT", "nextval", "(">>
  <2>1. taken(s, m)
    BY TakesNextval DEF taken
  <2>2. isText(t) /\ Len(t) = 3 /\ t[2] \in typeWords /\ 2 \in 1 .. 3
    BY <1>4, Tuples
  <2>3. \A i \in 1 .. Len(s) : nextvalDefault(s, i) = IF continues(s, i, t) /\ next(s, i + 3, {")"}) <= Len(s)
                                THEN taking(next(s, i + 3, {")"}) + 1 - i, <<>>) ELSE nothing
    BY DEF nextvalDefault
  <2> HIDE DEF t
  <2>4. \A i \in 1 .. Len(s) : ~continues(s, i, t)
    BY <1>2, <2>2, Takes
  <2>5. \A i \in 1 .. Len(s) : m[i].length = 0
    BY <1>1, <2>3, <2>4
  <2>6. everywhere(s, nextvalDefault) = replaced(s, m)
    BY DEF everywhere
  <2> HIDE DEF m
  <2> QED  BY <2>1, <2>5, <2>6, Untaken
<1>6. ASSUME NEW verb PROVE ~continues(s, 1, <<verb, "sequence">>)
  <2> DEFINE t == <<verb, "sequence">>
  <2>1. isText(t) /\ Len(t) = 2 /\ t[2] \in typeWords /\ 2 \in 1 .. 2 /\ 1 \in Nat
    BY <1>4, Tuples
  <2> HIDE DEF t
  <2>2. ~continues(s, 1, t)
    BY <1>2, <2>1
  <2> QED  BY <2>2 DEF t
<1>7. ASSUME NEW temp PROVE ~continues(s, 1, <<"create", temp, "sequence">>)
  <2> DEFINE t == <<"create", temp, "sequence">>
  <2>1. isText(t) /\ Len(t) = 3 /\ t[3] \in typeWords /\ 3 \in 1 .. 3 /\ 1 \in Nat
    BY <1>4, Tuples
  <2> HIDE DEF t
  <2>2. ~continues(s, 1, t)
    BY <1>2, <2>1
  <2> QED  BY <2>2 DEF t
<1>8. ~ofSequence(s)
  BY <1>6, <1>7 DEF ofSequence
<1> QED  BY <1>3, <1>5, <1>8

\* A statement of DML, or without type words.
typeless(s) == ofSchema(s) => \A i \in 1 .. Len(s) : s[i] \notin typeWords

\* Such a statement is left alone.
LEMMA DDLKeeps ==
    ASSUME NEW s, isText(s), typeless(s)
    PROVE  translateDDL(s) = s
<1>1. CASE ~ofSchema(s)
  <2>1. ~(s # <<>> /\ s[1] \in {"create", "alter"})
    BY <1>1 DEF ofSchema
  <2>2. \A verb \in {"create", "alter", "drop"} : ~continues(s, 1, <<verb, "sequence">>)
    <3> SUFFICES ASSUME NEW verb \in {"create", "alter", "drop"}, continues(s, 1, <<verb, "sequence">>) PROVE FALSE
      OBVIOUS
    <3> DEFINE t == <<verb, "sequence">>
    <3>1. isText(t) /\ Len(t) = 2 /\ t[1] = verb /\ 1 \in 1 .. 2 /\ 1 \in Nat /\ continues(s, 1, t)
      BY Tuples
    <3> HIDE DEF t
    <3>2. 1 + 1 - 1 \in 1 .. Len(s) /\ s[1 + 1 - 1] = verb
      BY <3>1, ContinuesAt
    <3>3. s # <<>> /\ s[1] = verb
      BY <3>2, TextIn
    <3> QED  BY <1>1, <3>3 DEF ofSchema
  <2>3. \A temp : ~continues(s, 1, <<"create", temp, "sequence">>)
    <3> SUFFICES ASSUME NEW temp, continues(s, 1, <<"create", temp, "sequence">>) PROVE FALSE
      OBVIOUS
    <3> DEFINE t == <<"create", temp, "sequence">>
    <3>1. isText(t) /\ Len(t) = 3 /\ t[1] = "create" /\ 1 \in 1 .. 3 /\ 1 \in Nat /\ continues(s, 1, t)
      BY Tuples
    <3> HIDE DEF t
    <3>2. 1 + 1 - 1 \in 1 .. Len(s) /\ s[1 + 1 - 1] = "create"
      BY <3>1, ContinuesAt
    <3>3. s # <<>> /\ s[1] = "create"
      BY <3>2, TextIn
    <3> QED  BY <1>1, <3>3 DEF ofSchema
  <2>4. ~ofSequence(s)
    BY <2>2, <2>3 DEF ofSequence
  <2> QED  BY <2>1, <2>4 DEF translateDDL
<1>2. CASE ofSchema(s)
  <2>1. /\ \A rule \in rules : renamed(s, rule) = s
        /\ everywhere(s, nextvalDefault) = s
        /\ ~ofSequence(s)
    BY <1>2, NoType DEF typeless
  <2>2. PICK f : between(f, s, 12) /\ translateTypes(s) = f[12]
    BY TypesAfter
  <2> DEFINE P == {i \in 0 .. 12 : f[i] = s}
  <2>3. 0 \in P
    BY <2>1, <2>2 DEF between, rules
  <2>4. ASSUME NEW i \in 0 .. 12 - 1, i \in P PROVE i + 1 \in P
    <3>1. i + 1 \in 1 .. 12 /\ i + 1 - 1 = i /\ i + 1 \in 0 .. 12 /\ f[i] = s
      BY <2>4
    <3>2. ddlTypeMappings[i + 1] \in rules
      <4>1. DOMAIN ddlTypeMappings = 1 .. 12
        BY DEF ddlTypeMappings
      <4> QED  BY <3>1, <4>1 DEF rules, Range
    <3>3. f[i + 1] = renamed(f[i + 1 - 1], ddlTypeMappings[i + 1])
      BY <2>2, <3>1 DEF between
    <3>4. f[i + 1] = s
      BY <2>1, <3>1, <3>2, <3>3
    <3> QED  BY <3>1, <3>4
  <2>5. inductive(P, 0, 12)
    BY <2>3, <2>4 DEF inductive
  <2> HIDE DEF P
  <2>6. 0 .. 12 \subseteq P
    BY <2>5, Upwards
  <2>7. 12 \in P
    BY <2>6
  <2>8. translateTypes(s) = s
    BY <2>2, <2>7 DEF P
  <2> QED  BY <2>1, <2>8 DEF translateDDL
<1> QED  BY <1>1, <1>2

\* The passes leave a text as it is in which neither is found.
LEMMA PassesKeep ==
    ASSUME NEW s, bare(s)
    PROVE  (typeless(s) => passesBefore(s) = s) /\ rewriteUnnest(s) = s /\ passesAfter(s) = s /\ everywhere(s, stringAgg) = s
<1>1. isText(s) /\ Len(s) \in Nat
  BY TextIn DEF bare
<1>2. nothing.length = 0
  BY DEF nothing, taking
<1>3. everywhere(s, operator) = s
  <2> DEFINE m == [i \in 1 .. Len(s) |-> operator(s, i)]
  <2>1. taken(s, m)
    BY <1>1, TakesOperator DEF taken
  <2>2. \A i \in 1 .. Len(s) : m[i].length = 0
    BY <1>2, NoMatch
  <2>3. everywhere(s, operator) = replaced(s, m)
    BY DEF everywhere
  <2> HIDE DEF m
  <2> QED  BY <1>1, <2>1, <2>2, <2>3, Untaken
<1>4. everywhere(s, ilike) = s
  <2> DEFINE m == [i \in 1 .. Len(s) |-> ilike(s, i)]
  <2>1. taken(s, m)
    BY <1>1, TakesIlike DEF taken
  <2>2. \A i \in 1 .. Len(s) : m[i].length = 0
    BY <1>2, NoMatch
  <2>3. everywhere(s, ilike) = replaced(s, m)
    BY DEF everywhere
  <2> HIDE DEF m
  <2> QED  BY <1>1, <2>1, <2>2, <2>3, Untaken
<1>5. everywhere(s, anyArray) = s
  <2> DEFINE m == [i \in 1 .. Len(s) |-> anyArray(s, i)]
  <2>1. taken(s, m)
    BY <1>1, TakesAnyArray DEF taken
  <2>2. \A i \in 1 .. Len(s) : m[i].length = 0
    BY <1>2, NoMatch
  <2>3. everywhere(s, anyArray) = replaced(s, m)
    BY DEF everywhere
  <2> HIDE DEF m
  <2> QED  BY <1>1, <2>1, <2>2, <2>3, Untaken
<1>6. everywhere(s, anyBrace) = s
  <2> DEFINE m == [i \in 1 .. Len(s) |-> anyBrace(s, i)]
  <2>1. taken(s, m)
    BY <1>1, TakesAnyBrace DEF taken
  <2>2. \A i \in 1 .. Len(s) : m[i].length = 0
    BY <1>2, NoMatch
  <2>3. everywhere(s, anyBrace) = replaced(s, m)
    BY DEF everywhere
  <2> HIDE DEF m
  <2> QED  BY <1>1, <2>1, <2>2, <2>3, Untaken
<1>7. everywhere(s, atTimeZone) = s
  <2> DEFINE m == [i \in 1 .. Len(s) |-> atTimeZone(s, i)]
  <2>1. taken(s, m)
    BY <1>1, TakesAtTimeZone DEF taken
  <2>2. \A i \in 1 .. Len(s) : m[i].length = 0
    BY <1>2, NoMatch
  <2>3. everywhere(s, atTimeZone) = replaced(s, m)
    BY DEF everywhere
  <2> HIDE DEF m
  <2> QED  BY <1>1, <2>1, <2>2, <2>3, Untaken
<1>8. everywhere(s, stringAgg) = s
  <2> DEFINE m == [i \in 1 .. Len(s) |-> stringAgg(s, i)]
  <2>1. taken(s, m)
    BY <1>1, TakesStringAgg DEF taken
  <2>2. \A i \in 1 .. Len(s) : m[i].length = 0
    BY <1>2, NoMatch
  <2>3. everywhere(s, stringAgg) = replaced(s, m)
    BY DEF everywhere
  <2> HIDE DEF m
  <2> QED  BY <1>1, <2>1, <2>2, <2>3, Untaken
<1>9. everywhere(s, unnest) = s
  <2> DEFINE m == [i \in 1 .. Len(s) |-> unnest(s, i)]
  <2>1. taken(s, m)
    BY <1>1, TakesUnnest DEF taken
  <2>2. \A i \in 1 .. Len(s) : m[i].length = 0
    BY <1>2, NoMatch
  <2>3. everywhere(s, unnest) = replaced(s, m)
    BY DEF everywhere
  <2> HIDE DEF m
  <2> QED  BY <1>1, <2>1, <2>2, <2>3, Untaken
<1>10. everywhere(s, regclassOid) = s
  <2> DEFINE m == [i \in 1 .. Len(s) |-> regclassOid(s, i)]
  <2>1. taken(s, m)
    BY <1>1, TakesRegclassOid DEF taken
  <2>2. \A i \in 1 .. Len(s) : m[i].length = 0
    BY <1>2, NoMatch
  <2>3. everywhere(s, regclassOid) = replaced(s, m)
    BY DEF everywhere
  <2> HIDE DEF m
  <2> QED  BY <1>1, <2>1, <2>2, <2>3, Untaken
<1>11. everywhere(s, regclassName) = s
  <2> DEFINE m == [i \in 1 .. Len(s) |-> regclassName(s, i)]
  <2>1. taken(s, m)
    BY <1>1, TakesRegclassName DEF taken
  <2>2. \A i \in 1 .. Len(s) : m[i].length = 0
    BY <1>2, NoMatch
  <2>3. everywhere(s, regclassName) = replaced(s, m)
    BY DEF everywhere
  <2> HIDE DEF m
  <2> QED  BY <1>1, <2>1, <2>2, <2>3, Untaken
<1>12. everywhere(s, qualifier) = s
  <2> DEFINE m == [i \in 1 .. Len(s) |-> qualifier(s, i)]
  <2>1. taken(s, m)
    BY <1>1, TakesQualifier DEF taken
  <2>2. \A i \in 1 .. Len(s) : m[i].length = 0
    BY <1>2, NoMatch
  <2>3. everywhere(s, qualifier) = replaced(s, m)
    BY DEF everywhere
  <2> HIDE DEF m
  <2> QED  BY <1>1, <2>1, <2>2, <2>3, Untaken
<1>13. everywhere(s, keywordsCall) = s
  <2> DEFINE m == [i \in 1 .. Len(s) |-> keywordsCall(s, i)]
  <2>1. taken(s, m)
    BY <1>1, TakesKeywordsCall DEF taken
  <2>2. \A i \in 1 .. Len(s) : m[i].length = 0
    BY <1>2, NoMatch
  <2>3. everywhere(s, keywordsCall) = replaced(s, m)
    BY DEF everywhere
  <2> HIDE DEF m
  <2> QED  BY <1>1, <2>1, <2>2, <2>3, Untaken
<1>14. everywhere(s, cast) = s
  <2> DEFINE m == [i \in 1 .. Len(s) |-> cast(s, i)]
  <2>1. taken(s, m)
    BY <1>1, TakesCast DEF taken
  <2>2. \A i \in 1 .. Len(s) : m[i].length = 0
    BY <1>2, NoMatch
  <2>3. everywhere(s, cast) = replaced(s, m)
    BY DEF everywhere
  <2> HIDE DEF m
  <2> QED  BY <1>1, <2>1, <2>2, <2>3, Untaken
<1>15. everywhere(s, systemFunction) = s
  <2> DEFINE m == [i \in 1 .. Len(s) |-> systemFunction(s, i)]
  <2>1. taken(s, m)
    BY <1>1, TakesSystemFunction DEF taken
  <2>2. \A i \in 1 .. Len(s) : m[i].length = 0
    BY <1>2, NoMatch
  <2>3. everywhere(s, systemFunction) = replaced(s, m)
    BY DEF everywhere
  <2> HIDE DEF m
  <2> QED  BY <1>1, <2>1, <2>2, <2>3, Untaken
<1>16. everywhere(s, show) = s
  <2> DEFINE m == [i \in 1 .. Len(s) |-> show(s, i)]
  <2>1. taken(s, m)
    BY <1>1, TakesShow DEF taken
  <2>2. \A i \in 1 .. Len(s) : m[i].length = 0
    BY <1>2, NoMatch
  <2>3. everywhere(s, show) = replaced(s, m)
    BY DEF everywhere
  <2> HIDE DEF m
  <2> QED  BY <1>1, <2>1, <2>2, <2>3, Untaken
<1>17. everywhere(s, currentDatabase) = s
  <2> DEFINE m == [i \in 1 .. Len(s) |-> currentDatabase(s, i)]
  <2>1. taken(s, m)
    BY <1>1, TakesCurrentDatabase DEF taken
  <2>2. \A i \in 1 .. Len(s) : m[i].length = 0
    BY <1>2, NoMatch
  <2>3. everywhere(s, currentDatabase) = replaced(s, m)
    BY DEF everywhere
  <2> HIDE DEF m
  <2> QED  BY <1>1, <2>1, <2>2, <2>3, Untaken
<1>18. rewriteUnnest(s) = s
  <2> DEFINE found == {i \in 1 .. Len(s) : unnestAt(s, i).found}
             t == everywhere(s, unnest)
             m == [i \in 1 .. Len(t) |-> unnested(s, found, t, i)]
  <2>1. rewriteUnnest(s) = replaced(t, m)
    BY DEF rewriteUnnest
  <2>2. t = s
    BY <1>9
  <2>3. found = {}
    BY NoMatch
  <2> HIDE DEF t, found
  <2>4. \A i \in 1 .. Len(t) : unnested(s, found, t, i) = nothing
    BY <2>3 DEF unnested
  <2>5. taken(t, m)
    BY <1>1, <2>2, TakesUnnested DEF taken
  <2>6. \A i \in 1 .. Len(t) : m[i].length = 0
    BY <1>2, <2>4
  <2> HIDE DEF m
  <2> QED  BY <1>1, <2>1, <2>2, <2>5, <2>6, Untaken
<1>19. typeless(s) => passesBefore(s) = s
  BY <1>1, <1>3, <1>4, <1>5, <1>6, <1>7, DDLKeeps DEF passesBefore
<1>20. passesAfter(s) = s
  BY <1>10, <1>11, <1>12, <1>13, <1>14, <1>15, <1>16, <1>17, <1>18 DEF passesAfter
<1> QED  BY <1>8, <1>18, <1>19, <1>20

\* Ordinary statements go to SQLite as they are.
THEOREM OrdinaryUntouched == Spec => OrdinaryKept
<1>1. ASSUME TextInv, ordinary(q), Next PROVE q' = q
  <2>1. bare(q) /\ typeless(q) /\ Accepted(q) = <<>> /\ isText(q)
    <3>1. \A i \in 1 .. Len(q) : q[i] \in Range(q)
      BY <1>1, TextIn DEF TextInv
    <3> QED  BY <1>1, <3>1 DEF TextInv, bare, typeless, ordinary
  <2>2. \A i \in 1 .. Len(q) : q[i] # "to_char" /\ q[i] # "concat"
    BY <2>1 DEF bare, Notations
  <2>3. CASE Accept
    BY <2>1, <2>3 DEF Accept
  <2>4. CASE Before
    BY <2>1, <2>4, PassesKeep DEF Before
  <2>5. CASE TranslateToChar
    <3>1. toChar # 0 /\ from \in Nat
      BY <1>1, <2>5 DEF TranslateToChar, TextInv
    <3>2. q[toChar] = "to_char" /\ toChar \in from .. Len(q) - 1 /\ from >= 1 /\ Len(q) \in Nat
      BY <1>1, <2>1, <3>1, CallFound, TextIn DEF toChar, TextInv
    <3> QED  BY <2>2, <3>1, <3>2
  <2>6. CASE TranslateConcat
    <3>1. concat # 0 /\ 1 \in Nat
      BY <1>1, <2>6 DEF TranslateConcat
    <3>2. q[concat] = "concat" /\ concat \in 1 .. Len(q) - 1 /\ Len(q) \in Nat
      BY <1>1, <2>1, <3>1, CallFound, TextIn DEF concat, TextInv
    <3> QED  BY <2>2, <3>2
  <2>7. CASE After
    BY <2>1, <2>7, PassesKeep DEF After
  <2>8. CASE NoToChar
    BY <2>1, <2>8, PassesKeep DEF NoToChar
  <2>9. CASE SkipToChar \/ NoConcat \/ FindEnum \/ NoEnums
    BY <2>9 DEF SkipToChar, NoConcat, FindEnum, NoEnums
  <2> QED  BY <1>1, <2>3, <2>4, <2>5, <2>6, <2>7, <2>8, <2>9 DEF Next
<1>2. TextInv /\ [Next]_vars => [ordinary(q) => q' = q]_vars
  BY <1>1 DEF vars
<1> QED  BY <1>2, StaysText, PTL DEF Spec, OrdinaryKept

-----------------------------------------------------------------------------
(* Membership tests are read as they were written.                           *)

\* What asks for a translation, and a text without it.
Reserved == Notations \cup typeWords

unreserved(s) == isText(s) /\ \A i \in 1 .. Len(s) : s[i] \notin Reserved

\* Passes leave such a text alone.
LEMMA Unreserved ==
    ASSUME NEW s, unreserved(s)
    PROVE  bare(s) /\ typeless(s)
  BY DEF unreserved, Reserved, bare, typeless

\* All the words of types.
LEMMA TypeWords ==
    typeWords \subseteq {"zone", "timestamptz", "timetz", "varying", "character", "bpchar", "precision", "bytea",
                         "boolean", "bigint", "smallint", "int8", "int4", "int2", "integer", "json", "jsonb", "uuid",
                         "inet", "cidr", "macaddr", "serial", "bigserial", "smallserial", "nextval", "sequence"}
<1> DEFINE W == {"zone", "timestamptz", "timetz", "varying", "character", "bpchar", "precision", "bytea",
                 "boolean", "bigint", "smallint", "int8", "int4", "int2", "integer", "json", "jsonb", "uuid",
                 "inet", "cidr", "macaddr", "serial", "bigserial", "smallserial", "nextval", "sequence"}
           in(names) == \A f \in names : Last(f) \in W
<1>1. \A words : words \subseteq W => in(alone(words))
  <2> SUFFICES ASSUME NEW words, words \subseteq W, NEW w \in words PROVE Last(<<w>>) \in W
    BY Zenon DEF alone
  <2>1. Last(<<w>>) = w
    BY DEF Last
  <2> HIDE DEF W
  <2> QED  BY <2>1
<1>2. \A type : in(withZone(type))
  <2> SUFFICES ASSUME NEW type, NEW z PROVE Last(<<type, z, "time", "zone">>) \in W
    BY DEF withZone
  <2> QED  BY DEF Last
<1>3. in({<<"character", "varying">>}) /\ in({<<"character">>}) /\ in({<<"double", "precision">>})
  <2>1. /\ Last(<<"character", "varying">>) = "varying" /\ Last(<<"character">>) = "character"
        /\ Last(<<"double", "precision">>) = "precision"
    BY DEF Last
  <2> QED  BY <2>1
<1>4. /\ {"timestamptz"} \subseteq W /\ {"timetz"} \subseteq W /\ {"bpchar"} \subseteq W /\ {"bytea"} \subseteq W
      /\ {"boolean"} \subseteq W /\ {"bigint", "smallint", "int8", "int4", "int2", "integer"} \subseteq W
      /\ {"json", "jsonb", "uuid", "inet", "cidr", "macaddr"} \subseteq W
      /\ {"serial", "bigserial", "smallserial"} \subseteq W /\ {"nextval", "sequence"} \subseteq W
  OBVIOUS
<1> HIDE DEF W, in
<1>5. in(serials.from)
  BY <1>1, <1>4 DEF serials, mapping
<1>6. \A n \in 1 .. 12 : in(ddlTypeMappings[n].from)
  <2> DEFINE of(k) == ddlTypeMappings[k].from
  <2>1. /\ of(1) = withZone("timestamp") /\ of(2) = alone({"timestamptz"})
        /\ of(3) = withZone("time") /\ of(4) = alone({"timetz"})
        /\ of(5) = {<<"character", "varying">>} /\ of(6) = {<<"character">>}
        /\ of(7) = alone({"bpchar"}) /\ of(8) = {<<"double", "precision">>}
        /\ of(9) = alone({"bytea"}) /\ of(10) = alone({"boolean"})
        /\ of(11) = integers /\ of(12) = textual
    BY DEF ddlTypeMappings, mapping, mappingOf
  <2> HIDE DEF of
  <2>2. in(of(1)) /\ in(of(2)) /\ in(of(3)) /\ in(of(4))
    BY <1>1, <1>2, <1>4, <2>1
  <2>3. in(of(5)) /\ in(of(6)) /\ in(of(7)) /\ in(of(8))
    BY <1>1, <1>3, <1>4, <2>1, Zenon
  <2>4. in(of(9)) /\ in(of(10)) /\ in(of(11)) /\ in(of(12))
    BY <1>1, <1>4, <2>1 DEF integers, textual
  <2>5. \A n \in 1 .. 12 : n \in 1 .. 4 \/ n \in 5 .. 8 \/ n \in 9 .. 12
    OBVIOUS
  <2>6. \A n \in 1 .. 4 : in(of(n))
    BY <2>2
  <2>7. \A n \in 5 .. 8 : in(of(n))
    BY <2>3
  <2>8. \A n \in 9 .. 12 : in(of(n))
    BY <2>4
  <2>9. \A n \in 1 .. 12 : in(of(n))
    BY <2>5, <2>6, <2>7, <2>8, Zenon
  <2> QED  BY <2>9 DEF of
<1>7. \A r \in rules : in(r.from)
  <2>1. DOMAIN ddlTypeMappings = 1 .. 12
    BY DEF ddlTypeMappings
  <2> QED  BY <1>5, <1>6, <2>1 DEF rules, Range
<1>8. \A r \in rules : lastWords(r) \subseteq W
  BY <1>7 DEF lastWords, in
<1>9. ruleWords \subseteq W
  BY <1>8, Zenon DEF ruleWords
<1>10. "nextval" \in W /\ "sequence" \in W
  BY <1>4, Zenon
<1> SUFFICES typeWords \subseteq W
  BY DEF W
<1> QED  BY <1>9, <1>10 DEF typeWords

\* The tests and the tables in which nothing asks for one.
PlainLists == {labels \in LabelLists : \A k \in DOMAIN labels : Range(labels[k]) \cap Reserved = {}}
PlainChecks == {c \in Checks : c.column \notin Reserved /\ c.labels \in PlainLists}
PlainTables == {checks \in Definitions : plainTable(checks)}

\* A plain table consists of plain tests.
LEMMA PlainTests ==
    ASSUME NEW checks \in PlainTables
    PROVE  checks \in Seq(PlainChecks)
<1>1. checks \in Seq(Checks) /\ plainTable(checks)
  BY TablesAssumption DEF PlainTables
<1>2. ASSUME NEW k \in DOMAIN checks PROVE checks[k] \in PlainChecks
  <2>1. checks[k] \in Checks
    BY <1>1
  <2>2. \A c \in Checks : c.labels \in LabelLists
    BY DEF Checks
  <2> QED  BY <1>1, <2>1, <2>2 DEF plainTable, PlainChecks, PlainLists, Reserved
<1>3. Len(checks) \in Nat /\ DOMAIN checks = 1 .. Len(checks) /\ checks = [k \in 1 .. Len(checks) |-> checks[k]]
  BY <1>1
<1> QED  BY <1>2, <1>3

\* The labels of a test are texts in which nothing is translated.
LEMMA Labels ==
    ASSUME NEW labels \in PlainLists
    PROVE  /\ Len(labels) \in Nat /\ Len(labels) >= 1 /\ DOMAIN labels = 1 .. Len(labels)
           /\ labels = [k \in 1 .. Len(labels) |-> labels[k]]
           /\ \A k \in 1 .. Len(labels) : unreserved(labels[k])
<1> DEFINE T == Range(labels)
<1>1. labels # <<>> /\ labels \in Seq(T) /\ \A k \in DOMAIN labels : isText(labels[k]) /\ Range(labels[k]) \cap Reserved = {}
  BY TablesAssumption DEF PlainLists
<1> HIDE DEF T
<1>2. Len(labels) \in Nat /\ Len(labels) >= 1 /\ DOMAIN labels = 1 .. Len(labels) /\ labels = [k \in 1 .. Len(labels) |-> labels[k]]
  BY <1>1
<1>3. ASSUME NEW k \in 1 .. Len(labels) PROVE unreserved(labels[k])
  <2> DEFINE s == labels[k]
  <2>1. isText(s) /\ Range(s) \cap Reserved = {}
    BY <1>1, <1>2
  <2> HIDE DEF s
  <2>2. \A i \in 1 .. Len(s) : s[i] \in Range(s)
    BY <2>1, TextIn
  <2>3. unreserved(s)
    BY <2>1, <2>2 DEF unreserved
  <2> QED  BY <2>3 DEF s
<1> QED  BY <1>2, <1>3

\* A list is split into the literals of its labels.
LEMMA ListParses ==
    ASSUME NEW labels \in PlainLists
    PROVE  /\ splitArgs(list(labels)) = [k \in DOMAIN labels |-> rendered(labels[k])]
           /\ formed(list(labels))
<1> DEFINE n == Len(labels)
           p == [k \in DOMAIN labels |-> rendered(labels[k])]
<1>1. n \in Nat /\ n >= 1 /\ DOMAIN labels = 1 .. n /\ \A k \in 1 .. n : isText(labels[k])
  BY Labels DEF unreserved
<1>2. \A s : isText(s) => plain(rendered(s)) /\ isText(rendered(s))
  BY LiteralPlain DEF rendered
<1>3. p = [k \in 1 .. n |-> rendered(labels[k])] /\ Len(p) = n
  BY <1>1
<1>4. \A k \in 1 .. n : p[k] = rendered(labels[k])
  BY <1>1
<1> HIDE DEF p, n
<1>5. areTexts(p) /\ Len(p) >= 1 /\ \A k \in 1 .. Len(p) : plain(p[k])
  <2>1. \A k \in 1 .. n : isText(p[k]) /\ plain(p[k])
    BY <1>1, <1>2, <1>4
  <2>2. p = [k \in 1 .. Len(p) |-> p[k]]
    BY <1>3, <1>4
  <2> QED  BY <1>1, <1>3, <2>1, <2>2 DEF areTexts
<1>6. splitArgs(joined(p, <<",">>)) = p /\ formed(joined(p, <<",">>))
  BY <1>5, SplitJoined
<1>7. list(labels) = joined(p, <<",">>)
  BY DEF list, p
<1> QED  BY <1>6, <1>7 DEF p

\* A test of a column whose list is x, and that goes on with t.
testOf(body, column, x, t) ==
    /\ isText(body) /\ Len(x) \in Nat /\ Len(t) \in Nat /\ Len(body) = 3 + Len(x) + Len(t)
    /\ body[1] = column /\ body[2] = "in" /\ body[3] = "("
    /\ matchParen(body, 3) = 3 + Len(x) + 1
    /\ SubSeq(body, 4, matchParen(body, 3) - 1) = x

\* The parts of a membership test.
LEMMA TestRead ==
    ASSUME NEW column, NEW x, formed(x), NEW t, isText(t), Len(t) >= 1, t[1] = ")"
    PROVE  testOf((<<column, "in", "(">> \o x) \o t, column, x, t)
<1> DEFINE h == <<column, "in", "(">>
           g == h \o x
           body == g \o t
           m == Len(x)
<1>1. isText(h) /\ Len(h) = 3 /\ h[1] = column /\ h[2] = "in" /\ h[3] = "("
  BY Tuples
<1>2. isText(x) /\ m \in Nat /\ Len(t) \in Nat
  BY TextIn DEF formed, leads
<1> HIDE DEF h
<1>3. /\ isText(g) /\ Len(g) = 3 + m
      /\ \A i \in 1 .. 3 : g[i] = h[i]
      /\ \A i \in 1 .. m : g[3 + i] = x[i]
  <2>1. /\ isText(h \o x) /\ Len(h \o x) = Len(h) + Len(x)
        /\ \A i \in 1 .. Len(h) : (h \o x)[i] = h[i]
        /\ \A i \in 1 .. Len(x) : (h \o x)[Len(h) + i] = x[i]
    <3>1. isText(h) /\ isText(x)
      BY <1>1, <1>2
    <3> QED  BY <3>1, TextConcat
  <2> QED  BY <1>1, <2>1
<1> HIDE DEF g, m
<1>4. /\ isText(body) /\ Len(body) = 3 + m + Len(t)
      /\ \A i \in 1 .. 3 + m : body[i] = g[i]
      /\ \A i \in 1 .. Len(t) : body[3 + m + i] = t[i]
  <2>1. /\ isText(g \o t) /\ Len(g \o t) = Len(g) + Len(t)
        /\ \A i \in 1 .. Len(g) : (g \o t)[i] = g[i]
        /\ \A i \in 1 .. Len(t) : (g \o t)[Len(g) + i] = t[i]
    BY <1>3, TextConcat
  <2> QED  BY <1>3, <2>1
<1> HIDE DEF body
<1>5. body[1] = column /\ body[2] = "in" /\ body[3] = "("
  <2>1. \A i \in 1 .. 3 : i \in 1 .. 3 + m
    BY <1>2
  <2>2. \A i \in 1 .. 3 : body[i] = h[i]
    BY <1>3, <1>4, <2>1
  <2> QED  BY <1>1, <2>2
<1>6. \A i \in 1 .. m : body[3 + i] = x[i]
  <2>1. \A i \in 1 .. m : 3 + i \in 1 .. 3 + m
    BY <1>2
  <2> QED  BY <1>3, <1>4, <2>1
<1>7. body[3 + m + 1] = ")" /\ 3 + m + 1 <= Len(body) /\ 3 \in 1 .. Len(body)
  <2>1. 1 \in 1 .. Len(t)
    BY <1>2
  <2>2. 3 + m + 1 <= 3 + m + Len(t) /\ 3 \in 1 .. 3 + m + Len(t)
    BY <1>2
  <2> QED  BY <1>4, <2>1, <2>2
<1>8. matchParen(body, 3) = 3 + m + 1
  <2>1. 3 + Len(x) + 1 <= Len(body) /\ body[3 + Len(x) + 1] = ")" /\ \A i \in 1 .. Len(x) : body[3 + i] = x[i]
    BY <1>6, <1>7 DEF m
  <2> DEFINE o == 3
  <2>2. o \in 1 .. Len(body) /\ body[o] = "("
    BY <1>5, <1>7
  <2>3. o + Len(x) + 1 <= Len(body) /\ body[o + Len(x) + 1] = ")" /\ \A i \in 1 .. Len(x) : body[o + i] = x[i]
    BY <2>1
  <2> HIDE DEF o
  <2>4. matchParen(body, o) = o + Len(x) + 1
    BY <1>4, <2>2, <2>3, ParenAround
  <2> QED  BY <2>4 DEF o, m
<1>9. SubSeq(body, 4, 3 + m) = x
  <2> DEFINE a == 4
             b == 3 + m
             e == SubSeq(body, a, b)
  <2>1. a \in Int /\ a >= 1 /\ b \in Int /\ b <= Len(body) /\ b - a + 1 = m
    BY <1>2, <1>4
  <2>2. /\ isText(e) /\ Len(e) = (IF a <= b THEN b - a + 1 ELSE 0)
        /\ \A i \in 1 .. b - a + 1 : e[i] = body[a + i - 1]
    <3> HIDE DEF a, b
    <3> QED  BY <1>4, <2>1, TextPart
  <2> HIDE DEF e
  <2>3. Len(e) = m
    BY <1>2, <2>2
  <2>4. ASSUME NEW i \in 1 .. m PROVE e[i] = x[i]
    <3>1. e[i] = body[a + i - 1] /\ a + i - 1 = 3 + i
      BY <1>2, <2>1, <2>2
    <3> QED  BY <1>6, <3>1
  <2>5. e = x
    BY <1>2, <2>2, <2>3, <2>4, SameText DEF m
  <2> QED  BY <2>1, <2>5 DEF e
<1>10. SubSeq(body, 4, matchParen(body, 3) - 1) = x
  <2> DEFINE l == matchParen(body, 3) - 1
             e == 3 + m
  <2>1. l = e
    BY <1>2, <1>8
  <2>2. SubSeq(body, 4, e) = x
    BY <1>9
  <2> HIDE DEF l, e
  <2>3. SubSeq(body, 4, l) = x
    BY <2>1, <2>2
  <2> QED  BY <2>3 DEF l
<1> HIDE DEF body, m, g, h
<1>11. testOf(body, column, x, t)
  BY <1>2, <1>4, <1>5, <1>8, <1>10 DEF m, testOf
<1> QED  BY <1>11 DEF body, g, h

\* What parseInList makes of one, and that it takes nothing else for one: not a
\* test in a longer condition, not NOT IN, and not a list of something else.
LEMMA ParsesBack ==
    ASSUME NEW c \in PlainChecks
    PROVE  parseInList(Body(c), Columns) =
             IF c.form = "in" THEN [ok |-> TRUE, column |-> c.column, labels |-> c.labels] ELSE NoEnum
<1> DEFINE column == c.column
           labels == c.labels
           x == list(labels)
           body == Body(c)
           close == matchParen(body, 3)
           args == splitArgs(SubSeq(body, 4, close - 1))
<1>1. /\ c.form \in {"in", "and", "not", "words"} /\ column \in Columns /\ labels \in PlainLists
  BY DEF PlainChecks, Checks
<1>2. parseInList(body, Columns) =
        IF /\ Len(body) > 3 /\ body[1] \in Columns /\ body[2] = "in" /\ body[3] = "("
           /\ close = Len(body)
           /\ \A k \in DOMAIN args : isLiteral(args[k])
        THEN [ok |-> TRUE, column |-> body[1],
              labels |-> [k \in DOMAIN args |-> unescaped(inside(args[k]))]]
        ELSE NoEnum
  BY DEF parseInList
<1>3. formed(x) /\ splitArgs(x) = [k \in DOMAIN labels |-> rendered(labels[k])]
  BY <1>1, ListParses
<1>4. Len(labels) \in Nat /\ DOMAIN labels = 1 .. Len(labels) /\ labels = [k \in 1 .. Len(labels) |-> labels[k]]
      /\ \A k \in 1 .. Len(labels) : isText(labels[k])
  BY <1>1, Labels DEF unreserved
<1> HIDE DEF column, labels, x
<1>5. CASE c.form = "in"
  <2> DEFINE t == <<")">>
  <2>1. body = (<<column, "in", "(">> \o x) \o t
    BY <1>5 DEF Body, column, labels, x
  <2>2. isText(t) /\ Len(t) = 1 /\ t[1] = ")"
    BY Tuples
  <2> HIDE DEF t, body
  <2>3. /\ Len(x) \in Nat /\ Len(body) = 3 + Len(x) + Len(t)
        /\ body[1] = column /\ body[2] = "in" /\ body[3] = "("
        /\ close = 3 + Len(x) + 1
        /\ SubSeq(body, 4, close - 1) = x
    <3>1. Len(t) >= 1
      BY <2>2
    <3>2. testOf(body, column, x, t)
      BY <1>3, <2>1, <2>2, <3>1, TestRead
    <3> QED  BY <3>2 DEF testOf
  <2> HIDE DEF close
  <2>4. Len(body) > 3 /\ close = Len(body)
    BY <2>2, <2>3
  <2>5. args = [k \in DOMAIN labels |-> rendered(labels[k])]
    BY <1>3, <2>3
  <2> HIDE DEF args
  <2>6. DOMAIN args = DOMAIN labels /\ \A k \in DOMAIN labels : args[k] = rendered(labels[k])
    BY <2>5
  <2>7. ASSUME NEW k \in DOMAIN labels PROVE isLiteral(args[k]) /\ unescaped(inside(args[k])) = labels[k]
    <3> DEFINE s == labels[k]
    <3>1. isText(s)
      BY <1>4
    <3> HIDE DEF s
    <3>2. isLiteral(literalOf(doubled(s))) /\ inside(literalOf(doubled(s))) = doubled(s)
      BY <3>1, LiteralPlain
    <3>3. unescaped(doubled(s)) = s
      BY <3>1, DoubledBack
    <3>4. args[k] = literalOf(doubled(s))
      BY <2>6 DEF rendered, s
    <3> QED  BY <3>2, <3>3, <3>4 DEF s
  <2>8. [k \in DOMAIN args |-> unescaped(inside(args[k]))] = labels
    <3>1. [k \in DOMAIN args |-> unescaped(inside(args[k]))] = [k \in DOMAIN labels |-> labels[k]]
      BY <2>6, <2>7
    <3> QED  BY <1>4, <3>1
  <2>9. \A k \in DOMAIN args : isLiteral(args[k])
    BY <2>6, <2>7
  <2> QED  BY <1>1, <1>2, <1>5, <2>3, <2>4, <2>8, <2>9 DEF body, column, labels
<1>6. CASE c.form = "and"
  <2> DEFINE t == <<")", "and", "x">>
  <2>1. body = (<<column, "in", "(">> \o x) \o t
    BY <1>6 DEF Body, column, labels, x
  <2>2. isText(t) /\ Len(t) = 3 /\ t[1] = ")"
    BY Tuples
  <2> HIDE DEF t, body
  <2>3. /\ Len(x) \in Nat /\ Len(body) = 3 + Len(x) + Len(t) /\ close = 3 + Len(x) + 1
    <3>1. Len(t) >= 1
      BY <2>2
    <3>2. testOf(body, column, x, t)
      BY <1>3, <2>1, <2>2, <3>1, TestRead
    <3> QED  BY <3>2 DEF testOf
  <2> HIDE DEF close
  <2>4. close # Len(body)
    BY <2>2, <2>3
  <2> QED  BY <1>2, <1>6, <2>4 DEF body
<1>7. CASE c.form = "not"
  <2> DEFINE h == <<column, "not", "in", "(">>
  <2>1. body = (h \o x) \o <<")">>
    BY <1>7 DEF Body, column, labels, x
  <2>2. isText(h) /\ isText(x) /\ isText(<<")">>) /\ Len(h) = 4 /\ h[2] = "not"
    BY <1>3, Tuples DEF formed, leads
  <2> HIDE DEF h, body
  <2>3. isText(h \o x) /\ Len(h \o x) >= 2 /\ (h \o x)[2] = "not" /\ Len(h \o x) \in Nat
    <3>1. /\ isText(h \o x) /\ Len(h \o x) = Len(h) + Len(x)
          /\ \A i \in 1 .. Len(h) : (h \o x)[i] = h[i]
      BY <2>2, TextConcat
    <3>2. Len(x) \in Nat /\ 2 \in 1 .. Len(h)
      BY <2>2, TextIn
    <3> QED  BY <2>2, <3>1, <3>2
  <2>4. body[2] = "not"
    <3> DEFINE g == h \o x
    <3>1. isText(g) /\ Len(g) >= 2 /\ g[2] = "not" /\ Len(g) \in Nat
      BY <2>3
    <3> HIDE DEF g
    <3>2. \A i \in 1 .. Len(g) : (g \o <<")">>)[i] = g[i]
      BY <2>2, <3>1, TextConcat
    <3>3. 2 \in 1 .. Len(g)
      BY <3>1
    <3>4. (g \o <<")">>)[2] = g[2]
      BY <3>2, <3>3
    <3> QED  BY <2>1, <3>1, <3>4 DEF g
  <2> QED  BY <1>2, <1>7, <2>4 DEF body
<1>8. CASE c.form = "words"
  <2> DEFINE b == <<",">>
             w == <<"x">>
             t == <<")">>
             h == <<column, "in", "(">>
             y == (x \o b) \o w
  <2>1. body = (h \o x) \o <<",", "x", ")">>
    BY <1>8 DEF Body, column, labels, x
  <2>2. isText(b) /\ isText(w) /\ isText(t) /\ isText(h) /\ isText(x) /\ Len(t) = 1 /\ t[1] = ")" /\ Len(w) = 1
    BY <1>3, Tuples DEF formed, leads
  <2>3. (b \o w) \o t = <<",", "x", ")">>
    <3> DEFINE k == ","
               l == "x"
               m == ")"
    <3> HIDE DEF k, l, m
    <3>1. <<k>> \o <<l>> = <<k, l>> /\ <<k, l>> \o <<m>> = <<k, l, m>>
      BY TuplesOn
    <3>2. (<<k>> \o <<l>>) \o <<m>> = <<k, l, m>>
      BY <3>1
    <3> QED  BY <3>2 DEF k, l, m
  <2>4. plain(w)
    <3>1. formed(w)
      <4> DEFINE e == "x"
      <4>1. e \notin {Quote, "(", ")"}
        BY DEF Quote
      <4> HIDE DEF e
      <4>2. leads(<<e>>, 0, 0)
        BY <4>1, LeadsToken
      <4> QED  BY <4>2 DEF e, formed
    <3>2. commasOf(w) = {}
      <4>1. \A i \in 1 .. Len(w) : w[i] = "x"
        <5>1. w[1] = "x"
          OBVIOUS
        <5>2. Len(w) = 1
          BY <2>2
        <5> HIDE DEF w
        <5>3. \A i \in 1 .. Len(w) : i = 1
          BY <5>2
        <5> QED  BY <5>1, <5>3
      <4> HIDE DEF w
      <4> QED  BY <4>1 DEF commasOf
    <3> QED  BY <3>1, <3>2 DEF plain
  <2>5. formed(b)
    <3> DEFINE e == ","
    <3>1. e \notin {Quote, "(", ")"}
      BY DEF Quote
    <3> HIDE DEF e
    <3>2. leads(<<e>>, 0, 0)
      BY <3>1, LeadsToken
    <3> QED  BY <3>2 DEF e, formed
  <2>6. splitArgs(y) = Append(splitArgs(x), w)
    BY <1>3, <2>4, SplitMore
  <2> HIDE DEF b, w, t, h
  <2>7. formed(y)
    <3>1. leads(x, 0, 0) /\ leads(b, 0, 0) /\ leads(w, 0, 0)
      BY <1>3, <2>4, <2>5 DEF formed, plain
    <3>2. leads(x \o b, 0, 0)
      BY <3>1, LeadsOn
    <3>3. leads((x \o b) \o w, 0, 0)
      BY <3>1, <3>2, LeadsOn
    <3> QED  BY <3>3 DEF formed
  <2>8. body = (h \o y) \o t
    <3>1. cat(cat(h, x), cat(cat(b, w), t)) = cat(cat(h, cat(cat(x, b), w)), t)
      <4>1. cat(cat(x, b), w) = cat(x, cat(b, w)) /\ isText(cat(b, w))
        BY <2>2, CatAssociative
      <4> DEFINE u == cat(b, w)
      <4>2. isText(u)
        BY <4>1
      <4> HIDE DEF u
      <4>3. cat(cat(h, x), u) = cat(h, cat(x, u)) /\ isText(cat(h, x))
        BY <2>2, <4>2, CatAssociative
      <4> DEFINE v == cat(h, x)
      <4>4. isText(v)
        BY <4>3
      <4> HIDE DEF v
      <4>5. cat(cat(v, u), t) = cat(v, cat(u, t))
        BY <2>2, <4>2, <4>4, CatAssociative
      <4> QED  BY <4>1, <4>3, <4>5 DEF u, v
    <3> QED  BY <2>1, <2>3, <3>1 DEF cat
  <2> HIDE DEF body, y
  <2>9. SubSeq(body, 4, close - 1) = y
    <3>1. Len(t) >= 1
      BY <2>2
    <3>2. testOf((<<column, "in", "(">> \o y) \o t, column, y, t)
      BY <2>2, <2>7, <3>1, TestRead
    <3>3. testOf(body, column, y, t)
      BY <2>8, <3>2 DEF h
    <3> QED  BY <3>3 DEF testOf
  <2> HIDE DEF close
  <2>10. args = Append(splitArgs(x), w)
    BY <2>6, <2>9
  <2> HIDE DEF args
  <2>11. \E k \in DOMAIN args : args[k] = w
    <3> DEFINE n == Len(labels)
               p == splitArgs(x)
    <3>1. n \in Nat /\ p = [k \in 1 .. n |-> rendered(labels[k])]
      BY <1>3, <1>4
    <3> HIDE DEF n, p
    <3>2. Len(p) = n
      BY <3>1
    <3>3. Append(p, w)[Len(p) + 1] = w /\ DOMAIN Append(p, w) = 1 .. Len(p) + 1
      BY <3>1, <3>2
    <3>4. n + 1 \in DOMAIN args /\ args[n + 1] = w
      BY <2>10, <3>1, <3>2, <3>3 DEF p
    <3> QED  BY <3>4
  <2>12. ~isLiteral(w)
    BY <2>2 DEF isLiteral
  <2> QED  BY <1>2, <1>8, <2>11, <2>12 DEF body
<1> QED  BY <1>1, <1>5, <1>6, <1>7, <1>8

-----------------------------------------------------------------------------
(* The text of a table.                                                      *)

\* What is joined grows piece by piece, from nothing.
LEMMA JoinedGrowing ==
    ASSUME NEW p, areTexts(p), NEW b, isText(b)
    PROVE  \E f, r : /\ growing(f, r, Len(p)) /\ joined(p, b) = f[Len(p)]
                     /\ \A i \in 1 .. Len(p) : r[i] = IF i = 1 THEN p[i] ELSE b \o p[i]
<1> DEFINE n == Len(p)
           r == [i \in 1 .. n |-> IF i = 1 THEN p[i] ELSE b \o p[i]]
<1>1. n \in Nat /\ p = [k \in 1 .. n |-> p[k]] /\ \A k \in 1 .. n : isText(p[k])
  BY DEF areTexts
<1>2. \A i \in 1 .. n : r[i] = IF i = 1 THEN p[i] ELSE b \o p[i]
  OBVIOUS
<1>3. \A i \in 1 .. n : isText(r[i])
  <2> SUFFICES ASSUME NEW i \in 1 .. n PROVE isText(r[i])
    OBVIOUS
  <2>1. isText(p[i]) /\ isText(b)
    BY <1>1
  <2>2. isText(b \o p[i])
    BY <2>1, TextConcat
  <2> QED  BY <2>1, <2>2
<1> HIDE DEF r
<1>4. CASE n = 0
  <2> DEFINE f == [i \in {0} |-> <<>>]
  <2>1. joined(p, b) = <<>>
    <3>1. p = <<>>
      <4>1. 1 .. 0 = {} /\ n = 0
        BY <1>4
      <4>2. p = [k \in {} |-> p[k]]
        BY <1>1, <4>1
      <4> QED  BY <4>2
    <3>2. parted(<<>>, b) = <<>> /\ FlattenSeq(<<>>) = <<>>
      BY DEF parted, FlattenSeq
    <3>3. joined(p, b) = FlattenSeq(parted(p, b))
      BY DEF joined, parted
    <3> QED  BY <3>1, <3>2, <3>3
  <2>2. /\ f[0] = <<>> /\ \A i \in 0 .. n : isText(f[i])
        /\ \A i \in 1 .. n : isText(r[i]) /\ f[i] = f[i - 1] \o r[i]
    BY <1>4, Tuples
  <2>3. growing(f, r, n) /\ joined(p, b) = f[n]
    BY <1>1, <1>4, <2>1, <2>2 DEF growing
  <2> QED  BY <1>2, <2>3
<1>5. CASE n # 0
  <2>1. Len(p) >= 1
    BY <1>1, <1>5
  <2>2. PICK g : /\ g[1] = p[1] /\ joined(p, b) = g[Len(p)]
                 /\ \A i \in 1 .. Len(p) : isText(g[i])
                 /\ \A i \in 2 .. Len(p) : g[i] = g[i - 1] \o (b \o p[i])
    BY <2>1, JoinedSteps
  <2> HIDE DEF n
  <2> DEFINE f == [i \in 0 .. n |-> IF i = 0 THEN <<>> ELSE g[i]]
  <2>3. f[0] = <<>> /\ f[n] = g[n] /\ \A i \in 1 .. n : f[i] = g[i]
    BY <1>1, <1>5
  <2>4. \A i \in 0 .. n : isText(f[i])
    BY <1>1, <2>2, Tuples DEF n
  <2> HIDE DEF f
  <2>5. ASSUME NEW i \in 1 .. n PROVE f[i] = f[i - 1] \o r[i]
    <3>1. CASE i = 1
      <4> DEFINE x == p[1]
      <4>1. x \in Seq(Range(x))
        BY <1>1, <1>5, <2>1 DEF isText, n
      <4> HIDE DEF x
      <4>2. <<>> \o x = x
        BY <4>1
      <4>3. f[i] = x /\ r[i] = x /\ f[i - 1] = <<>>
        BY <1>2, <2>2, <2>3, <3>1 DEF x
      <4> QED  BY <4>2, <4>3
    <3>2. CASE i # 1
      <4>1. i \in 2 .. n /\ i - 1 \in 1 .. n
        BY <1>1, <3>2
      <4>2. g[i] = g[i - 1] \o (b \o p[i])
        BY <2>2, <4>1 DEF n
      <4>3. f[i - 1] = g[i - 1] /\ f[i] = g[i] /\ r[i] = b \o p[i]
        BY <1>2, <2>3, <3>2, <4>1
      <4> QED  BY <4>2, <4>3
    <3> QED  BY <3>1, <3>2
  <2>6. growing(f, r, n)
    BY <1>1, <1>3, <2>3, <2>4, <2>5 DEF growing
  <2>7. joined(p, b) = f[n]
    BY <2>2, <2>3 DEF n
  <2> QED  BY <1>2, <2>6, <2>7 DEF n
<1> QED  BY <1>4, <1>5

\* What is put together of texts in which nothing is translated is one.
LEMMA BareOn ==
    ASSUME NEW s, unreserved(s), NEW t, unreserved(t)
    PROVE  unreserved(s \o t)
<1> DEFINE m == Len(s)
           n == Len(t)
<1>1. isText(s) /\ isText(t) /\ m \in Nat /\ n \in Nat
  BY TextIn DEF unreserved
<1>2. /\ isText(s \o t) /\ Len(s \o t) = m + n
      /\ \A i \in 1 .. m : (s \o t)[i] = s[i]
      /\ \A i \in 1 .. n : (s \o t)[m + i] = t[i]
  BY <1>1, TextConcat
<1>3. (\A i \in 1 .. m : s[i] \notin Reserved) /\ \A i \in 1 .. n : t[i] \notin Reserved
  BY DEF unreserved
<1> HIDE DEF m, n
<1>4. ASSUME NEW i \in 1 .. m + n PROVE (s \o t)[i] \notin Reserved
  <2>1. CASE i \in 1 .. m
    BY <1>2, <1>3, <2>1
  <2>2. CASE i \notin 1 .. m
    <3> DEFINE k == i - m
    <3>1. k \in 1 .. n /\ m + k = i
      BY <1>1, <2>2
    <3> HIDE DEF k
    <3>2. (s \o t)[m + k] = t[k]
      BY <1>2, <3>1
    <3> QED  BY <1>3, <3>1, <3>2
  <2> QED  BY <2>1, <2>2
<1> QED  BY <1>2, <1>4 DEF unreserved

\* What grows by such pieces is one,
LEMMA GrownBare ==
    ASSUME NEW f, NEW p, NEW n, growing(f, p, n), \A i \in 1 .. n : unreserved(p[i])
    PROVE  unreserved(f[n])
<1>1. /\ n \in Nat /\ f[0] = <<>> /\ \A i \in 1 .. n : f[i] = f[i - 1] \o p[i]
  BY DEF growing
<1> DEFINE P == {i \in 0 .. n : unreserved(f[i])}
<1>2. 0 \in P
  <2>1. isText(<<>>) /\ 1 .. Len(<<>>) = {}
    BY Tuples
  <2>2. unreserved(<<>>)
    BY <2>1 DEF unreserved
  <2> QED  BY <1>1, <2>2
<1>3. ASSUME NEW i \in 0 .. n - 1, i \in P PROVE i + 1 \in P
  <2> DEFINE k == i + 1
  <2>1. k \in 1 .. n /\ k - 1 = i /\ k \in 0 .. n
    BY <1>1
  <2> HIDE DEF k
  <2>2. unreserved(f[i]) /\ unreserved(p[k]) /\ f[k] = f[i] \o p[k]
    BY <1>1, <1>3, <2>1
  <2>3. unreserved(f[k])
    BY <2>2, BareOn
  <2> QED  BY <2>1, <2>3 DEF k
<1>4. n \in P
  <2>1. inductive(P, 0, n)
    BY <1>2, <1>3 DEF inductive
  <2>2. n \in 0 .. n
    BY <1>1
  <2> HIDE DEF P
  <2>3. 0 .. n \subseteq P
    BY <1>1, <2>1, Upwards
  <2> QED  BY <2>2, <2>3
<1> QED  BY <1>4

\* and so is what is joined of such pieces.
LEMMA JoinedBare ==
    ASSUME NEW p, areTexts(p), NEW b, unreserved(b), \A i \in 1 .. Len(p) : unreserved(p[i])
    PROVE  unreserved(joined(p, b))
<1> DEFINE n == Len(p)
<1>1. isText(b)
  BY DEF unreserved
<1>2. PICK f, r : /\ growing(f, r, n) /\ joined(p, b) = f[n]
                  /\ \A i \in 1 .. n : r[i] = IF i = 1 THEN p[i] ELSE b \o p[i]
  BY <1>1, JoinedGrowing
<1>3. \A i \in 1 .. n : unreserved(r[i])
  <2> SUFFICES ASSUME NEW i \in 1 .. n PROVE unreserved(r[i])
    OBVIOUS
  <2>1. unreserved(p[i]) /\ unreserved(b \o p[i])
    BY BareOn
  <2> QED  BY <1>2, <2>1
<1> HIDE DEF n
<1> QED  BY <1>2, <1>3, GrownBare

\* In the literal of a label nothing is translated, as in the label.
LEMMA RenderedBare ==
    ASSUME NEW s, unreserved(s)
    PROVE  unreserved(rendered(s)) /\ isText(rendered(s))
<1> DEFINE n == Len(s)
           d == doubled(s)
           a == <<Quote>>
<1>1. isText(s) /\ n \in Nat /\ \A i \in 1 .. n : s[i] \notin Reserved
  BY TextIn DEF unreserved
<1>2. PICK f : /\ f[0] = <<>> /\ d = f[n]
               /\ \A i \in 0 .. n : isText(f[i])
               /\ \A i \in 1 .. n : f[i] = f[i - 1] \o spelled(s[i])
  BY <1>1, DoubledSteps
<1>3. Quote \notin Reserved
  BY TypeWords DEF Reserved, Notations, Quote, systemFunctions
<1> DEFINE p == [i \in 1 .. n |-> spelled(s[i])]
<1>4. \A i \in 1 .. n : p[i] = spelled(s[i])
  OBVIOUS
<1>5. \A c : c \notin Reserved => unreserved(spelled(c))
  <2> SUFFICES ASSUME NEW c, c \notin Reserved PROVE unreserved(spelled(c))
    OBVIOUS
  <2>1. isText(<<c>>) /\ Len(<<c>>) = 1 /\ isText(<<Quote, Quote>>) /\ Len(<<Quote, Quote>>) = 2
    BY Tuples
  <2>2. unreserved(<<c>>) /\ unreserved(<<Quote, Quote>>)
    BY <1>3, <2>1 DEF unreserved
  <2> QED  BY <2>2 DEF spelled
<1> HIDE DEF p, n, d
<1>6. \A i \in 1 .. n : unreserved(p[i]) /\ isText(p[i])
  BY <1>1, <1>4, <1>5 DEF unreserved
<1>7. growing(f, p, n)
  BY <1>1, <1>2, <1>4, <1>6 DEF growing
<1>8. unreserved(d)
  BY <1>2, <1>6, <1>7, GrownBare
<1>9. unreserved(a)
  <2>1. isText(a) /\ Len(a) = 1 /\ a[1] = Quote
    BY Tuples
  <2> QED  BY <1>3, <2>1 DEF unreserved
<1> HIDE DEF a
<1>10. unreserved((a \o d) \o a)
  <2>1. unreserved(a \o d)
    BY <1>8, <1>9, BareOn
  <2> QED  BY <1>9, <2>1, BareOn
<1> QED  BY <1>10 DEF rendered, literalOf, a, d, unreserved

\* A token that asks for no translation.
LEMMA BareToken ==
    ASSUME NEW c, c \notin Reserved
    PROVE  unreserved(<<c>>)
<1> DEFINE s == <<c>>
<1>1. isText(s) /\ Len(s) = 1 /\ s[1] = c
  BY Tuples
<1> HIDE DEF s
<1>2. \A i \in 1 .. Len(s) : i = 1
  BY <1>1
<1>3. unreserved(s)
  BY <1>1, <1>2 DEF unreserved
<1> QED  BY <1>3 DEF s

\* In a list of labels nothing is translated.
LEMMA ListBare ==
    ASSUME NEW labels \in PlainLists
    PROVE  unreserved(list(labels))
<1> DEFINE n == Len(labels)
           p == [k \in DOMAIN labels |-> rendered(labels[k])]
           b == <<",">>
<1>1. n \in Nat /\ DOMAIN labels = 1 .. n /\ \A k \in 1 .. n : unreserved(labels[k])
  BY Labels
<1>2. \A s : unreserved(s) => unreserved(rendered(s)) /\ isText(rendered(s))
  BY RenderedBare
<1>3. Len(p) = n /\ p = [k \in 1 .. n |-> rendered(labels[k])] /\ \A k \in 1 .. n : p[k] = rendered(labels[k])
  BY <1>1
<1>4. unreserved(b)
  <2> DEFINE e == ","
  <2>1. e \notin Reserved
    BY TypeWords DEF Reserved, Notations, systemFunctions
  <2> HIDE DEF e
  <2>2. unreserved(<<e>>)
    BY <2>1, BareToken
  <2> QED  BY <2>2 DEF e
<1> HIDE DEF p, n, b
<1>5. areTexts(p) /\ \A k \in 1 .. Len(p) : unreserved(p[k])
  <2>1. \A k \in 1 .. n : unreserved(p[k]) /\ isText(p[k])
    BY <1>1, <1>2, <1>3
  <2>2. p = [k \in 1 .. Len(p) |-> p[k]]
    BY <1>3
  <2> QED  BY <1>1, <1>3, <2>1, <2>2 DEF areTexts
<1>6. unreserved(joined(p, b))
  BY <1>4, <1>5, JoinedBare
<1> QED  BY <1>6 DEF list, p, b

\* Words and punctuation that lead from one depth to another.
LEMMA Tokens ==
    /\ \A a, b : LET s == <<a, b, "(">> IN
         a \notin {Quote, "(", ")"} /\ b \notin {Quote, "(", ")"} => leads(s, 0, 1)
    /\ \A a, b, c : LET s == <<a, b, c, "(">> IN
         a \notin {Quote, "(", ")"} /\ b \notin {Quote, "(", ")"} /\ c \notin {Quote, "(", ")"} => leads(s, 0, 1)
    /\ \A a, b : LET s == <<")", a, b>> IN
         a \notin {Quote, "(", ")"} /\ b \notin {Quote, "(", ")"} => leads(s, 1, 0)
    /\ \A a, b : LET s == <<a, b, ")">> IN
         a \notin {Quote, "(", ")"} /\ b \notin {Quote, "(", ")"} => leads(s, 1, 0)
    /\ leads(<<")">>, 1, 0)
<1> DEFINE open == "("
           close == ")"
           other(c) == c \notin {Quote, open, close}
<1>1. \A c : other(c) => leads(<<c>>, 0, 0) /\ leads(<<c>>, 1, 1)
  BY LeadsToken DEF Quote
<1>2. leads(<<open>>, 0, 1) /\ leads(<<close>>, 1, 0)
  <2>1. open = "(" /\ open # Quote /\ close = ")" /\ close # Quote
    BY DEF Quote
  <2> HIDE DEF open, close
  <2>2. leads(<<open>>, 0, 0 + 1) /\ leads(<<close>>, 0 + 1, 0)
    BY <2>1, LeadsToken
  <2> QED  BY <2>2
<1> HIDE DEF open, close, other
<1>3. ASSUME NEW a, NEW b, NEW c, NEW d, NEW e, NEW f, NEW g, leads(<<a>>, d, e), leads(<<b>>, e, f), leads(<<c>>, f, g)
      PROVE  leads(<<a, b, c>>, d, g)
  <2>1. leads(<<a>> \o <<b>>, d, f)
    BY <1>3, LeadsOn
  <2>2. leads((<<a>> \o <<b>>) \o <<c>>, d, g)
    BY <1>3, <2>1, LeadsOn
  <2>3. <<a>> \o <<b>> = <<a, b>> /\ <<a, b>> \o <<c>> = <<a, b, c>>
    BY TuplesOn
  <2> QED  BY <2>2, <2>3
<1>4. ASSUME NEW a, NEW b, NEW c, other(a), other(b), other(c) PROVE leads(<<a, b, c, open>>, 0, 1)
  <2>1. leads(<<a, b, c>>, 0, 0)
    BY <1>1, <1>3, <1>4
  <2>2. leads(<<a, b, c>> \o <<open>>, 0, 1)
    BY <1>2, <2>1, LeadsOn
  <2>3. <<a, b, c>> \o <<open>> = <<a, b, c, open>>
    BY TuplesOn
  <2> QED  BY <2>2, <2>3
<1>5. ASSUME NEW a, NEW b, other(a), other(b)
      PROVE  leads(<<a, b, open>>, 0, 1) /\ leads(<<close, a, b>>, 1, 0) /\ leads(<<a, b, close>>, 1, 0)
  BY <1>1, <1>2, <1>3, <1>5
<1> QED  BY <1>2, <1>4, <1>5 DEF open, close, other

\* A call with well-formed arguments is well-formed.
LEMMA CallFormed ==
    ASSUME NEW h, leads(h, 0, 1), NEW x, formed(x), NEW t, leads(t, 1, 0)
    PROVE  formed((h \o x) \o t)
<1>1. leads(x, 1, 1)
  <2> DEFINE k == 1
  <2>1. leads(x, 0 + k, 0 + k)
    <3> DEFINE d == 0
    <3>1. leads(x, d, d) /\ k \in Nat
      BY DEF formed
    <3> HIDE DEF k, d
    <3>2. leads(x, d + k, d + k)
      BY <3>1, LeadsDeeper
    <3> QED  BY <3>2 DEF d
  <2> QED  BY <2>1
<1>2. leads(h \o x, 0, 1)
  BY <1>1, LeadsOn
<1>3. leads((h \o x) \o t, 0, 0)
  BY <1>2, LeadsOn
<1> QED  BY <1>3 DEF formed

\* The condition of a CHECK is well-formed, and nothing is translated in it.
LEMMA BodyRead ==
    ASSUME NEW c \in PlainChecks
    PROVE  formed(Body(c)) /\ unreserved(Body(c))
<1> DEFINE column == c.column
           x == list(c.labels)
<1>1. c.form \in {"in", "and", "not", "words"} /\ column \in Columns /\ c.labels \in PlainLists
  BY DEF PlainChecks, Checks
<1>2. formed(x) /\ unreserved(x)
  BY <1>1, ListParses, ListBare
<1>3. column \notin Reserved /\ column \notin {Quote, "(", ")"}
  <2>1. column \notin Reserved \cup Punctuation
    BY <1>1, TablesAssumption DEF PlainChecks
  <2> HIDE DEF column
  <2> QED  BY <2>1 DEF Punctuation
<1>4. ASSUME NEW h, NEW t, Body(c) = (h \o x) \o t, leads(h, 0, 1), leads(t, 1, 0), unreserved(h), unreserved(t)
      PROVE  formed(Body(c)) /\ unreserved(Body(c))
  <2> HIDE DEF x
  <2>1. formed((h \o x) \o t)
    BY <1>2, <1>4, CallFormed
  <2>2. unreserved(h \o x)
    BY <1>2, <1>4, BareOn
  <2>3. unreserved((h \o x) \o t)
    BY <1>4, <2>2, BareOn
  <2> QED  BY <1>4, <2>1, <2>3
<1> HIDE DEF column, x
<1>5. /\ {"in", "not", "and", "x", ",", "(", ")"} \cap Reserved = {}
      /\ {"in", "not", "and", "x", ","} \cap {Quote, "(", ")"} = {}
  BY TypeWords DEF Reserved, Notations, systemFunctions, Quote
<1>6. \A a, b, d : {a, b, d} \cap Reserved = {} => unreserved(<<a, b, d>>)
  <2> SUFFICES ASSUME NEW a, NEW b, NEW d, {a, b, d} \cap Reserved = {} PROVE unreserved(<<a, b, d>>)
    OBVIOUS
  <2> DEFINE s == <<a, b, d>>
  <2>1. isText(s) /\ Len(s) = 3 /\ s[1] = a /\ s[2] = b /\ s[3] = d
    BY Tuples
  <2>2. \A i \in 1 .. 3 : i = 1 \/ i = 2 \/ i = 3
    OBVIOUS
  <2> HIDE DEF s
  <2>3. unreserved(s)
    BY <2>1, <2>2 DEF unreserved
  <2> QED  BY <2>3 DEF s
<1>7. \A a, b, d, e : {a, b, d, e} \cap Reserved = {} => unreserved(<<a, b, d, e>>)
  <2> SUFFICES ASSUME NEW a, NEW b, NEW d, NEW e, {a, b, d, e} \cap Reserved = {} PROVE unreserved(<<a, b, d, e>>)
    OBVIOUS
  <2> DEFINE s == <<a, b, d, e>>
  <2>1. isText(s) /\ Len(s) = 4 /\ s[1] = a /\ s[2] = b /\ s[3] = d /\ s[4] = e
    BY Tuples
  <2>2. \A i \in 1 .. 4 : i = 1 \/ i = 2 \/ i = 3 \/ i = 4
    OBVIOUS
  <2> HIDE DEF s
  <2>3. unreserved(s)
    BY <2>1, <2>2 DEF unreserved
  <2> QED  BY <2>3 DEF s
<1>8. unreserved(<<")">>) /\ leads(<<")">>, 1, 0)
  <2> DEFINE e == ")"
  <2>1. e \notin Reserved
    BY <1>5
  <2> HIDE DEF e
  <2>2. unreserved(<<e>>)
    BY <2>1, BareToken
  <2> QED  BY <2>2, Tokens DEF e
<1>9. CASE c.form = "in"
  <2>1. Body(c) = (<<column, "in", "(">> \o x) \o <<")">>
    BY <1>9 DEF Body, column, x
  <2>2. leads(<<column, "in", "(">>, 0, 1)
    BY <1>3, <1>5, Tokens
  <2>3. unreserved(<<column, "in", "(">>)
    BY <1>3, <1>5, <1>6
  <2> QED  BY <1>4, <1>8, <2>1, <2>2, <2>3
<1>10. CASE c.form = "and"
  <2>1. Body(c) = (<<column, "in", "(">> \o x) \o <<")", "and", "x">>
    BY <1>10 DEF Body, column, x
  <2>2. leads(<<column, "in", "(">>, 0, 1) /\ leads(<<")", "and", "x">>, 1, 0)
    BY <1>3, <1>5, Tokens
  <2>3. unreserved(<<column, "in", "(">>) /\ unreserved(<<")", "and", "x">>)
    BY <1>3, <1>5, <1>6
  <2> QED  BY <1>4, <2>1, <2>2, <2>3
<1>11. CASE c.form = "not"
  <2>1. Body(c) = (<<column, "not", "in", "(">> \o x) \o <<")">>
    BY <1>11 DEF Body, column, x
  <2>2. leads(<<column, "not", "in", "(">>, 0, 1)
    BY <1>3, <1>5, Tokens
  <2>3. unreserved(<<column, "not", "in", "(">>)
    BY <1>3, <1>5, <1>7
  <2> QED  BY <1>4, <1>8, <2>1, <2>2, <2>3
<1>12. CASE c.form = "words"
  <2>1. Body(c) = (<<column, "in", "(">> \o x) \o <<",", "x", ")">>
    BY <1>12 DEF Body, column, x
  <2>2. leads(<<column, "in", "(">>, 0, 1) /\ leads(<<",", "x", ")">>, 1, 0)
    BY <1>3, <1>5, Tokens
  <2>3. unreserved(<<column, "in", "(">>) /\ unreserved(<<",", "x", ")">>)
    BY <1>3, <1>5, <1>6
  <2> QED  BY <1>4, <2>1, <2>2, <2>3
<1> QED  BY <1>1, <1>9, <1>10, <1>11, <1>12

\* A word is found where it is called first.
LEMMA CallAt ==
    ASSUME NEW s, isText(s), NEW word, NEW first \in Nat, NEW spot \in first .. Len(s) - 1,
           s[spot] = word, s[spot + 1] = "(", \A i \in first .. spot - 1 : s[i] # word
    PROVE  findCall(s, word, first) = spot
<1> DEFINE heads == {i \in first .. Len(s) - 1 : s[i] = word /\ s[i + 1] = "("}
<1>1. Len(s) \in Nat
  BY TextIn
<1>2. findCall(s, word, first) = IF heads = {} THEN 0 ELSE least(heads)
  BY DEF findCall
<1>3. spot \in heads /\ heads \in SUBSET Nat
  BY <1>1
<1>4. ASSUME NEW i \in heads PROVE spot <= i
  <2>1. i \in Nat /\ i \in first .. Len(s) - 1 /\ s[i] = word
    BY <1>1
  <2>2. i \notin first .. spot - 1
    BY <2>1
  <2> QED  BY <1>1, <2>1, <2>2
<1> HIDE DEF heads
<1>5. least(heads) \in heads /\ \A i \in heads : least(heads) <= i
  BY <1>3, LeastIn
<1>6. least(heads) = spot
  <2>1. spot <= least(heads) /\ least(heads) <= spot /\ least(heads) \in Nat /\ spot \in Nat
    BY <1>1, <1>3, <1>4, <1>5
  <2> QED  BY <2>1
<1> QED  BY <1>2, <1>3, <1>6

\* A word that does not occur is not called.
LEMMA CallNowhere ==
    ASSUME NEW s, NEW word, NEW first, \A i \in first .. Len(s) - 1 : s[i] # word
    PROVE  findCall(s, word, first) = 0
<1> DEFINE heads == {i \in first .. Len(s) - 1 : s[i] = word /\ s[i + 1] = "("}
<1>1. heads = {}
  OBVIOUS
<1>2. findCall(s, word, first) = IF heads = {} THEN 0 ELSE least(heads)
  BY DEF findCall
<1> QED  BY <1>1, <1>2

\* One CHECK of a table, after the e tokens that separate it from the one before.
clauseOf(r, c, e) ==
    LET l == Len(Body(c))
    IN /\ unreserved(r) /\ l \in Nat /\ Len(r) = e + 4 + l
       /\ r[e + 1] = "x" /\ r[e + 2] = "check" /\ r[e + 3] = "(" /\ r[e + 4 + l] = ")"
       /\ \A i \in 1 .. l : r[e + 3 + i] = Body(c)[i]

\* It is one by itself,
LEMMA ClauseRead ==
    ASSUME NEW c \in PlainChecks
    PROVE  clauseOf(Clause(c), c, 0)
<1> DEFINE h == <<"x", "check", "(">>
           x == Body(c)
           l == Len(x)
           t == <<")">>
           r == (h \o x) \o t
<1>1. unreserved(x) /\ isText(x) /\ l \in Nat
  BY BodyRead, TextIn DEF unreserved
<1>2. unreserved(h) /\ isText(h) /\ Len(h) = 3 /\ h[1] = "x" /\ h[2] = "check" /\ h[3] = "("
  <2>1. isText(h) /\ Len(h) = 3 /\ h[1] = "x" /\ h[2] = "check" /\ h[3] = "("
    BY Tuples
  <2>2. \A i \in 1 .. 3 : i = 1 \/ i = 2 \/ i = 3
    OBVIOUS
  <2>3. {"x", "check", "("} \cap Reserved = {}
    BY TypeWords DEF Reserved, Notations, systemFunctions
  <2> HIDE DEF h
  <2> QED  BY <2>1, <2>2, <2>3 DEF unreserved
<1>3. unreserved(t) /\ isText(t) /\ Len(t) = 1 /\ t[1] = ")"
  <2> DEFINE k == ")"
  <2>1. k \notin Reserved
    BY TypeWords DEF Reserved, Notations, systemFunctions
  <2> HIDE DEF k
  <2>2. unreserved(<<k>>) /\ isText(<<k>>) /\ Len(<<k>>) = 1 /\ <<k>>[1] = k
    BY <2>1, BareToken, Tuples
  <2> QED  BY <2>2 DEF k
<1>4. Clause(c) = r
  BY DEF Clause
<1> HIDE DEF h, x, t, l
<1> DEFINE g == h \o x
<1>5. /\ unreserved(g) /\ isText(g) /\ Len(g) = 3 + l
      /\ \A i \in 1 .. 3 : g[i] = h[i]
      /\ \A i \in 1 .. l : g[3 + i] = x[i]
  <2>1. /\ isText(h \o x) /\ Len(h \o x) = Len(h) + Len(x)
        /\ \A i \in 1 .. Len(h) : (h \o x)[i] = h[i]
        /\ \A i \in 1 .. Len(x) : (h \o x)[Len(h) + i] = x[i]
    <3>1. isText(h) /\ isText(x)
      BY <1>1, <1>2
    <3> QED  BY <3>1, TextConcat
  <2>2. unreserved(h \o x)
    BY <1>1, <1>2, BareOn
  <2> QED  BY <1>2, <2>1, <2>2 DEF l
<1> HIDE DEF g
<1>6. /\ unreserved(r) /\ Len(r) = 3 + l + 1
      /\ \A i \in 1 .. 3 + l : r[i] = g[i]
      /\ r[3 + l + 1] = ")"
  <2>1. /\ Len(g \o t) = Len(g) + Len(t)
        /\ \A i \in 1 .. Len(g) : (g \o t)[i] = g[i]
        /\ \A i \in 1 .. Len(t) : (g \o t)[Len(g) + i] = t[i]
    <3>1. isText(g) /\ isText(t)
      BY <1>3, <1>5
    <3> QED  BY <3>1, TextConcat
  <2>2. unreserved(g \o t)
    BY <1>3, <1>5, BareOn
  <2>3. 1 \in 1 .. Len(t)
    BY <1>3
  <2>4. r = g \o t
    BY DEF g
  <2>5. (g \o t)[Len(g) + 1] = ")"
    BY <1>3, <2>1, <2>3
  <2> HIDE DEF r
  <2> QED  BY <1>1, <1>3, <1>5, <2>1, <2>2, <2>4, <2>5
<1> HIDE DEF r
<1>7. r[1] = "x" /\ r[2] = "check" /\ r[3] = "("
  <2>1. \A i \in 1 .. 3 : i \in 1 .. 3 + l
    BY <1>1
  <2>2. \A i \in 1 .. 3 : r[i] = h[i]
    BY <1>5, <1>6, <2>1
  <2> QED  BY <1>2, <2>2
<1>8. \A i \in 1 .. l : r[3 + i] = x[i]
  <2>1. \A i \in 1 .. l : 3 + i \in 1 .. 3 + l
    BY <1>1
  <2> QED  BY <1>5, <1>6, <2>1
<1>9. /\ 0 + 1 = 1 /\ 0 + 2 = 2 /\ 0 + 3 = 3 /\ 0 + 4 + l = 3 + l + 1 /\ \A i \in 1 .. l : 0 + 3 + i = 3 + i
  BY <1>1
<1> QED  BY <1>1, <1>4, <1>6, <1>7, <1>8, <1>9 DEF clauseOf, l, x

\* and after a comma.
LEMMA NextClauseRead ==
    ASSUME NEW c \in PlainChecks
    PROVE  clauseOf(<<",">> \o Clause(c), c, 1) /\ (<<",">> \o Clause(c))[1] = ","
<1> DEFINE b == <<",">>
           s == Clause(c)
           l == Len(Body(c))
           r == b \o s
<1>1. clauseOf(s, c, 0)
  BY ClauseRead
<1>2. /\ unreserved(s) /\ isText(s) /\ l \in Nat /\ Len(s) = 4 + l
      /\ s[1] = "x" /\ s[2] = "check" /\ s[3] = "(" /\ s[4 + l] = ")"
      /\ \A i \in 1 .. l : s[3 + i] = Body(c)[i]
  <2> HIDE DEF s
  <2>1. 0 + 1 = 1 /\ 0 + 2 = 2 /\ 0 + 3 = 3 /\ l \in Nat
    BY <1>1 DEF clauseOf
  <2>2. 0 + 4 + l = 4 + l /\ \A i \in 1 .. l : 0 + 3 + i = 3 + i
    BY <2>1
  <2> QED  BY <1>1, <2>1, <2>2 DEF clauseOf, unreserved
<1>3. unreserved(b) /\ isText(b) /\ Len(b) = 1 /\ b[1] = ","
  <2> DEFINE k == ","
  <2>1. k \notin Reserved
    BY TypeWords DEF Reserved, Notations, systemFunctions
  <2> HIDE DEF k
  <2>2. unreserved(<<k>>) /\ isText(<<k>>) /\ Len(<<k>>) = 1 /\ <<k>>[1] = k
    BY <2>1, BareToken, Tuples
  <2> QED  BY <2>2 DEF k
<1> HIDE DEF b, s, l
<1>4. /\ unreserved(r) /\ Len(r) = 1 + Len(s) /\ r[1] = ","
      /\ \A i \in 1 .. Len(s) : r[1 + i] = s[i]
  <2>1. /\ Len(b \o s) = Len(b) + Len(s)
        /\ \A i \in 1 .. Len(b) : (b \o s)[i] = b[i]
        /\ \A i \in 1 .. Len(s) : (b \o s)[Len(b) + i] = s[i]
    <3>1. isText(b) /\ isText(s)
      BY <1>2, <1>3
    <3> QED  BY <3>1, TextConcat
  <2>2. unreserved(b \o s)
    BY <1>2, <1>3, BareOn
  <2>3. 1 \in 1 .. Len(b)
    <3>1. Len(b) = 1
      BY <1>3
    <3> QED  BY <3>1
  <2> QED  BY <1>3, <2>1, <2>2, <2>3
<1> HIDE DEF r
<1>5. r[1 + 1] = "x" /\ r[1 + 2] = "check" /\ r[1 + 3] = "(" /\ r[1 + (4 + l)] = ")"
  <2>1. 1 \in 1 .. Len(s) /\ 2 \in 1 .. Len(s) /\ 3 \in 1 .. Len(s) /\ 4 + l \in 1 .. Len(s)
    BY <1>2
  <2> QED  BY <1>2, <1>4, <2>1
<1>6. \A i \in 1 .. l : r[1 + (3 + i)] = Body(c)[i]
  <2>1. \A i \in 1 .. l : 3 + i \in 1 .. Len(s)
    BY <1>2
  <2> QED  BY <1>2, <1>4, <2>1
<1>7. 1 + (4 + l) = 1 + 4 + l /\ Len(r) = 1 + 4 + l /\ \A i \in 1 .. l : 1 + (3 + i) = 1 + 3 + i
  <2>1. l \in Nat /\ Len(s) = 4 + l /\ Len(r) = 1 + Len(s)
    BY <1>2, <1>4
  <2> QED  BY <2>1
<1>8. clauseOf(r, c, 1)
  BY <1>2, <1>4, <1>5, <1>6, <1>7 DEF clauseOf, l
<1> QED  BY <1>4, <1>8 DEF r, b, s

\* Where the search starts at `first` it finds this CHECK, which ends at `end`.
checkFound(s, c, first, end) ==
    LET spot == findCall(s, "check", first)
    IN /\ spot \in Nat /\ spot # 0 /\ end \in Nat /\ end # 0
       /\ matchParen(s, spot + 1) = end /\ SubSeq(s, spot + 2, end - 1) = Body(c)

\* A text that is part of another, after its first m tokens.
partOf(r, s, m) == m + Len(r) <= Len(s) /\ \A i \in 1 .. Len(r) : s[m + i] = r[i]

\* A CHECK that stands in a text is found, and its condition is what is between its parentheses.
LEMMA ClauseFound ==
    ASSUME NEW s, unreserved(s), NEW c \in PlainChecks, NEW r, NEW e \in Nat, clauseOf(r, c, e), NEW m \in Nat, partOf(r, s, m),
           NEW first, first \in 1 .. m + e + 2, \A i \in first .. m + e + 1 : s[i] # "check", NEW end, end = m + Len(r)
    PROVE  checkFound(s, c, first, end)
<1> DEFINE x == Body(c)
           l == Len(x)
           spot == m + e + 2
           open == m + e + 3
           word == "check"
<1>0. m + Len(r) <= Len(s) /\ \A i \in 1 .. Len(r) : s[m + i] = r[i]
  BY DEF partOf
<1>1. /\ isText(s) /\ Len(s) \in Nat /\ isText(x) /\ formed(x) /\ l \in Nat
  BY BodyRead, TextIn DEF unreserved
<1>2. /\ Len(r) = e + 4 + l
      /\ r[e + 2] = word /\ r[e + 3] = "(" /\ r[e + 4 + l] = ")"
      /\ \A i \in 1 .. l : r[e + 3 + i] = x[i]
  BY DEF clauseOf
<1> HIDE DEF l, word
<1>3. s[spot] = word /\ s[spot + 1] = "(" /\ s[open] = "(" /\ s[open + l + 1] = ")"
  <2>1. /\ e + 2 \in 1 .. Len(r) /\ e + 3 \in 1 .. Len(r) /\ e + 4 + l \in 1 .. Len(r)
    BY <1>1, <1>2
  <2>2. s[m + (e + 2)] = r[e + 2] /\ s[m + (e + 3)] = r[e + 3] /\ s[m + (e + 4 + l)] = r[e + 4 + l]
    BY <1>0, <2>1
  <2>3. m + (e + 2) = spot /\ m + (e + 3) = spot + 1 /\ m + (e + 3) = open /\ m + (e + 4 + l) = open + l + 1
    BY <1>1
  <2> HIDE DEF spot, open
  <2> QED  BY <1>2, <2>2, <2>3
<1>4. \A i \in 1 .. l : s[open + i] = x[i]
  <2> SUFFICES ASSUME NEW i \in 1 .. l PROVE s[open + i] = x[i]
    OBVIOUS
  <2> HIDE DEF x
  <2>1. e + 3 + i \in 1 .. Len(r) /\ m + (e + 3 + i) = open + i
    BY <1>1, <1>2
  <2>2. s[m + (e + 3 + i)] = r[e + 3 + i]
    BY <1>0, <2>1
  <2>3. s[open + i] = r[e + 3 + i]
    BY <2>1, <2>2
  <2> QED  BY <1>2, <2>3
<1>5. /\ spot \in first .. Len(s) - 1 /\ first \in Nat /\ spot - 1 = m + e + 1 /\ spot + 1 = open
      /\ open \in 1 .. Len(s) /\ open + l + 1 <= Len(s) /\ open + l + 1 = m + Len(r)
  BY <1>0, <1>1, <1>2
<1>6. findCall(s, word, first) = spot
  <2>1. \A i \in first .. spot - 1 : s[i] # word
    BY <1>5 DEF word
  <2> HIDE DEF spot
  <2> QED  BY <1>1, <1>3, <1>5, <2>1, CallAt
<1>7. matchParen(s, open) = open + l + 1
  <2> HIDE DEF open, x
  <2>1. open + Len(x) + 1 <= Len(s) /\ s[open + Len(x) + 1] = ")" /\ \A i \in 1 .. Len(x) : s[open + i] = x[i]
    BY <1>3, <1>4, <1>5 DEF l
  <2>2. matchParen(s, open) = open + Len(x) + 1
    BY <1>1, <1>3, <1>5, <2>1, ParenAround
  <2> QED  BY <2>2 DEF l
<1>8. SubSeq(s, spot + 2, end - 1) = x
  <2> DEFINE a == spot + 2
             b == end - 1
             t == SubSeq(s, a, b)
  <2>1. a \in Int /\ a >= 1 /\ b \in Int /\ b <= Len(s) /\ b - a + 1 = l /\ a - 1 = open
    BY <1>1, <1>2, <1>5
  <2>2. /\ isText(t) /\ Len(t) = (IF a <= b THEN b - a + 1 ELSE 0)
        /\ \A i \in 1 .. b - a + 1 : t[i] = s[a + i - 1]
    <3> HIDE DEF a, b
    <3> QED  BY <1>1, <2>1, TextPart
  <2> HIDE DEF t, a, b, open, x
  <2>3. Len(t) = l
    BY <1>1, <2>1, <2>2
  <2>4. ASSUME NEW i \in 1 .. l PROVE t[i] = x[i]
    <3>1. t[i] = s[a + i - 1] /\ a + i - 1 = open + i
      BY <1>1, <2>1, <2>2
    <3> QED  BY <1>4, <3>1
  <2>5. t = x
    BY <1>1, <2>2, <2>3, <2>4, SameText DEF l
  <2> QED  BY <2>5 DEF t, a, b
<1>9. spot \in Nat /\ spot # 0 /\ end \in Nat /\ end # 0 /\ end = open + l + 1 /\ spot + 1 = open
  BY <1>1, <1>5
<1> HIDE DEF x, open
<1>10. matchParen(s, spot + 1) = end
  BY <1>7, <1>9
<1> DEFINE f == findCall(s, "check", first)
<1>11. f = spot
  BY <1>6 DEF word
<1> HIDE DEF f, spot
<1>12. f \in Nat /\ f # 0 /\ matchParen(s, f + 1) = end /\ SubSeq(s, f + 2, end - 1) = x
  BY <1>8, <1>9, <1>10, <1>11
<1> QED  BY <1>9, <1>12 DEF checkFound, f, x

\* Where the search goes on after k CHECKs: h[k] is where the last of them ends.
begin(h, k) == IF k = 0 THEN 1 ELSE h[k] + 1

\* The text of a table, in which the search finds one CHECK after another.
laidOut(s, checks, h) ==
    /\ unreserved(s) /\ Len(s) > 1 /\ s[1] = "create" /\ s[2] = "("
    /\ \A k \in 1 .. Len(checks) : checkFound(s, checks[k], begin(h, k - 1), h[k])
    /\ findCall(s, "check", begin(h, Len(checks))) = 0

\* Every table is laid out like that.
LEMMA TableRead ==
    ASSUME NEW checks \in PlainTables
    PROVE  \E h : laidOut(RenderTable(checks), checks, h)
<1> DEFINE n == Len(checks)
           p == [k \in DOMAIN checks |-> Clause(checks[k])]
           b == <<",">>
           e(k) == IF k = 1 THEN 0 ELSE 1
<1>1. n \in Nat /\ DOMAIN checks = 1 .. n /\ \A k \in 1 .. n : checks[k] \in PlainChecks
  <2>1. checks \in Seq(PlainChecks)
    BY PlainTests
  <2> HIDE DEF n
  <2> QED  BY <2>1 DEF n
<1>2. Len(p) = n /\ p = [k \in 1 .. n |-> Clause(checks[k])] /\ \A k \in 1 .. n : p[k] = Clause(checks[k])
  BY <1>1
<1> HIDE DEF p, n
<1>3. areTexts(p) /\ \A k \in 1 .. Len(p) : unreserved(p[k])
  <2>1. \A k \in 1 .. n : unreserved(p[k]) /\ isText(p[k])
    BY <1>1, <1>2, ClauseRead DEF clauseOf, unreserved
  <2>2. p = [k \in 1 .. Len(p) |-> p[k]]
    BY <1>2
  <2> QED  BY <1>1, <1>2, <2>1, <2>2 DEF areTexts
<1>4. unreserved(b) /\ isText(b)
  <2> DEFINE k == ","
  <2>1. k \notin Reserved
    BY TypeWords DEF Reserved, Notations, systemFunctions
  <2> HIDE DEF k
  <2>2. unreserved(<<k>>) /\ isText(<<k>>)
    BY <2>1, BareToken, Tuples
  <2> QED  BY <2>2 DEF k
<1>5. PICK f, r : /\ growing(f, r, n) /\ joined(p, b) = f[n]
                  /\ \A i \in 1 .. n : r[i] = IF i = 1 THEN p[i] ELSE b \o p[i]
  <2>1. PICK f, r : /\ growing(f, r, Len(p)) /\ joined(p, b) = f[Len(p)]
                    /\ \A i \in 1 .. Len(p) : r[i] = IF i = 1 THEN p[i] ELSE b \o p[i]
    BY <1>3, <1>4, JoinedGrowing
  <2>2. growing(f, r, n) /\ joined(p, b) = f[n] /\ \A i \in 1 .. n : r[i] = IF i = 1 THEN p[i] ELSE b \o p[i]
    BY <1>2, <2>1
  <2> QED  BY <2>2
<1>6. ASSUME NEW k \in 1 .. n
      PROVE  e(k) \in Nat /\ clauseOf(r[k], checks[k], e(k)) /\ (k # 1 => r[k][1] = ",")
  <2>1. checks[k] \in PlainChecks /\ p[k] = Clause(checks[k])
    BY <1>1, <1>2
  <2>2. CASE k = 1
    <3>1. r[k] = Clause(checks[k]) /\ e(k) = 0
      BY <1>5, <2>1, <2>2
    <3> QED  BY <2>1, <2>2, <3>1, ClauseRead
  <2>3. CASE k # 1
    <3>1. r[k] = <<",">> \o Clause(checks[k]) /\ e(k) = 1
      BY <1>5, <2>1, <2>3
    <3>2. clauseOf(<<",">> \o Clause(checks[k]), checks[k], 1) /\ (<<",">> \o Clause(checks[k]))[1] = ","
      BY <2>1, NextClauseRead
    <3> QED  BY <3>1, <3>2
  <2> QED  BY <2>2, <2>3
<1> DEFINE F == f[n]
           N == Len(F)
           d == <<"create", "(">>
           t == <<")">>
           T == (d \o F) \o t
<1>7. unreserved(F) /\ isText(F) /\ N \in Nat
  <2>1. unreserved(joined(p, b))
    BY <1>3, <1>4, JoinedBare
  <2>2. unreserved(F)
    BY <1>5, <2>1
  <2> HIDE DEF F
  <2> QED  BY <2>2, TextIn DEF unreserved
<1>8. RenderTable(checks) = T
  BY <1>5 DEF RenderTable, p
<1>9. standing(f, r, n) /\ f[0] = <<>>
  BY <1>5, Grows DEF growing
<1>10. unreserved(d) /\ isText(d) /\ Len(d) = 2 /\ d[1] = "create" /\ d[2] = "("
  <2>1. isText(d) /\ Len(d) = 2 /\ d[1] = "create" /\ d[2] = "("
    BY Tuples
  <2>2. \A i \in 1 .. 2 : i = 1 \/ i = 2
    OBVIOUS
  <2>3. {"create", "("} \cap Reserved = {}
    BY TypeWords DEF Reserved, Notations, systemFunctions
  <2> HIDE DEF d
  <2> QED  BY <2>1, <2>2, <2>3 DEF unreserved
<1>11. unreserved(t) /\ isText(t) /\ Len(t) = 1
  <2> DEFINE k == ")"
  <2>1. k \notin Reserved
    BY TypeWords DEF Reserved, Notations, systemFunctions
  <2> HIDE DEF k
  <2>2. unreserved(<<k>>) /\ isText(<<k>>) /\ Len(<<k>>) = 1
    BY <2>1, BareToken, Tuples
  <2> QED  BY <2>2 DEF k
<1> HIDE DEF F, d, t, b, e
<1>12. /\ unreserved(T) /\ Len(T) = N + 3
       /\ T[1] = "create" /\ T[2] = "(" /\ \A i \in 1 .. N : T[2 + i] = F[i]
  <2> DEFINE g == d \o F
  <2>1. /\ isText(g) /\ Len(g) = Len(d) + Len(F)
        /\ \A i \in 1 .. Len(d) : g[i] = d[i]
        /\ \A i \in 1 .. Len(F) : g[Len(d) + i] = F[i]
    <3>1. isText(d) /\ isText(F)
      BY <1>7, <1>10
    <3> QED  BY <3>1, TextConcat
  <2>2. unreserved(g)
    BY <1>7, <1>10, BareOn
  <2> HIDE DEF g
  <2>3. /\ Len(g \o t) = Len(g) + Len(t)
        /\ \A i \in 1 .. Len(g) : (g \o t)[i] = g[i]
    <3>1. isText(g) /\ isText(t)
      BY <1>11, <2>1
    <3> QED  BY <3>1, TextConcat
  <2>4. unreserved(g \o t)
    BY <1>11, <2>2, BareOn
  <2>5. T = g \o t
    BY DEF g
  <2> HIDE DEF T
  <2>6. Len(d) = 2 /\ Len(t) = 1
    BY <1>10, <1>11
  <2>7. Len(g) = 2 + N /\ Len(T) = N + 3
    BY <1>7, <2>1, <2>3, <2>5, <2>6
  <2>8. \A i \in 1 .. 2 : i \in 1 .. 2 + N
    BY <1>7
  <2>9. \A i \in 1 .. 2 : T[i] = d[i]
    BY <2>1, <2>3, <2>5, <2>6, <2>7, <2>8
  <2>10. \A i \in 1 .. N : 2 + i \in 1 .. 2 + N
    BY <1>7
  <2>11. \A i \in 1 .. N : T[2 + i] = F[i]
    BY <2>1, <2>3, <2>5, <2>6, <2>7, <2>10
  <2> QED  BY <1>10, <2>4, <2>5, <2>7, <2>9, <2>11
<1> HIDE DEF T
<1> DEFINE h == [k \in 0 .. n |-> 2 + Len(f[k])]
<1>13. \A k \in 0 .. n : Len(f[k]) \in Nat /\ Len(f[k]) <= N /\ h[k] = 2 + Len(f[k])
  BY <1>9 DEF standing, F
<1>14. Len(f[0]) = 0
  BY <1>9
<1> HIDE DEF h, N
<1>15. ASSUME NEW k \in 1 .. n
       PROVE  checkFound(T, checks[k], begin(h, k - 1), h[k])
  <2> DEFINE m == Len(f[k - 1])
             o == 2 + m
             i1 == e(k)
             c == checks[k]
             u == r[k]
             first == begin(h, k - 1)
  <2>1. k \in 0 .. n /\ k - 1 \in 0 .. n
    BY <1>1
  <2>2. m \in Nat /\ (k = 1 => m = 0) /\ h[k - 1] = o
    BY <1>13, <1>14, <2>1
  <2>3. c \in PlainChecks /\ i1 \in Nat /\ clauseOf(u, c, i1) /\ (k # 1 => u[1] = ",") /\ (k = 1 => i1 = 0) /\ (k # 1 => i1 = 1)
    BY <1>1, <1>6 DEF e
  <2>4. Len(f[k]) = m + Len(u) /\ \A i \in 1 .. Len(u) : F[m + i] = u[i]
    BY <1>9 DEF standing, F
  <2>5. Len(u) \in Nat /\ Len(u) >= i1 + 4 /\ u[i1 + 1] = "x"
    <3> DEFINE l == Len(Body(c))
               w == Len(u)
    <3>1. l \in Nat /\ w = i1 + 4 + l /\ u[i1 + 1] = "x"
      BY <2>3 DEF clauseOf
    <3>3. i1 \in Nat
      BY <2>3
    <3> HIDE DEF w, l, i1
    <3>2. w \in Nat /\ w >= i1 + 4
      BY <3>1, <3>3
    <3> QED  BY <3>1, <3>2 DEF w, i1
  <2>6. h[k] = 2 + Len(f[k]) /\ Len(f[k]) <= N
    BY <1>13, <2>1
  <2>7. first = IF k = 1 THEN 1 ELSE o + 1
    <3>1. k - 1 = 0 <=> k = 1
      OBVIOUS
    <3> QED  BY <2>2, <3>1 DEF begin
  <2> HIDE DEF m, i1, c, u, first
  <2>8. o \in Nat /\ o + Len(u) <= Len(T) /\ h[k] = o + Len(u) /\ m + Len(u) <= N
    <3>1. Len(f[k]) = m + Len(u)
      BY <2>4
    <3> QED  BY <1>7, <1>12, <2>2, <2>5, <2>6, <3>1
  <2>9. \A i \in 1 .. Len(u) : T[o + i] = u[i]
    <3> SUFFICES ASSUME NEW i \in 1 .. Len(u) PROVE T[o + i] = u[i]
      OBVIOUS
    <3>1. m + i \in 1 .. N /\ 2 + (m + i) = o + i
      BY <1>7, <2>2, <2>5, <2>8
    <3>2. T[2 + (m + i)] = F[m + i]
      BY <1>12, <3>1
    <3>3. F[m + i] = u[i]
      BY <2>4
    <3> QED  BY <3>1, <3>2, <3>3
  <2>10. first \in 1 .. o + i1 + 2 /\ \A i \in first .. o + i1 + 1 : T[i] # "check"
    <3>1. CASE k = 1
      <4>1. first = 1 /\ i1 = 0 /\ o = 2
        BY <2>2, <2>3, <2>7, <3>1
      <4>2. T[1] # "check" /\ T[2] # "check"
        BY <1>12
      <4>3. T[3] # "check"
        <5>1. 1 \in 1 .. Len(u) /\ i1 + 1 = 1 /\ o + 1 = 3
          BY <2>5, <4>1
        <5>2. T[o + 1] = u[1]
          BY <2>9, <5>1
        <5> QED  BY <2>5, <5>1, <5>2
      <4>4. \A i \in 1 .. 3 : i = 1 \/ i = 2 \/ i = 3
        OBVIOUS
      <4> QED  BY <4>1, <4>2, <4>3, <4>4
    <3>2. CASE k # 1
      <4>1. first = o + 1 /\ i1 = 1
        BY <2>3, <2>7, <3>2
      <4>2. T[o + 1] = "," /\ T[o + 2] = "x"
        <5>1. 1 \in 1 .. Len(u) /\ 2 \in 1 .. Len(u) /\ i1 + 1 = 2
          BY <2>5, <4>1
        <5> QED  BY <2>3, <2>5, <2>9, <3>2, <5>1
      <4>3. \A i \in o + 1 .. o + 2 : i = o + 1 \/ i = o + 2
        BY <2>8
      <4>4. o + i1 + 1 = o + 2 /\ o + 1 \in 1 .. o + i1 + 2
        BY <2>8, <4>1
      <4> QED  BY <4>1, <4>2, <4>3, <4>4
    <3> QED  BY <3>1, <3>2
  <2> HIDE DEF o
  <2>11. partOf(u, T, o) /\ c \in PlainChecks /\ i1 \in Nat /\ clauseOf(u, c, i1) /\ o \in Nat
    BY <2>3, <2>8, <2>9 DEF partOf
  <2>12. checkFound(T, c, first, h[k])
    BY <1>12, <2>8, <2>10, <2>11, ClauseFound
  <2> QED  BY <2>12 DEF first, c
<1>16. findCall(T, "check", begin(h, n)) = 0
  <2> DEFINE first == begin(h, n)
  <2>1. ASSUME NEW i \in first .. Len(T) - 1 PROVE T[i] # "check"
    <3>1. CASE n = 0
      <4>1. N = 0 /\ Len(T) = 3 /\ first = 1
        BY <1>12, <1>14, <3>1 DEF N, F, begin
      <4>2. i = 1 \/ i = 2
        BY <4>1
      <4> QED  BY <1>12, <4>2
    <3>2. CASE n # 0
      <4>1. first = h[n] + 1 /\ n \in 0 .. n
        BY <1>1, <3>2 DEF begin
      <4>2. h[n] = 2 + N
        BY <1>13, <4>1 DEF N, F
      <4>3. first = Len(T) /\ Len(T) \in Nat
        BY <1>7, <1>12, <4>1, <4>2
      <4> QED  BY <4>3
    <3> QED  BY <3>1, <3>2
  <2> HIDE DEF first
  <2>2. findCall(T, "check", first) = 0
    BY <2>1, CallNowhere
  <2> QED  BY <2>2 DEF first
<1>17. laidOut(T, checks, h)
  <2>1. Len(T) > 1
    BY <1>7, <1>12
  <2> QED  BY <1>12, <1>15, <1>16, <2>1 DEF laidOut, n
<1> QED  BY <1>8, <1>17

-----------------------------------------------------------------------------
(* The enums of a table.                                                     *)

\* The first test of its column among the CHECKs of a table.
firstTest(checks, k) ==
    /\ checks[k].form = "in"
    /\ \A j \in 1 .. k - 1 :
         checks[j].form = "in" => ToLower[checks[j].column] # ToLower[checks[k].column]

\* There is an earlier test of its column; there is an enum of a column.
testedBefore(checks, k) ==
    \E j \in 1 .. k - 1 : checks[j].form = "in" /\ ToLower[checks[j].column] = ToLower[checks[k].column]

hasEnum(v, column) == \E j \in DOMAIN v : ToLower[v[j].column] = ToLower[column]

enumOf(c) == [column |-> c.column, labels |-> c.labels]

\* The enums after each CHECK of a table.
collected(g, checks) ==
    /\ g[0] = <<>> /\ EnumsOf(checks) = g[Len(checks)]
    /\ \A k \in 1 .. Len(checks) :
         /\ g[k] = IF firstTest(checks, k) THEN Append(g[k - 1], enumOf(checks[k])) ELSE g[k - 1]
         /\ hasEnum(g[k - 1], checks[k].column) <=> testedBefore(checks, k)

\* They are collected one CHECK at a time, and are of the columns tested so far.
LEMMA EnumsCollected ==
    ASSUME NEW checks \in PlainTables
    PROVE  \E g : collected(g, checks)
<1> DEFINE n == Len(checks)
           E == [column : Columns, labels : PlainLists]
           V == Seq(E)
           next1(v, i) == IF firstTest(checks, i) THEN Append(v, enumOf(checks[i])) ELSE v
           step == [i \in 1 .. n |-> [v \in V |-> next1(v, i)]]
           rhs(g) == [i \in 0 .. n |-> IF i = 0 THEN <<>> ELSE next1(g[i - 1], i)]
           found == CHOOSE g : g = rhs(g)
<1>1. n \in Nat /\ \A i \in 1 .. n : checks[i] \in Checks /\ enumOf(checks[i]) \in E
  <2>1. checks \in Seq(PlainChecks) /\ PlainChecks \subseteq Checks
    BY PlainTests DEF PlainChecks
  <2>2. \A c \in PlainChecks : enumOf(c) \in E
    BY DEF enumOf, PlainChecks, Checks
  <2> HIDE DEF E
  <2> QED  BY <2>1, <2>2
<1>2. \A i \in 1 .. n : \A v \in V : step[i][v] = next1(v, i) /\ step[i][v] \in V
  <2> SUFFICES ASSUME NEW i \in 1 .. n, NEW v \in V PROVE next1(v, i) \in V
    OBVIOUS
  <2>1. enumOf(checks[i]) \in E
    BY <1>1
  <2> HIDE DEF E
  <2>2. Append(v, enumOf(checks[i])) \in V
    BY <2>1
  <2> QED  BY <2>2
<1>3. <<>> \in V
  OBVIOUS
<1>4. EnumsOf(checks) = found[n]
  BY DEF EnumsOf, firstTest, enumOf
<1> HIDE DEF step, V, next1
<1>5. PICK f : follows(f, <<>>, step, V, 0, n)
  <2> DEFINE e == <<>>
  <2>1. stepsIn(step, V, 0, n) /\ e \in V
    BY <1>2, <1>3 DEF stepsIn
  <2> HIDE DEF n, e
  <2>2. \E f : follows(f, e, step, V, 0, n)
    BY <1>1, <2>1, Stepwise
  <2> QED  BY <2>2 DEF e
<1>6. f = rhs(f)
  <2>1. f \in [0 .. n -> V] /\ f[0] = <<>> /\ \A i \in 1 .. n : f[i] = step[i][f[i - 1]]
    BY <1>5 DEF follows
  <2>2. ASSUME NEW i \in 1 .. n PROVE f[i] = next1(f[i - 1], i)
    <3>1. i - 1 \in 0 .. n
      BY <1>1
    <3>2. f[i - 1] \in V
      BY <2>1, <3>1
    <3> QED  BY <1>2, <2>1, <3>2
  <2>3. ASSUME NEW i \in 0 .. n PROVE f[i] = IF i = 0 THEN <<>> ELSE next1(f[i - 1], i)
    <3>1. i = 0 \/ i \in 1 .. n
      BY <1>1
    <3> QED  BY <2>1, <2>2, <3>1
  <2> QED  BY <2>1, <2>3
<1> HIDE DEF rhs
<1>7. found = rhs(found)
  BY <1>6
<1> HIDE DEF found
<1>8. found[0] = <<>> /\ \A i \in 1 .. n : found[i] = next1(found[i - 1], i)
  <2>1. 0 \in 0 .. n /\ \A i \in 1 .. n : i \in 0 .. n /\ i # 0
    BY <1>1
  <2> QED  BY <1>7, <2>1 DEF rhs
<1> DEFINE name(j) == ToLower[checks[j].column]
           tested(k) == {j \in 1 .. k : checks[j].form = "in"}
           names(v) == {ToLower[v[j].column] : j \in DOMAIN v}
           P == {i \in 0 .. n : found[i] \in V /\ names(found[i]) = {name(j) : j \in tested(i)}}
<1>9. 0 \in P
  <2>1. names(<<>>) = {} /\ tested(0) = {}
    OBVIOUS
  <2>2. {name(j) : j \in tested(0)} = {}
    BY <2>1
  <2>3. 0 \in 0 .. n
    BY <1>1
  <2> QED  BY <1>3, <1>8, <2>1, <2>2, <2>3
<1>10. ASSUME NEW i \in 0 .. n - 1, i \in P PROVE i + 1 \in P
  <2> DEFINE k == i + 1
             v == found[i]
             c == checks[k]
  <2>1. k \in 1 .. n /\ k \in 0 .. n /\ k - 1 = i /\ i \in Nat /\ k = i + 1
    BY <1>1
  <2>2. v \in V /\ names(v) = {name(j) : j \in tested(i)}
    BY <1>10
  <2> HIDE DEF k
  <2>3. found[k] = next1(v, k) /\ enumOf(c) \in E /\ enumOf(c).column = c.column
    BY <1>1, <1>8, <2>1 DEF enumOf
  <2>4. tested(k) = IF c.form = "in" THEN tested(i) \cup {k} ELSE tested(i)
    <3>1. \A j : j \in 1 .. k <=> j \in 1 .. i \/ j = k
      BY <2>1
    <3> QED  BY <3>1
  <2> HIDE DEF v, names, tested, name
  <2>5. ASSUME NEW e \in E PROVE Append(v, e) \in V /\ names(Append(v, e)) = names(v) \cup {ToLower[e.column]}
    <3> HIDE DEF E
    <3>1. v \in Seq(E)
      BY <2>2 DEF V
    <3> DEFINE m == Len(v)
               w == Append(v, e)
    <3>2. m \in Nat /\ w \in Seq(E) /\ DOMAIN v = 1 .. m /\ DOMAIN w = 1 .. m + 1 /\ w[m + 1] = e /\ \A j \in 1 .. m : w[j] = v[j]
      BY <3>1
    <3>3. \A j : j \in 1 .. m + 1 <=> j \in 1 .. m \/ j = m + 1
      BY <3>2
    <3> HIDE DEF w, m
    <3>4. names(w) = names(v) \cup {ToLower[e.column]}
      BY <3>2, <3>3 DEF names
    <3> QED  BY <3>2, <3>4 DEF w, V
  <2>6. CASE firstTest(checks, k)
    <3>1. found[k] = Append(v, enumOf(c)) /\ c.form = "in"
      BY <2>3, <2>6 DEF next1, firstTest
    <3>2. found[k] \in V /\ names(found[k]) = names(v) \cup {ToLower[c.column]}
      BY <2>3, <2>5, <3>1
    <3>3. {name(j) : j \in tested(k)} = {name(j) : j \in tested(i)} \cup {ToLower[c.column]}
      BY <2>4, <3>1 DEF name
    <3>4. names(found[k]) = {name(j) : j \in tested(k)}
      BY <2>2, <3>2, <3>3
    <3> QED  BY <2>1, <3>2, <3>4 DEF k
  <2>7. CASE ~firstTest(checks, k)
    <3>1. found[k] = v
      BY <2>3, <2>7 DEF next1
    <3>2. {name(j) : j \in tested(k)} = {name(j) : j \in tested(i)}
      <4>1. CASE c.form # "in"
        BY <2>4, <4>1
      <4>2. CASE c.form = "in"
        <5>1. PICK l \in 1 .. k - 1 : checks[l].form = "in" /\ ToLower[checks[l].column] = ToLower[c.column]
          BY <2>7, <4>2 DEF firstTest
        <5>2. l \in tested(i) /\ name(l) = name(k)
          BY <2>1, <5>1 DEF tested, name
        <5> QED  BY <2>4, <4>2, <5>2
      <4> QED  BY <4>1, <4>2
    <3>3. names(found[k]) = {name(j) : j \in tested(k)}
      BY <2>2, <3>1, <3>2
    <3> QED  BY <2>1, <2>2, <3>1, <3>3 DEF k
  <2> QED  BY <2>6, <2>7
<1>11. 0 .. n \subseteq P
  <2>1. inductive(P, 0, n)
    BY <1>9, <1>10 DEF inductive
  <2> HIDE DEF P, n
  <2> QED  BY <1>1, <2>1, Upwards
<1>12. ASSUME NEW k \in 1 .. n
       PROVE  hasEnum(found[k - 1], checks[k].column) <=> testedBefore(checks, k)
  <2> DEFINE i == k - 1
             a == ToLower[checks[k].column]
  <2>1. i \in 0 .. n
    BY <1>1
  <2> HIDE DEF i, a
  <2>2. names(found[i]) = {name(j) : j \in tested(i)}
    <3>1. i \in P
      <4> HIDE DEF P
      <4> QED  BY <1>11, <2>1
    <3> QED  BY <3>1
  <2>3. (\E j \in DOMAIN found[i] : ToLower[found[i][j].column] = a) <=> a \in names(found[i])
    OBVIOUS
  <2>4. (\E j \in 1 .. i : checks[j].form = "in" /\ ToLower[checks[j].column] = a) <=> a \in {name(j) : j \in tested(i)}
    OBVIOUS
  <2>5. (\E j \in DOMAIN found[i] : ToLower[found[i][j].column] = a)
          <=> (\E j \in 1 .. i : checks[j].form = "in" /\ ToLower[checks[j].column] = a)
    BY <2>2, <2>3, <2>4
  <2> QED  BY <2>5 DEF i, a, hasEnum, testedBefore
<1>13. collected(found, checks)
  <2>1. \A k \in 1 .. n : found[k] = IF firstTest(checks, k) THEN Append(found[k - 1], enumOf(checks[k])) ELSE found[k - 1]
    BY <1>8 DEF next1
  <2>2. n = Len(checks)
    OBVIOUS
  <2> HIDE DEF n, rhs, names, name, tested, P
  <2>3. \A k \in 1 .. n : hasEnum(found[k - 1], checks[k].column) <=> testedBefore(checks, k)
    BY <1>12
  <2>4. found[0] = <<>> /\ EnumsOf(checks) = found[n]
    BY <1>4, <1>8
  <2> QED  BY <2>1, <2>2, <2>3, <2>4, Zenon DEF collected
<1> QED  BY <1>13

\* A table on its way through the passes, which leave its text as it is, and through its CHECKs.
onItsWay(checks, h, g) ==
    /\ q = RenderTable(checks)
    /\ \/ pass \in {"before", "to_char", "concat", "after"} /\ from = 1 /\ enums = <<>>
       \/ pass = "enums" /\ \E k \in 0 .. Len(checks) : from = begin(h, k) /\ enums = g[k]
       \/ pass = "done" /\ enums = EnumsOf(checks)

\* Every step takes it on.
LEMMA TableSteps ==
    ASSUME NEW checks \in PlainTables, NEW h, laidOut(RenderTable(checks), checks, h), NEW g, collected(g, checks),
           onItsWay(checks, h, g), [Next]_vars
    PROVE  onItsWay(checks, h, g)'
<1> DEFINE n == Len(checks)
           T == RenderTable(checks)
<1>1. n \in Nat /\ \A k \in 1 .. n : checks[k] \in PlainChecks
  <2>1. checks \in Seq(PlainChecks)
    BY PlainTests
  <2> HIDE DEF n
  <2> QED  BY <2>1 DEF n
<1>2. /\ q = T /\ unreserved(q) /\ isText(q) /\ Len(q) > 1 /\ q[1] = "create" /\ q[2] = "(" /\ Len(q) \in Nat
      /\ \A k \in 1 .. n : checkFound(q, checks[k], begin(h, k - 1), h[k])
      /\ findCall(q, "check", begin(h, n)) = 0
  BY TextIn DEF onItsWay, laidOut, unreserved
<1>3. /\ g[0] = <<>> /\ EnumsOf(checks) = g[n]
      /\ \A k \in 1 .. n : /\ g[k] = IF firstTest(checks, k) THEN Append(g[k - 1], enumOf(checks[k])) ELSE g[k - 1]
                           /\ hasEnum(g[k - 1], checks[k].column) <=> testedBefore(checks, k)
  BY DEF collected
<1> HIDE DEF n, T
<1>4. \/ pass \in {"before", "to_char", "concat", "after"} /\ from = 1 /\ enums = <<>>
      \/ pass = "enums" /\ \E k \in 0 .. n : from = begin(h, k) /\ enums = g[k]
      \/ pass = "done" /\ enums = EnumsOf(checks)
  BY DEF onItsWay, n
<1>5. onItsWay(checks, h, g)' <=>
        /\ q' = T
        /\ \/ pass' \in {"before", "to_char", "concat", "after"} /\ from' = 1 /\ enums' = <<>>
           \/ pass' = "enums" /\ \E k \in 0 .. n : from' = begin(h, k) /\ enums' = g[k]
           \/ pass' = "done" /\ enums' = EnumsOf(checks)
  BY DEF onItsWay, n, T
<1>6. \A i \in 1 .. Len(q) : q[i] # "to_char" /\ q[i] # "concat"
  BY <1>2 DEF unreserved, Reserved, Notations
<1>7. CASE Accept
  <2>1. Accepted(q) = <<>>
    BY <1>2 DEF Accepted
  <2> QED  BY <1>7, <2>1 DEF Accept
<1>8. CASE Before
  BY <1>2, <1>4, <1>5, <1>8, PassesKeep, Unreserved DEF Before
<1>9. CASE TranslateToChar \/ SkipToChar
  <2>1. toChar # 0 /\ pass = "to_char"
    BY <1>9 DEF TranslateToChar, SkipToChar
  <2>2. from = 1 /\ 1 \in Nat
    BY <1>4, <2>1
  <2>3. findCall(q, "to_char", 1) # 0
    BY <2>1, <2>2 DEF toChar
  <2>4. findCall(q, "to_char", 1) \in 1 .. Len(q) - 1 /\ q[findCall(q, "to_char", 1)] = "to_char"
    BY <1>2, <2>2, <2>3, CallFound
  <2> QED  BY <1>2, <1>6, <2>4
<1>10. CASE NoToChar
  BY <1>2, <1>4, <1>5, <1>10, PassesKeep, Unreserved DEF NoToChar
<1>11. CASE TranslateConcat
  <2>1. findCall(q, "concat", 1) # 0 /\ 1 \in Nat
    BY <1>11 DEF TranslateConcat, concat
  <2>2. findCall(q, "concat", 1) \in 1 .. Len(q) - 1 /\ q[findCall(q, "concat", 1)] = "concat"
    BY <1>2, <2>1, CallFound
  <2> QED  BY <1>2, <1>6, <2>2
<1>12. CASE NoConcat
  BY <1>2, <1>4, <1>5, <1>12 DEF NoConcat
<1>13. CASE After
  <2>1. pass' = "enums" /\ q' = q /\ from' = 1 /\ enums' = <<>>
    <3>1. q # <<>>
      BY <1>2
    <3>2. pass = "after"
      BY <1>13 DEF After
    <3>3. from = 1 /\ enums = <<>>
      BY <1>4, <3>2
    <3> QED  BY <1>2, <1>13, <3>1, <3>3, PassesKeep, Unreserved DEF After
  <2>2. 0 \in 0 .. n /\ from' = begin(h, 0) /\ enums' = g[0]
    BY <1>1, <1>3, <2>1 DEF begin
  <2> QED  BY <1>2, <1>5, <2>1, <2>2
<1>14. CASE FindEnum
  <2>1. /\ pass = "enums" /\ check # 0 /\ from' = checkEnd + 1 /\ pass' = pass /\ q' = q
        /\ enums' = IF checkBody.ok /\ ~isSeen(checkBody.column)
                    THEN Append(enums, [column |-> checkBody.column, labels |-> checkBody.labels])
                    ELSE enums
    BY <1>14 DEF FindEnum
  <2>2. PICK k \in 0 .. n : from = begin(h, k) /\ enums = g[k]
    BY <1>4, <2>1
  <2>3. k # n
    BY <1>2, <2>1, <2>2 DEF check
  <2> DEFINE l == k + 1
             c == checks[l]
  <2>4. l \in 1 .. n /\ l \in 0 .. n /\ l - 1 = k /\ l # 0
    BY <1>1, <2>3
  <2> HIDE DEF l
  <2>5. c \in PlainChecks /\ checkFound(q, c, from, h[l])
    BY <1>1, <1>2, <2>2, <2>4
  <2> HIDE DEF c
  <2>6. checkEnd = h[l] /\ SubSeq(q, check + 2, checkEnd - 1) = Body(c)
    BY <2>5 DEF checkFound, check, checkEnd
  <2>7. checkBody = IF c.form = "in" THEN [ok |-> TRUE, column |-> c.column, labels |-> c.labels] ELSE NoEnum
    BY <2>5, <2>6, ParsesBack DEF checkBody
  <2>8. from' = begin(h, l)
    BY <2>1, <2>4, <2>6 DEF begin
  <2>9. isSeen(c.column) <=> testedBefore(checks, l)
    <3>1. hasEnum(g[l - 1], c.column) <=> testedBefore(checks, l)
      BY <1>3, <2>4 DEF c
    <3>2. isSeen(c.column) <=> hasEnum(enums, c.column)
      BY DEF isSeen, hasEnum
    <3>3. enums = g[l - 1]
      BY <2>2, <2>4
    <3> QED  BY <3>1, <3>2, <3>3
  <2>10. firstTest(checks, l) <=> c.form = "in" /\ ~testedBefore(checks, l)
    BY DEF firstTest, testedBefore, c
  <2>11. g[l] = IF firstTest(checks, l) THEN Append(enums, enumOf(c)) ELSE enums
    BY <1>3, <2>2, <2>4 DEF c
  <2>12. enums' = g[l]
    <3>1. CASE c.form = "in"
      <4>1. checkBody.ok /\ checkBody.column = c.column /\ checkBody.labels = c.labels
        BY <2>7, <3>1
      <4> QED  BY <2>1, <2>9, <2>10, <2>11, <3>1, <4>1 DEF enumOf
    <3>2. CASE c.form # "in"
      <4>1. ~checkBody.ok
        BY <2>7, <3>2 DEF NoEnum
      <4> QED  BY <2>1, <2>10, <2>11, <3>2, <4>1
    <3> QED  BY <3>1, <3>2
  <2> QED  BY <1>2, <1>5, <2>1, <2>4, <2>8, <2>12
<1>15. CASE NoEnums
  <2>1. pass = "enums" /\ (check = 0 \/ checkEnd = 0) /\ pass' = "done" /\ q' = q /\ enums' = enums
    BY <1>15 DEF NoEnums
  <2>2. PICK k \in 0 .. n : from = begin(h, k) /\ enums = g[k]
    BY <1>4, <2>1
  <2>3. k = n
    <3> SUFFICES ASSUME k # n PROVE FALSE
      OBVIOUS
    <3> DEFINE l == k + 1
    <3>1. l \in 1 .. n /\ l - 1 = k
      BY <1>1
    <3> HIDE DEF l
    <3>2. checkFound(q, checks[l], from, h[l])
      BY <1>2, <2>2, <3>1
    <3>3. check # 0 /\ checkEnd # 0
      BY <3>2 DEF checkFound, check, checkEnd
    <3> QED  BY <2>1, <3>3
  <2> QED  BY <1>2, <1>3, <1>5, <2>1, <2>2, <2>3
<1>16. CASE UNCHANGED vars
  BY <1>2, <1>4, <1>5, <1>16 DEF vars
<1> QED  BY <1>7, <1>8, <1>9, <1>10, <1>11, <1>12, <1>13, <1>14, <1>15, <1>16 DEF Next

\* What parseEnums finds in a plain table: the first membership test of every column,
\* with its labels as the client wrote them, and nothing else.
TableInv ==
    \E checks \in Definitions :
        /\ origin = [kind |-> "table", of |-> checks]
        /\ plainTable(checks) =>
             \E h, g : laidOut(RenderTable(checks), checks, h) /\ collected(g, checks) /\ onItsWay(checks, h, g)

\* When rewrite is done with a table in which no label and no column asks for a
\* translation, the enums collected are those of its tests, however the labels are
\* quoted and whatever stands between the tests (enum.go:133-167).
THEOREM TableEnums == TableSpec => []EnumsFound
<1>1. TableInit => TableInv
  <2> SUFFICES ASSUME NEW checks \in Definitions, origin = [kind |-> "table", of |-> checks], start(RenderTable(checks))
               PROVE  TableInv
    BY DEF TableInit
  <2>1. ASSUME plainTable(checks)
        PROVE  \E h, g : laidOut(RenderTable(checks), checks, h) /\ collected(g, checks) /\ onItsWay(checks, h, g)
    <3>1. checks \in PlainTables
      BY <2>1 DEF PlainTables
    <3>2. PICK h : laidOut(RenderTable(checks), checks, h)
      BY <3>1, TableRead
    <3>3. PICK g : collected(g, checks)
      BY <3>1, EnumsCollected
    <3>4. onItsWay(checks, h, g)
      BY DEF start, onItsWay
    <3> QED  BY <3>2, <3>3, <3>4
  <2> QED  BY <2>1 DEF TableInv
<1>2. TableInv /\ [Next /\ UNCHANGED origin]_<<vars, origin>> => TableInv'
  <2> SUFFICES ASSUME TableInv, [Next /\ UNCHANGED origin]_<<vars, origin>> PROVE TableInv'
    OBVIOUS
  <2>1. PICK checks \in Definitions :
          /\ origin = [kind |-> "table", of |-> checks]
          /\ plainTable(checks) =>
               \E h, g : laidOut(RenderTable(checks), checks, h) /\ collected(g, checks) /\ onItsWay(checks, h, g)
    BY DEF TableInv
  <2>2. [Next]_vars /\ origin' = origin
    OBVIOUS
  <2>3. ASSUME plainTable(checks)
        PROVE  \E h, g : laidOut(RenderTable(checks), checks, h) /\ collected(g, checks) /\ onItsWay(checks, h, g)'
    <3>1. checks \in PlainTables
      BY <2>3 DEF PlainTables
    <3>2. PICK h, g : laidOut(RenderTable(checks), checks, h) /\ collected(g, checks) /\ onItsWay(checks, h, g)
      BY <2>1, <2>3
    <3>3. onItsWay(checks, h, g)'
      BY <2>2, <3>1, <3>2, TableSteps
    <3> QED  BY <3>2, <3>3
  <2>4. plainTable(checks) =>
          (\E h, g : laidOut(RenderTable(checks), checks, h) /\ collected(g, checks) /\ onItsWay(checks, h, g))'
    BY <2>3
  <2> QED  BY <2>1, <2>2, <2>4 DEF TableInv
<1>3. TableInv => EnumsFound
  <2> SUFFICES ASSUME NEW checks \in Definitions, origin = [kind |-> "table", of |-> checks],
                      plainTable(checks) => \E h, g : onItsWay(checks, h, g)
               PROVE  EnumsFound
    BY DEF TableInv
  <2>1. origin.of = checks
    OBVIOUS
  <2> QED  BY <2>1 DEF onItsWay, EnumsFound
<1> QED  BY <1>1, <1>2, <1>3, PTL DEF TableSpec
============================================================================
