------------------------------- MODULE Passes -------------------------------
(***************************************************************************)
(* The passes of rewrite (rewrite.go) that replace what one regular        *)
(* expression matches, everywhere in the text: translateDDL's come first.  *)
(* AT TIME ZONE, WITH ORDINALITY, "pg_catalog.", "information_schema.",    *)
(* "ARRAY[" and "[]" are one token each.                                   *)
(***************************************************************************)
EXTENDS DDL

CONSTANT database   \* the name this client connected with

unwrapOperator(op) ==
    CASE op \in {"~~", "~~*"}   -> <<"LIKE">>
      [] op \in {"!~~", "!~~*"} -> <<"NOT", "LIKE">>
      [] op \in {"~", "~*"}     -> <<"REGEXP">>
      [] op \in {"!~", "!~*"}   -> <<"NOT", "REGEXP">>
      [] OTHER                  -> <<op>>

operator(s, i) ==
    LET op == IF continues(s, i + 2, <<"pg_catalog.">>) THEN i + 3 ELSE i + 2
    IN IF continues(s, i, <<"OPERATOR", "(">>) /\ continues(s, op + 1, <<")">>) /\ s[op] # ")"
       THEN taking(op + 2 - i, unwrapOperator(s[op])) ELSE nothing

ilike(s, i) == IF s[i] = "ILIKE" THEN taking(1, <<"LIKE">>) ELSE nothing

anyArray(s, i) ==
    LET close == next(s, i + 4, {"]", "[]"})
    IN IF continues(s, i, <<"=", "ANY", "(", "ARRAY[">>) /\ continues(s, close, <<"]", ")">>)
       THEN taking(close + 2 - i, <<"IN", "(">> \o SubSeq(s, i + 4, close - 1) \o <<")">>) ELSE nothing

rewriteAnyBrace(inner) ==
    IF inner = <<>> THEN <<"IN", "(", "NULL", ")">>
    ELSE LET parts == cutAt(inner, {k \in 1 .. Len(inner) : inner[k] = ","})
         IN <<"IN", "(">> \o joined([k \in DOMAIN parts |-> literalOf(doubled(parts[k]))], <<",">>) \o <<")">>

\* What the name of a type in a cast is made of.
typeTokens == {".", "[]", "]", "pg_catalog.", "information_schema."}

\* '{...}', and a cast of it.
anyBrace(s, i) ==
    LET close == next(s, i + 5, {"}"})
        end == IF continues(s, close + 2, <<"::">>) THEN next(s, close + 3, Punctuation \ typeTokens) ELSE close + 2
    IN IF /\ continues(s, i, <<"=", "ANY", "(", Quote, "{">>)
          /\ continues(s, close, <<"}", Quote>>) /\ continues(s, end, <<")">>) /\ end # close + 3
       THEN taking(end + 1 - i, rewriteAnyBrace(SubSeq(s, i + 5, close - 1))) ELSE nothing

\* The zone is a literal, a call without parentheses in it, or a name.
atTimeZone(s, i) ==
    LET quoted == IF continues(s, i + 1, <<Quote>>) THEN next(s, i + 2, {Quote}) ELSE Len(s) + 1
        called == IF isWord(s, i + 1) /\ continues(s, i + 2, <<"(">>) THEN next(s, i + 3, {")"}) ELSE Len(s) + 1
        named  == IF ~isWord(s, i + 1) THEN Len(s) + 1
                  ELSE IF continues(s, i + 2, <<".">>) /\ isWord(s, i + 3) THEN i + 3 ELSE i + 1
        ends   == {quoted, called} \cap 1 .. Len(s)
        end    == IF ends # {} THEN least(ends) ELSE named
    IN IF s[i] = "AT TIME ZONE" /\ end <= Len(s) THEN taking(end + 1 - i, <<>>) ELSE nothing

stringAgg(s, i) ==
    IF continues(s, i, <<"string_agg", "(">>) THEN taking(2, <<"group_concat", "(">>) ELSE nothing
-----------------------------------------------------------------------------
\* [LATERAL] UNNEST(arr) [WITH ORDINALITY] [AS] t(v[, ord]), without parentheses in arr.
unnestAt(s, i) ==
    LET at    == IF s[i] = "LATERAL" THEN i + 1 ELSE i
        close == next(s, at + 2, {"(", ")"})
        with  == IF continues(s, close + 1, <<"WITH ORDINALITY">>) THEN close + 2 ELSE close + 1
        t     == IF continues(s, with, <<"AS">>) THEN with + 1 ELSE with
        ord   == IF continues(s, t + 3, <<",">>) THEN t + 4 ELSE 0
        end   == IF ord = 0 THEN t + 3 ELSE t + 5
    IN [found |-> /\ continues(s, at, <<"UNNEST", "(">>) /\ continues(s, close, <<")">>)
                  /\ \A k \in {t, t + 2, IF ord = 0 THEN t ELSE ord} : isWord(s, k)
                  /\ continues(s, t + 1, <<"(">>) /\ continues(s, end, <<")">>),
        arr |-> SubSeq(s, at + 2, close - 1), end |-> end,
        alias |-> t, valCol |-> t + 2, ordCol |-> ord]

unnest(s, i) ==
    LET u == unnestAt(s, i)
    IN IF u.found
       THEN taking(u.end + 1 - i, <<"json_each", "(", "COALESCE", "(">> \o u.arr \o <<",", Quote, "[]", Quote, ")", ")", s[u.alias]>>)
       ELSE nothing

\* A column of an alias at i of t; the expansions are those `found` in s.
unnested(s, found, t, i) ==
    LET is(u, col) == continues(t, i, <<s[u.alias], ".", s[col]>>)
        values   == {k \in found : is(unnestAt(s, k), unnestAt(s, k).valCol)}
        ordinals == {k \in found : unnestAt(s, k).ordCol # 0 /\ is(unnestAt(s, k), unnestAt(s, k).ordCol)}
    IN IF values # {} THEN taking(3, <<t[i], ".", "value">>)
       ELSE IF ordinals # {} THEN taking(3, <<"(", t[i], ".", "key + 1", ")">>)
       ELSE nothing

\* The columns of each alias, in the whole text.
rewriteUnnest(s) ==
    LET found == {i \in 1 .. Len(s) : unnestAt(s, i).found}
        t     == everywhere(s, unnest)
    IN replaced(t, [i \in 1 .. Len(t) |-> unnested(s, found, t, i)])
-----------------------------------------------------------------------------
relationOf(column, by, value) == <<"(", "SELECT", column, "FROM", "pg_class", "WHERE", by, "=">> \o value \o <<")">>

\* 'name'::regclass
regclassOid(s, i) ==
    LET close == next(s, i + 1, {Quote})
    IN IF s[i] = Quote /\ continues(s, close, <<Quote, "::", "regclass">>)
       THEN taking(close + 3 - i, relationOf("oid", "relname", SubSeq(s, i, close))) ELSE nothing

\* oid::regclass[::text]
regclassName(s, i) ==
    LET end == IF isWord(s, i) /\ continues(s, i + 1, <<".">>) /\ isWord(s, i + 2) THEN i + 2 ELSE i
        text == \E t \in {"text", "varchar", "name"} : continues(s, end + 3, <<"::", t>>)
    IN IF isWord(s, i) /\ continues(s, end + 1, <<"::", "regclass">>)
       THEN taking(end + (IF text THEN 5 ELSE 3) - i, relationOf("relname", "oid", SubSeq(s, i, end))) ELSE nothing

qualifier(s, i) ==
    CASE s[i] = "pg_catalog." -> taking(1, <<>>)
      [] s[i] = "information_schema." /\ isWord(s, i + 1) -> taking(2, <<"information_schema_", s[i + 1]>>)
      [] OTHER -> nothing

keywordsCall(s, i) ==
    IF continues(s, i, <<"pg_get_keywords", "(", ")">>) THEN taking(3, <<"pg_get_keywords">>) ELSE nothing

\* ::type, ::schema.type, ::type(n), ::type[]
cast(s, i) ==
    LET name  == IF continues(s, i + 2, <<".">>) /\ isWord(s, i + 3) THEN i + 3 ELSE i + 1
        close == next(s, name + 2, {")"})
        args  == IF continues(s, name + 1, <<"(">>) /\ close <= Len(s) THEN close ELSE name
        past  == least({k \in args + 1 .. Len(s) + 1 : k > Len(s) \/ s[k] # "[]"})
    IN IF s[i] = "::" /\ isWord(s, i + 1) THEN taking(past - i, <<>>) ELSE nothing

systemFunctions == {"current_catalog", "current_schema", "current_user", "session_user", "user"}

systemFunction(s, i) ==
    IF s[i] \in systemFunctions /\ ~continues(s, i + 1, <<"(">>)
    THEN taking(1, <<s[i], "(", ")">>) ELSE nothing

show(s, i) ==
    IF i = 1 /\ s[1] = "SHOW" /\ isWord(s, 2)
    THEN taking(2, <<"SELECT", "show", "(", Quote, s[2], Quote, ")", "AS", s[2]>>) ELSE nothing

currentDatabase(s, i) ==
    IF continues(s, i, <<"current_database", "(", ")">>) THEN taking(3, literalOf(<<database>>)) ELSE nothing
-----------------------------------------------------------------------------
\* SET and RESET, and CREATE or DROP DATABASE, are answered without SQLite.
Accepted(s) ==
    CASE s # <<>> /\ s[1] \in {"set", "reset"} -> <<"SELECT">> \o literalOf(<<"set">>)
      [] Len(s) > 1 /\ s[1] \in {"create", "drop"} /\ s[2] = "database" -> <<"SELECT">> \o literalOf(SubSeq(s, 1, 2))
      [] OTHER -> <<>>

passesBefore(s) ==
    LET p1 == everywhere(translateDDL(s), operator)
        p2 == everywhere(p1, ilike)
        p3 == everywhere(everywhere(p2, anyArray), anyBrace)
    IN everywhere(p3, atTimeZone)

\* Mutant: casts are dropped before relation names are resolved.
passesAfterCastFirst(s) ==
    LET p1 == everywhere(rewriteUnnest(s), cast)
        p2 == everywhere(everywhere(p1, regclassOid), regclassName)
        p3 == everywhere(everywhere(p2, qualifier), keywordsCall)
    IN everywhere(everywhere(everywhere(p3, systemFunction), show), currentDatabase)

passesAfter(s) ==
    LET p1 == everywhere(everywhere(rewriteUnnest(s), regclassOid), regclassName)
        p2 == everywhere(everywhere(p1, qualifier), keywordsCall)
        p3 == everywhere(p2, cast)
    IN everywhere(everywhere(everywhere(p3, systemFunction), show), currentDatabase)
=============================================================================
