-------------------------------- MODULE DDL ---------------------------------
(***************************************************************************)
(* translateDDL (rewrite.go), the first pass over a statement.  A matcher  *)
(* says how many tokens of a text it takes at a position, none if it does  *)
(* not match there, and what replaces them.                                *)
(***************************************************************************)
EXTENDS Scan

Punctuation == {Quote, "(", ")", ",", "::", "||", ".", "{", "}", "]", "[]", "ARRAY[", "=", "~",
                "pg_catalog.", "information_schema."}

\* \w+
isWord(s, i) == i <= Len(s) /\ s[i] \notin Punctuation

continues(s, i, tokens) == i <= Len(s) /\ IsPrefix(tokens, SubSeq(s, i, Len(s)))

\* The first of `tokens` at or after i, past the end if there is none.
next(s, i, tokens) == least({k \in i .. Len(s) : s[k] \in tokens} \cup {Len(s) + 1})

\* ReplaceAll of what an expression matches.
everywhere(s, match(_, _)) == replaced(s, [i \in 1 .. Len(s) |-> match(s, i)])
-----------------------------------------------------------------------------
\* A type name, its replacement, and whether a group (...) goes with it.
mapping(names, to)       == [from |-> names, to |-> to, group |-> "none"]
mappingOf(name, to, grp) == [from |-> {name}, to |-> to, group |-> grp]
alone(words)             == {<<w>> : w \in words}
withZone(type)          == {<<type, z, "time", "zone">> : z \in {"with", "without"}}

integers == alone({"bigint", "smallint", "int8", "int4", "int2", "integer"})

\* Mutant: json and uuid are left to SQLite.
textualInet == alone({"inet", "cidr", "macaddr"})

textual == alone({"json", "jsonb", "uuid", "inet", "cidr", "macaddr"})

\* The longer names come before their parts.
ddlTypeMappings ==
    <<mapping(withZone("timestamp"), "TIMESTAMP"),
      mapping(alone({"timestamptz"}), "TIMESTAMP"),
      mapping(withZone("time"), "TIME"),
      mapping(alone({"timetz"}), "TIME"),
      mappingOf(<<"character", "varying">>, "VARCHAR", "optional"),
      mappingOf(<<"character">>, "CHAR", "required"),
      mapping(alone({"bpchar"}), "TEXT"),
      mapping({<<"double", "precision">>}, "REAL"),
      mapping(alone({"bytea"}), "BLOB"),
      mapping(alone({"boolean"}), "BOOLEAN"),
      mapping(integers, "INTEGER"),
      mapping(textual, "TEXT")>>

serials == mapping(alone({"serial", "bigserial", "smallserial"}), "INTEGER")

\* A rule at i: the name, and the group up to the next parenthesis.
typeAt(rule, s, i) ==
    LET found   == {f \in rule.from : continues(s, i, f)}
        past    == i + Len(CHOOSE f \in found : TRUE)
        close   == IF continues(s, past, <<"(">>) THEN next(s, past, {")"}) ELSE Len(s) + 1
        grouped == rule.group # "none" /\ close <= Len(s)
    IN IF found = {} \/ (rule.group = "required" /\ ~grouped) THEN nothing
       ELSE IF grouped THEN taking(close + 1 - i, <<rule.to>> \o SubSeq(s, past, close))
       ELSE taking(past - i, <<rule.to>>)

\* Everywhere in the text: in a name and in a literal like in a type.
renamed(s, rule) == replaced(s, [i \in 1 .. Len(s) |-> typeAt(rule, s, i)])

nextvalDefault(s, i) ==
    LET close == next(s, i + 3, {")"})
    IN IF continues(s, i, <<"DEFAULT", "nextval", "(">>) /\ close <= Len(s)
       THEN taking(close + 1 - i, <<>>) ELSE nothing

\* The statements about sequences are answered with a constant.
ofSequence(s) ==
    \/ \E verb \in {"create", "alter", "drop"} : continues(s, 1, <<verb, "sequence">>)
    \/ \E t \in {"temp", "temporary"} : continues(s, 1, <<"create", t, "sequence">>)

translateTypes(s) ==
    LET after[n \in 0 .. Len(ddlTypeMappings)] ==
            IF n = 0 THEN everywhere(renamed(s, serials), nextvalDefault)
            ELSE renamed(after[n - 1], ddlTypeMappings[n])
    IN after[Len(ddlTypeMappings)]

\* Mutant: DML is translated too.
translateDDLAlways(s) == IF ofSequence(s) THEN <<"SELECT">> \o literalOf(<<s[1], "sequence">>) ELSE translateTypes(s)

translateDDL(s) ==
    CASE ofSequence(s) -> <<"SELECT">> \o literalOf(<<s[1], "sequence">>)
      [] ~ofSequence(s) /\ s # <<>> /\ s[1] \in {"create", "alter"} -> translateTypes(s)
      [] OTHER -> s
=============================================================================
