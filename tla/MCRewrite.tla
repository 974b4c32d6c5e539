------------------------------ MODULE MCRewrite ------------------------------
(***************************************************************************)
(* Texts for the model checking of Rewrite: arbitrary short ones, and the  *)
(* renderings of expressions and table definitions, for which the result   *)
(* is known from their structure.                                          *)
(***************************************************************************)
EXTENDS Tables, TLC

CONSTANTS Contents,   \* what string literals contain
          Depth,      \* the nesting of calls
          MaxText     \* the length of arbitrary texts

\* An expression: a word, a literal, or a call of arguments.
word          == [kind |-> "word"]
literal(s)    == [kind |-> "literal", of |-> s]
call(f, args) == [kind |-> "call", fn |-> f, args |-> args]

\* Notations that SQLite lacks.
casted(e, type)  == [kind |-> "cast", of |-> e, type |-> type]
zoned(e, zone)   == [kind |-> "zoned", of |-> e, zone |-> zone]
infix(op, l, r)  == [kind |-> "infix", op |-> op, left |-> l, right |-> r]
anyOf(form, es)  == [kind |-> "any", form |-> form, elements |-> es]
regclass(e)      == [kind |-> "regclass", of |-> e]
plain(tokens, becomes) == [kind |-> "plain", tokens |-> tokens, becomes |-> becomes]

Plain == {plain(<<"current_user">>, <<"current_user", "(", ")">>),
          plain(<<"current_schema", "(", ")">>, <<"current_schema", "(", ")">>),
          plain(<<"current_database", "(", ")">>, literalOf(<<database>>)),
          plain(<<"information_schema.", "tables">>, <<"information_schema_", "tables">>),
          plain(<<"pg_catalog.", "pg_get_keywords", "(", ")">>, <<"pg_get_keywords">>),
          plain(<<"t", ".", "v">>, <<"t", ".", "v">>)}

\* Statements that are answered, and an array that is expanded, whose columns
\* are used in its query.
Unnested ==
    {plain(<<"select", "t", ".", c, "from">> \o lateral \o <<"UNNEST", "(", "arr", ")">> \o opt
             \o <<"t", "(", "v">> \o (IF o THEN <<",", "o">> ELSE <<>>) \o <<")">>,
           <<"select">> \o (CASE c = "v"       -> <<"t", ".", "value">>
                              [] c = "o" /\ o -> <<"(", "t", ".", "key + 1", ")">>
                              [] OTHER        -> <<"t", ".", c>>)
             \o <<"from", "json_each", "(", "COALESCE", "(", "arr", ",", Quote, "[]", Quote, ")", ")", "t">>) :
       c \in {"v", "o", "w"}, o \in BOOLEAN, opt \in {<<>>, <<"AS">>, <<"WITH ORDINALITY", "AS">>},
       lateral \in {<<>>, <<"LATERAL">>}}

Statements ==
    {plain(<<"set", "x">>, <<"SELECT">> \o literalOf(<<"set">>)),
     plain(<<"drop", "database", "x">>, <<"SELECT">> \o literalOf(<<"drop", "database">>)),
     plain(<<"SHOW", "x">>, <<"SELECT", "show", "(">> \o literalOf(<<"x">>) \o <<")", "AS", "x">>)}

\* What follows the name of a column in a CREATE TABLE or an ALTER TABLE, and what
\* translateDDL makes of it; a label is taken for the name of a type.
Declared ==
    {plain(<<"serial", "DEFAULT", "nextval", "(">> \o literalOf(<<"s">>) \o <<"::", "regclass", ")">>, <<"INTEGER">>),
     plain(<<"character", "varying", "(", "n", ")", "DEFAULT">> \o literalOf(<<"json">>),
           <<"VARCHAR", "(", "n", ")", "DEFAULT">> \o literalOf(<<"TEXT">>)),
     plain(<<"character", "varying">>, <<"VARCHAR">>),
     plain(<<"character", "(", "n", ")">>, <<"CHAR", "(", "n", ")">>),
     plain(<<"character">>, <<"character">>),
     plain(<<"timestamp", "with", "time", "zone", "DEFAULT", "current_user">>, <<"TIMESTAMP", "DEFAULT", "current_user", "(", ")">>),
     plain(<<"timestamp", "DEFAULT", "t", "::", "timestamptz">>, <<"timestamp", "DEFAULT", "t">>),
     plain(<<"timestamptz">>, <<"TIMESTAMP">>),
     plain(<<"time", "without", "time", "zone">>, <<"TIME">>),
     plain(<<"double", "precision">>, <<"REAL">>),
     plain(<<"uuid", "check", "(", "col", "in", "(">> \o literalOf(<<"bigint">>) \o <<")", ")">>,
           <<"TEXT", "check", "(", "col", "in", "(">> \o literalOf(<<"INTEGER">>) \o <<")", ")">>)}

SchemaStatements ==
    {plain(verb \o <<"(", "col">> \o c.tokens \o <<",", "x">> \o d.tokens \o <<")">>,
           verb \o <<"(", "col">> \o c.becomes \o <<",", "x">> \o d.becomes \o <<")">>) :
       verb \in {<<"create", "table", "t">>, <<"alter", "table", "t", "add">>}, c \in Declared, d \in Declared}
    \cup {plain(verb \o <<"sequence", "x">>, <<"SELECT">> \o literalOf(<<verb[1], "sequence">>)) :
             verb \in {<<"create">>, <<"create", "temporary">>, <<"alter">>, <<"drop">>}}
    \cup {plain(verb \o d.tokens, verb \o d.tokens) :
             verb \in {<<"insert">>, <<"drop", "table">>},
             d \in {c \in Declared : Range(c.tokens) \cap {"::", "current_user"} = {}}}

\* Each notation with plain operands, alone and inside the calls that the loops
\* and the other passes translate.
Sugared(L) ==
    LET S == Plain
               \cup {casted(e, t) : e \in L, t \in {<<"text">>, <<"pg_catalog.", "name">>, <<"varchar", "(", "n", ")">>, <<"text", "[]">>}}
               \cup {regclass(word), casted(regclass(word), <<"text">>), regclass(literal(<<"x">>))}
               \cup {zoned(word, z) : z \in {literalOf(<<"UTC">>), <<"f", "(", "x", ")">>, <<"local">>, <<"t", ".", "z">>}}
               \cup {anyOf(form, es) : form \in {"array", "brace", "cast brace"}, es \in {<<>>, <<"a">>, <<"a", "b">>}}
               \cup {infix(op, word, e) : op \in {"ILIKE", "~", "!~~", "+"}, e \in L}
        A == {regclass(word), casted(word, <<"text">>), zoned(word, <<"local">>)}
    IN S \cup {call("to_char", <<e, literal(<<"MM">>)>>) : e \in S}
         \cup {call("concat", <<e, f>>) : e \in S, f \in A \cup L}
         \cup {call("concat", <<call("to_char", <<e, literal(<<"MM">>)>>), f>>) : e \in A, f \in S}
         \cup {call("string_agg", <<e, literal(<<"x">>)>>) : e \in S}
         \cup {casted(call("concat", <<e>>), <<"text">>) : e \in S}

Expressions ==
    LET upTo[n \in 0 .. Depth] ==
            IF n = 0 THEN {word} \cup {literal(s) : s \in Contents}
            ELSE LET E == upTo[n - 1]
                     L == upTo[0]
                 IN E \cup {call("concat", <<e>>) : e \in E}
                      \cup {call("concat", <<e, f>>) : e \in E, f \in L}
                      \cup {call("concat", <<f, e>>) : e \in E, f \in L}
                      \cup {call("to_char", <<e, f>>) : e \in E, f \in L}
                      \cup {call("other", <<e, f>>) : e \in L, f \in E}
        T == {call("to_char", <<word, e>>) : e \in upTo[0]}
    IN upTo[Depth] \cup {call("other", <<e, f>>) : e \in T, f \in T} \cup Sugared(upTo[0]) \cup Unnested
         \cup Statements \cup SchemaStatements

RECURSIVE Render(_)
Render(e) ==
    CASE e.kind = "word"    -> <<"x">>
      [] e.kind = "literal" -> rendered(e.of)
      [] e.kind = "call"    -> <<e.fn, "(">> \o joined([k \in DOMAIN e.args |-> Render(e.args[k])], <<",">>)
                                 \o <<")">>
      [] e.kind = "plain"    -> e.tokens
      [] e.kind = "cast"     -> Render(e.of) \o <<"::">> \o e.type
      [] e.kind = "regclass" -> Render(e.of) \o <<"::", "regclass">>
      [] e.kind = "zoned"    -> Render(e.of) \o <<"AT TIME ZONE">> \o e.zone
      [] e.kind = "infix"    -> Render(e.left) \o (IF e.op = "ILIKE" THEN <<e.op>> ELSE <<"OPERATOR", "(", "pg_catalog.", e.op, ")">>)
                                  \o Render(e.right)
      [] e.kind = "any" ->
           LET es == [k \in DOMAIN e.elements |-> IF e.form = "array" THEN literalOf(<<e.elements[k]>>) ELSE <<e.elements[k]>>]
           IN <<"x", "=", "ANY", "(">>
                \o (IF e.form = "array" THEN <<"ARRAY[">> \o joined(es, <<",">>) \o <<"]">>
                    ELSE <<Quote, "{">> \o joined(es, <<",">>) \o <<"}", Quote>>)
                \o (IF e.form = "cast brace" THEN <<"::", "text", "[]">> ELSE <<>>) \o <<")">>

Operators == [op \in {"ILIKE", "~", "!~~", "+"} |->
                CASE op = "ILIKE" -> <<"LIKE">> [] op = "~" -> <<"REGEXP">> [] op = "!~~" -> <<"NOT", "LIKE">> [] op = "+" -> <<op>>]

Formatted(e) == e.kind = "call" /\ e.fn = "to_char" /\ e.args[2].kind = "literal"

format(s) == [k \in DOMAIN s |-> IF s[k] = "MM" THEN "%m" ELSE s[k]]

\* The translation by structure: every CONCAT, and every TO_CHAR with a literal
\* format that is in no argument of another one.
RECURSIVE Translation(_, _)
Translation(e, inToChar) ==
    LET args(nested) == [k \in DOMAIN e.args |-> Translation(e.args[k], nested)]
    IN CASE e.kind \in {"word", "literal"} -> Render(e)
         [] e.kind = "plain" -> e.becomes
         [] e.kind \in {"cast", "zoned"} -> Translation(e.of, inToChar)
         [] e.kind = "regclass" -> IF e.of = word THEN relationOf("relname", "oid", <<"x">>) ELSE relationOf("oid", "relname", Render(e.of))
         [] e.kind = "infix" -> Translation(e.left, inToChar) \o Operators[e.op] \o Translation(e.right, inToChar)
         [] e.kind = "any" ->
              <<"x", "IN", "(">> \o (IF e.elements = <<>> /\ e.form # "array" THEN <<"NULL">>
                                     ELSE joined([k \in DOMAIN e.elements |-> literalOf(<<e.elements[k]>>)], <<",">>)) \o <<")">>
         [] e.kind = "call" /\ e.fn = "string_agg" ->
              <<"group_concat", "(">> \o joined(args(inToChar), <<",">>) \o <<")">>
         [] e.kind = "call" /\ e.fn = "concat" ->
              <<"(">> \o joined([k \in DOMAIN e.args |->
                                   <<"coalesce", "(">> \o args(inToChar)[k] \o <<",", Quote, Quote, ")">>],
                                <<"||">>) \o <<")">>
         [] Formatted(e) /\ ~inToChar ->
              <<"strftime", "(">> \o rendered(format(e.args[2].of)) \o <<",">> \o args(TRUE)[1] \o <<")">>
         [] OTHER ->
              <<e.fn, "(">> \o joined(args(inToChar \/ e.fn = "to_char"), <<",">>) \o <<")">>
-----------------------------------------------------------------------------
Labels == {<<a>> : a \in Contents} \cup {<<a, b>> : a \in Contents, b \in Contents}

TablesAll == {<<a>> : a \in Checks}
            \cup {<<a, b>> : a \in {c \in Checks : Len(c.labels) = 1}, b \in {c \in Checks : Len(c.labels) = 1}}
-----------------------------------------------------------------------------
Alphabet == {"(", ")", ",", Quote, "concat"}

MCInit ==
    \/ \E e \in Expressions : origin = [kind |-> "expression", of |-> e] /\ start(Render(e))
    \/ TableInit
    \/ \E s \in Texts : origin = [kind |-> "text"] /\ start(s)

MCSpec == MCInit /\ [][Next /\ UNCHANGED origin]_<<vars, origin>>

\* What is left of an expression is its translation, whatever its literals
\* contain and however its calls are nested (rewrite.go:213, 244).
Translated ==
    pass = "done" /\ origin.kind = "expression" => q = Translation(origin.of, FALSE)
-----------------------------------------------------------------------------
ShortTexts == BoundedSeq(Alphabet, MaxText)
ContentsAll == {<<"x">>, <<Quote>>, <<")", ",">>, <<"MM">>}
TypeLabels  == {<<"x">>, <<"json">>}
Spellings  == {"col", "COL", "other"}
LowerCase  == [c \in Spellings |-> IF c = "COL" THEN "col" ELSE c]
=============================================================================
