------------------------------- MODULE Rewrite -------------------------------
(***************************************************************************)
(* The way of a statement's text through rewrite.go: its passes, and its   *)
(* loops, of which each action is one iteration.  When it is a CREATE      *)
(* TABLE, the loop of enum.go over the same text, as sqlite_master stores  *)
(* it, comes last.                                                         *)
(***************************************************************************)
EXTENDS Passes

CONSTANTS Texts,     \* the statements clients send
          Columns,   \* the words that name a column in a CHECK, as spelled
          ToLower    \* the name a spelling stands for

\* A statement is a finite text.
ASSUME TextsAssumption == \A text \in Texts : isText(text)

VARIABLES pass,   \* "before", the loop "to_char", "concat", "after", the loop "enums", or "done"
          q,      \* the text
          from,   \* where the search of the loop continues
          enums   \* what parseEnums has found

vars == <<pass, q, from, enums>>

start(text) == pass = "before" /\ from = 1 /\ enums = <<>> /\ q = text

Init == \E text \in Texts : start(text)

Accept ==
    /\ pass = "before" /\ Accepted(q) # <<>>
    /\ pass' = "done" /\ q' = Accepted(q)
    /\ UNCHANGED <<from, enums>>

Before ==
    /\ pass = "before" /\ Accepted(q) = <<>>
    /\ pass' = "to_char" /\ q' = passesBefore(q)
    /\ UNCHANGED <<from, enums>>
-----------------------------------------------------------------------------
toChar  == findCall(q, "to_char", from)
toCharEnd == matchParen(q, toChar + 1)
toCharArgs == splitArgs(SubSeq(q, toChar + 2, toCharEnd - 1))
toCharFormat == Len(toCharArgs) = 2 /\ isLiteral(toCharArgs[2])

TranslateToChar ==
    /\ pass = "to_char" /\ toChar # 0 /\ toCharEnd # 0 /\ toCharFormat
    /\ LET repl == strftime(toCharArgs[1], inside(toCharArgs[2]))
       IN /\ q' = spliced(q, toChar, repl, toCharEnd)
          /\ from' = toChar + Len(repl)
    /\ UNCHANGED <<pass, enums>>

\* Mutant: the search starts over after a call that is left alone.
SkipToCharOver ==
    /\ pass = "to_char" /\ toChar # 0 /\ toCharEnd # 0 /\ ~toCharFormat
    /\ from' = 1
    /\ UNCHANGED <<pass, q, enums>>

\* A call with another form is left as it is.
SkipToChar ==
    /\ pass = "to_char" /\ toChar # 0 /\ toCharEnd # 0 /\ ~toCharFormat
    /\ from' = toCharEnd + 1
    /\ UNCHANGED <<pass, q, enums>>

NoToChar ==
    /\ pass = "to_char"
    /\ toChar = 0 \/ toCharEnd = 0
    /\ pass' = "concat" /\ from' = 1
    /\ q' = everywhere(q, stringAgg)
    /\ UNCHANGED enums
-----------------------------------------------------------------------------
concat == findCall(q, "concat", 1)
concatEnd == matchParen(q, concat + 1)
concatArgs == splitArgs(SubSeq(q, concat + 2, concatEnd - 1))

\* Mutant: the closing parenthesis is copied too.
TranslateConcatTwice ==
    /\ pass = "concat" /\ concat # 0 /\ concatEnd # 0
    /\ q' = spliced(q, concat, coalesced(concatArgs), concatEnd - 1)
    /\ UNCHANGED <<pass, from, enums>>

TranslateConcat ==
    /\ pass = "concat" /\ concat # 0 /\ concatEnd # 0
    /\ q' = spliced(q, concat, coalesced(concatArgs), concatEnd)
    /\ UNCHANGED <<pass, from, enums>>

NoConcat ==
    /\ pass = "concat"
    /\ concat = 0 \/ concatEnd = 0
    /\ pass' = "after"
    /\ UNCHANGED <<q, from, enums>>

After ==
    /\ pass = "after"
    /\ q' = passesAfter(q)
    /\ pass' = IF q # <<>> /\ q[1] = "create" THEN "enums" ELSE "done"
    /\ UNCHANGED <<from, enums>>
-----------------------------------------------------------------------------
check == findCall(q, "check", from)
checkEnd == matchParen(q, check + 1)
checkBody == parseInList(SubSeq(q, check + 2, checkEnd - 1), Columns)

\* Mutant: two spellings of a column are two columns.
isSeenSpelled(column) == \E k \in DOMAIN enums : enums[k].column = column

\* The column has an enum already: `seen`, keyed by the lower-case name.
isSeen(column) == \E k \in DOMAIN enums : ToLower[enums[k].column] = ToLower[column]

FindEnum ==
    /\ pass = "enums" /\ check # 0 /\ checkEnd # 0
    /\ from' = checkEnd + 1
    /\ enums' = IF checkBody.ok /\ ~isSeen(checkBody.column)
                THEN Append(enums, [column |-> checkBody.column, labels |-> checkBody.labels])
                ELSE enums
    /\ UNCHANGED <<pass, q>>

NoEnums ==
    /\ pass = "enums"
    /\ check = 0 \/ checkEnd = 0
    /\ pass' = "done"
    /\ UNCHANGED <<q, from, enums>>
-----------------------------------------------------------------------------
Next ==
    \/ Accept \/ Before \/ After
    \/ TranslateToChar \/ SkipToChar \/ NoToChar
    \/ TranslateConcat \/ NoConcat
    \/ FindEnum \/ NoEnums

Spec == Init /\ [][Next]_vars
-----------------------------------------------------------------------------
(* Properties.                                                               *)

\* matchParen (rewrite.go:303) finds the first parenthesis that balances the one
\* it starts at, and nothing else.
MatchParenCorrect ==
    \A open \in {i \in 1 .. Len(q) : q[i] = "("} :
        LET r == reading(q, open)
            end == matchParen(q, open)
            balanced == {i \in open .. Len(q) : q[i] # Quote /\ ~r[i].inside /\ r[i].open = 0}
        IN IF end = 0 THEN balanced = {} ELSE end \in balanced /\ \A i \in balanced : end <= i

\* splitArgs (rewrite.go:333) loses and adds nothing, and cuts at the commas
\* outside every literal and every parenthesis, all of them and no other.
SplitArgsCorrect ==
    LET r == reading(q, 1)
        args == splitArgs(q)
        commas == {i \in 1 .. Len(q) : q[i] = "," /\ r[i] = [inside |-> FALSE, open |-> 0]}
    IN joined(args, <<",">>) = q /\ Len(args) = Cardinality(commas) + 1

\* The scanners read quotes and parentheses as SQL does.
ScannersCorrect == MatchParenCorrect /\ SplitArgsCorrect

\* No iteration of a loop breaks a text whose quotes and parentheses match
\* (rewrite.go:213 and 244 splice texts by position).
WellFormedKept == [][wellFormed(q) => wellFormed(q')]_vars

order == [before |-> 1, to_char |-> 2, concat |-> 3, after |-> 4, enums |-> 5, done |-> 6]

\* What a loop has left: the rest of the text, or the words CONCAT in it (a word
\* before a call that is replaced may become a call itself).
left == IF pass = "concat" THEN Cardinality({i \in 1 .. Len(q) : q[i] = "concat"})
        ELSE Len(q) + 1 - from

\* The loops end on every text, within its length: every iteration leaves less
\* to do, and the passes follow each other (rewrite.go:215, 245, enum.go:136).
Progresses == [][\/ order[pass'] > order[pass]
                 \/ pass' = pass /\ left' < left /\ left' >= 0]_vars

\* What asks for a translation, or, in a word, one of the two loops.
Notations ==
    {"OPERATOR", "ILIKE", "ANY", "AT TIME ZONE", "string_agg", "UNNEST", "::", "pg_catalog.", "information_schema.",
     "pg_get_keywords", "current_database", "SHOW", "to_char", "concat"} \cup systemFunctions

lastWords(rule) == {Last(f) : f \in rule.from}

rules == Range(ddlTypeMappings) \cup {serials}

ruleWords == UNION {lastWords(rule) : rule \in rules}

\* The words at which the name of a type ends that translateDDL replaces, and
\* those of sequences.
typeWords == ruleWords \cup {"nextval", "sequence"}

ofSchema(s) == s # <<>> /\ s[1] \in {"create", "alter", "drop"}

ordinary(s) ==
    /\ Range(s) \cap Notations = {} /\ Accepted(s) = <<>>
    /\ ofSchema(s) => Range(s) \cap typeWords = {}

\* Ordinary statements go to SQLite as they are ("leave ordinary DML untouched",
\* rewrite.go:13), whatever quotes and parentheses are in them: DML with the words
\* of types in it too ("it never disturbs DML", rewrite.go:411), and CREATE, ALTER
\* and DROP without them.
OrdinaryKept == [][ordinary(q) => q' = q]_vars

\* What the literals of a statement say stays as it is while CONCAT is rewritten
\* around them ("quoted strings are respected", rewrite.go:243, and "leave ordinary
\* DML untouched", rewrite.go:13-14), quotes, commas and parentheses included,
\* unless a literal holds the word that is searched, which the code cannot tell.
\* It speaks of this loop: the other passes change words in literals too.
LiteralsKept ==
    [][pass = "concat" /\ wellFormed(q) /\ "concat" \notin insideLiterals(q)
         => insideLiterals(q') = insideLiterals(q)]_vars
=============================================================================
