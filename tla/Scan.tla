-------------------------------- MODULE Scan --------------------------------
(***************************************************************************)
(* The scanners shared by rewrite.go and enum.go. A text is a sequence of  *)
(* tokens: the four characters the scanners look at, and words. Blanks are *)
(* left out, the code trims them. Positions count from 1, and 0 is the -1  *)
(* of the code.                                                            *)
(***************************************************************************)
EXTENDS Integers, Sequences, SequencesExt

Quote == "'"

\* The state of the loop before a byte. `skip` is the second quote of a
\* doubled one, which the look-ahead has consumed.
ScanStart == [depth |-> 0, inStr |-> FALSE, skip |-> FALSE]

\* Mutant: the look-ahead sees the doubled quote and does not consume it.
advanceOne(st, c, quoteNext) ==
    IF st.inStr THEN IF c = Quote /\ ~quoteNext THEN [st EXCEPT !.inStr = FALSE] ELSE st
    ELSE IF c = Quote THEN [st EXCEPT !.inStr = TRUE]
    ELSE IF c = "("   THEN [st EXCEPT !.depth = @ + 1]
    ELSE IF c = ")"   THEN [st EXCEPT !.depth = @ - 1]
    ELSE st

advance(st, c, quoteNext) ==
    IF st.skip THEN [st EXCEPT !.skip = FALSE]
    ELSE IF st.inStr THEN IF c # Quote THEN st
                          ELSE IF quoteNext THEN [st EXCEPT !.skip = TRUE] ELSE [st EXCEPT !.inStr = FALSE]
    ELSE IF c = Quote THEN [st EXCEPT !.inStr = TRUE]
    ELSE IF c = "("   THEN [st EXCEPT !.depth = @ + 1]
    ELSE IF c = ")"   THEN [st EXCEPT !.depth = @ - 1]
    ELSE st

\* The states before each position of s, and after the last one, from `first`.
scan(s, first) ==
    LET st[i \in first .. Len(s) + 1] ==
            IF i = first THEN ScanStart
            ELSE advance(st[i - 1], s[i - 1], i <= Len(s) /\ s[i] = Quote)
    IN st

least(S) == CHOOSE i \in S : \A j \in S : i <= j

\* The position of the parenthesis that closes the one at `open`.
matchParen(s, open) ==
    LET st == scan(s, open)
        closing == {i \in open .. Len(s) : s[i] = ")" /\ ~st[i].inStr /\ st[i].depth = 1}
    IN IF closing = {} THEN 0 ELSE least(closing)

\* The pieces of s between the positions in `cuts`: up to each token, the last
\* piece is the one that grows.
cutAt(s, cuts) ==
    LET pieces[i \in 0 .. Len(s)] ==
            IF i = 0 THEN <<<<>>>>
            ELSE LET before == pieces[i - 1]
                 IN IF i \in cuts THEN Append(before, <<>>)
                    ELSE [before EXCEPT ![Len(before)] = Append(@, s[i])]
    IN pieces[Len(s)]

\* Mutant: the commas inside literals separate arguments too.
splitArgsQuoted(s) ==
    LET st == scan(s, 1)
    IN cutAt(s, {i \in 1 .. Len(s) : s[i] = "," /\ st[i].depth = 0})

\* The pieces of an argument list between its top-level commas.
splitArgs(s) ==
    LET st == scan(s, 1)
    IN cutAt(s, {i \in 1 .. Len(s) : s[i] = "," /\ ~st[i].inStr /\ st[i].depth = 0})

\* The first place at or after `from` where a word is called, 0 if none.
findCall(s, word, from) ==
    LET heads == {i \in from .. Len(s) - 1 : s[i] = word /\ s[i + 1] = "("}
    IN IF heads = {} THEN 0 ELSE least(heads)

\* Between its first and last byte, both quotes.
isLiteral(s) == Len(s) >= 2 /\ s[1] = Quote /\ s[Len(s)] = Quote
inside(s)    == SubSeq(s, 2, Len(s) - 1)

joined(pieces, between) ==
    FlattenSeq([k \in DOMAIN pieces |-> IF k = 1 THEN pieces[k] ELSE between \o pieces[k]])

taking(length, by) == [length |-> length, by |-> by]
nothing            == taking(0, <<>>)

\* ReplaceAll: from the left, and never in what was put in. m[i] is what is taken at i.
replaced(s, m) ==
    LET rest[i \in 1 .. Len(s) + 1] ==
            IF i > Len(s) THEN <<>>
            ELSE IF m[i].length = 0 THEN <<s[i]>> \o rest[i + 1]
            ELSE m[i].by \o rest[i + m[i].length]
    IN rest[1]

\* SQL's spelling of a literal doubles the quotes in it.
literalOf(tokens) == <<Quote>> \o tokens \o <<Quote>>
doubled(s) == joined([k \in DOMAIN s |-> IF s[k] = Quote THEN <<Quote, Quote>> ELSE <<s[k]>>], <<>>)
-----------------------------------------------------------------------------
(***************************************************************************)
(* The reference reading of a text looks at one token at a time: every     *)
(* quote enters or leaves a literal.                                       *)
(***************************************************************************)
isText(s) == s \in Seq(Range(s))

readOn(b, c) ==
    IF c = Quote THEN [b EXCEPT !.inside = ~@]
    ELSE IF b.inside THEN b
    ELSE IF c = "(" THEN [b EXCEPT !.open = @ + 1]
    ELSE IF c = ")" THEN [b EXCEPT !.open = @ - 1]
    ELSE b

\* For each position from `first` on: whether a literal is open after it, and
\* how many parentheses are.
reading(s, first) ==
    LET r[i \in first - 1 .. Len(s)] ==
            IF i < first THEN [inside |-> FALSE, open |-> 0] ELSE readOn(r[i - 1], s[i])
    IN r

wellFormed(s) ==
    LET r == reading(s, 1)
    IN /\ r[Len(s)] = [inside |-> FALSE, open |-> 0]
       /\ \A i \in 1 .. Len(s) : r[i].open >= 0

insideLiterals(s) ==
    LET r == reading(s, 1) IN {s[i] : i \in {j \in 1 .. Len(s) : s[j] # Quote /\ r[j].inside}}
-----------------------------------------------------------------------------
(***************************************************************************)
(* rewrite.go: one step of the two rewriting loops.                        *)
(***************************************************************************)
coalesced(args) ==
    <<"(">> \o joined([k \in DOMAIN args |-> <<"coalesce", "(">> \o args[k]
                                               \o <<",", Quote, Quote, ")">>], <<"||">>)
            \o <<")">>

strftime(expr, format) ==
    <<"strftime", "(", Quote>>
      \o [k \in DOMAIN format |-> IF format[k] = "MM" THEN "%m" ELSE format[k]]
      \o <<Quote, ",">> \o expr \o <<")">>

\* q with the call from `start` to `end` replaced.
spliced(q, start, repl, end) == SubSeq(q, 1, start - 1) \o repl \o SubSeq(q, end + 1, Len(q))
-----------------------------------------------------------------------------
(***************************************************************************)
(* enum.go: the body of one CHECK. A column is a word and its spelling.    *)
(***************************************************************************)
NoEnum == [ok |-> FALSE]

\* ReplaceAll of two quotes by one.
unescaped(s) ==
    replaced(s, [i \in 1 .. Len(s) |->
                   IF i < Len(s) /\ s[i] = Quote /\ s[i + 1] = Quote THEN taking(2, <<Quote>>) ELSE nothing])

parseInList(body, Columns) ==
    LET close == matchParen(body, 3)
        args  == splitArgs(SubSeq(body, 4, close - 1))
    IN IF /\ Len(body) > 3 /\ body[1] \in Columns /\ body[2] = "in" /\ body[3] = "("
          /\ close = Len(body)
          /\ \A k \in DOMAIN args : isLiteral(args[k])
       THEN [ok |-> TRUE, column |-> body[1],
             labels |-> [k \in DOMAIN args |-> unescaped(inside(args[k]))]]
       ELSE NoEnum
=============================================================================
