-------------------------------- MODULE Lexer --------------------------------
(***************************************************************************)
(* The lexer of the Caddyfile, caddyfile/lexer.go: allTokens calls next     *)
(* until the input ends, and next reads one rune at a time.  The runes are  *)
(* those the lexer tells apart, and "a" for all others.  The functions of   *)
(* the Dispenser that decide from the lines of two tokens whether the       *)
(* second is on a new line are at the end.                                  *)
(***************************************************************************)
EXTENDS Naturals, Sequences, SequencesExt, FiniteSets, FiniteSetsExt

CONSTANTS
    Runes,   \* of "bom", "space", "cr", "nl", "quote", "backslash", "hash" and "a"
    MaxLen   \* bound: length of an input

VARIABLES
    input,     \* the runes of the file
    read,      \* how many of them are read
    line,      \* l.line
    val,       \* the token being read
    comment, quoted, escaped,
    token,     \* l.token and where it begins: line, first
    tokens,    \* the tokens returned: line, text, first, last
    loaded,    \* load has been called
    ended      \* the reader has reached the end of the file

vars == <<input, read, line, val, comment, quoted, escaped, token, tokens, loaded, ended>>

NoToken == [line |-> 0, first |-> 0]

Init ==
    /\ input \in BoundedSeq(Runes, MaxLen)
    /\ read = 0 /\ line = 1 /\ val = <<>>
    /\ comment = FALSE /\ quoted = FALSE /\ escaped = FALSE
    /\ token = NoToken /\ tokens = <<>>
    /\ loaded = FALSE /\ ended = FALSE

\* load discards a byte order mark; an empty input is an error.
Load ==
    /\ ~loaded
    /\ loaded' = TRUE
    /\ ended' = (input = <<>>)
    /\ read' = IF input # <<>> /\ input[1] = "bom" THEN 1 ELSE 0
    /\ UNCHANGED <<input, line, val, comment, quoted, escaped, token, tokens>>

\* makeToken: next returns true, and its next call begins with fresh locals.
MakeToken(text, last) ==
    /\ tokens' = Append(tokens, [line |-> token.line, text |-> text,
                                 first |-> token.first, last |-> last])
    /\ val' = <<>> /\ comment' = FALSE /\ quoted' = FALSE /\ escaped' = FALSE

\* A rune is there, ch is the rune.
ReadRune(ch) ==
    /\ loaded /\ read < Len(input)
    /\ ch = input[read + 1]
    /\ read' = read + 1
    /\ UNCHANGED <<input, loaded, ended>>

\* The end of the file: what has been read of a token, if anything, is a token.
EndOfFile ==
    /\ loaded /\ ~ended /\ read = Len(input)
    /\ ended' = TRUE
    /\ IF val # <<>> THEN MakeToken(val, read)
                     ELSE UNCHANGED <<val, comment, quoted, escaped, tokens>>
    /\ UNCHANGED <<input, read, line, token, loaded>>

\* Inside quotes, the beginning of an escape and the closing quote.
QuotedBackslash ==
    /\ ReadRune("backslash")
    /\ quoted /\ ~escaped
    /\ escaped' = TRUE
    /\ UNCHANGED <<line, val, comment, quoted, token, tokens>>

QuoteEnds ==
    /\ ReadRune("quote")
    /\ quoted /\ ~escaped
    /\ MakeToken(val, read + 1)
    /\ UNCHANGED <<line, token>>

\* Faulty variant: line breaks inside quotes are not counted.
CountLine_Unquoted(ch) == IF ch = "nl" /\ ~quoted THEN line + 1 ELSE line

CountLine(ch) == IF ch = "nl" THEN line + 1 ELSE line

\* A backslash is kept unless it escapes a quote.
Unescape(ch) == IF escaped /\ ch # "quote" THEN <<"backslash", ch>> ELSE <<ch>>

\* Inside quotes, any rune that does not end them or begin an escape.
QuotedRune(ch) ==
    /\ ReadRune(ch)
    /\ quoted /\ (escaped \/ ch \notin {"backslash", "quote"})
    /\ line' = CountLine(ch)
    /\ val' = val \o Unescape(ch)
    /\ escaped' = FALSE
    /\ UNCHANGED <<comment, quoted, token, tokens>>

\* Outside quotes a carriage return is skipped, even inside a word.
CarriageReturn ==
    /\ ReadRune("cr")
    /\ ~quoted
    /\ UNCHANGED <<line, val, comment, quoted, escaped, token, tokens>>

\* Other white space ends a token, a line break also a comment.
Space(ch) ==
    /\ ReadRune(ch)
    /\ ~quoted /\ ch \in {"space", "nl"}
    /\ line' = CountLine(ch)
    /\ IF val # <<>>
         THEN MakeToken(val, read)
         ELSE /\ comment' = (comment /\ ch # "nl")
              /\ UNCHANGED <<val, quoted, escaped, tokens>>
    /\ UNCHANGED token

\* A hash begins a comment, also in the middle of a word.
CommentRune(ch) ==
    /\ ReadRune(ch)
    /\ ~quoted /\ ch \notin {"cr", "space", "nl"}
    /\ comment \/ ch = "hash"
    /\ comment' = TRUE
    /\ UNCHANGED <<line, val, quoted, escaped, token, tokens>>

\* The first rune of a token, and the others.
WordRune(ch) ==
    /\ ReadRune(ch)
    /\ ~quoted /\ ~comment /\ ch \notin {"cr", "space", "nl", "hash"}
    /\ token' = IF val = <<>> THEN [line |-> line, first |-> read + 1] ELSE token
    /\ quoted' = (val = <<>> /\ ch = "quote")
    /\ val' = IF quoted' THEN val ELSE Append(val, ch)
    /\ UNCHANGED <<line, comment, escaped, tokens>>

Finished == ended /\ UNCHANGED vars

Next ==
    \/ Load \/ EndOfFile
    \/ QuotedBackslash \/ QuoteEnds \/ CarriageReturn
    \/ \E ch \in Runes : QuotedRune(ch) \/ Space(ch) \/ CommentRune(ch) \/ WordRune(ch)
    \/ Finished

Spec == Init /\ [][Next]_vars

---------------------------------------------------------------------------
(* The Dispenser on the tokens, caddyfile/dispenser.go.                     *)

NumLineBreaks(text) == Len(SelectSeq(text, LAMBDA ch : ch = "nl"))

\* NextArg loads u after t.
SameLine(t, u) == t.line + NumLineBreaks(t.text) = u.line

---------------------------------------------------------------------------
(* Properties                                                               *)

\* There is a line break between positions i and j.
BreakBetween(i, j) == \E k \in i .. j : input[k] = "nl"

\* Two tokens that follow each other are on the same line for the Dispenser
\* exactly if no line break separates them in the file, whatever quoted line
\* breaks, comments and escapes they contain ("all tokens on the line",
\* dispenser.go: 64-67).
LinesKept ==
    \A i \in 1 .. Len(tokens) - 1 :
       SameLine(tokens[i], tokens[i + 1])
          <=> ~BreakBetween(tokens[i].last + 1, tokens[i + 1].first - 1)

\* The length of the run of backslashes that ends at position j of a quoted token.
RunAt(first, j) == j - Max({k \in first .. j : input[k] # "backslash"})

\* The n-th element of a set of positions.
Nth(S, n) == CHOOSE j \in S : Cardinality({k \in S : k <= j}) = n

\* A quoted token is the text between its quotes, without the backslashes that
\* escape a quote ("Inside quoted strings, quotes may be escaped with a
\* preceding \ character. No other chars may be escaped", lexer.go: 68-70).
QuotedText ==
    \A i \in DOMAIN tokens :
       LET t == tokens[i]
           escapes(j) == /\ input[j] = "backslash" /\ input[j + 1] = "quote"
                         /\ RunAt(t.first, j) % 2 = 1
           inner == t.first + 1 .. t.last - 1
           kept == {j \in inner : ~escapes(j)}
           closed == t.first < t.last /\ input[t.last] = "quote" /\ ~escapes(t.last - 1)
       IN input[t.first] = "quote" /\ closed =>
             /\ \A j \in inner : input[j] = "quote" => escapes(j - 1)
             /\ t.text = [n \in 1 .. Cardinality(kept) |-> input[Nth(kept, n)]]

\* Every rune of the file that is no white space is in a token or in a comment: a
\* hash precedes it on its line.  Only quotes that open at
\* the end and enclose nothing are lost.
NothingLost ==
    ended => \A j \in 1 .. Len(input) :
       \/ input[j] \in {"space", "cr", "nl", "bom"}
       \/ \E i \in DOMAIN tokens : tokens[i].first <= j /\ j <= tokens[i].last
       \/ \E h \in 1 .. j : input[h] = "hash" /\ ~BreakBetween(h, j)
       \/ j >= token.first /\ quoted /\ val = <<>>
=============================================================================
