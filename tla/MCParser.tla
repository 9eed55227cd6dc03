------------------------------ MODULE MCParser ------------------------------
(* Small Caddyfiles: all short sequences of words, and longer ones with a     *)
(* snippet, a server block and directives with blocks.  A behaviour is one of *)
(* the parser on these or, as part says, one of the lexer on short files.     *)
EXTENDS Parser

CONSTANTS MaxWords, MaxInner, MaxRunes

Word(t, nl) == [text |-> t, nl |-> nl]
Words(texts) == [text : texts, nl : BOOLEAN]
Line(s) == [i \in DOMAIN s |-> Word(s[i], i = 1)]

MCFiles == [f |-> <<Word("a", TRUE), Word("b", TRUE), Word("{", FALSE), Word("}", TRUE)>>,
            g |-> <<>>]
MCDirectives == <<"b", "a">>
MCEnv(t) == IF t = "$E" THEN "b" ELSE t

\* A brace that closes a block is on a line of its own.
Inner == BoundedSeq(Words({"a", "{"}) \cup {Word("}", TRUE)}, MaxInner)
Imports == {<<>>, Line(<<"import", "f">>), Line(<<"import", "s">>), Line(<<"import", "x">>)}

\* No snippet contains an import: the parser does not end on a cycle of imports.
MCInputs ==
    BoundedSeq(Words({"a", "a,", "{", "}", "import", "f", "(s)"}), MaxWords)
    \cup {Line(<<"(s)", "{">>) \o x \o Line(<<"}">>) \o i \o Line(<<"a", "$E", "{">>) \o y \o i
            \o Line(<<"}">>) :
            x \in {x \in Inner : Balanced(x)}, y \in Inner, i \in Imports}
    \cup {Line(<<"", "a">>) \o Line(<<"b", "$E", "{">>) \o i \o y \o Line(<<"}">>) :
            y \in Inner, i \in Imports \cup {Line(<<"import", "g">>), Line(<<"import", "">>)}}

---------------------------------------------------------------------------

VARIABLES
    part,
    input, read, line, val, comment, quoted, escaped, token, lexed, loaded, ended

lexerVars == <<input, read, line, val, comment, quoted, escaped, token, lexed, loaded, ended>>

L == INSTANCE Lexer WITH
        Runes <- {"bom", "space", "cr", "nl", "quote", "backslash", "hash", "a"},
        MaxLen <- MaxRunes, tokens <- lexed

PInit ==
    \/ /\ part = "parser" /\ Init
       /\ input = <<>> /\ read = 0 /\ line = 1 /\ val = <<>> /\ comment = FALSE
       /\ quoted = FALSE /\ escaped = FALSE /\ token = L!NoToken /\ lexed = <<>>
       /\ loaded = TRUE /\ ended = TRUE
    \/ /\ part = "lexer" /\ L!Init
       /\ d = NewDispenser(<<>>) /\ phase = "loaded" /\ keys = <<>> /\ tokens = <<>>
       /\ expectingAnother = FALSE /\ eof = FALSE /\ braced = FALSE
       /\ dir = "" /\ nesting = 0 /\ snippet = <<>> /\ snippets = <<>> /\ blocks = <<>>
       /\ todo = <<>> /\ consumed = <<>>

PNext ==
    /\ UNCHANGED part
    /\ \/ part = "parser" /\ Next /\ UNCHANGED lexerVars
       \/ part = "lexer" /\ L!Next /\ UNCHANGED vars

PSpec == PInit /\ [][PNext]_<<part, vars, lexerVars>> /\ WF_vars(Next)

\* Stated in Lexer: the tokens of a Caddyfile are on the right lines, have the text
\* between their quotes, and leave nothing out.
TokensRight == L!LinesKept /\ L!QuotedText /\ L!NothingLost
\* Stated in Parser: every token is used exactly once and in order, and what a setup
\* function or an import gets has balanced braces.
BlocksRight == EveryTokenOnce /\ BlocksBalanced
=============================================================================
