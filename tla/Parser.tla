-------------------------------- MODULE Parser -------------------------------
(***************************************************************************)
(* The parser of the Caddyfile, caddyfile/parse.go: it groups the tokens of *)
(* a file by server block and directive, replaces imports by the tokens     *)
(* they name and keeps snippets.  A step is one iteration of a loop of the  *)
(* parser.  When it succeeds every directive's tokens are given to its      *)
(* setup function, which reads them with the Dispenser in the usual way:    *)
(*     for c.Next() { c.RemainingArgs(); for c.NextBlock() { ... } }        *)
(***************************************************************************)
EXTENDS Dispenser, SequencesExt, Functions, FiniteSets

CONSTANTS
    Inputs,           \* Caddyfiles: sequences of texts, each at the start of a line or not
    Files,            \* [import patterns -> tokens of the files that match]
    DirectiveList,    \* the directives of the server type, in the order of their execution
    Env(_)            \* replaceEnvVars

VARIABLES
    d,         \* p.Dispenser, later the one of a setup function
    phase,     \* the loop that is running
    keys,      \* p.block.Keys
    tokens,    \* p.block.Tokens
    expectingAnother, eof,
    braced,    \* openCurlyBrace gave no error
    dir, nesting,
    snippet,   \* tokens of the snippet being read
    snippets,  \* p.definedSnippets
    blocks,    \* what parseAll returns
    todo,      \* the calls of setup functions to come
    consumed   \* positions of the tokens used, in the order of their use

blockVars == <<keys, tokens, expectingAnother, braced>>
loopVars == <<dir, nesting, snippet>>
vars == <<d, phase, blockVars, eof, loopVars, snippets, blocks, todo, consumed>>

\* The tokens of a file: the line of each is the number of line starts up to it.
Lex(file, words) ==
    [i \in DOMAIN words |->
       [text |-> words[i].text, file |-> file,
        line |-> Cardinality({j \in 2 .. i : words[j].nl})]]

Empty == <<>>
At(f, k) == IF k \in DOMAIN f THEN f[k] ELSE Empty
Put(f, k, v) == [x \in DOMAIN f \cup {k} |-> IF x = k THEN v ELSE f[x]]

Init ==
    /\ \E words \in Inputs : d = NewDispenser(Lex("Caddyfile", words))
    /\ phase = "top"
    /\ keys = <<>> /\ tokens = Empty /\ expectingAnother = FALSE /\ braced = FALSE
    /\ eof = FALSE
    /\ dir = "" /\ nesting = 0 /\ snippet = <<>>
    /\ snippets = Empty /\ blocks = <<>> /\ todo = <<>> /\ consumed = <<>>

Consume(disp) == consumed' = Append(consumed, disp.cursor)

---------------------------------------------------------------------------
(* doImport                                                                 *)

\* What the import at the cursor stands for, or an error: one argument is
\* required, and it names a snippet or files.
ImportArg(disp) == NextArg(disp)
Pattern(disp) == Env(Val(ImportArg(disp).d))
CanImport(disp) ==
    /\ ImportArg(disp).ok
    /\ Pattern(disp) # ""
    /\ ~NextArg(ImportArg(disp).d).ok
    /\ Pattern(disp) \in DOMAIN snippets \cup DOMAIN Files
Imported(disp) ==
    LET p == Pattern(disp) IN
    IF p \in DOMAIN snippets THEN snippets[p] ELSE Lex(p, Files[p])

\* The two tokens of the import are replaced, the cursor is where it was.
Spliced(disp) ==
    LET c == disp.cursor IN
    [disp EXCEPT !.tokens = SubSeq(@, 1, c - 1) \o Imported(disp) \o SubSeq(@, c + 2, Len(@))]

---------------------------------------------------------------------------
(* parseAll, begin                                                          *)

\* The assertions of the parser on the current token.
openCurlyBrace(disp) == Val(disp) = "{"
closeCurlyBrace(disp) == Val(disp) = "}"
validDirective(name) == name \in Range(DirectiveList)

\* The loop of parseAll: a fresh block, or the end.
ParseOne ==
    /\ phase = "top"
    /\ LET n == DispenseNext(d) IN
       /\ d' = n.d
       /\ phase' = IF n.ok THEN "addresses" ELSE "done"
    /\ keys' = <<>> /\ tokens' = Empty /\ expectingAnother' = FALSE /\ braced' = FALSE
    /\ UNCHANGED <<eof, loopVars, snippets, blocks, todo, consumed>>

\* The block is returned to parseAll, which keeps it if it has a key.
EndBlock(ks, ts) ==
    /\ phase' = "top"
    /\ blocks' = IF ks # <<>> THEN Append(blocks, [keys |-> ks, tokens |-> ts]) ELSE blocks

\* One iteration of addresses: an import, the brace that opens the block, or an
\* address.  A comma promises another one, possibly on the next line.
Address ==
    LET tkn == Env(Val(d))
        n == DispenseNext(d)
        comma == IF tkn = "" THEN expectingAnother ELSE tkn = "a,"
    IN
    /\ phase = "addresses"
    /\ UNCHANGED <<tokens, braced, loopVars, snippets, blocks, todo>>
    /\ \/ /\ tkn = "import" /\ IsNewLine(d)
          /\ \/ ~CanImport(d) /\ phase' = "error" /\ d' = d
             \/ CanImport(d) /\ phase' = phase /\ d' = Spliced(d)
          /\ UNCHANGED <<keys, expectingAnother, eof, consumed>>
       \/ /\ tkn = "{"
          /\ phase' = IF expectingAnother THEN "error" ELSE "begin"
          /\ UNCHANGED <<d, keys, expectingAnother, eof, consumed>>
       \/ /\ tkn # "{" /\ ~(tkn = "import" /\ IsNewLine(d))
          /\ keys' = IF tkn = "" THEN keys ELSE Append(keys, IF tkn = "a," THEN "a" ELSE tkn)
          /\ expectingAnother' = comma
          /\ IF d.cursor \in DOMAIN d.tokens THEN Consume(d) ELSE UNCHANGED consumed
          /\ d' = n.d
          /\ eof' = ~n.ok
          /\ phase' = CASE comma /\ ~n.ok -> "error"
                        [] comma /\ n.ok -> "addresses"
                        [] ~comma -> IF ~n.ok \/ IsNewLine(n.d) THEN "begin" ELSE "addresses"

IsSnippet == keys = <<"(s)">>

\* The rest of begin: the end of the file, a snippet that must be new and have a
\* brace, or blockContents, which needs no braces.
Begin ==
    /\ phase = "begin"
    /\ \/ /\ eof
          /\ EndBlock(keys, tokens)
          /\ UNCHANGED <<d, braced, nesting, snippet, consumed>>
       \/ /\ ~eof /\ IsSnippet
          /\ phase' = IF "s" \in DOMAIN snippets \/ ~openCurlyBrace(d) THEN "error" ELSE "snippet"
          /\ nesting' = 1 /\ snippet' = <<>>
          /\ Consume(d)
          /\ UNCHANGED <<d, braced, blocks>>
       \/ /\ ~eof /\ ~IsSnippet
          /\ phase' = "directives"
          /\ braced' = openCurlyBrace(d)
          /\ IF braced' THEN d' = d /\ Consume(d) ELSE d' = Back(d) /\ UNCHANGED consumed
          /\ UNCHANGED <<nesting, snippet, blocks>>
    /\ UNCHANGED <<keys, tokens, expectingAnother, eof, dir, snippets, todo>>

\* One iteration of snippetTokens; a snippet is no server block.
Snippet ==
    LET n == DispenseNext(d)
        count == CASE Val(n.d) = "}" -> nesting - 1
                   [] Val(n.d) = "{" -> nesting + 1
                   [] OTHER -> nesting
    IN
    /\ phase = "snippet"
    /\ d' = n.d
    /\ \/ /\ ~n.ok
          /\ phase' = "error"
          /\ UNCHANGED <<nesting, snippet, snippets, keys, blocks, consumed>>
       \/ /\ n.ok /\ count = 0
          /\ snippets' = Put(snippets, "s", snippet)
          /\ keys' = <<>>
          /\ EndBlock(<<>>, tokens)
          /\ Consume(n.d)
          /\ nesting' = 0 /\ snippet' = <<>>
       \/ /\ n.ok /\ count > 0
          /\ nesting' = count
          /\ snippet' = Append(snippet, Token(n.d))
          /\ Consume(n.d)
          /\ UNCHANGED <<phase, snippets, keys, blocks>>
    /\ UNCHANGED <<tokens, expectingAnother, braced, eof, dir, todo>>

---------------------------------------------------------------------------
(* directives, directive                                                    *)

\* Faulty variant: after an import the loop goes on behind its first token.
AfterImport_SkipsOne(disp) == disp

\* The cursor is moved back, because the loop begins with Next.
AfterImport(disp) == Back(disp)

\* One iteration of directives: the end of the file or of the block, an import,
\* or a directive begins.  At the end of the file the last token is looked at
\* once more for the closing brace.
Directives ==
    LET n == DispenseNext(d) IN
    /\ phase = "directives"
    /\ \/ /\ ~n.ok \/ Val(n.d) = "}"
          /\ d' = n.d
          /\ IF braced /\ ~closeCurlyBrace(n.d)
               THEN phase' = "error" /\ UNCHANGED <<blocks, consumed>>
               ELSE /\ EndBlock(keys, tokens)
                    /\ IF n.ok THEN Consume(n.d) ELSE UNCHANGED consumed
          /\ UNCHANGED <<dir, nesting, tokens>>
       \/ /\ n.ok /\ Val(n.d) = "import"
          /\ \/ ~CanImport(n.d) /\ phase' = "error" /\ d' = n.d
             \/ CanImport(n.d) /\ phase' = phase /\ d' = AfterImport(Spliced(n.d))
          /\ UNCHANGED <<dir, nesting, tokens, blocks, consumed>>
       \/ /\ n.ok /\ Val(n.d) \notin {"}", "import"}
          /\ d' = n.d
          /\ dir' = Env(Val(n.d))
          /\ nesting' = 0
          /\ IF validDirective(dir')
               THEN /\ phase' = "directive"
                    /\ tokens' = Put(tokens, dir', Append(At(tokens, dir'), Token(n.d)))
                    /\ Consume(n.d)
               ELSE phase' = "error" /\ UNCHANGED <<tokens, consumed>>
          /\ UNCHANGED blocks
    /\ UNCHANGED <<keys, expectingAnother, braced, eof, snippet, snippets, todo>>

\* The loop of directive ends at the end of the file.
EndOfDirective == IF nesting > 0 THEN "error" ELSE "directives"

\* One iteration of directive.
Directive ==
    LET n == DispenseNext(d)
        v == Val(n.d)
        opens == v = "{"
        newLine == ~opens /\ IsNewLine(n.d) /\ nesting = 0
        closes == v = "}" /\ ~newLine
        imports == v = "import" /\ IsNewLine(n.d) /\ ~newLine
    IN
    /\ phase = "directive"
    /\ \/ /\ ~n.ok
          /\ phase' = EndOfDirective
          /\ UNCHANGED <<d, nesting, tokens, consumed>>
       \/ /\ n.ok /\ newLine
          /\ phase' = "directives"
          /\ UNCHANGED <<d, nesting, tokens, consumed>>
       \/ /\ n.ok /\ closes /\ nesting = 0
          /\ phase' = "error" /\ d' = n.d
          /\ UNCHANGED <<nesting, tokens, consumed>>
       \/ /\ n.ok /\ imports
          /\ \/ ~CanImport(n.d) /\ phase' = "error" /\ d' = n.d
             \/ CanImport(n.d) /\ phase' = phase /\ d' = AfterImport(Spliced(n.d))
          /\ UNCHANGED <<nesting, tokens, consumed>>
       \/ /\ n.ok /\ ~newLine /\ ~imports /\ ~(closes /\ nesting = 0)
          /\ LET e == [n.d EXCEPT !.tokens[n.d.cursor].text = Env(v)] IN
             /\ d' = e
             /\ tokens' = Put(tokens, dir, Append(tokens[dir], Token(e)))
          /\ nesting' = IF opens THEN nesting + 1 ELSE IF closes THEN nesting - 1 ELSE nesting
          /\ Consume(n.d)
          /\ phase' = phase
    /\ UNCHANGED <<keys, expectingAnother, braced, eof, dir, snippet, snippets, blocks, todo>>

---------------------------------------------------------------------------
(* The setup functions                                                      *)

\* executeDirectives: a directive is executed in all blocks that have it, once
\* for every key, before the next directive.
SetupCalls ==
    LET inBlock(k, i) == IF k \in DOMAIN blocks[i].tokens
                           THEN [j \in DOMAIN blocks[i].keys |-> blocks[i].tokens[k]] ELSE <<>>
        inAll(k) == FlattenSeq([i \in DOMAIN blocks |-> inBlock(k, i)])
    IN FlattenSeq([n \in DOMAIN DirectiveList |-> inAll(DirectiveList[n])])

\* parseAll has returned.
Execute ==
    /\ phase = "done"
    /\ phase' = "setups"
    /\ todo' = SetupCalls
    /\ UNCHANGED <<d, blockVars, eof, loopVars, snippets, blocks, consumed>>

\* A setup function is called, or all have returned.
CallSetup ==
    /\ phase = "setups"
    /\ \/ /\ todo = <<>>
          /\ phase' = "loaded"
          /\ UNCHANGED <<d, todo>>
       \/ /\ todo # <<>>
          /\ todo' = Tail(todo)
          /\ d' = NewDispenser(Head(todo))
          /\ phase' = "setup"
    /\ UNCHANGED <<blockVars, eof, loopVars, snippets, blocks, consumed>>

\* Its loops, one call of the Dispenser at a time.
Setup ==
    /\ \/ /\ phase = "setup"
          /\ LET n == DispenseNext(d) IN d' = n.d /\ phase' = IF n.ok THEN "args" ELSE "setups"
       \/ /\ phase = "args"
          /\ LET n == RemainingArg(d) IN d' = n.d /\ phase' = IF n.ok THEN "args" ELSE "block"
       \/ /\ phase = "block"
          /\ LET n == NextBlock(d) IN d' = n.d /\ phase' = IF n.ok THEN "args" ELSE "setup"
    /\ UNCHANGED <<blockVars, eof, loopVars, snippets, blocks, todo, consumed>>

Finished == phase \in {"loaded", "error"} /\ UNCHANGED vars

Next ==
    \/ ParseOne \/ Address \/ Begin \/ Snippet \/ Directives \/ Directive
    \/ Execute \/ CallSetup \/ Setup \/ Finished

Spec == Init /\ [][Next]_vars
FairSpec == Spec /\ WF_vars(Next)

---------------------------------------------------------------------------
(* Properties                                                               *)

Parsing == {"top", "addresses", "begin", "snippet", "directives", "directive", "done"}
Setups == {"setups", "setup", "args", "block", "loaded"}

\* Every token of the file, imports replaced, is used exactly once and in order:
\* the cursor is moved back wherever a loop has read too far, and nowhere else
\* (parse.go: 179, 215, 362, 372).
EveryTokenOnce ==
    /\ phase # "error" => \A i \in DOMAIN consumed : consumed[i] = i
    /\ phase = "done" => Len(consumed) = Len(d.tokens)

\* The number of braces open after the first n tokens.
Depth(ts, n) ==
    Len(SelectSeq(SubSeq(ts, 1, n), LAMBDA t : t.text = "{"))
      - Len(SelectSeq(SubSeq(ts, 1, n), LAMBDA t : t.text = "}"))
Balanced(ts) == Depth(ts, Len(ts)) = 0 /\ \A n \in DOMAIN ts : Depth(ts, n) >= 0

\* What a setup function or a later import gets has balanced braces: a directive
\* ends with its last brace, and "we're matched up" at the end of a snippet
\* (parse.go: 379, 488).
BlocksBalanced ==
    /\ phase \in Setups =>
         \A b \in Range(blocks) : \A k \in DOMAIN b.tokens : Balanced(b.tokens[k])
    /\ \A s \in DOMAIN snippets : Balanced(snippets[s])

\* Loading ends: the parser's loops, imports included, and the loops of setup
\* functions, for which an open block would never end (dispenser.go: 113-117).
LoadEnds == <>(phase \in {"loaded", "error"})
=============================================================================
