------------------------------ MODULE Dispenser ------------------------------
(***************************************************************************)
(* The token cursor of caddyfile/dispenser.go.  A dispenser is a record of  *)
(* tokens, cursor (0 before the first token) and nesting; a method that     *)
(* moves it is an operator that gives the result and the dispenser after    *)
(* the call.  A token is a record of its text, file and line; that a text   *)
(* may span several lines is the concern of module Lexer.                   *)
(***************************************************************************)
EXTENDS Naturals, Sequences

NewDispenser(tokens) == [tokens |-> tokens, cursor |-> 0, nesting |-> 0]

Result(ok, d) == [ok |-> ok, d |-> d]
Back(d) == [d EXCEPT !.cursor = @ - 1]
Forward(d) == [d EXCEPT !.cursor = @ + 1]
Token(d) == d.tokens[d.cursor]
Val(d) == IF d.cursor \in DOMAIN d.tokens THEN Token(d).text ELSE ""

DispenseNext(d) ==
    IF d.cursor < Len(d.tokens) THEN Result(TRUE, Forward(d)) ELSE Result(FALSE, d)

\* t and u are consecutive tokens of the same line, or u begins a later one.
SameLine(t, u) == t.file = u.file /\ t.line = u.line
LaterLine(t, u) == t.file # u.file \/ t.line < u.line

NextArg(d) ==
    IF \/ d.cursor = 0
       \/ d.cursor < Len(d.tokens) /\ SameLine(Token(d), d.tokens[d.cursor + 1])
      THEN Result(TRUE, Forward(d))
      ELSE Result(FALSE, d)

\* The current token is the first of its line.
IsNewLine(d) ==
    IF d.cursor <= 1 THEN TRUE
    ELSE d.cursor <= Len(d.tokens) /\ LaterLine(d.tokens[d.cursor - 1], Token(d))

\* Faulty variant: the nesting is not reduced when the block ends.
NextBlock_StaysOpen(d) ==
    IF d.nesting > 0
      THEN LET n == DispenseNext(d).d IN Result(Val(n) # "}", n)
      ELSE LET n == NextArg(d) IN
           IF ~n.ok THEN n
           ELSE IF Val(n.d) # "{" THEN Result(FALSE, Back(n.d))
           ELSE LET m == DispenseNext(n.d).d IN
                IF Val(m) = "}" THEN Result(FALSE, m)
                                ELSE Result(TRUE, [m EXCEPT !.nesting = @ + 1])

\* As long as a block is open the next token is loaded, if there is one, and a
\* closing brace ends it; else a brace on the same line opens one.
NextBlock(d) ==
    IF d.nesting > 0
      THEN LET n == DispenseNext(d).d IN
           IF Val(n) = "}" THEN Result(FALSE, [n EXCEPT !.nesting = @ - 1]) ELSE Result(TRUE, n)
      ELSE LET n == NextArg(d) IN
           IF ~n.ok THEN n
           ELSE IF Val(n.d) # "{" THEN Result(FALSE, Back(n.d))
           ELSE LET m == DispenseNext(n.d).d IN
                IF Val(m) = "}" THEN Result(FALSE, m)
                                ELSE Result(TRUE, [m EXCEPT !.nesting = @ + 1])

\* One iteration of RemainingArgs: a brace on the line is not loaded.
RemainingArg(d) ==
    LET n == NextArg(d) IN IF n.ok /\ Val(n.d) = "{" THEN Result(FALSE, d) ELSE n
=============================================================================
