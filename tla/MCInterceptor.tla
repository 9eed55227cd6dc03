--------------------------- MODULE MCInterceptor ---------------------------
(* Small instances of Interceptor. *)
EXTENDS Interceptor

Attach(m, n) ==
    [post |-> TRUE, body |-> "command", attach |-> TRUE, mwm |-> m, txs |-> n,
     parses |-> TRUE, works |-> TRUE, writes |-> TRUE]

\* One message for each way through the handler, with an MWM below, at and above
\* the limits and a bundle at and above them.
MCMessages ==
    LET a == Attach(2, 2) IN
    {a, Attach(-1, 1), Attach(3, 1), Attach(0, 0), Attach(2, 3),
     [a EXCEPT !.post = FALSE], [a EXCEPT !.body = "none"],
     [a EXCEPT !.body = "unreadable"], [a EXCEPT !.attach = FALSE],
     [a EXCEPT !.parses = FALSE], [a EXCEPT !.works = FALSE], [a EXCEPT !.writes = FALSE]}
MCGarbled == {[Attach(1, 1) EXCEPT !.body = "nocommand"]}
MCAllMessages == MCMessages \cup MCGarbled
MCArgs == {<<2, 2>>}
MCAllArgs == {<<2, 2>>, <<Bad, 2>>, <<2, Bad>>, <<1>>, <<1, 2, 3>>}
=============================================================================
