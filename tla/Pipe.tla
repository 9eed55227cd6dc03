-------------------------------- MODULE Pipe --------------------------------
(***************************************************************************)
(* What a stream between two peers promises: the sink has received a prefix *)
(* of what the source has sent, and gets nothing more once the stream is    *)
(* closed.  The byte copying of the handlers (websocket tunnel of the       *)
(* proxy, FastCGI) is shown to implement it.                                *)
(***************************************************************************)
EXTENDS Naturals, Sequences

CONSTANT Units   \* what is sent

VARIABLES
    source,  \* the units sent
    sink,    \* the units received
    closed

Init == source = <<>> /\ sink = <<>> /\ closed = FALSE

Send == \E u \in Units : source' = Append(source, u) /\ UNCHANGED <<sink, closed>>

Deliver ==
    /\ ~closed
    /\ \E n \in Len(sink) + 1 .. Len(source) : sink' = SubSeq(source, 1, n)
    /\ UNCHANGED <<source, closed>>

Close == ~closed /\ closed' = TRUE /\ UNCHANGED <<source, sink>>

Next == Send \/ Deliver \/ Close

Spec == Init /\ [][Next]_<<source, sink, closed>>
=============================================================================
