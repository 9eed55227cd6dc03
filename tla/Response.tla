------------------------------ MODULE Response ------------------------------
(***************************************************************************)
(* The answer of a backend on its way through ReverseProxy.ServeHTTP        *)
(* (proxy/reverseproxy.go) when it is not an upgrade: the body, with the    *)
(* goroutine that flushes it, and the trailers.  The ResponseWriter of      *)
(* net/http (HTTP/1.1) is external; the other header fields are left out.   *)
(***************************************************************************)
EXTENDS Naturals, FiniteSets

CONSTANTS
    Trailers,    \* the names of trailers
    MaxChunks    \* bound on the chunks of the body

VARIABLES
    pc,          \* the stage of ServeHTTP: "header", "copy", "stop", "trailers", "returned"
    flushes,     \* FlushInterval is set and the writer is an http.Flusher
    announced,   \* the keys of res.Trailer when the header has come
    trailers,    \* the keys of res.Trailer when the body is closed
    declared,    \* the Trailer field of the header
    streamed,    \* net/http has sent the header before the handler returns
    after,       \* the trailers put into rw.Header() after the body
    copied,      \* chunks of the body written to the client
    flusher,     \* flushLoop: "none", "waits", "ticked", "flushes", "ended"
    lock         \* who holds mlw.lk: "none", "copy" or "flush"

rvars == <<pc, flushes, announced, trailers, declared, streamed, after, copied, flusher, lock>>

Init ==
    /\ pc = "header" /\ flushes \in BOOLEAN
    /\ trailers \in SUBSET Trailers /\ announced \in SUBSET trailers
    /\ declared = {} /\ streamed = FALSE /\ after = {}
    /\ copied = 0 /\ flusher = "none" /\ lock = "none"

\* The Trailer field and the header are written, and flushed if a trailer is
\* announced; copyResponse starts.
WriteHeader ==
    /\ pc = "header"
    /\ declared' = announced
    /\ streamed' = (announced # {})
    /\ flusher' = IF flushes THEN "waits" ELSE "none"
    /\ pc' = "copy"
    /\ UNCHANGED <<flushes, announced, trailers, after, copied, lock>>

\* maxLatencyWriter.Write, or the writer itself: a chunk may fill the buffer of
\* net/http, which then sends the header.
Lock ==
    /\ pc = "copy" /\ lock = "none" /\ copied < MaxChunks
    /\ lock' = IF flushes THEN "copy" ELSE "none"
    /\ IF flushes THEN UNCHANGED <<copied, streamed>>
       ELSE copied' = copied + 1 /\ streamed' \in {streamed, TRUE}
    /\ UNCHANGED <<pc, flushes, announced, trailers, declared, after, flusher>>
Write ==
    /\ lock = "copy"
    /\ lock' = "none" /\ copied' = copied + 1
    /\ streamed' \in {streamed, TRUE}
    /\ UNCHANGED <<pc, flushes, announced, trailers, declared, after, flusher>>

\* flushLoop: a tick, lk.Lock, Flush, lk.Unlock.
Tick ==
    /\ flusher = "waits"
    /\ flusher' = "ticked"
    /\ UNCHANGED <<pc, flushes, announced, trailers, declared, streamed, after, copied, lock>>
FlushLock ==
    /\ flusher = "ticked" /\ lock = "none"
    /\ flusher' = "flushes" /\ lock' = "flush"
    /\ UNCHANGED <<pc, flushes, announced, trailers, declared, streamed, after, copied>>
Flush ==
    /\ flusher = "flushes"
    /\ flusher' = "waits" /\ lock' = "none"
    /\ streamed' = TRUE
    /\ UNCHANGED <<pc, flushes, announced, trailers, declared, after, copied>>

\* The body has ended, or a read or a write of pooledIoCopy has failed.
CopyEnds ==
    /\ pc = "copy" /\ lock # "copy"
    /\ pc' = "stop"
    /\ UNCHANGED <<flushes, announced, trailers, declared, streamed, after, copied, flusher, lock>>

\* m.done <- true: the channel is not buffered, so the loop is at its select and
\* returns; with no loop there is nothing to stop.
Stop ==
    /\ pc = "stop" /\ flusher \in {"none", "waits"}
    /\ pc' = "trailers"
    /\ flusher' = IF flusher = "waits" THEN "ended" ELSE flusher
    /\ UNCHANGED <<flushes, announced, trailers, declared, streamed, after, copied, lock>>

\* Faulty variant: a trailer that was not announced is set like the others.
forceSetTrailers_Never == FALSE
\* Go removes no key of res.Trailer: another length means unannounced trailers.
forceSetTrailers == Cardinality(trailers) # Cardinality(announced)

\* closeBody and shallowCopyTrailers.
CopyTrailers ==
    /\ pc = "trailers"
    /\ after' = [key : trailers, prefixed : {forceSetTrailers}]
    /\ pc' = "returned"
    /\ UNCHANGED <<flushes, announced, trailers, declared, streamed, copied, flusher, lock>>

Returned == pc = "returned" /\ UNCHANGED rvars

Next ==
    \/ WriteHeader \/ Lock \/ Write \/ Tick \/ FlushLock \/ Flush
    \/ CopyEnds \/ Stop \/ CopyTrailers \/ Returned

Spec == Init /\ [][Next]_rvars

---------------------------------------------------------------------------

\* net/http sends the body in chunks, which trailers can follow, if the header
\* left before the handler returned or declares one; else it counts the body
\* and sets Content-Length.
Chunked == streamed \/ declared # {}

\* The trailers that follow a body in chunks: the declared and the prefixed ones.
Received == {t.key : t \in {u \in after : u.prefixed \/ u.key \in declared}}

\* Every trailer of the backend's answer reaches the client of a body in chunks,
\* those included that were not announced and came only after the body.
TrailersKept == pc = "returned" /\ Chunked => Received = trailers

\* Once copyResponse has returned, the flush loop does not touch the writer again:
\* the trailers are set, and the writer is given back, with no Flush under way.
FlushQuiet == pc \in {"trailers", "returned"} => flusher \in {"none", "ended"} /\ lock = "none"

\* The client gets the whole answer, and the handler leaves nothing behind it.
AnswerWhole == TrailersKept /\ FlushQuiet
=============================================================================
