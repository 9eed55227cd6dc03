------------------------------ MODULE FastCGI ------------------------------
(***************************************************************************)
(* One request through the fastcgi directive: Handler.ServeHTTP of          *)
(* fastcgi.go and the client of fcgiclient.go, against a backend that is    *)
(* external: it reads and writes when it likes, stalls or goes away.        *)
(*                                                                         *)
(* Parameters, body and output are sequences of units.  A record holds up   *)
(* to MaxWrite units and an empty one ends a stream.  A parameter is a key  *)
(* whose encoding takes Size[k] units, its size fields included, and every  *)
(* connection holds Wire records in each direction.                         *)
(***************************************************************************)
EXTENDS Naturals, Sequences, FiniteSets, SequencesExt

CONSTANTS
    Size,      \* [keys -> units], the environment that buildEnv makes
    BodyLen,   \* units of the request body
    MaxOut,    \* bound on the records that the backend writes
    MaxWrite, Wire

VARIABLES
    pc,        \* the stage of the handler
    status,    \* what it returns, "none" before
    pairs,     \* the parameters not yet written
    body,      \* units of the request body read so far
    buf,       \* the bufio.Writer of the current stream
    queue,     \* the records that the current write is to send
    sendDue, readDue,     \* the deadlines of SetSendTimeout and SetReadTimeout have passed
    broken,    \* the connection refuses writes: the sticky error of the writer
    toBackend, toClient,  \* the connection
    backend,   \* "up", "ended": has written EndRequest, "gone"
    got,       \* the records that the backend has read
    wrote,     \* history: the units of Stdout that it has written
    rbuf,      \* streamReader.buf
    out        \* the units of Stdout that the handler has taken

fvars == <<pc, status, pairs, body, buf, queue, sendDue, readDue, broken,
           toBackend, toClient, backend, got, wrote, rbuf, out>>

Rec(type, content) == [type |-> type, content |-> content]

Init ==
    /\ pc = "route" /\ status = "none"
    /\ pairs = DOMAIN Size /\ body = 0 /\ buf = <<>> /\ queue = <<>>
    /\ sendDue = FALSE /\ readDue = FALSE /\ broken = FALSE
    /\ toBackend = <<>> /\ toClient = <<>>
    /\ backend = "up" /\ got = <<>> /\ wrote = <<>>
    /\ rbuf = <<>> /\ out = <<>>

\* What most stages of the handler leave alone.
peer == <<sendDue, readDue, toClient, backend, got, wrote>>
reading == <<rbuf, out>>

Returns(s) == pc' = "done" /\ status' = s

\* The rules of ServeHTTP: no rule takes the request, an index file cannot be
\* split, no connection, or the request goes to the backend.
Route ==
    /\ pc = "route"
    /\ \/ Returns("next")
       \/ Returns("500")
       \/ Returns("502")
       \/ pc' = "params" /\ UNCHANGED status
    /\ queue' = IF pc' = "params" THEN <<Rec("begin", <<"begin">>)>> ELSE <<>>
    /\ UNCHANGED <<pairs, body, buf, broken, toBackend, peer, reading>>

\* The full records that a bufio.Writer of MaxWrite units hands on when units are
\* written to it, and what it keeps.
Full(units) == (Len(units) - 1) \div MaxWrite
Records(type, units) ==
    [i \in 1 .. IF units = <<>> THEN 0 ELSE Full(units) |->
        Rec(type, SubSeq(units, (i - 1) * MaxWrite + 1, i * MaxWrite))]
Kept(units) == IF units = <<>> THEN <<>> ELSE SubSeq(units, Full(units) * MaxWrite + 1, Len(units))
Flushed(type, units) == IF units = <<>> THEN <<>> ELSE <<Rec(type, units)>>

NoRoom(n) == Len(buf) + n > MaxWrite

\* One pair of writePairs, in the order of a map.  A pair that does not fit in a
\* record by itself has its value cut; one that does not fit in what is left of
\* the buffer starts a new record.
WritePair ==
    /\ pc = "params" /\ queue = <<>> /\ ~broken
    /\ \E k \in pairs :
          LET n == IF Size[k] > MaxWrite THEN MaxWrite ELSE Size[k]
              units == [i \in 1 .. n |-> k]
              before == IF NoRoom(n) THEN <<>> ELSE buf
          IN  /\ pairs' = pairs \ {k}
              /\ queue' = (IF NoRoom(n) THEN Flushed("params", buf) ELSE <<>>)
                          \o Records("params", before \o units)
              /\ buf' = Kept(before \o units)
    /\ UNCHANGED <<pc, status, body, broken, toBackend, peer, reading>>

\* bufWriter.Close: flush, then the empty record.
ParamsEnd ==
    /\ pc = "params" /\ queue = <<>> /\ ~broken /\ pairs = {}
    /\ queue' = Flushed("params", buf) \o <<Rec("params", <<>>)>>
    /\ buf' = <<>>
    /\ pc' = "stdin"
    /\ UNCHANGED <<status, pairs, body, broken, toBackend, peer, reading>>

\* io.Copy of the request body into the writer.
CopyBody ==
    /\ pc = "stdin" /\ queue = <<>> /\ ~broken
    /\ body < BodyLen
    /\ LET units == Append(buf, body + 1) IN
       /\ queue' = Records("stdin", units)
       /\ buf' = Kept(units)
    /\ body' = body + 1
    /\ UNCHANGED <<pc, status, pairs, broken, toBackend, peer, reading>>

\* The body has ended, or could not be read further: that error is dropped, and so
\* is one of writing.  The stream is closed either way.
BodyEnd ==
    /\ pc = "stdin" /\ queue = <<>>
    /\ queue' = IF broken THEN <<>> ELSE Flushed("stdin", buf) \o <<Rec("stdin", <<>>)>>
    /\ buf' = <<>>
    /\ pc' = "close"
    /\ UNCHANGED <<status, pairs, body, broken, toBackend, peer, reading>>

WriteEnds ==
    /\ pc = "close" /\ queue = <<>>
    /\ pc' = "header"
    /\ UNCHANGED <<status, pairs, body, buf, queue, broken, toBackend, peer, reading>>

WriteRecord ==
    /\ queue # <<>> /\ backend # "gone" /\ ~sendDue
    /\ Len(toBackend) < Wire
    /\ toBackend' = Append(toBackend, Head(queue))
    /\ queue' = Tail(queue)
    /\ UNCHANGED <<pc, status, pairs, body, buf, broken, peer, reading>>

\* Faulty variant: there is no deadline for writing.
WriteFails_NoDeadline ==
    /\ queue # <<>> /\ backend = "gone"
    /\ queue' = <<>> /\ broken' = TRUE
    /\ IF pc = "params" THEN Returns("502") ELSE UNCHANGED <<pc, status>>
    /\ UNCHANGED <<pairs, body, buf, toBackend, peer, reading>>
\* A write fails: the backend is gone, or SendTimeout has passed.  Writing the
\* parameters reports it; closing their stream and all of the body do not.
WriteFails ==
    /\ queue # <<>>
    /\ backend = "gone" \/ sendDue
    /\ queue' = <<>> /\ broken' = TRUE
    /\ IF pc = "params"
       THEN Returns(IF sendDue THEN "504" ELSE "502")
       ELSE UNCHANGED <<pc, status>>
    /\ UNCHANGED <<pairs, body, buf, toBackend, peer, reading>>

---------------------------------------------------------------------------
(* The response.  The first unit of Stdout ends the header.                 *)

Filtered(rec) == rec.type = "stderr"

\* One round of streamReader.Read with an empty buffer.
ReadRecord ==
    /\ pc \in {"header", "body"} /\ rbuf = <<>>
    /\ ~readDue /\ toClient # <<>>
    /\ Head(toClient).type # "end"
    /\ toClient' = Tail(toClient)
    /\ rbuf' = IF Filtered(Head(toClient)) THEN <<>> ELSE Head(toClient).content
    /\ UNCHANGED <<pc, status, pairs, body, buf, queue, sendDue, readDue, broken,
                   toBackend, backend, got, wrote, out>>

\* The header is parsed and written, then units of the body are copied.
TakeUnit ==
    /\ pc \in {"header", "body"} /\ rbuf # <<>>
    /\ out' = Append(out, Head(rbuf))
    /\ rbuf' = Tail(rbuf)
    /\ pc' = "body"
    /\ UNCHANGED <<status, pairs, body, buf, queue, broken, toBackend, peer>>

\* Faulty variant: a connection with nothing to read is taken for one that ended.
AtEnd_Quiet == toClient = <<>> \/ (toClient # <<>> /\ Head(toClient).type = "end")
\* io.EOF: an EndRequest record, or the connection ends between two records.
AtEnd ==
    \/ toClient # <<>> /\ Head(toClient).type = "end"
    \/ toClient = <<>> /\ backend = "gone"

\* An end within the header is a response with what there was of it.
ResponseEnds ==
    /\ pc \in {"header", "body"} /\ rbuf = <<>> /\ ~readDue /\ AtEnd
    /\ Returns("0")
    /\ UNCHANGED <<pairs, body, buf, queue, broken, toBackend, peer, reading>>

\* The deadline has passed, a record breaks off, or the client cannot be written to.
ReadFails ==
    /\ pc \in {"header", "body"}
    /\ \/ /\ rbuf = <<>> /\ readDue
          /\ Returns(IF pc = "header" THEN "504" ELSE "502")
       \/ /\ rbuf = <<>> /\ Len(toClient) = 1 /\ backend = "gone"
          /\ Returns("502")
       \/ pc = "body" /\ Returns("502")
    /\ UNCHANGED <<pairs, body, buf, queue, broken, toBackend, peer, reading>>

---------------------------------------------------------------------------
(* Time and the backend.                                                    *)

mine == <<pc, status, pairs, body, buf, queue, sendDue, readDue, broken, rbuf, out>>
Open == pc \notin {"route", "done"}

\* The deadlines are set once, when the connection is made.
SendDeadline ==
    /\ Open /\ ~sendDue
    /\ sendDue' = TRUE
    /\ UNCHANGED <<pc, status, pairs, body, buf, queue, readDue, broken, toBackend,
                   toClient, backend, got, wrote, rbuf, out>>
ReadDeadline ==
    /\ Open /\ ~readDue
    /\ readDue' = TRUE
    /\ UNCHANGED <<pc, status, pairs, body, buf, queue, sendDue, broken, toBackend,
                   toClient, backend, got, wrote, rbuf, out>>

BackendReads ==
    /\ Open /\ backend # "gone" /\ toBackend # <<>>
    /\ got' = Append(got, Head(toBackend))
    /\ toBackend' = Tail(toBackend)
    /\ UNCHANGED <<toClient, backend, wrote, mine>>

BackendWrites ==
    /\ Open /\ backend = "up" /\ Len(toClient) < Wire
    /\ \/ /\ Len(wrote) < MaxOut
          /\ wrote' = Append(wrote, Len(wrote) + 1)
          /\ toClient' = Append(toClient, Rec("stdout", <<Len(wrote) + 1>>))
          /\ UNCHANGED backend
       \/ /\ \A i \in DOMAIN toClient : toClient[i].type # "stderr"
          /\ toClient' = Append(toClient, Rec("stderr", <<"log">>))
          /\ UNCHANGED <<backend, wrote>>
       \/ /\ toClient' = Append(toClient, Rec("end", <<>>))
          /\ backend' = "ended"
          /\ UNCHANGED wrote
    /\ UNCHANGED <<toBackend, got, mine>>

\* It goes away: what it has written can still be read, what it has not read is lost.
BackendDies ==
    /\ Open /\ backend # "gone"
    /\ backend' = "gone" /\ toBackend' = <<>>
    /\ UNCHANGED <<toClient, got, wrote, mine>>

Idle == pc = "done" /\ UNCHANGED fvars

Handler ==
    \/ Route \/ WritePair \/ ParamsEnd \/ CopyBody \/ BodyEnd \/ WriteEnds \/ WriteRecord
    \/ WriteFails \/ ReadRecord \/ TakeUnit \/ ResponseEnds \/ ReadFails

Next ==
    \/ Handler \/ SendDeadline \/ ReadDeadline
    \/ BackendReads \/ BackendWrites \/ BackendDies \/ Idle

\* The handler runs while it can, and time passes.  The backend owes nothing.
Fair == WF_fvars(Handler) /\ WF_fvars(SendDeadline) /\ WF_fvars(ReadDeadline)

Spec == Init /\ [][Next]_fvars /\ Fair

---------------------------------------------------------------------------

\* The output of the backend reaches the client as a stream: in order, without
\* the log lines, nothing twice (streamReader.Read).
Stdout == INSTANCE Pipe WITH Units <- 1 .. MaxOut, source <- wrote, sink <- out,
                             closed <- pc = "done"
StdoutPipe == Stdout!Spec

\* A request that ends well has passed on all that the backend wrote, and the
\* backend had sent EndRequest or closed the connection: it writes no more.
WholeResponse == status = "0" => out = wrote /\ backend # "up"

\* The backend never gets a record with a part of a pair, and when the parameters
\* are closed it has got every pair (the running count of writePairs).
Pairs(r) == {r.content[i] : i \in DOMAIN r.content}
Cut(k) == IF Size[k] > MaxWrite THEN MaxWrite ELSE Size[k]
ParamsWhole ==
    LET sent == SelectSeq(got, LAMBDA r : r.type = "params") IN
    /\ \A j \in DOMAIN sent :
          /\ Len(sent[j].content) <= MaxWrite
          /\ \A k \in Pairs(sent[j]) :
                Cardinality({i \in DOMAIN sent[j].content : sent[j].content[i] = k}) = Cut(k)
    /\ (\E j \in DOMAIN sent : sent[j].content = <<>>) =>
          UNION {Pairs(sent[j]) : j \in DOMAIN sent} = DOMAIN Size

\* Every request ends, though the handler sends the whole body before it reads and
\* the backend may want to be read first: the deadlines break that wait.
FCGIEnds == <>(pc = "done")
=============================================================================
