------------------------------- MODULE Hellos -------------------------------
(***************************************************************************)
(* The table of ClientHellos of a TLS listener (httpserver/mitm.go) and the *)
(* ConnState callback that cleans it (NewServer of server.go).              *)
(*                                                                         *)
(* The bytes of a connection are the units of Stream: a record header that  *)
(* tells the length of what follows, the ClientHello, and records of data   *)
(* after it.  A length field taken from other bytes than a header's is      *)
(* arbitrary.                                                               *)
(***************************************************************************)
EXTENDS Naturals, Sequences, FiniteSets, SequencesExt

CONSTANTS
    Conns,      \* connections, in the order in which they are accepted: 1 .. n
    Remote,     \* Remote[c]: the remote address of c
    HelloLen    \* the length of the ClientHello in units

VARIABLES
    stage,      \* [Conns -> "new", "open", "hijacked", "closing", "gone"]
    sent,       \* [Conns -> units of Stream read so far]
    buf,        \* [Conns -> units teed into c.buf, by their index in Stream]
    readHello,  \* [Conns -> BOOLEAN]
    late,       \* history: [Conns -> the hello was stored by a later Read]
    helloInfos  \* [addresses with an entry -> "hello" or "garbage"]

hvars == <<stage, sent, buf, readHello, late, helloInfos>>

\* The header of the ClientHello, the ClientHello and a unit of a later record.
HeaderLen == 2
HelloEnd == HeaderLen + HelloLen
StreamLen == HelloEnd + 1
Addrs == {Remote[c] : c \in Conns}

Init ==
    /\ stage = [c \in Conns |-> "new"]
    /\ sent = [c \in Conns |-> 0]
    /\ buf = [c \in Conns |-> <<>>]
    /\ readHello = [c \in Conns |-> FALSE]
    /\ late = [c \in Conns |-> FALSE]
    /\ helloInfos = <<>>

\* An address is free for a new connection when the server has closed its socket.
Accept(c) ==
    /\ stage[c] = "new"
    /\ \A d \in Conns : Remote[d] = Remote[c] => stage[d] \notin {"open", "hijacked"}
    /\ \A d \in Conns : d < c => stage[d] # "new"
    /\ stage' = [stage EXCEPT ![c] = "open"]
    /\ UNCHANGED <<sent, buf, readHello, late, helloInfos>>

\* The length that the header at the front of the buffer tells.
Lengths(b) == IF SubSeq(b, 1, HeaderLen) = <<1, 2>> THEN {HelloLen} ELSE 0 .. HelloLen

\* What parseRawClientHello makes of the bytes.
Parsed(bytes) ==
    IF bytes = [i \in 1 .. HelloLen |-> HeaderLen + i] THEN "hello" ELSE "garbage"

Stored(a, info) ==
    [x \in DOMAIN helloInfos \cup {a} |-> IF x = a THEN info ELSE helloInfos[x]]

\* clientHelloConn.Read of n units.  The header leaves the buffer before the code
\* knows whether the whole message is there.
Read(c, n) ==
    /\ stage[c] \in {"open", "hijacked"}
    /\ sent[c] + n <= StreamLen
    /\ sent' = [sent EXCEPT ![c] = @ + n]
    /\ IF readHello[c]
       THEN UNCHANGED <<buf, readHello, late, helloInfos>>
       ELSE LET b == buf[c] \o [i \in 1 .. n |-> sent[c] + i] IN
            \/ /\ Len(b) < HeaderLen
               /\ buf' = [buf EXCEPT ![c] = b]
               /\ UNCHANGED <<readHello, late, helloInfos>>
            \/ /\ Len(b) >= HeaderLen
               /\ \E length \in Lengths(b) :
                  LET rest == SubSeq(b, HeaderLen + 1, Len(b)) IN
                  IF Len(rest) < length
                  THEN /\ buf' = [buf EXCEPT ![c] = rest]
                       /\ UNCHANGED <<readHello, late, helloInfos>>
                  ELSE /\ buf' = [buf EXCEPT ![c] = SubSeq(rest, length + 1, Len(rest))]
                       /\ helloInfos' = Stored(Remote[c], Parsed(SubSeq(rest, 1, length)))
                       /\ readHello' = [readHello EXCEPT ![c] = TRUE]
                       /\ late' = [late EXCEPT ![c] = sent[c] > 0]
    /\ UNCHANGED stage

Deleted(a) == [x \in DOMAIN helloInfos \ {a} |-> helloInfos[x]]

\* Faulty variant: only the end of a connection deletes its entry.
Hijack_Kept(c) ==
    /\ stage[c] = "open" /\ sent[c] >= HelloEnd
    /\ stage' = [stage EXCEPT ![c] = "hijacked"]
    /\ UNCHANGED <<sent, buf, readHello, late, helloInfos>>
\* A handler takes the connection over: net/http calls ConnState with
\* StateHijacked, and will not call it for this connection again.
Hijack(c) ==
    /\ stage[c] = "open" /\ sent[c] >= HelloEnd
    /\ stage' = [stage EXCEPT ![c] = "hijacked"]
    /\ helloInfos' = Deleted(Remote[c])
    /\ UNCHANGED <<sent, buf, readHello, late>>

\* net/http closes the socket of a connection, then calls ConnState.
CloseSocket(c) ==
    /\ stage[c] = "open"
    /\ stage' = [stage EXCEPT ![c] = "closing"]
    /\ UNCHANGED <<sent, buf, readHello, late, helloInfos>>

StateClosed(c) ==
    /\ stage[c] = "closing"
    /\ stage' = [stage EXCEPT ![c] = "gone"]
    /\ helloInfos' = Deleted(Remote[c])
    /\ UNCHANGED <<sent, buf, readHello, late>>

\* The handler that hijacked the connection closes it.
CloseHijacked(c) ==
    /\ stage[c] = "hijacked"
    /\ stage' = [stage EXCEPT ![c] = "gone"]
    /\ UNCHANGED <<sent, buf, readHello, late, helloInfos>>

Next ==
    \/ \E c \in Conns :
          \/ Accept(c) \/ Hijack(c) \/ CloseSocket(c) \/ StateClosed(c) \/ CloseHijacked(c)
          \/ \E n \in 1 .. StreamLen : Read(c, n)
    \/ (\A c \in Conns : stage[c] = "gone") /\ UNCHANGED hvars

Spec == Init /\ [][Next]_hvars

---------------------------------------------------------------------------

\* An entry is there for a connection that is still served: "must be removed when
\* the connection is closed (use ConnState)".  The one that may outlive its
\* connection was stored by a later Read of a connection that was hijacked.
TableClean ==
    \A a \in DOMAIN helloInfos :
       \E c \in Conns :
          /\ Remote[c] = a /\ readHello[c]
          /\ stage[c] \in {"open", "closing"} \/ late[c]

\* The entry of a served connection is its ClientHello, and it is there once the
\* ClientHello has been read ("reads the ClientHello and stores it").
HelloIntact ==
    \A c \in Conns :
       stage[c] = "open" /\ sent[c] >= HelloEnd =>
          Remote[c] \in DOMAIN helloInfos /\ helloInfos[Remote[c]] = "hello"
=============================================================================
