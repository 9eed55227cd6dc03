----------------------------- MODULE MCHandlers -----------------------------
(***************************************************************************)
(* The handlers of a site, each on a small instance: the interceptor, the   *)
(* files, FastCGI, the proxy's answer and its tunnel, the children of       *)
(* websocket and, below them all, the ticket keys.  A behaviour is one of   *)
(* the handler that part names; the others rest in a state in which nothing *)
(* is enabled.                                                              *)
(***************************************************************************)
EXTENDS MCInterceptor

VARIABLES
    part,
    fileSite, filePc, get, accept, url, path, answer,
    fcgiPc, fcgiStatus, pairs, fcgiBody, buf, queue, sendDue, readDue, broken,
    toBackend, toClient, backend, records, wrote, rbuf, out,
    tunnelPc, peerOpen, sockOpen, sent, taken, held, got, copier, chunk, proxyDone,
    answerPc, flushes, announced, trailers, declared, streamed, after, copied,
    flusher, lock,
    wsPc, wsStatus, child, lines, written, client, open, pump, pinger, interrupted,
    server, chan, told, governor, keys, front

fileVars == <<fileSite, filePc, get, accept, url, path, answer>>
fcgiVars == <<fcgiPc, fcgiStatus, pairs, fcgiBody, buf, queue, sendDue, readDue, broken,
              toBackend, toClient, backend, records, wrote, rbuf, out>>
tunnelVars == <<tunnelPc, peerOpen, sockOpen, sent, taken, held, got, copier, chunk, proxyDone>>
answerVars == <<answerPc, flushes, announced, trailers, declared, streamed, after, copied,
                flusher, lock>>
wsVars == <<wsPc, wsStatus, child, lines, written, client, open, pump, pinger, interrupted>>
ticketVars == <<server, chan, told, governor, keys, front>>

F == INSTANCE MCFiles WITH site <- fileSite, pc <- filePc
C == INSTANCE FastCGI WITH
        Size <- [a |-> 2, b |-> 6], BodyLen <- 1, MaxOut <- 2, MaxWrite <- 3, Wire <- 2,
        pc <- fcgiPc, status <- fcgiStatus, body <- fcgiBody, got <- records
T == INSTANCE Tunnel WITH MaxUnits <- 2, DoneCap <- 2, pc <- tunnelPc
A == INSTANCE Response WITH Trailers <- {"t1", "t2"}, MaxChunks <- 2, pc <- answerPc
W == INSTANCE WebSocket WITH MaxLines <- 2, pc <- wsPc, status <- wsStatus
K == INSTANCE Tickets WITH NumTickets <- 4, MaxTicks <- 6

InterceptorRests ==
    /\ pc = [r \in Reqs |-> "done"]
    /\ msg = [r \in Reqs |-> Attach(1, 1)] /\ site = [r \in Reqs |-> CHOOSE s \in Sites : TRUE]
    /\ body = [r \in Reqs |-> "whole"] /\ status = [r \in Reqs |-> 0] /\ mu = Free
    /\ maxMWM = 14 /\ maxTxInBundle = 50 /\ loads = MaxLoads /\ todo = {} /\ setup = NoSetup
    /\ pending = [s \in Sites |-> NoLimits] /\ running = pending
    /\ loading = FALSE /\ granted = [r \in Reqs |-> NoLimits]
FilesRest ==
    /\ fileSite = F!NoSite /\ filePc = "done" /\ get = TRUE /\ accept = {}
    /\ url = <<>> /\ path = <<>> /\ answer = F!Nothing
FastCGIRests ==
    /\ fcgiPc = "rest" /\ fcgiStatus = "none" /\ pairs = {} /\ fcgiBody = 0 /\ buf = <<>>
    /\ queue = <<>> /\ sendDue = TRUE /\ readDue = TRUE /\ broken = FALSE
    /\ toBackend = <<>> /\ toClient = <<>> /\ backend = "gone" /\ records = <<>>
    /\ wrote = <<>> /\ rbuf = <<>> /\ out = <<>>
TunnelRests ==
    /\ tunnelPc = "rest"
    /\ peerOpen = [d \in T!Dirs |-> FALSE] /\ sockOpen = peerOpen
    /\ sent = [d \in T!Dirs |-> <<>>] /\ taken = [d \in T!Dirs |-> 0]
    /\ held = sent /\ got = sent /\ copier = [d \in T!Dirs |-> "none"] /\ chunk = sent
    /\ proxyDone = 0
AnswerRests ==
    /\ answerPc = "rest" /\ flushes = FALSE /\ announced = {} /\ trailers = {}
    /\ declared = {} /\ streamed = FALSE /\ after = {} /\ copied = 0
    /\ flusher = "none" /\ lock = "none"
WebSocketRests ==
    /\ wsPc = "rest" /\ wsStatus = 0
    /\ child = [obeys |-> FALSE, talks |-> FALSE, reads |-> FALSE, state |-> "none"]
    /\ lines = 0 /\ written = 0 /\ client = TRUE /\ open = FALSE
    /\ pump = "none" /\ pinger = "none" /\ interrupted = FALSE
TicketsRest ==
    /\ server = "stopped" /\ chan = "nil" /\ told = FALSE /\ governor = "ended"
    /\ keys = <<>> /\ front = <<>>

Starts(name, init, rests) == IF part = name THEN init ELSE rests

HInit ==
    /\ part \in {"interceptor", "files", "fastcgi", "tunnel", "answer", "websocket",
                "tickets"}
    /\ Starts("interceptor", Init, InterceptorRests)
    /\ Starts("files", F!Init, FilesRest)
    /\ Starts("fastcgi", C!Init, FastCGIRests)
    /\ Starts("tunnel", T!Init, TunnelRests)
    /\ Starts("answer", A!Init, AnswerRests)
    /\ Starts("websocket", W!Init, WebSocketRests)
    /\ Starts("tickets", K!Init, TicketsRest)

HNext ==
    /\ UNCHANGED part
    /\ \/ part = "interceptor" /\ Next
          /\ UNCHANGED <<fileVars, fcgiVars, tunnelVars, answerVars, wsVars, ticketVars>>
       \/ part = "files" /\ F!Next
          /\ UNCHANGED <<vars, fcgiVars, tunnelVars, answerVars, wsVars, ticketVars>>
       \/ part = "fastcgi" /\ C!Next
          /\ UNCHANGED <<vars, fileVars, tunnelVars, answerVars, wsVars, ticketVars>>
       \/ part = "tunnel" /\ T!Next
          /\ UNCHANGED <<vars, fileVars, fcgiVars, answerVars, wsVars, ticketVars>>
       \/ part = "answer" /\ A!Next
          /\ UNCHANGED <<vars, fileVars, fcgiVars, tunnelVars, wsVars, ticketVars>>
       \/ part = "websocket" /\ W!Next
          /\ UNCHANGED <<vars, fileVars, fcgiVars, tunnelVars, answerVars, ticketVars>>
       \/ part = "tickets" /\ K!Next
          /\ UNCHANGED <<vars, fileVars, fcgiVars, tunnelVars, answerVars, wsVars>>

HVars ==
    <<part, vars, fileVars, fcgiVars, tunnelVars, answerVars, wsVars, ticketVars>>
HSpec ==
    /\ HInit /\ [][HNext]_HVars
    /\ F!Fair /\ C!Fair /\ T!Fair /\ W!Fair /\ K!Fair

---------------------------------------------------------------------------

\* Stated in the modules of the handlers.  A client that follows the redirects of
\* the file server gets an answer.
FilesSettle == part = "files" => F!FilesSettle
\* A hidden file is neither sent nor listed.
HiddenUnserved == F!HiddenUnserved
\* No FastCGI parameter is torn or lost, and a request that ends well has passed on
\* all that the backend wrote.
RecordsWhole == C!ParamsWhole /\ C!WholeResponse
\* The output of a FastCGI backend is a stream (it implements the abstract Pipe), and
\* the request ends, whatever the backend does.
FCGIDelivers == C!StdoutPipe /\ (part = "fastcgi" => C!FCGIEnds)
\* Each direction of an upgraded connection implements the abstract Pipe.
TunnelPipes == T!TunnelPipes
\* When a peer leaves an upgraded connection, both copiers end.
TunnelEnds == T!TunnelEnds
\* The trailers of the backend reach the client, and no flush is under way when the
\* proxy's handler goes on after the copying.
AnswerWhole == A!AnswerWhole
\* The handler of a websocket, its goroutines and its child end.
WSEnds == W!WSEnds
\* A key unseals tickets while it is one of the last NumTickets to have been first.
TicketWindow == K!TicketWindow
\* The governor of the ticket keys that Stop has told to exit ends.
GovernorEnds == K!GovernorEnds
=============================================================================
