------------------------------ MODULE WebSocket ------------------------------
(***************************************************************************)
(* serveWS of the websocket directive (websocket/websocket.go): the         *)
(* handler with pumpStdin, the goroutines pumpStdout and pinger, and the    *)
(* child process behind two pipes.  The client, the child and the           *)
(* connection are external: the child may exit at any time, may or may not  *)
(* read its stdin, write to its stdout and heed an interrupt.               *)
(***************************************************************************)
EXTENDS Naturals

CONSTANTS
    MaxLines    \* bound on the lines the child writes

VARIABLES
    pc,         \* serveWS: "start", "read", "write", "signal", "select", "killed",
                \* "wait", "returned"
    status,     \* what serveWS returns
    child,      \* [obeys, talks, reads : BOOLEAN, state]
    lines,      \* lines in the stdout pipe
    written,    \* lines the child has written so far
    client,     \* the client is there
    open,       \* the connection is not closed by conn.Close
    pump,       \* pumpStdout: "none", "scan", "send", "ended"
    pinger,     \* "none", "waits", "ended"
    interrupted \* the child has been sent os.Interrupt

wvars == <<pc, status, child, lines, written, client, open, pump, pinger, interrupted>>

Running == child.state = "runs"

Init ==
    /\ pc = "start" /\ status = 0
    /\ child \in [obeys : BOOLEAN, talks : BOOLEAN, reads : BOOLEAN, state : {"none"}]
    /\ lines = 0 /\ written = 0
    /\ client = TRUE /\ open = TRUE
    /\ pump = "none" /\ pinger = "none" /\ interrupted = FALSE

\* The upgrade fails (0), or a pipe, buildEnv or cmd.Start does (502).
StartFails ==
    /\ pc = "start"
    /\ pc' = "returned" /\ open' = FALSE
    /\ status' \in {0, 502}
    /\ UNCHANGED <<child, lines, written, client, pump, pinger, interrupted>>

Start ==
    /\ pc = "start"
    /\ child' = [child EXCEPT !.state = "runs"]
    /\ pump' = "scan" /\ pinger' = "waits"
    /\ pc' = "read"
    /\ UNCHANGED <<status, lines, written, client, open, interrupted>>

\* pumpStdin: a message of the client goes to the child's stdin.
ReadMessage ==
    /\ pc = "read" /\ open /\ client
    /\ pc' = "write"
    /\ UNCHANGED <<status, child, lines, written, client, open, pump, pinger, interrupted>>
WriteStdin ==
    /\ pc = "write" /\ Running
    /\ pc' = "read"
    /\ UNCHANGED <<status, child, lines, written, client, open, pump, pinger, interrupted>>

\* ReadMessage fails (the client has gone, its pong is late, the connection is
\* closed) or stdin.Write does: conn.Close and stdin.Close.
StdinEnds ==
    /\ \/ pc = "read" /\ ~(open /\ client)
       \/ pc = "write" /\ ~Running
    /\ open' = FALSE
    /\ pc' = "signal"
    /\ UNCHANGED <<status, child, lines, written, client, pump, pinger, interrupted>>

\* os.Interrupt; a child that has exited but is not waited for still takes it.  It, or
\* the kill after a second, may not be allowed to the server.
Signal ==
    /\ pc = "signal"
    /\ interrupted' = TRUE
    /\ pc' = "select"
    /\ UNCHANGED <<status, child, lines, written, client, open, pump, pinger>>
SignalFails ==
    /\ pc \in {"signal", "select"} /\ Running
    /\ pc' = "returned" /\ status' = 500
    /\ UNCHANGED <<child, lines, written, client, open, pump, pinger, interrupted>>

\* <-done: pumpStdout has closed it; at once, or after the kill.
Done ==
    /\ pc \in {"select", "killed"} /\ pump = "ended"
    /\ pc' = "wait"
    /\ UNCHANGED <<status, child, lines, written, client, open, pump, pinger, interrupted>>

\* Faulty variant: after a second the handler goes on to wait for done only.
Kill_Waits ==
    /\ pc = "select"
    /\ pc' = "killed"
    /\ UNCHANGED <<status, child, lines, written, client, open, pump, pinger, interrupted>>
\* A second has passed: os.Kill, which no child survives.
Kill ==
    /\ pc = "select"
    /\ pc' = "killed"
    /\ child' = [child EXCEPT !.state = IF Running THEN "exited" ELSE @]
    /\ UNCHANGED <<status, lines, written, client, open, pump, pinger, interrupted>>

\* cmd.Wait returns when the child has exited; the deferred calls close the pipes.
Wait ==
    /\ pc = "wait" /\ child.state = "exited"
    /\ child' = [child EXCEPT !.state = "reaped"]
    /\ pc' = "returned"
    /\ UNCHANGED <<status, lines, written, client, open, pump, pinger, interrupted>>

\* pumpStdout: a line is scanned and sent; a send to a closed connection, or to a
\* client that has gone, fails at the latest after writeWait.
Scan ==
    /\ pump = "scan" /\ lines > 0
    /\ lines' = lines - 1 /\ pump' = "send"
    /\ UNCHANGED <<pc, status, child, written, client, open, pinger, interrupted>>
Send ==
    /\ pump = "send" /\ open /\ client
    /\ pump' = "scan"
    /\ UNCHANGED <<pc, status, child, lines, written, client, open, pinger, interrupted>>

\* The output has ended, its pipe is closed, a line is too long for the Scanner, or
\* a send has failed: conn.Close, close(done).
PumpEnds ==
    /\ \/ pump = "scan" /\ lines = 0 /\ ~Running
       \/ pump = "scan" /\ pc = "returned"
       \/ pump = "scan" /\ lines > 0
       \/ pump = "send" /\ ~(open /\ client)
    /\ open' = FALSE
    /\ pump' = "ended"
    /\ UNCHANGED <<pc, status, child, lines, written, client, pinger, interrupted>>

\* pinger: done is closed, or a ping fails.
PingerEnds ==
    /\ pinger = "waits"
    /\ pump = "ended" \/ ~(open /\ client)
    /\ pinger' = "ended"
    /\ UNCHANGED <<pc, status, child, lines, written, client, open, pump, interrupted>>

\* The child writes a line, exits, or heeds the interrupt or the end of its stdin.
ChildWrites ==
    /\ Running /\ child.talks /\ written < MaxLines
    /\ written' = written + 1 /\ lines' = lines + 1
    /\ UNCHANGED <<pc, status, child, client, open, pump, pinger, interrupted>>
ChildExits ==
    /\ Running
    /\ child' = [child EXCEPT !.state = "exited"]
    /\ UNCHANGED <<pc, status, lines, written, client, open, pump, pinger, interrupted>>
ChildObeys == interrupted /\ child.obeys /\ ChildExits

ClientGoes ==
    /\ client
    /\ client' = FALSE
    /\ UNCHANGED <<pc, status, child, lines, written, open, pump, pinger, interrupted>>

Returned == pc = "returned" /\ UNCHANGED wvars

Next ==
    \/ StartFails \/ Start \/ ReadMessage \/ WriteStdin \/ StdinEnds \/ Signal \/ SignalFails
    \/ Done \/ Kill \/ Wait \/ Scan \/ Send \/ PumpEnds \/ PingerEnds
    \/ ChildWrites \/ ChildExits \/ ChildObeys \/ ClientGoes \/ Returned

\* The goroutines run and the second passes; a child that reads takes what is
\* written to it; one that obeys exits.  Nothing makes a client go, a child exit
\* on its own, or send and scan anything.
Fair ==
    /\ WF_wvars(\/ Start \/ (child.reads /\ WriteStdin) \/ StdinEnds
                \/ Signal \/ Done \/ Kill \/ Wait)
    /\ WF_wvars(Scan \/ Send \/ PumpEnds)
    /\ WF_wvars(PingerEnds) /\ WF_wvars(ChildObeys)

Spec == Init /\ [][Next]_wvars /\ Fair

---------------------------------------------------------------------------

\* serveWS has returned, its goroutines have ended, and the child is waited for.
AllEnded ==
    /\ pc = "returned" /\ pump \in {"none", "ended"} /\ pinger \in {"none", "ended"}
    /\ status = 0 => child.state \in {"none", "reaped"}

\* A child that the handler can end: it takes its input, and it heeds the
\* interrupt or, if it does not, writes nothing (the failed send of a line closes
\* done, and then the kill is left out).
Endable == child.reads /\ (child.obeys \/ ~child.talks)

\* When the client has gone and the child can be ended, or when the child has
\* exited, the handler returns, both goroutines end and no zombie is left.
WSEnds == ((~client /\ Endable) \/ child.state = "exited") ~> (AllEnded \/ status = 500)
=============================================================================
