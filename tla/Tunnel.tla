------------------------------- MODULE Tunnel -------------------------------
(***************************************************************************)
(* A websocket through the reverse proxy: the upgrade branch of             *)
(* ReverseProxy.ServeHTTP (proxy/reverseproxy.go), its two copying          *)
(* goroutines and the transport that records what it has read from the      *)
(* backend (connHijackerTransport).                                         *)
(*                                                                         *)
(* The client and the backend send the units 1, 2, ...; "up" is the         *)
(* direction to the backend.                                                *)
(***************************************************************************)
EXTENDS Naturals, Sequences

CONSTANTS
    MaxUnits,   \* bound on what a peer sends
    DoneCap     \* the capacity of proxyDone

Dirs == {"up", "down"}

VARIABLES
    pc,         \* the stage of ServeHTTP
    peerOpen,   \* [Dirs -> the peer that sends in this direction is there]
    sockOpen,   \* [Dirs -> the proxy's socket to that peer is open]
    sent,       \* [Dirs -> units that the peer has sent]
    taken,      \* [Dirs -> number of them that the proxy has read]
    held,       \* [Dirs -> units read ahead: buffered by Hijack, or Replay]
    got,        \* [Dirs -> units that the other peer has received]
    copier,     \* [Dirs -> "none", "copy", "report" or "ended"]
    chunk,      \* [Dirs -> units between a read and a write of the copier]
    proxyDone   \* reports in the channel

wvars == <<pc, peerOpen, sockOpen, sent, taken, held, got, copier, chunk, proxyDone>>

Other(d) == CHOOSE e \in Dirs : e # d

Init ==
    /\ pc = "roundtrip"
    /\ peerOpen = [d \in Dirs |-> TRUE]
    /\ sockOpen = [d \in Dirs |-> TRUE]
    /\ sent = [d \in Dirs |-> <<>>] /\ taken = [d \in Dirs |-> 0]
    /\ held = [d \in Dirs |-> <<>>] /\ got = [d \in Dirs |-> <<>>]
    /\ copier = [d \in Dirs |-> "none"] /\ chunk = [d \in Dirs |-> <<>>]
    /\ proxyDone = 0

\* The client and the backend.
PeerSends(d) ==
    /\ peerOpen[d] /\ Len(sent[d]) < MaxUnits
    /\ sent' = [sent EXCEPT ![d] = Append(@, Len(@) + 1)]
    /\ UNCHANGED <<pc, peerOpen, sockOpen, taken, held, got, copier, chunk, proxyDone>>

PeerLeaves(d) ==
    /\ peerOpen[d]
    /\ peerOpen' = [peerOpen EXCEPT ![d] = FALSE]
    /\ UNCHANGED <<pc, sockOpen, sent, taken, held, got, copier, chunk, proxyDone>>

Waiting(d) == SubSeq(sent[d], taken[d] + 1, Len(sent[d]))

\* Units written to a socket arrive while the peer behind it is there.
Arrive(d, units) == got' = [got EXCEPT ![d] = @ \o units]
Writable(d) == peerOpen[Other(d)] /\ sockOpen[Other(d)]

\* The transport reads the answer and, with it, n units that follow it: the
\* hijackedConn puts all it reads into Replay.  Without an answer, or with one
\* that does not switch protocols, there is no tunnel.
RoundTrip ==
    /\ pc = "roundtrip"
    /\ \/ \E n \in 0 .. Len(Waiting("down")) :
             /\ held' = [held EXCEPT !["down"] = SubSeq(Waiting("down"), 1, n)]
             /\ taken' = [taken EXCEPT !["down"] = @ + n]
             /\ pc' = "hijack"
       \/ pc' = "returned" /\ UNCHANGED <<held, taken>>
    /\ UNCHANGED <<peerOpen, sockOpen, sent, got, copier, chunk, proxyDone>>

\* Hijack returns the n units that the server had buffered.
Hijack ==
    /\ pc = "hijack"
    /\ \/ \E n \in 0 .. Len(Waiting("up")) :
             /\ held' = [held EXCEPT !["up"] = SubSeq(Waiting("up"), 1, n)]
             /\ taken' = [taken EXCEPT !["up"] = @ + n]
             /\ pc' = "replay"
       \/ pc' = "returned" /\ UNCHANGED <<held, taken>>
    /\ UNCHANGED <<peerOpen, sockOpen, sent, got, copier, chunk, proxyDone>>

\* Replay goes to the client before anything else does.  If that fails the
\* handler returns: the client's socket is closed, the backend's is not.
WriteReplay ==
    /\ pc = "replay"
    /\ \/ /\ Writable("down")
          /\ Arrive("down", held["down"])
          /\ pc' = "start"
          /\ UNCHANGED sockOpen
       \/ /\ ~Writable("down")
          /\ sockOpen' = [sockOpen EXCEPT !["up"] = FALSE]
          /\ pc' = "returned"
          /\ UNCHANGED got
    /\ held' = [held EXCEPT !["down"] = <<>>]
    /\ UNCHANGED <<peerOpen, sent, taken, copier, chunk, proxyDone>>

\* The goroutine that copies to the client starts.
StartDown ==
    /\ pc = "start"
    /\ copier' = [copier EXCEPT !["down"] = "copy"]
    /\ pc' = "buffered"
    /\ UNCHANGED <<peerOpen, sockOpen, sent, taken, held, got, chunk, proxyDone>>

\* Faulty variant: the goroutine starts first, what was buffered comes later.
WriteBuffered_Late ==
    /\ pc = "buffered"
    /\ copier' = [copier EXCEPT !["up"] = "copy"]
    /\ pc' = "wait"
    /\ UNCHANGED <<peerOpen, sockOpen, sent, taken, held, got, chunk, proxyDone>>
\* What was buffered goes to the backend, and only then the copying starts.  An
\* error is logged.
WriteBuffered ==
    /\ pc = "buffered"
    /\ IF Writable("up") THEN Arrive("up", held["up"]) ELSE UNCHANGED got
    /\ held' = [held EXCEPT !["up"] = <<>>]
    /\ copier' = [copier EXCEPT !["up"] = "copy"]
    /\ pc' = "wait"
    /\ UNCHANGED <<peerOpen, sockOpen, sent, taken, chunk, proxyDone>>

\* pooledIoCopy: read a chunk, write it, until one of them fails.
CopyRead(d) ==
    /\ copier[d] = "copy" /\ chunk[d] = <<>>
    /\ IF sockOpen[d] /\ Waiting(d) # <<>>
       THEN \E n \in 1 .. Len(Waiting(d)) :
               /\ chunk' = [chunk EXCEPT ![d] = SubSeq(Waiting(d), 1, n)]
               /\ taken' = [taken EXCEPT ![d] = @ + n]
               /\ UNCHANGED copier
       ELSE /\ ~sockOpen[d] \/ ~peerOpen[d]
            /\ copier' = [copier EXCEPT ![d] = "report"]
            /\ UNCHANGED <<chunk, taken>>
    /\ UNCHANGED <<pc, peerOpen, sockOpen, sent, held, got, proxyDone>>

CopyWrite(d) ==
    /\ copier[d] = "copy" /\ chunk[d] # <<>>
    /\ chunk' = [chunk EXCEPT ![d] = <<>>]
    /\ IF Writable(d)
       THEN Arrive(d, chunk[d]) /\ UNCHANGED copier
       ELSE copier' = [copier EXCEPT ![d] = "report"] /\ UNCHANGED got
    /\ UNCHANGED <<pc, peerOpen, sockOpen, sent, taken, held, proxyDone>>

\* proxyDone <- struct{}{}: it blocks while the channel is full.
Report(d) ==
    /\ copier[d] = "report" /\ proxyDone < DoneCap
    /\ proxyDone' = proxyDone + 1
    /\ copier' = [copier EXCEPT ![d] = "ended"]
    /\ UNCHANGED <<pc, peerOpen, sockOpen, sent, taken, held, got, chunk>>

\* Faulty variant: the client's connection is left open.
Finish_KeepsClient ==
    /\ pc = "wait" /\ proxyDone > 0
    /\ proxyDone' = proxyDone - 1
    /\ sockOpen' = [sockOpen EXCEPT !["down"] = FALSE]
    /\ pc' = "returned"
    /\ UNCHANGED <<peerOpen, sent, taken, held, got, copier, chunk>>
\* One side is done: the deferred calls close both connections.
Finish ==
    /\ pc = "wait" /\ proxyDone > 0
    /\ proxyDone' = proxyDone - 1
    /\ sockOpen' = [d \in Dirs |-> FALSE]
    /\ pc' = "returned"
    /\ UNCHANGED <<peerOpen, sent, taken, held, got, copier, chunk>>

Idle == pc = "returned" /\ (\A d \in Dirs : copier[d] \in {"none", "ended"}) /\ UNCHANGED wvars

Handler == Hijack \/ WriteReplay \/ StartDown \/ WriteBuffered \/ Finish
Copy(d) == CopyRead(d) \/ CopyWrite(d) \/ Report(d)

Next ==
    \/ RoundTrip \/ Handler
    \/ \E d \in Dirs : Copy(d) \/ PeerSends(d) \/ PeerLeaves(d)
    \/ Idle

\* The goroutines run once there is an answer; the peers owe nothing.
Fair == WF_wvars(Handler) /\ \A d \in Dirs : WF_wvars(Copy(d))

Spec == Init /\ [][Next]_wvars /\ Fair

---------------------------------------------------------------------------

Up == INSTANCE Pipe WITH Units <- 1 .. MaxUnits, source <- sent["up"], sink <- got["up"],
                         closed <- copier["up"] = "ended"
Down == INSTANCE Pipe WITH Units <- 1 .. MaxUnits, source <- sent["down"], sink <- got["down"],
                           closed <- copier["down"] = "ended"

\* Each direction of the tunnel is a stream: what was read ahead of the copying,
\* by the transport or by the server, arrives first, and nothing is lost, doubled
\* or reordered before the stream ends.
TunnelPipes == Up!Spec /\ Down!Spec

\* Once a copier runs and one of the peers leaves, both copiers end and both
\* connections are closed: no goroutine waits for a peer that stays silent, nor on
\* proxyDone.
TunnelEnds ==
    (copier["down"] # "none" /\ \E d \in Dirs : ~peerOpen[d])
       ~> \A d \in Dirs : copier[d] = "ended" /\ ~sockOpen[d]
=============================================================================
