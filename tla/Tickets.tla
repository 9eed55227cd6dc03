------------------------------ MODULE Tickets ------------------------------
(***************************************************************************)
(* The goroutine that governs the session ticket keys of a TLS server       *)
(* (caddytls/crypto.go), from the Serve that starts it to the Stop that     *)
(* tells it to exit (httpserver/server.go).                                 *)
(***************************************************************************)
EXTENDS Naturals, Sequences

CONSTANTS
    NumTickets,  \* how many keys are held
    MaxTicks     \* bound on the ticks of the ticker

VARIABLES
    server,    \* "made", "serving": Serve has run; then "stopping", "stopped", "timedout"
    chan,      \* s.tlsGovChan: "nil", "open" or "closed"
    told,      \* the channel that Stop has closed, if any
    governor,  \* the goroutine: "none", "starts", "waits", "ended"
    keys,      \* the keys installed in the tls.Config, newest first
    front      \* history: the key that sealed tickets after every tick

tvars == <<server, chan, told, governor, keys, front>>

Init ==
    /\ server = "made"
    /\ chan = "nil" /\ told = FALSE
    /\ governor = "none"
    /\ keys = <<>> /\ front = <<>>

\* Serve, on its goroutine.  It may come after Stop: http.Server then returns
\* ErrServerClosed, but the rotation has been started.
Serve ==
    /\ chan = "nil" /\ governor = "none"
    /\ chan' = "open"
    /\ governor' = "starts"
    /\ server' = IF server = "made" THEN "serving" ELSE server
    /\ UNCHANGED <<told, keys, front>>

\* The first key.  Without entropy tickets are disabled and the goroutine returns.
FirstKey ==
    /\ governor = "starts"
    /\ \/ /\ keys' = <<1>> /\ front' = <<1>>
          /\ governor' = "waits"
       \/ /\ governor' = "ended"
          /\ UNCHANGED <<keys, front>>
    /\ UNCHANGED <<server, chan, told>>

\* Faulty variant: the copies run from the front, so the first key overwrites all.
Pushed_Forward(ks) ==
    [i \in 1 .. IF Len(ks) < NumTickets THEN Len(ks) + 1 ELSE Len(ks) |-> ks[1]]
\* The list grows to NumTickets keys, and every key moves one place back.
Pushed(ks) ==
    [i \in 1 .. IF Len(ks) < NumTickets THEN Len(ks) + 1 ELSE Len(ks) |->
        IF i = 1 THEN ks[1] ELSE ks[i - 1]]

\* A tick.  Without entropy the first key stays and the last one still goes.
Tick ==
    /\ governor = "waits"
    /\ Len(front) <= MaxTicks
    /\ \E key \in {keys[1], Len(front) + 1} :
          /\ keys' = [Pushed(keys) EXCEPT ![1] = key]
          /\ front' = Append(front, key)
    /\ UNCHANGED <<server, chan, told, governor>>

\* The goroutine receives from the closed channel.
GovernorExits ==
    /\ governor = "waits" /\ chan = "closed"
    /\ governor' = "ended"
    /\ UNCHANGED <<server, chan, told, keys, front>>

StopBegins ==
    /\ server \in {"made", "serving"}
    /\ server' = "stopping"
    /\ UNCHANGED <<chan, told, governor, keys, front>>

\* Faulty variant: a Stop that succeeds closes no channel.
StopReturns_Silent ==
    /\ server = "stopping"
    /\ \/ server' = "timedout" /\ UNCHANGED <<chan, told>>
       \/ server' = "stopped" /\ told' = (chan = "open") /\ UNCHANGED chan
    /\ UNCHANGED <<governor, keys, front>>
\* Shutdown has returned.  After a timeout Stop returns its error at once.
StopReturns ==
    /\ server = "stopping"
    /\ \/ server' = "timedout" /\ UNCHANGED <<chan, told>>
       \/ /\ server' = "stopped"
          /\ told' = (chan = "open")
          /\ chan' = IF chan = "open" THEN "closed" ELSE chan
    /\ UNCHANGED <<governor, keys, front>>

Idle == governor # "starts" /\ server \in {"stopped", "timedout"} /\ UNCHANGED tvars

Next ==
    \/ Serve \/ FirstKey \/ Tick \/ GovernorExits \/ StopBegins \/ StopReturns \/ Idle

\* The governor runs when it can.  Its select may take the tick for a while, but
\* chooses among what is ready at random and so takes the closed channel in the end.
Fair == SF_tvars(FirstKey \/ GovernorExits)

Spec == Init /\ [][Next]_tvars /\ Fair

---------------------------------------------------------------------------

\* A key unseals tickets for as long as it is one of the last NumTickets keys to
\* have been first, and no longer: neither the copying nor a tick without entropy
\* loses a key early or keeps one ("Old ticket keys are still phased out").
TicketWindow ==
    front # <<>> =>
       \A k \in 1 .. Len(front) :
          (\E i \in DOMAIN keys : keys[i] = k) <=>
          (\E j \in DOMAIN front : front[j] = k /\ j + NumTickets > Len(front))

\* Once a Stop has returned without error, and the server was being served when
\* it began, the goroutine ends and the ticker with it.
GovernorEnds == told ~> governor = "ended"
=============================================================================
