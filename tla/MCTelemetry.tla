---------------------------- MODULE MCTelemetry ----------------------------
(* Telemetry on a small instance or, as part says, the contents of its buffer. *)
EXTENDS Telemetry

VARIABLES part, items, bufferItemCount

B == INSTANCE TelemetryBuffer WITH
        Keys <- {"k1", "k2", "k3"}, Values <- {"v1", "v2"}, MaxBufferItems <- 4,
        buffer <- items

TInit ==
    /\ part \in {"emit", "buffer"}
    /\ Init /\ B!Init

TNext ==
    /\ UNCHANGED part
    /\ \/ part = "emit" /\ Next /\ UNCHANGED <<items, bufferItemCount>>
       \/ part = "buffer" /\ B!Next /\ UNCHANGED vars

TSpec ==
    /\ TInit /\ [][TNext]_<<part, vars, items, bufferItemCount>>
    /\ \A e \in Emitters : WF_vars(EmitStep(e))

\* Stated in Telemetry: one update at a time, never two cycles of updates, and none
\* lost while nothing has ended it.
CycleKept == OneUpdate /\ OneCycle /\ CycleAlive
\* Stated in TelemetryBuffer: the count that bounds the buffer covers its items.
CountCovers == B!CountCovers
=============================================================================
