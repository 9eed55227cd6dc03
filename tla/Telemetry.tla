------------------------------ MODULE Telemetry ------------------------------
(***************************************************************************)
(* The update cycle of the telemetry client, telemetry/telemetry.go and     *)
(* telemetry/collection.go: Init, StartEmitting, StopEmitting, the emit     *)
(* function that the timer, the starter and the stoppers run concurrently,  *)
(* and the collection functions that fill the buffer meanwhile.  The buffer *)
(* is abstracted to the set of its keys (TelemetryBuffer has its contents). *)
(***************************************************************************)
EXTENDS Naturals, FiniteSets

CONSTANTS
    Keys,         \* metric keys
    EmitKeys,     \* the keys emit collects itself
    Permanent,    \* keys the user disabled: the argument of Init
    Disableable,  \* keys the server may name in disable_keys
    Stoppers,     \* goroutines that call StopEmitting
    Runs,         \* goroutines for the first update and for the timer's
    MaxUpdates,   \* bound: times the timer fires
    Faults        \* "marshal": the payload cannot be encoded; "late": an emit is
                  \* suspended for the time of the timer just before it returns

ASSUME KeysAssumption ==
    Permanent \subseteq Keys /\ Disableable \subseteq Keys /\ EmitKeys \subseteq Keys
ASSUME EmittersAssumption ==
    IsFiniteSet(Runs) /\ IsFiniteSet(Stoppers) /\ Runs \cap Stoppers = {}
ASSUME UpdatesAssumption == MaxUpdates \in Nat

Emitters == Runs \cup Stoppers
MaxAttempts == 4

VARIABLES
    pc,           \* [Emitters -> label]
    attempt,      \* [Emitters -> i of the retry loop]
    payload,      \* [Emitters -> keys being sent]
    reply,        \* [Emitters -> decoded Response]
    updating,
    updateTimer,  \* "nil" or "set"
    armed,        \* timers that are running
    fired,        \* times a timer has fired
    started,      \* StartEmitting has been called
    disabled,     \* [subset of Keys -> "temporary" or "permanent"]
    buffer,       \* keys in the buffer
    collecting,   \* keys that passed isDisabled, not yet in the buffer
    told          \* the server said stop, or a payload could not be encoded

vars == <<pc, attempt, payload, reply, updating, updateTimer, armed, fired, started,
          disabled, buffer, collecting, told>>
emitVars == <<attempt, payload, reply>>
timerVars == <<updateTimer, armed, fired, started>>
keyVars == <<buffer, collecting>>

NoReply == [stop |-> FALSE, disable |-> {}, enable |-> {}]
Replies == [stop : BOOLEAN, disable : SUBSET Disableable, enable : SUBSET Keys]
Labels == {"idle", "metrics", "enter", "stoptimer", "payload", "send", "schedule", "leave",
           "done", "noop", "panic"}
Inside == {"stoptimer", "panic", "payload", "send", "schedule", "leave"}
Final(e) == e \in Stoppers

\* Init has run: it disables the keys of its argument for the life of the process.
DisabledByUser == [k \in Permanent |-> "permanent"]

Init ==
    /\ pc = [e \in Emitters |-> "idle"]
    /\ attempt = [e \in Emitters |-> 0]
    /\ payload = [e \in Emitters |-> {}]
    /\ reply = [e \in Emitters |-> NoReply]
    /\ updating = FALSE
    /\ updateTimer = "nil" /\ armed = 0 /\ fired = 0 /\ started = FALSE
    /\ disabled = DisabledByUser
    /\ buffer = {} /\ collecting = {}
    /\ told = FALSE

Goto(e, from, to) == pc[e] = from /\ pc' = [pc EXCEPT ![e] = to]

---------------------------------------------------------------------------
(* StartEmitting, StopEmitting and the timer.                               *)

\* Run calls it once; the first update is a goroutine of its own.
StartEmitting ==
    /\ ~started
    /\ updateTimer = "nil" /\ ~updating
    /\ started' = TRUE
    /\ \E e \in Runs : Goto(e, "idle", "metrics")
    /\ UNCHANGED <<emitVars, updating, updateTimer, armed, fired, disabled, keyVars, told>>

\* The timer's callback starts an update.
TimerFires ==
    /\ armed > 0
    /\ fired < MaxUpdates
    /\ "late" \in Faults \/ \A e \in Runs : pc[e] = "idle"
    /\ armed' = armed - 1
    /\ fired' = fired + 1
    /\ \E e \in Runs : Goto(e, "idle", "metrics")
    /\ UNCHANGED <<emitVars, updating, updateTimer, started, disabled, keyVars, told>>

StopEmitting(e) ==
    /\ started
    /\ \/ updateTimer = "nil" /\ Goto(e, "idle", "noop")
       \/ updateTimer # "nil" /\ Goto(e, "idle", "metrics")
    /\ UNCHANGED <<emitVars, updating, timerVars, disabled, keyVars, told>>

---------------------------------------------------------------------------
(* emit                                                                     *)

\* setEmitTimeMetrics: goroutines and memory, unless they are disabled.
SetEmitTimeMetrics(e) ==
    /\ Goto(e, "metrics", "enter")
    /\ buffer' = buffer \cup (EmitKeys \ DOMAIN disabled)
    /\ UNCHANGED <<emitVars, updating, timerVars, disabled, collecting, told>>

Return(e) == IF Final(e) THEN "done" ELSE "idle"

\* Only one update at a time: another one is skipped.
EnterUpdate(e) ==
    /\ \/ updating /\ Goto(e, "enter", Return(e)) /\ UNCHANGED updating
       \/ /\ ~updating
          /\ Goto(e, "enter", IF Final(e) THEN "stoptimer" ELSE "payload")
          /\ updating' = TRUE
    /\ UNCHANGED <<emitVars, timerVars, disabled, keyVars, told>>

\* Timer.Stop has no effect on a timer that has fired, and panics on nil.
StopUpdateTimer(e) ==
    /\ Goto(e, "stoptimer", IF updateTimer = "nil" THEN "panic" ELSE "payload")
    /\ updateTimer' = "nil"
    /\ armed' = IF armed > 0 THEN armed - 1 ELSE 0
    /\ UNCHANGED <<emitVars, updating, fired, started, disabled, keyVars, told>>

\* The buffer is emptied even when it cannot be encoded, and that error returns
\* without scheduling.
MakePayload(e) ==
    /\ \/ Goto(e, "payload", "send") /\ UNCHANGED told
       \/ "marshal" \in Faults /\ Goto(e, "payload", "leave") /\ told' = TRUE
    /\ payload' = [payload EXCEPT ![e] = buffer]
    /\ buffer' = {}
    /\ UNCHANGED <<attempt, reply, updating, timerVars, disabled, collecting>>

\* Faulty variant: the count starts again.
NextAttempt_Wraps(e) ==
    /\ attempt' = [attempt EXCEPT ![e] = (@ + 1) % MaxAttempts]
    /\ Goto(e, "send", "send")

NextAttempt(e) ==
    /\ attempt' = [attempt EXCEPT ![e] = @ + 1]
    /\ Goto(e, "send", IF attempt[e] + 1 < MaxAttempts THEN "send" ELSE "schedule")

\* No answer, or one that cannot be understood.
PostFails(e) ==
    /\ NextAttempt(e)
    /\ UNCHANGED <<payload, reply, updating, timerVars, disabled, keyVars, told>>

\* Gone, or unavailable for legal reasons.
PostRefused(e) ==
    /\ Goto(e, "send", "schedule")
    /\ reply' = [reply EXCEPT ![e].stop = TRUE]
    /\ told' = TRUE
    /\ UNCHANGED <<attempt, payload, updating, timerVars, disabled, keyVars>>

\* Decode into the reply of the earlier attempts: a field the answer omits keeps
\* its value.
Decoded(was, answer) ==
    [stop    |-> was.stop \/ answer.stop,
     disable |-> IF answer.disable = {} THEN was.disable ELSE answer.disable,
     enable  |-> IF answer.enable = {} THEN was.enable ELSE answer.enable]

\* Faulty variant: any disabled key can be enabled.
NowDisabled_EnablesAll(r) ==
    [k \in (DOMAIN disabled \ r.enable) \cup r.disable |->
        IF k \in r.disable THEN "temporary" ELSE disabled[k]]

\* Only temporarily disabled keys are enabled again; disabling dominates.
NowDisabled(r) ==
    LET kept == {k \in DOMAIN disabled : ~(k \in r.enable /\ disabled[k] = "temporary")}
    IN  [k \in kept \cup r.disable |-> IF k \in r.disable THEN "temporary" ELSE disabled[k]]

\* An answer: applied whatever its status; success ends the loop, so does 429
\* for a final update; another error, or 429, is tried again.
PostAnswered(e) ==
    \E answer \in Replies, status \in {"ok", "toomany", "error"} :
       LET r == Decoded(reply[e], answer) IN
       /\ reply' = [reply EXCEPT ![e] = r]
       /\ disabled' = NowDisabled(r)
       /\ told' = (told \/ answer.stop)
       /\ IF status = "ok" \/ (status = "toomany" /\ Final(e))
          THEN Goto(e, "send", "schedule") /\ UNCHANGED attempt
          ELSE NextAttempt(e)
       /\ UNCHANGED <<payload, updating, timerVars, keyVars>>

\* Faulty variant: a failed update does not schedule another.
SchedulesNext_OnSuccess(e) == ~Final(e) /\ ~reply[e].stop /\ attempt[e] < MaxAttempts
SchedulesNext(e) == ~Final(e) /\ ~reply[e].stop

ScheduleNext(e) ==
    /\ Goto(e, "schedule", "leave")
    /\ IF SchedulesNext(e)
       THEN updateTimer' = "set" /\ armed' = armed + 1
       ELSE UNCHANGED <<updateTimer, armed>>
    /\ UNCHANGED <<emitVars, updating, fired, started, disabled, keyVars, told>>

\* The deferred reset of updating; the locals of emit go out of scope.
LeaveUpdate(e) ==
    /\ Goto(e, "leave", Return(e))
    /\ updating' = FALSE
    /\ attempt' = [attempt EXCEPT ![e] = 0]
    /\ payload' = [payload EXCEPT ![e] = {}]
    /\ reply' = [reply EXCEPT ![e] = NoReply]
    /\ UNCHANGED <<timerVars, disabled, keyVars, told>>

---------------------------------------------------------------------------
(* The collection functions: isDisabled is asked before bufferMu is taken.  *)

CollectBegin(k) ==
    /\ k \notin DOMAIN disabled /\ k \notin collecting
    /\ collecting' = collecting \cup {k}
    /\ UNCHANGED <<pc, emitVars, updating, timerVars, disabled, buffer, told>>

CollectEnd(k) ==
    /\ k \in collecting
    /\ collecting' = collecting \ {k}
    /\ buffer' = buffer \cup {k}
    /\ UNCHANGED <<pc, emitVars, updating, timerVars, disabled, told>>

EmitStep(e) ==
    \/ SetEmitTimeMetrics(e) \/ EnterUpdate(e) \/ StopUpdateTimer(e) \/ MakePayload(e)
    \/ PostFails(e) \/ PostRefused(e) \/ PostAnswered(e) \/ ScheduleNext(e) \/ LeaveUpdate(e)

\* A panic ends the process.
Next ==
    /\ \A e \in Emitters : pc[e] # "panic"
    /\ \/ StartEmitting \/ TimerFires
       \/ \E e \in Stoppers : StopEmitting(e)
       \/ \E e \in Emitters : EmitStep(e)
       \/ \E k \in Keys : CollectBegin(k) \/ CollectEnd(k)

Spec == Init /\ [][Next]_vars

\* A goroutine in emit runs on: the HTTP client has a timeout and the sleeps end.
FairSpec == Spec /\ \A e \in Emitters : WF_vars(EmitStep(e))

---------------------------------------------------------------------------
(* Properties                                                               *)

TypeOK ==
    /\ pc \in [Emitters -> Labels]
    /\ attempt \in [Emitters -> 0 .. MaxAttempts]
    /\ payload \in [Emitters -> SUBSET Keys]
    /\ reply \in [Emitters -> Replies]
    /\ updating \in BOOLEAN /\ started \in BOOLEAN /\ told \in BOOLEAN
    /\ updateTimer \in {"nil", "set"}
    /\ armed \in Nat /\ fired \in 0 .. MaxUpdates
    /\ \E D \in SUBSET Keys : disabled \in [D -> {"temporary", "permanent"}]
    /\ buffer \subseteq Keys /\ collecting \subseteq Keys

\* "ensure only one update happens at a time" (telemetry.go: 73): the flag is
\* up exactly while one goroutine is between setting it and the deferred reset.
OneUpdate ==
    /\ \A d, e \in Emitters : pc[d] \in Inside /\ pc[e] \in Inside => d = e
    /\ updating <=> \E e \in Emitters : pc[e] \in Inside

\* The updates that have still to reach the point where the next is scheduled.
Scheduling == {e \in Runs : pc[e] \in {"metrics", "enter", "payload", "send", "schedule"}}

\* There is never more than one cycle: a running timer, or one update that will
\* schedule the next timer (telemetry.go: 217-223).
OneCycle == armed + Cardinality(Scheduling) <= 1

\* "the next update will be scheduled" (telemetry.go: 64): until StopEmitting,
\* the server or a payload that cannot be encoded ends it, the cycle goes on,
\* whatever updates fail.
CycleAlive ==
    started /\ ~told /\ (\A e \in Stoppers : pc[e] = "idle") =>
       armed > 0 \/ Scheduling # {}

\* A key that the user disabled is never collected nor sent, "for the lifetime
\* of the process" (collection.go: 35-37).
PermanentUnsent ==
    Permanent \cap (buffer \cup collecting \cup UNION {payload[e] : e \in Emitters}) = {}

\* Every update ends, and the flag that keeps others out (OneUpdate) comes down: the
\* retry loop is bounded, whatever the server answers.
UpdateEnds == updating ~> ~updating
=============================================================================
