--------------------------- MODULE TelemetryProofs ---------------------------
(***************************************************************************)
(* Proofs about Telemetry for any keys, emitters, faults and bounds.        *)
(***************************************************************************)
EXTENDS Telemetry, TLAPS

\* The inductive invariant: the retry loop has an attempt left until it is over,
\* and updating is up exactly while one goroutine is inside.
AttemptsLeft == \A e \in Emitters : pc[e] \notin {"schedule", "leave"} => attempt[e] < MaxAttempts
IInv == TypeOK /\ OneUpdate /\ AttemptsLeft

LEMMA InitInv == Init => IInv
<1> SUFFICES ASSUME Init PROVE IInv
  OBVIOUS
<1>1. \E D \in SUBSET Keys : disabled \in [D -> {"temporary", "permanent"}]
  BY KeysAssumption DEF Init, DisabledByUser
<1>2. NoReply \in Replies
  BY DEF NoReply, Replies
<1>3. TypeOK
  <2>1. pc \in [Emitters -> Labels] /\ attempt \in [Emitters -> 0 .. MaxAttempts]
    BY DEF Init, Labels, MaxAttempts
  <2>2. payload \in [Emitters -> SUBSET Keys] /\ reply \in [Emitters -> Replies]
    BY <1>2 DEF Init
  <2>3. updating \in BOOLEAN /\ started \in BOOLEAN /\ told \in BOOLEAN
    BY DEF Init
  <2>4. updateTimer \in {"nil", "set"} /\ armed \in Nat /\ fired \in 0 .. MaxUpdates
    BY UpdatesAssumption DEF Init
  <2> QED
    BY <1>1, <2>1, <2>2, <2>3, <2>4 DEF Init, TypeOK
<1>4. OneUpdate
  BY DEF Init, OneUpdate, Inside
<1>5. AttemptsLeft
  BY DEF Init, AttemptsLeft, MaxAttempts
<1> QED
  BY <1>3, <1>4, <1>5 DEF IInv

\* A step of one emitter that neither enters nor leaves the update, nor attempts
\* to send.
LEMMA Stays ==
  ASSUME IInv, NEW e \in Emitters, NEW l \in Labels, pc' = [pc EXCEPT ![e] = l],
         updating' = updating, attempt' = attempt, pc[e] \in Inside <=> l \in Inside,
         l \notin {"schedule", "leave"} => pc[e] \notin {"schedule", "leave"}
  PROVE  OneUpdate' /\ AttemptsLeft' /\ pc' \in [Emitters -> Labels]
<1>1. pc' \in [Emitters -> Labels]
  BY DEF IInv, TypeOK
<1>2. OneUpdate'
  BY DEF IInv, TypeOK, OneUpdate
<1>3. AttemptsLeft'
  BY DEF IInv, TypeOK, AttemptsLeft
<1> QED
  BY <1>1, <1>2, <1>3

LEMMA StartInv == ASSUME IInv, StartEmitting PROVE IInv'
<1>1. PICK e \in Runs : Goto(e, "idle", "metrics")
  BY DEF StartEmitting
<1>2. OneUpdate' /\ AttemptsLeft' /\ pc' \in [Emitters -> Labels]
  BY <1>1, Stays DEF StartEmitting, Goto, Inside, Labels, emitVars, Emitters
<1> QED
  BY <1>2 DEF IInv, TypeOK, StartEmitting, emitVars, timerVars, keyVars

LEMMA TimerInv == ASSUME IInv, TimerFires PROVE IInv'
<1>1. PICK e \in Runs : Goto(e, "idle", "metrics")
  BY DEF TimerFires
<1>2. OneUpdate' /\ AttemptsLeft' /\ pc' \in [Emitters -> Labels]
  BY <1>1, Stays DEF TimerFires, Goto, Inside, Labels, emitVars, Emitters
<1>3. armed' \in Nat /\ fired' \in 0 .. MaxUpdates
  BY UpdatesAssumption DEF IInv, TypeOK, TimerFires
<1> QED
  BY <1>2, <1>3 DEF IInv, TypeOK, TimerFires, emitVars, timerVars, keyVars

LEMMA StopInv == ASSUME IInv, NEW e \in Stoppers, StopEmitting(e) PROVE IInv'
<1>1. OneUpdate' /\ AttemptsLeft' /\ pc' \in [Emitters -> Labels]
  BY Stays DEF StopEmitting, Goto, Inside, Labels, emitVars, Emitters
<1> QED
  BY <1>1 DEF IInv, TypeOK, StopEmitting, emitVars, timerVars, keyVars

LEMMA MetricsInv == ASSUME IInv, NEW e \in Emitters, SetEmitTimeMetrics(e) PROVE IInv'
<1>1. OneUpdate' /\ AttemptsLeft' /\ pc' \in [Emitters -> Labels]
  BY Stays DEF SetEmitTimeMetrics, Goto, Inside, Labels, emitVars
<1> QED
  BY <1>1, KeysAssumption DEF IInv, TypeOK, SetEmitTimeMetrics, emitVars, timerVars, keyVars

LEMMA EnterInv == ASSUME IInv, NEW e \in Emitters, EnterUpdate(e) PROVE IInv'
<1>1. CASE updating
  <2>1. OneUpdate' /\ AttemptsLeft' /\ pc' \in [Emitters -> Labels]
    BY <1>1, Stays DEF EnterUpdate, Goto, Return, Inside, Labels, emitVars
  <2>2. UNCHANGED updating
    BY <1>1 DEF EnterUpdate
  <2> QED
    BY <2>1, <2>2 DEF IInv, TypeOK, EnterUpdate, emitVars, timerVars, keyVars
<1>2. CASE ~updating
  <2>1. pc' = [pc EXCEPT ![e] = IF Final(e) THEN "stoptimer" ELSE "payload"] /\ updating'
    BY <1>2 DEF EnterUpdate, Goto
  <2>2. pc' \in [Emitters -> Labels]
    BY <2>1 DEF IInv, TypeOK, Labels
  <2>3. \A d \in Emitters : pc[d] \notin Inside
    BY <1>2 DEF IInv, OneUpdate
  <2>4. OneUpdate'
    BY <2>1, <2>3 DEF IInv, TypeOK, OneUpdate, Inside
  <2>5. AttemptsLeft'
    BY <2>1, <2>3 DEF IInv, TypeOK, AttemptsLeft, EnterUpdate, emitVars, Inside
  <2>6. updating' \in BOOLEAN
    BY <1>2 DEF EnterUpdate
  <2> QED
    BY <2>2, <2>4, <2>5, <2>6 DEF IInv, TypeOK, EnterUpdate, emitVars, timerVars, keyVars
<1> QED
  BY <1>1, <1>2

LEMMA StopTimerInv == ASSUME IInv, NEW e \in Emitters, StopUpdateTimer(e) PROVE IInv'
<1>1. OneUpdate' /\ AttemptsLeft' /\ pc' \in [Emitters -> Labels]
  BY Stays DEF StopUpdateTimer, Goto, Inside, Labels, emitVars
<1>2. armed' \in Nat
  BY DEF IInv, TypeOK, StopUpdateTimer
<1> QED
  BY <1>1, <1>2 DEF IInv, TypeOK, StopUpdateTimer, emitVars, timerVars, keyVars

LEMMA PayloadInv == ASSUME IInv, NEW e \in Emitters, MakePayload(e) PROVE IInv'
<1>1. OneUpdate' /\ AttemptsLeft' /\ pc' \in [Emitters -> Labels]
  BY Stays DEF MakePayload, Goto, Inside, Labels, emitVars
<1> QED
  BY <1>1 DEF IInv, TypeOK, MakePayload, emitVars, timerVars, keyVars

\* Another attempt: the counter stays within the loop's bound.
LEMMA AttemptInv ==
  ASSUME IInv, NEW e \in Emitters, NextAttempt(e), updating' = updating
  PROVE  /\ OneUpdate' /\ AttemptsLeft' /\ pc' \in [Emitters -> Labels]
         /\ attempt' \in [Emitters -> 0 .. MaxAttempts]
<1>1. attempt[e] < MaxAttempts
  BY DEF IInv, AttemptsLeft, NextAttempt, Goto
<1>2. attempt' \in [Emitters -> 0 .. MaxAttempts]
  BY <1>1 DEF IInv, TypeOK, NextAttempt, MaxAttempts
<1>3. pc' \in [Emitters -> Labels]
  BY DEF IInv, TypeOK, NextAttempt, Goto, Labels
<1>4. OneUpdate'
  BY DEF IInv, TypeOK, OneUpdate, NextAttempt, Goto, Inside
<1>5. AttemptsLeft'
  BY DEF IInv, TypeOK, AttemptsLeft, NextAttempt, Goto, MaxAttempts
<1> QED
  BY <1>2, <1>3, <1>4, <1>5

LEMMA FailsInv == ASSUME IInv, NEW e \in Emitters, PostFails(e) PROVE IInv'
  BY AttemptInv DEF IInv, TypeOK, PostFails, timerVars, keyVars

LEMMA RefusedInv == ASSUME IInv, NEW e \in Emitters, PostRefused(e) PROVE IInv'
<1>1. OneUpdate' /\ AttemptsLeft' /\ pc' \in [Emitters -> Labels]
  BY Stays DEF PostRefused, Goto, Inside, Labels
<1>2. reply' \in [Emitters -> Replies]
  BY DEF IInv, TypeOK, PostRefused, Replies
<1> QED
  BY <1>1, <1>2 DEF IInv, TypeOK, PostRefused, timerVars, keyVars

\* Decoding and applying an answer keep the types.
LEMMA DecodedType ==
  ASSUME NEW was \in Replies, NEW answer \in Replies
  PROVE  Decoded(was, answer) \in Replies
  BY DEF Decoded, Replies

LEMMA DisabledType ==
  ASSUME IInv, NEW r \in Replies
  PROVE  \E D \in SUBSET Keys : NowDisabled(r) \in [D -> {"temporary", "permanent"}]
<1> DEFINE kept == {k \in DOMAIN disabled : ~(k \in r.enable /\ disabled[k] = "temporary")}
<1>1. PICK D \in SUBSET Keys : disabled \in [D -> {"temporary", "permanent"}]
  BY DEF IInv, TypeOK
<1>2. kept \cup r.disable \in SUBSET Keys
  BY <1>1, KeysAssumption DEF Replies
<1>3. NowDisabled(r) \in [kept \cup r.disable -> {"temporary", "permanent"}]
  BY <1>1 DEF NowDisabled
<1> QED
  BY <1>2, <1>3

LEMMA AnsweredInv == ASSUME IInv, NEW e \in Emitters, PostAnswered(e) PROVE IInv'
<1>1. PICK answer \in Replies, status \in {"ok", "toomany", "error"} :
        LET r == Decoded(reply[e], answer) IN
        /\ reply' = [reply EXCEPT ![e] = r]
        /\ disabled' = NowDisabled(r)
        /\ told' = (told \/ answer.stop)
        /\ IF status = "ok" \/ (status = "toomany" /\ Final(e))
           THEN Goto(e, "send", "schedule") /\ UNCHANGED attempt
           ELSE NextAttempt(e)
        /\ UNCHANGED <<payload, updating, timerVars, keyVars>>
  BY DEF PostAnswered
<1> DEFINE r == Decoded(reply[e], answer)
<1>2. r \in Replies
  BY DecodedType DEF IInv, TypeOK
<1>3. reply' \in [Emitters -> Replies]
  BY <1>1, <1>2 DEF IInv, TypeOK
<1>4. \E D \in SUBSET Keys : disabled' \in [D -> {"temporary", "permanent"}]
  BY <1>1, <1>2, DisabledType
<1>5. /\ OneUpdate' /\ AttemptsLeft' /\ pc' \in [Emitters -> Labels]
      /\ attempt' \in [Emitters -> 0 .. MaxAttempts]
  <2>1. CASE NextAttempt(e)
    BY <1>1, <2>1, AttemptInv
  <2>2. CASE Goto(e, "send", "schedule") /\ UNCHANGED attempt
    BY <1>1, <2>2, Stays DEF Goto, Inside, Labels, IInv, TypeOK
  <2> QED
    BY <1>1, <2>1, <2>2
<1>6. told' \in BOOLEAN
  BY <1>1
<1> QED
  BY <1>1, <1>3, <1>4, <1>5, <1>6 DEF IInv, TypeOK, timerVars, keyVars

LEMMA ScheduleInv == ASSUME IInv, NEW e \in Emitters, ScheduleNext(e) PROVE IInv'
<1>1. OneUpdate' /\ AttemptsLeft' /\ pc' \in [Emitters -> Labels]
  BY Stays DEF ScheduleNext, Goto, Inside, Labels, emitVars
<1>2. armed' \in Nat /\ updateTimer' \in {"nil", "set"}
  BY DEF IInv, TypeOK, ScheduleNext
<1> QED
  BY <1>1, <1>2 DEF IInv, TypeOK, ScheduleNext, emitVars, timerVars, keyVars

LEMMA LeaveInv == ASSUME IInv, NEW e \in Emitters, LeaveUpdate(e) PROVE IInv'
<1>1. pc' = [pc EXCEPT ![e] = Return(e)] /\ pc[e] = "leave"
  BY DEF LeaveUpdate, Goto
<1>2. pc' \in [Emitters -> Labels]
  BY <1>1 DEF IInv, TypeOK, Return, Labels
<1>3. \A d \in Emitters : pc'[d] \notin Inside
  BY <1>1 DEF IInv, TypeOK, OneUpdate, Return, Inside
<1>4. OneUpdate'
  BY <1>3 DEF OneUpdate, LeaveUpdate
<1>5. attempt' \in [Emitters -> 0 .. MaxAttempts] /\ AttemptsLeft'
  BY <1>1 DEF IInv, TypeOK, AttemptsLeft, LeaveUpdate, MaxAttempts
<1>6. payload' \in [Emitters -> SUBSET Keys] /\ reply' \in [Emitters -> Replies]
  BY DEF IInv, TypeOK, LeaveUpdate, NoReply, Replies
<1>7. updating' \in BOOLEAN
  BY DEF LeaveUpdate
<1> QED
  BY <1>2, <1>4, <1>5, <1>6, <1>7 DEF IInv, TypeOK, LeaveUpdate, timerVars, keyVars

LEMMA CollectInv ==
  ASSUME IInv, NEW k \in Keys, CollectBegin(k) \/ CollectEnd(k) PROVE IInv'
<1>1. OneUpdate' /\ AttemptsLeft' /\ UNCHANGED <<pc, emitVars, updating, timerVars, disabled, told>>
  BY DEF IInv, OneUpdate, AttemptsLeft, CollectBegin, CollectEnd, emitVars
<1>2. buffer' \subseteq Keys /\ collecting' \subseteq Keys
  BY DEF IInv, TypeOK, CollectBegin, CollectEnd
<1> QED
  BY <1>1, <1>2 DEF IInv, TypeOK, emitVars, timerVars

\* IInv is inductive: every step of every goroutine preserves it.
THEOREM NextInv == IInv /\ [Next]_vars => IInv'
<1> SUFFICES ASSUME IInv, [Next]_vars PROVE IInv'
  OBVIOUS
<1>1. CASE \E e \in Emitters : EmitStep(e)
  BY <1>1, MetricsInv, EnterInv, StopTimerInv, PayloadInv, FailsInv, RefusedInv, AnsweredInv,
     ScheduleInv, LeaveInv DEF EmitStep
<1>2. CASE \E e \in Stoppers : StopEmitting(e)
  BY <1>2, StopInv
<1>3. CASE \E k \in Keys : CollectBegin(k) \/ CollectEnd(k)
  BY <1>3, CollectInv
<1>4. CASE UNCHANGED vars
  BY <1>4 DEF IInv, TypeOK, OneUpdate, AttemptsLeft, vars
<1> QED
  BY <1>1, <1>2, <1>3, <1>4, StartInv, TimerInv DEF Next

\* Every variable keeps its type; in particular no update makes more than four
\* attempts, whatever the server answers.
THEOREM Typing == Spec => []TypeOK
<1>1. IInv => TypeOK
  BY DEF IInv
<1> QED
  BY InitInv, NextInv, <1>1, PTL DEF Spec

\* Only one update happens at a time (telemetry.go: 73-87), for any number of
\* timers, starters and stoppers.
THEOREM OneUpdateAtATime == Spec => []OneUpdate
<1>1. IInv => OneUpdate
  BY DEF IInv
<1> QED
  BY InitInv, NextInv, <1>1, PTL DEF Spec

---------------------------------------------------------------------------

\* The keys of Init stay permanently disabled.
PermanentStay == \A k \in Permanent : k \in DOMAIN disabled /\ disabled[k] = "permanent"
PInv == PermanentStay /\ PermanentUnsent

\* An answer that names no such key in disable_keys leaves them as they are, even
\* when it names them in enable_keys (telemetry.go: 166-169).
LEMMA PermanentKept ==
  ASSUME PermanentStay, NEW r \in Replies, Permanent \cap Disableable = {}
  PROVE  \A k \in Permanent : k \in DOMAIN NowDisabled(r) /\ NowDisabled(r)[k] = "permanent"
<1> SUFFICES ASSUME NEW k \in Permanent
             PROVE  k \in DOMAIN NowDisabled(r) /\ NowDisabled(r)[k] = "permanent"
  OBVIOUS
<1>1. k \notin r.disable
  BY DEF Replies
<1>2. k \in DOMAIN disabled /\ disabled[k] = "permanent"
  BY DEF PermanentStay
<1> QED
  BY <1>1, <1>2 DEF NowDisabled

LEMMA PermanentNext ==
  ASSUME IInv, PInv, [Next]_vars, Permanent \cap Disableable = {}
  PROVE  PInv'
<1>1. CASE \E e \in Emitters : PostAnswered(e)
  <2>1. PICK e \in Emitters, answer \in Replies : disabled' = NowDisabled(Decoded(reply[e], answer))
    BY <1>1 DEF PostAnswered
  <2>2. Decoded(reply[e], answer) \in Replies
    BY DecodedType DEF IInv, TypeOK
  <2>3. PermanentStay'
    BY <2>1, <2>2, PermanentKept DEF PInv, PermanentStay
  <2>4. UNCHANGED <<buffer, collecting, payload>>
    BY <1>1 DEF PostAnswered, keyVars
  <2> QED
    BY <2>3, <2>4 DEF PInv, PermanentUnsent
<1>2. CASE \E e \in Emitters : SetEmitTimeMetrics(e)
  BY <1>2 DEF PInv, PermanentStay, PermanentUnsent, SetEmitTimeMetrics, emitVars
<1>3. CASE \E e \in Emitters : MakePayload(e)
  BY <1>3 DEF PInv, PermanentStay, PermanentUnsent, MakePayload, IInv, TypeOK
<1>4. CASE \E e \in Emitters : LeaveUpdate(e)
  BY <1>4 DEF PInv, PermanentStay, PermanentUnsent, LeaveUpdate, keyVars, IInv, TypeOK
<1>5. CASE \E k \in Keys : CollectBegin(k) \/ CollectEnd(k)
  BY <1>5 DEF PInv, PermanentStay, PermanentUnsent, CollectBegin, CollectEnd, emitVars
<1>6. CASE UNCHANGED <<disabled, payload, buffer, collecting>>
  BY <1>6 DEF PInv, PermanentStay, PermanentUnsent
<1> QED
  BY <1>1, <1>2, <1>3, <1>4, <1>5, <1>6
  DEF Next, vars, StartEmitting, TimerFires, StopEmitting, EmitStep, EnterUpdate, StopUpdateTimer,
      PostFails, PostRefused, ScheduleNext, emitVars, keyVars

\* A key that the user disabled is never collected nor sent, for the lifetime of
\* the process (collection.go: 35-37), as long as the server does not name it in
\* disable_keys; naming it in enable_keys has no effect.
THEOREM PermanentCorrect ==
  ASSUME Permanent \cap Disableable = {}
  PROVE  Spec => []PermanentUnsent
<1>1. Init => PInv
  BY DEF Init, DisabledByUser, PInv, PermanentStay, PermanentUnsent
<1>2. IInv /\ PInv /\ [Next]_vars => PInv'
  BY PermanentNext
<1>3. PInv => PermanentUnsent
  BY DEF PInv
<1> QED
  BY InitInv, NextInv, <1>1, <1>2, <1>3, PTL DEF Spec
=============================================================================
