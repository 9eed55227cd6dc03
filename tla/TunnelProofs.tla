---------------------------- MODULE TunnelProofs ----------------------------
(***************************************************************************)
(* The tunnel implements a pipe in each direction, for any number of units. *)
(* What makes it so is Flow: while the receiving side can be written to,    *)
(* what has arrived and what is held or in the copier's chunk are together  *)
(* what the proxy has taken from the sender.                                *)
(***************************************************************************)
EXTENDS Tunnel, SequenceTheorems, TLAPS

Units == 1 .. MaxUnits

ByDir(f) == f = [d \in Dirs |-> f[d]]

\* The shape of the state; the types of what flows are part of FlowOf.
TypeOK ==
    /\ peerOpen \in [Dirs -> BOOLEAN] /\ sockOpen \in [Dirs -> BOOLEAN]
    /\ \A f \in {sent, taken, held, got, copier, chunk} : ByDir(f)

\* For the sequence s of a sender: t of its units are taken, g have arrived, h are
\* held and k are in the chunk of a copier in state c; w: the receiver is there.
FlowOf(s, t, g, h, k, c, w) ==
    /\ s \in Seq(Units) /\ t \in 0 .. Len(s)
    /\ g \in Seq(Units) /\ Len(g) <= t /\ g = SubSeq(s, 1, Len(g))
    /\ c = "none" => k = <<>>
    /\ w /\ c = "none" => h = SubSeq(s, Len(g) + 1, t)
    /\ w /\ c = "copy" => k = SubSeq(s, Len(g) + 1, t)
Flow(d) == FlowOf(sent[d], taken[d], got[d], held[d], chunk[d], copier[d], Writable(d))

\* The copiers start after what was read ahead has been passed on.
Stage ==
    /\ pc \in {"roundtrip", "hijack", "replay", "start"} => copier["down"] = "none"
    /\ pc \in {"roundtrip", "hijack", "replay", "start", "buffered"} => copier["up"] = "none"
    /\ pc = "roundtrip" => taken["down"] = 0 /\ got["down"] = <<>>
    /\ pc \in {"roundtrip", "hijack"} => taken["up"] = 0 /\ got["up"] = <<>>
    /\ pc = "start" => held["down"] = <<>>

IInv == TypeOK /\ Stage /\ \A d \in Dirs : Flow(d)

\* A step of Pipe in the direction d, or none.
PipeStep(d) ==
    LET ended == copier[d] = "ended" IN
    \/ /\ \E u \in Units : sent'[d] = Append(sent[d], u)
       /\ got'[d] = got[d] /\ ended' = ended
    \/ /\ ~ended
       /\ \E n \in Len(got[d]) + 1 .. Len(sent[d]) : got'[d] = SubSeq(sent[d], 1, n)
       /\ sent'[d] = sent[d] /\ ended' = ended
    \/ ~ended /\ ended' = TRUE /\ sent'[d] = sent[d] /\ got'[d] = got[d]
    \/ sent'[d] = sent[d] /\ got'[d] = got[d] /\ ended' = ended

---------------------------------------------------------------------------
(* Sequences.                                                               *)

\* A piece of a sequence is a sequence of its own.
LEMMA PieceType ==
  ASSUME NEW U, NEW s \in Seq(U), NEW m \in Nat, NEW n \in 0 .. Len(s), m <= n
  PROVE  SubSeq(s, m + 1, n) \in Seq(U) /\ Len(SubSeq(s, m + 1, n)) = n - m
<1>1. m + 1 \in Int /\ n \in Int /\ Len(s) \in Nat
  OBVIOUS
<1>2. \A i \in m + 1 .. n : s[i] \in U
  BY <1>1
<1>3. SubSeq(s, m + 1, n) \in Seq(U)
      /\ Len(SubSeq(s, m + 1, n)) = IF m + 1 <= n THEN n - (m + 1) + 1 ELSE 0
  BY <1>1, <1>2, SubSeqProperties
<1> QED
  BY <1>1, <1>3

\* What is appended later changes no piece.
LEMMA PieceOfAppend ==
  ASSUME NEW U, NEW s \in Seq(U), NEW u \in U, NEW m \in Nat, NEW n \in 0 .. Len(s)
  PROVE  SubSeq(Append(s, u), m + 1, n) = SubSeq(s, m + 1, n)
<1>1. CASE n < m + 1
  BY <1>1, SubSeqEmpty
<1>2. CASE m + 1 <= n
  <2>1. Append(s, u) = s \o <<u>> /\ <<u>> \in Seq(U)
    BY AppendIsConcat
  <2>2. m + 1 \in 1 .. Len(s) /\ n \in 1 .. Len(s)
    BY <1>2
  <2> QED
    BY <2>1, <2>2, SubSeqOfConcat1
<1> QED
  BY <1>1, <1>2

\* The first k of the units that are waiting behind the first t.
LEMMA PieceAhead ==
  ASSUME NEW U, NEW s \in Seq(U), NEW t \in 0 .. Len(s), NEW k \in 0 .. Len(s) - t
  PROVE  SubSeq(SubSeq(s, t + 1, Len(s)), 1, k) = SubSeq(s, t + 1, t + k)
<1>1. CASE k = 0
  BY <1>1, SubSeqEmpty
<1>2. CASE k > 0
  <2>1. t + 1 \in 1 .. Len(s) /\ Len(s) \in 1 .. Len(s)
        /\ 1 \in 1 .. Len(s) - (t + 1) + 1 /\ k \in 1 .. Len(s) - (t + 1) + 1
    BY <1>2
  <2>2. SubSeq(SubSeq(s, t + 1, Len(s)), 1, k) = SubSeq(s, (t + 1) + 1 - 1, (t + 1) + k - 1)
    BY <2>1, SubSeqOfSubSeq
  <2> QED
    BY <2>2
<1> QED
  BY <1>1, <1>2

---------------------------------------------------------------------------
(* What the operations do to the flow in one direction.                     *)

\* The sender sends.
LEMMA SendFlow ==
  ASSUME NEW s, NEW t, NEW g, NEW h, NEW k, NEW c, NEW w, NEW u \in Units,
         FlowOf(s, t, g, h, k, c, w)
  PROVE  FlowOf(Append(s, u), t, g, h, k, c, w)
<1>1. s \in Seq(Units) /\ t \in 0 .. Len(s) /\ g \in Seq(Units) /\ Len(g) <= t
      /\ Len(g) \in Nat /\ Len(g) \in 0 .. Len(s)
  BY DEF FlowOf
<1>2. Append(s, u) \in Seq(Units) /\ Len(Append(s, u)) = Len(s) + 1
  BY <1>1
<1>3. SubSeq(Append(s, u), Len(g) + 1, t) = SubSeq(s, Len(g) + 1, t)
  BY <1>1, PieceOfAppend
<1>4. SubSeq(Append(s, u), 0 + 1, Len(g)) = SubSeq(s, 0 + 1, Len(g))
  BY <1>1, PieceOfAppend
<1>5. t \in 0 .. Len(Append(s, u))
  BY <1>1, <1>2
<1> QED
  BY <1>2, <1>3, <1>4, <1>5 DEF FlowOf

\* Of s, of which t are taken and g had arrived, q has arrived.
Arrived(s, t, g, q) ==
    /\ q = SubSeq(s, 1, t) /\ q \in Seq(Units) /\ Len(q) = t
    /\ SubSeq(s, Len(q) + 1, t) = <<>>
    /\ q = g \/ \E n \in Len(g) + 1 .. Len(s) : q = SubSeq(s, 1, n)

\* All that is taken arrives: it becomes a longer beginning of s, or stays.
LEMMA ArriveFlow ==
  ASSUME NEW s \in Seq(Units), NEW t \in 0 .. Len(s), NEW g \in Seq(Units),
         Len(g) <= t, g = SubSeq(s, 1, Len(g)),
         NEW q, q = g \o SubSeq(s, Len(g) + 1, t)
  PROVE  Arrived(s, t, g, q)
<1>1. Len(g) \in Nat /\ Len(s) \in Nat /\ t \in Nat
  OBVIOUS
<1>2. SubSeq(s, 1, Len(g)) \o SubSeq(s, Len(g) + 1, t) = SubSeq(s, 1, t)
  <2>1. 1 \in 1 .. Len(s) + 1 /\ Len(g) \in 1 - 1 .. Len(s) /\ t \in Len(g) .. Len(s)
    BY <1>1
  <2> QED
    BY <2>1, ConcatAdjacentSubSeq
<1>3. q = SubSeq(s, 1, t)
  BY <1>2, Zenon
<1>4. SubSeq(s, 0 + 1, t) \in Seq(Units) /\ Len(SubSeq(s, 0 + 1, t)) = t - 0
  BY <1>1, PieceType
<1>5. SubSeq(s, 1, t) \in Seq(Units) /\ Len(SubSeq(s, 1, t)) = t
  BY <1>1, <1>4
<1>6. SubSeq(s, t + 1, t) = <<>>
  BY <1>1, SubSeqEmpty
<1>7. Len(g) = t \/ t \in Len(g) + 1 .. Len(s)
  <2>1. \A a, b, c \in Nat : a <= b /\ b \in 0 .. c => a = b \/ b \in a + 1 .. c
    OBVIOUS
  <2> QED
    BY <1>1, <2>1, Zenon
<1> QED
  BY <1>3, <1>5, <1>6, <1>7, Zenon DEF Arrived

\* Nothing happens in a direction, except that its receiver may have gone.
LEMMA SameFlow ==
  ASSUME NEW d \in Dirs, Flow(d), Writable(d)' => Writable(d),
         sent'[d] = sent[d], taken'[d] = taken[d], got'[d] = got[d], held'[d] = held[d],
         chunk'[d] = chunk[d], copier'[d] = copier[d]
  PROVE  Flow(d)' /\ PipeStep(d)
  BY DEF Flow, FlowOf, PipeStep

LEMMA Others == Other("up") = "down" /\ Other("down") = "up"
  BY DEF Other, Dirs

\* A peer that has left, and a socket that is closed, stay so.
LEMMA WritableEnds ==
  ASSUME TypeOK, NEW d \in Dirs, [Next]_wvars
  PROVE  Writable(d)' => Writable(d)
<1>1. \A e \in Dirs : (peerOpen'[e] => peerOpen[e]) /\ (sockOpen'[e] => sockOpen[e])
  BY DEF Next, Handler, Copy, RoundTrip, Hijack, WriteReplay, StartDown, WriteBuffered, Finish,
         CopyRead, CopyWrite, Report, PeerSends, PeerLeaves, Idle, wvars, TypeOK, ByDir
<1>2. Other(d) \in Dirs
  BY Others DEF Dirs
<1> QED
  BY <1>1, <1>2 DEF Writable

---------------------------------------------------------------------------
(* One lemma per action: the flow is kept and the pipe takes a step.        *)

LEMMA PeerSendsFlow ==
  ASSUME MaxUnits \in Nat, IInv, NEW e \in Dirs, PeerSends(e), NEW d \in Dirs,
         Writable(d)' => Writable(d)
  PROVE  Flow(d)' /\ PipeStep(d)
<1>1. CASE d # e
  BY <1>1, SameFlow DEF IInv, TypeOK, ByDir, PeerSends
<1>2. CASE d = e
  <2> DEFINE u == Len(sent[d]) + 1
  <2>1. u \in Units /\ sent'[d] = Append(sent[d], u)
    BY <1>2 DEF PeerSends, IInv, TypeOK, ByDir, Flow, FlowOf, Units
  <2>2. UNCHANGED <<taken, got, held, chunk, copier>>
    BY DEF PeerSends
  <2>3. FlowOf(sent'[d], taken'[d], got'[d], held'[d], chunk'[d], copier'[d], Writable(d))
    BY <2>1, <2>2, SendFlow DEF IInv, Flow
  <2>4. Flow(d)'
    BY <2>3 DEF Flow, FlowOf
  <2> QED
    BY <2>1, <2>2, <2>4 DEF PipeStep
<1> QED
  BY <1>1, <1>2

\* The n units that are read ahead of the copying are held.
LEMMA ReadAhead ==
  ASSUME IInv, NEW d \in Dirs, taken[d] = 0, got[d] = <<>>, copier[d] = "none",
         NEW n \in 0 .. Len(Waiting(d)),
         held'[d] = SubSeq(Waiting(d), 1, n), taken'[d] = taken[d] + n,
         UNCHANGED <<sent, got, copier, chunk>>
  PROVE  Flow(d)' /\ PipeStep(d)
<1>1. sent[d] \in Seq(Units) /\ Len(sent[d]) \in Nat /\ chunk[d] = <<>>
  BY DEF IInv, TypeOK, ByDir, Flow, FlowOf
<1>2. Waiting(d) = SubSeq(sent[d], 0 + 1, Len(sent[d]))
  BY DEF Waiting
<1>3. Len(Waiting(d)) = Len(sent[d]) - 0
  BY <1>1, <1>2, PieceType
<1>4. n \in 0 .. Len(sent[d]) - 0 /\ n \in Nat /\ 0 \in 0 .. Len(sent[d]) /\ taken'[d] = n
  BY <1>1, <1>3
<1>5. held'[d] = SubSeq(sent[d], 0 + 1, 0 + n)
  BY <1>1, <1>2, <1>4, PieceAhead
<1>6. held'[d] = SubSeq(sent[d], 1, n)
  BY <1>4, <1>5
<1>8. SubSeq(sent[d], 1, 0) = <<>>
  BY SubSeqEmpty
<1>9. \A w : FlowOf(sent[d], n, <<>>, SubSeq(sent[d], 1, n), <<>>, "none", w)
  <2>1. Len(<<>>) = 0 /\ 0 + 1 = 1 /\ <<>> \in Seq(Units) /\ 0 <= n /\ n \in 0 .. Len(sent[d])
    BY <1>1, <1>4, EmptySeq
  <2> QED
    BY <1>1, <1>8, <2>1 DEF FlowOf
<1>10. Flow(d)'
  <2>1. sent'[d] = sent[d] /\ got'[d] = <<>> /\ chunk'[d] = <<>> /\ copier'[d] = "none"
    BY <1>1
  <2> HIDE DEF Units
  <2> QED
    BY <1>4, <1>6, <1>9, <2>1, Zenon DEF Flow
<1> QED
  BY <1>10 DEF PipeStep

LEMMA RoundTripFlow ==
  ASSUME IInv, RoundTrip, NEW d \in Dirs, Writable(d)' => Writable(d)
  PROVE  Flow(d)' /\ PipeStep(d)
<1>1. CASE d = "down" /\ pc' = "hijack"
  <2>1. PICK n \in 0 .. Len(Waiting("down")) :
           /\ held' = [held EXCEPT !["down"] = SubSeq(Waiting("down"), 1, n)]
           /\ taken' = [taken EXCEPT !["down"] = @ + n]
    BY <1>1 DEF RoundTrip
  <2>2. taken["down"] = 0 /\ got["down"] = <<>> /\ copier["down"] = "none"
    BY DEF RoundTrip, IInv, Stage
  <2>3. held'["down"] = SubSeq(Waiting("down"), 1, n) /\ taken'["down"] = taken["down"] + n
    BY <2>1 DEF IInv, TypeOK, ByDir, Dirs
  <2> QED
    BY <1>1, <2>2, <2>3, ReadAhead DEF RoundTrip
<1>2. CASE d # "down" \/ pc' # "hijack"
  <2>1. held'[d] = held[d] /\ taken'[d] = taken[d]
    BY <1>2 DEF RoundTrip, IInv, TypeOK, ByDir
  <2> QED
    BY <2>1, SameFlow DEF RoundTrip, IInv
<1> QED
  BY <1>1, <1>2

LEMMA HijackFlow ==
  ASSUME IInv, Hijack, NEW d \in Dirs, Writable(d)' => Writable(d)
  PROVE  Flow(d)' /\ PipeStep(d)
<1>1. CASE d = "up" /\ pc' = "replay"
  <2>1. PICK n \in 0 .. Len(Waiting("up")) :
           /\ held' = [held EXCEPT !["up"] = SubSeq(Waiting("up"), 1, n)]
           /\ taken' = [taken EXCEPT !["up"] = @ + n]
    BY <1>1 DEF Hijack
  <2>2. taken["up"] = 0 /\ got["up"] = <<>> /\ copier["up"] = "none"
    BY DEF Hijack, IInv, Stage
  <2>3. held'["up"] = SubSeq(Waiting("up"), 1, n) /\ taken'["up"] = taken["up"] + n
    BY <2>1 DEF IInv, TypeOK, ByDir, Dirs
  <2> QED
    BY <1>1, <2>2, <2>3, ReadAhead DEF Hijack
<1>2. CASE d # "up" \/ pc' # "replay"
  <2>1. held'[d] = held[d] /\ taken'[d] = taken[d]
    BY <1>2 DEF Hijack, IInv, TypeOK, ByDir
  <2> QED
    BY <2>1, SameFlow DEF Hijack, IInv
<1> QED
  BY <1>1, <1>2

\* What is held, or in the chunk, arrives.
LEMMA Arrival ==
  ASSUME IInv, NEW d \in Dirs, NEW p, p = SubSeq(sent[d], Len(got[d]) + 1, taken[d]),
         copier[d] \in {"none", "copy"}, copier'[d] \in {"none", "copy"},
         got'[d] = got[d] \o p, UNCHANGED <<sent, taken>>,
         copier'[d] = "none" => held'[d] = <<>>, chunk'[d] = <<>>
  PROVE  Flow(d)' /\ PipeStep(d)
<1> DEFINE s == sent[d]
           t == taken[d]
           g == got[d]
<1>1. s \in Seq(Units) /\ t \in 0 .. Len(s) /\ g \in Seq(Units) /\ Len(g) <= t
      /\ g = SubSeq(s, 1, Len(g))
  BY DEF IInv, Flow, FlowOf
<1>2. Arrived(s, t, g, got'[d])
  <2>1. got'[d] = g \o SubSeq(s, Len(g) + 1, t)
    OBVIOUS
  <2> HIDE DEF s, t, g
  <2> QED
    BY ONLY <1>1, <2>1, ArriveFlow
<1>3. sent'[d] = s /\ taken'[d] = t
  OBVIOUS
<1>4. Flow(d)'
  <2>1. FlowOf(s, t, got'[d], held'[d], <<>>, copier'[d], Writable(d)')
    <3>1. t <= t
      BY <1>1
    <3> QED
      BY <1>1, <1>2, <3>1, Zenon DEF FlowOf, Arrived
  <2> QED
    BY <1>3, <2>1, Zenon DEF Flow
<1>5. PipeStep(d)
  BY <1>2, <1>3, Zenon DEF PipeStep, Arrived
<1> QED
  BY <1>4, <1>5

LEMMA WriteReplayFlow ==
  ASSUME IInv, WriteReplay, NEW d \in Dirs, Writable(d)' => Writable(d)
  PROVE  Flow(d)' /\ PipeStep(d)
<1>1. UNCHANGED <<sent, taken, copier, chunk>> /\ copier["down"] = "none"
      /\ held'["down"] = <<>> /\ held'["up"] = held["up"]
  BY DEF WriteReplay, IInv, Stage, TypeOK, ByDir, Dirs
<1>2. CASE d = "up"
  <2>1. got'["up"] = got["up"]
    BY DEF WriteReplay, Arrive, IInv, TypeOK, ByDir, Dirs
  <2> QED
    BY <1>1, <1>2, <2>1, SameFlow DEF IInv
<1>3. CASE d = "down" /\ Writable("down")
  <2>1. got'["down"] = got["down"] \o held["down"]
    BY <1>3 DEF WriteReplay, Arrive, IInv, TypeOK, ByDir, Dirs
  <2>2. /\ held["down"] = SubSeq(sent["down"], Len(got["down"]) + 1, taken["down"])
        /\ chunk["down"] = <<>>
    BY <1>1, <1>3 DEF IInv, Flow, FlowOf, Dirs
  <2> QED
    BY <1>1, <1>3, <2>1, <2>2, Arrival
<1>4. CASE d = "down" /\ ~Writable("down")
  <2>1. got' = got
    BY <1>4 DEF WriteReplay
  <2> QED
    BY <1>1, <1>4, <2>1 DEF IInv, Flow, FlowOf, PipeStep
<1> QED
  BY <1>2, <1>3, <1>4 DEF Dirs

LEMMA StartDownFlow ==
  ASSUME IInv, StartDown, NEW d \in Dirs, Writable(d)' => Writable(d)
  PROVE  Flow(d)' /\ PipeStep(d)
<1>1. UNCHANGED <<sent, taken, got, held, chunk>> /\ copier'["up"] = copier["up"]
      /\ copier["down"] = "none" /\ copier'["down"] = "copy" /\ held["down"] = <<>>
  BY DEF StartDown, IInv, Stage, TypeOK, ByDir, Dirs
<1>2. CASE d = "up"
  BY <1>1, <1>2, SameFlow DEF IInv
<1>3. CASE d = "down"
  BY <1>1, <1>3 DEF IInv, Flow, FlowOf, PipeStep
<1> QED
  BY <1>2, <1>3 DEF Dirs

LEMMA WriteBufferedFlow ==
  ASSUME IInv, WriteBuffered, NEW d \in Dirs, Writable(d)' => Writable(d)
  PROVE  Flow(d)' /\ PipeStep(d)
<1>1. UNCHANGED <<sent, taken, chunk>> /\ copier["up"] = "none" /\ copier'["up"] = "copy"
      /\ copier'["down"] = copier["down"] /\ held'["down"] = held["down"]
  BY DEF WriteBuffered, IInv, Stage, TypeOK, ByDir, Dirs
<1>2. CASE d = "down"
  <2>1. got'["down"] = got["down"]
    BY DEF WriteBuffered, Arrive, IInv, TypeOK, ByDir, Dirs
  <2> QED
    BY <1>1, <1>2, <2>1, SameFlow DEF IInv
<1>3. CASE d = "up" /\ Writable("up")
  <2>1. got'["up"] = got["up"] \o held["up"]
    BY <1>3 DEF WriteBuffered, Arrive, IInv, TypeOK, ByDir, Dirs
  <2>2. /\ held["up"] = SubSeq(sent["up"], Len(got["up"]) + 1, taken["up"])
        /\ chunk["up"] = <<>>
    BY <1>1, <1>3 DEF IInv, Flow, FlowOf, Dirs
  <2> QED
    BY <1>1, <1>3, <2>1, <2>2, Arrival
<1>4. CASE d = "up" /\ ~Writable("up")
  <2>1. got' = got
    BY <1>4 DEF WriteBuffered
  <2> QED
    BY <1>1, <1>4, <2>1 DEF IInv, Flow, FlowOf, PipeStep
<1> QED
  BY <1>2, <1>3, <1>4 DEF Dirs

\* The copier, which has an empty chunk, takes n of the units that are waiting.
LEMMA ReadFlow ==
  ASSUME NEW s, NEW t, NEW g, NEW h, NEW w, FlowOf(s, t, g, h, <<>>, "copy", w),
         NEW n \in 1 .. Len(SubSeq(s, t + 1, Len(s))), NEW k,
         k = SubSeq(SubSeq(s, t + 1, Len(s)), 1, n)
  PROVE  FlowOf(s, t + n, g, h, k, "copy", w)
<1>1. s \in Seq(Units) /\ t \in 0 .. Len(s) /\ t \in Nat /\ Len(s) \in Nat /\ t <= Len(s)
      /\ g \in Seq(Units) /\ Len(g) \in Nat /\ Len(g) <= t /\ g = SubSeq(s, 1, Len(g))
      /\ Len(s) \in 0 .. Len(s)
  BY DEF FlowOf
<1>2. Len(SubSeq(s, t + 1, Len(s))) = Len(s) - t
  BY <1>1, PieceType
<1>3. n \in Nat /\ n \in 0 .. Len(s) - t /\ t + n \in 0 .. Len(s) /\ t <= t + n /\ Len(g) <= t + n
  BY <1>1, <1>2
<1>4. k = SubSeq(s, t + 1, t + n)
  BY <1>1, <1>3, PieceAhead
<1>6. w => Len(g) = t
  <2>1. w => SubSeq(s, Len(g) + 1, t) = <<>>
    BY DEF FlowOf
  <2>2. Len(SubSeq(s, Len(g) + 1, t)) = t - Len(g)
    BY <1>1, PieceType
  <2>3. Len(<<>>) = 0
    OBVIOUS
  <2>4. \A a, b \in Nat : a - b = 0 => b = a
    OBVIOUS
  <2> QED
    BY <1>1, <2>1, <2>2, <2>3, <2>4, Zenon
<1>7. "copy" # "none"
  OBVIOUS
<1> QED
  BY <1>1, <1>3, <1>4, <1>6, <1>7, Zenon DEF FlowOf

LEMMA CopyReadFlow ==
  ASSUME IInv, NEW e \in Dirs, CopyRead(e), NEW d \in Dirs, Writable(d)' => Writable(d)
  PROVE  Flow(d)' /\ PipeStep(d)
<1>1. UNCHANGED <<sent, got, held>> /\ chunk[e] = <<>> /\ copier[e] = "copy"
  BY DEF CopyRead
<1>2. CASE d # e
  BY <1>1, <1>2, SameFlow DEF CopyRead, IInv, TypeOK, ByDir
<1>3. CASE d = e /\ copier' = copier
  <2>1. PICK n \in 1 .. Len(Waiting(d)) :
           chunk'[d] = SubSeq(Waiting(d), 1, n) /\ taken'[d] = taken[d] + n
    <3>1. copier'[d] # "report"
      BY <1>1, <1>3
    <3> QED
      BY <1>3, <3>1 DEF CopyRead, IInv, TypeOK, ByDir
  <2>2. FlowOf(sent[d], taken[d], got[d], held[d], <<>>, "copy", Writable(d))
    BY <1>1, <1>3 DEF IInv, Flow
  <2>3. FlowOf(sent[d], taken'[d], got[d], held[d], chunk'[d], "copy", Writable(d))
    BY <2>1, <2>2, ReadFlow DEF Waiting
  <2>4. sent'[d] = sent[d] /\ got'[d] = got[d] /\ held'[d] = held[d] /\ copier'[d] = "copy"
    BY <1>1, <1>3
  <2> QED
    BY <1>1, <1>3, <2>3, <2>4 DEF Flow, FlowOf, PipeStep
<1>4. CASE d = e /\ copier' # copier
  <2>1. copier'[d] = "report" /\ UNCHANGED <<chunk, taken>>
    BY <1>4 DEF CopyRead, IInv, TypeOK, ByDir
  <2> QED
    BY <1>1, <1>4, <2>1 DEF IInv, Flow, FlowOf, PipeStep
<1> QED
  BY <1>2, <1>3, <1>4

LEMMA CopyWriteFlow ==
  ASSUME IInv, NEW e \in Dirs, CopyWrite(e), NEW d \in Dirs, Writable(d)' => Writable(d)
  PROVE  Flow(d)' /\ PipeStep(d)
<1>1. UNCHANGED <<sent, taken, held>> /\ chunk'[e] = <<>> /\ copier[e] = "copy"
  BY DEF CopyWrite, IInv, TypeOK, ByDir
<1>2. CASE d # e
  BY <1>1, <1>2, SameFlow DEF CopyWrite, Arrive, IInv, TypeOK, ByDir
<1>3. CASE d = e /\ Writable(d)
  <2>1. got'[d] = got[d] \o chunk[d] /\ copier' = copier
    BY <1>3 DEF CopyWrite, Arrive, IInv, TypeOK, ByDir
  <2>2. chunk[d] = SubSeq(sent[d], Len(got[d]) + 1, taken[d])
    BY <1>1, <1>3 DEF IInv, Flow, FlowOf
  <2>3. copier'[d] = "copy"
    BY <1>1, <1>3, <2>1
  <2> QED
    BY <1>1, <1>3, <2>1, <2>2, <2>3, Arrival
<1>4. CASE d = e /\ ~Writable(d)
  <2>1. got' = got /\ copier'[d] = "report"
    BY <1>4 DEF CopyWrite, IInv, TypeOK, ByDir
  <2> QED
    BY <1>1, <1>4, <2>1 DEF IInv, Flow, FlowOf, PipeStep
<1> QED
  BY <1>2, <1>3, <1>4

LEMMA ReportFlow ==
  ASSUME IInv, NEW e \in Dirs, Report(e), NEW d \in Dirs, Writable(d)' => Writable(d)
  PROVE  Flow(d)' /\ PipeStep(d)
<1>1. CASE d # e
  BY <1>1, SameFlow DEF Report, IInv, TypeOK, ByDir
<1>2. CASE d = e
  <2>1. copier[d] = "report" /\ copier'[d] = "ended"
        /\ UNCHANGED <<sent, taken, held, got, chunk>>
    BY <1>2 DEF Report, IInv, TypeOK, ByDir
  <2> QED
    BY <2>1 DEF IInv, Flow, FlowOf, PipeStep
<1> QED
  BY <1>1, <1>2

---------------------------------------------------------------------------
(* All steps.                                                               *)

LEMMA InitInv == Init => IInv
<1> SUFFICES ASSUME Init PROVE IInv
  OBVIOUS
<1>1. TypeOK /\ Stage
  BY DEF Init, TypeOK, ByDir, Stage, Dirs
<1>2. ASSUME NEW d \in Dirs PROVE Flow(d)
  <2>1. sent[d] = <<>> /\ taken[d] = 0 /\ got[d] = <<>> /\ held[d] = <<>> /\ chunk[d] = <<>>
        /\ copier[d] = "none"
    BY DEF Init
  <2>2. \A w : FlowOf(<<>>, 0, <<>>, <<>>, <<>>, "none", w)
    <3>1. <<>> \in Seq(Units) /\ Len(<<>>) = 0 /\ 0 \in 0 .. 0 /\ 0 <= 0
      BY EmptySeq
    <3>2. SubSeq(<<>>, 1, 0) = <<>> /\ SubSeq(<<>>, 0 + 1, 0) = <<>>
      BY SubSeqEmpty
    <3> QED
      BY <3>1, <3>2 DEF FlowOf
  <2> HIDE DEF Units
  <2> QED
    BY <2>1, <2>2, Zenon DEF Flow
<1> QED
  BY <1>1, <1>2 DEF IInv

LEMMA StepShape ==
  ASSUME IInv, [Next]_wvars
  PROVE  TypeOK' /\ Stage'
<1>1. TypeOK'
  <2> DEFINE Kept(f, g) == g = f \/ \E e \in Dirs : \E v : g = [f EXCEPT ![e] = v]
  <2>1. \A f, g : ByDir(f) /\ Kept(f, g) => ByDir(g)
    BY DEF ByDir
  <2>2. peerOpen' \in [Dirs -> BOOLEAN] /\ sockOpen' \in [Dirs -> BOOLEAN]
    BY DEF IInv, Next, Handler, Copy, RoundTrip, Hijack, WriteReplay, StartDown, WriteBuffered, Finish,
           CopyRead, CopyWrite, Report, PeerSends, PeerLeaves, Idle, wvars, TypeOK, ByDir
  <2>3. Kept(sent, sent') /\ Kept(copier, copier')
    BY DEF Next, Handler, Copy, RoundTrip, Hijack, WriteReplay, StartDown, WriteBuffered, Finish,
           CopyRead, CopyWrite, Report, PeerSends, PeerLeaves, Idle, wvars, Dirs
  <2>4. Kept(taken, taken') /\ Kept(held, held')
    BY DEF Next, Handler, Copy, RoundTrip, Hijack, WriteReplay, StartDown, WriteBuffered, Finish,
           CopyRead, CopyWrite, Report, PeerSends, PeerLeaves, Idle, wvars, Dirs
  <2>5. Kept(got, got') /\ Kept(chunk, chunk')
    BY DEF Next, Handler, Copy, RoundTrip, Hijack, WriteReplay, StartDown, WriteBuffered, Finish,
           CopyRead, CopyWrite, Report, PeerSends, PeerLeaves, Idle, Arrive, wvars, Dirs
  <2> HIDE DEF Kept
  <2> QED
    BY <2>1, <2>2, <2>3, <2>4, <2>5 DEF IInv, TypeOK
<1>2. Stage'
  BY DEF IInv, Next, Handler, Copy, RoundTrip, Hijack, WriteReplay, StartDown, WriteBuffered, Finish,
         CopyRead, CopyWrite, Report, PeerSends, PeerLeaves, Idle, Arrive, wvars,
         TypeOK, ByDir, Stage, Dirs
<1> QED
  BY <1>1, <1>2

\* Every step keeps the flow in both directions and is a step of both pipes.
LEMMA StepFlow ==
  ASSUME MaxUnits \in Nat, IInv, [Next]_wvars, NEW d \in Dirs
  PROVE  Flow(d)' /\ PipeStep(d)
<1>0. Writable(d)' => Writable(d)
  BY WritableEnds DEF IInv
<1>1. CASE RoundTrip
  BY <1>0, <1>1, RoundTripFlow
<1>2. CASE Hijack
  BY <1>0, <1>2, HijackFlow
<1>3. CASE WriteReplay
  BY <1>0, <1>3, WriteReplayFlow
<1>4. CASE StartDown
  BY <1>0, <1>4, StartDownFlow
<1>5. CASE WriteBuffered
  BY <1>0, <1>5, WriteBufferedFlow
<1>6. CASE Finish
  BY <1>0, <1>6, SameFlow DEF Finish, IInv
<1>7. ASSUME NEW e \in Dirs, CopyRead(e) PROVE Flow(d)' /\ PipeStep(d)
  BY <1>0, <1>7, CopyReadFlow
<1>8. ASSUME NEW e \in Dirs, CopyWrite(e) PROVE Flow(d)' /\ PipeStep(d)
  BY <1>0, <1>8, CopyWriteFlow
<1>9. ASSUME NEW e \in Dirs, Report(e) PROVE Flow(d)' /\ PipeStep(d)
  BY <1>0, <1>9, ReportFlow
<1>10. ASSUME NEW e \in Dirs, PeerSends(e) PROVE Flow(d)' /\ PipeStep(d)
  BY <1>0, <1>10, PeerSendsFlow
<1>11. ASSUME NEW e \in Dirs, PeerLeaves(e) PROVE Flow(d)' /\ PipeStep(d)
  BY <1>0, <1>11, SameFlow DEF PeerLeaves, IInv
<1>12. CASE Idle \/ UNCHANGED wvars
  BY <1>0, <1>12, SameFlow DEF Idle, wvars, IInv
<1> QED
  BY <1>1, <1>2, <1>3, <1>4, <1>5, <1>6, <1>7, <1>8, <1>9, <1>10, <1>11, <1>12
     DEF Next, Handler, Copy

LEMMA StepInv ==
  ASSUME MaxUnits \in Nat, IInv, [Next]_wvars
  PROVE  IInv'
<1>1. \A d \in Dirs : Flow(d)'
  BY StepFlow
<1> QED
  BY <1>1, StepShape DEF IInv

\* A step of PipeStep is one of Pipe.
LEMMA StepPipes ==
  ASSUME PipeStep("up"), PipeStep("down")
  PROVE  /\ [Up!Next]_<<sent["up"], got["up"], copier["up"] = "ended">>
         /\ [Down!Next]_<<sent["down"], got["down"], copier["down"] = "ended">>
  BY DEF PipeStep, Units, Up!Next, Up!Send, Up!Deliver, Up!Close,
         Down!Next, Down!Send, Down!Deliver, Down!Close

\* The two goroutines and the hand-over of what was read before they started (the
\* upgrade branch of ReverseProxy.ServeHTTP) implement a stream in each direction,
\* for any number of units: no unit is lost, doubled or reordered before the end.
THEOREM TunnelCorrect ==
  ASSUME MaxUnits \in Nat
  PROVE  Spec => TunnelPipes
<1>1. Init => IInv
  BY InitInv
<1>2. IInv /\ [Next]_wvars => IInv'
  BY StepInv
<1>3. IInv /\ [Next]_wvars =>
         /\ [Up!Next]_<<sent["up"], got["up"], copier["up"] = "ended">>
         /\ [Down!Next]_<<sent["down"], got["down"], copier["down"] = "ended">>
  <2> SUFFICES ASSUME IInv, [Next]_wvars
               PROVE  /\ [Up!Next]_<<sent["up"], got["up"], copier["up"] = "ended">>
                      /\ [Down!Next]_<<sent["down"], got["down"], copier["down"] = "ended">>
    OBVIOUS
  <2>1. PipeStep("up") /\ PipeStep("down")
    BY StepFlow DEF Dirs
  <2> QED
    BY <2>1, StepPipes
<1>4. Init => Up!Init /\ Down!Init
  BY DEF Init, Up!Init, Down!Init, Dirs
<1> QED
  BY <1>1, <1>2, <1>3, <1>4, PTL DEF Spec, TunnelPipes, Up!Spec, Down!Spec
=============================================================================
