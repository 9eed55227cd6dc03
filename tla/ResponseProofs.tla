--------------------------- MODULE ResponseProofs ---------------------------
(***************************************************************************)
(* The answer of a backend, for any finite set of trailers and any length   *)
(* of the body.                                                             *)
(***************************************************************************)
EXTENDS Response, FiniteSetTheorems, TLAPS

\* The lock belongs to the copying or to a flush, the copying holds it only while
\* it copies, the Trailer field is what was announced, and the trailers that are
\* put after the body are those that came with it.
IInv ==
    /\ trailers \subseteq Trailers /\ announced \subseteq trailers
    /\ lock \in {"none", "copy", "flush"}
    /\ lock = "flush" <=> flusher = "flushes"
    /\ lock = "copy" => pc = "copy"
    /\ pc = "header" => flusher = "none"
    /\ pc # "header" => declared = announced
    /\ pc \in {"trailers", "returned"} => flusher \in {"none", "ended"}
    /\ pc = "returned" => after = [key : trailers, prefixed : {forceSetTrailers}]

LEMMA NextInv ==
  ASSUME IInv, [Next]_rvars
  PROVE  IInv'
<1> USE DEF IInv
<1>1. CASE WriteHeader
  BY <1>1 DEF WriteHeader
<1>2. CASE Lock
  BY <1>2 DEF Lock
<1>3. CASE Write
  BY <1>3 DEF Write
<1>4. CASE Tick
  BY <1>4 DEF Tick
<1>5. CASE FlushLock
  BY <1>5 DEF FlushLock
<1>6. CASE Flush
  BY <1>6 DEF Flush
<1>7. CASE CopyEnds
  BY <1>7 DEF CopyEnds
<1>8. CASE Stop
  BY <1>8 DEF Stop
<1>9. CASE CopyTrailers
  <2>1. UNCHANGED <<trailers, announced, declared, lock, flusher>>
        /\ pc = "trailers" /\ pc' = "returned"
        /\ after' = [key : trailers, prefixed : {forceSetTrailers}]
    BY <1>9 DEF CopyTrailers
  <2>2. forceSetTrailers' = forceSetTrailers
    BY <2>1 DEF forceSetTrailers
  <2> QED
    BY <2>1, <2>2
<1>10. CASE Returned \/ UNCHANGED rvars
  <2>1. UNCHANGED rvars
    BY <1>10 DEF Returned
  <2>2. forceSetTrailers' = forceSetTrailers
    BY <2>1 DEF rvars, forceSetTrailers
  <2> QED
    BY <2>1, <2>2 DEF rvars
<1> QED
  BY <1>1, <1>2, <1>3, <1>4, <1>5, <1>6, <1>7, <1>8, <1>9, <1>10 DEF Next

\* As many trailers as announced are the announced ones: the comparison of two
\* lengths in the code finds every trailer that was not announced.
LEMMA SameLength ==
  ASSUME IsFiniteSet(Trailers), IInv, ~forceSetTrailers
  PROVE  announced = trailers
<1>1. IsFiniteSet(trailers)
  BY FS_Subset DEF IInv
<1>2. announced \in SUBSET trailers
  BY DEF IInv
<1>3. Cardinality(trailers) = Cardinality(announced) => trailers = announced
  BY <1>1, <1>2, FS_Subset
<1> QED
  BY <1>3 DEF forceSetTrailers

LEMMA WholeFollows ==
  ASSUME IsFiniteSet(Trailers), IInv
  PROVE  AnswerWhole
<1>1. FlushQuiet
  BY DEF IInv, FlushQuiet
<1>2. ASSUME pc = "returned"
      PROVE  Received = trailers
  <2>1. after = [key : trailers, prefixed : {forceSetTrailers}] /\ declared = announced
    BY <1>2 DEF IInv
  <2>2. \A u \in after : u.key \in trailers /\ u.prefixed = forceSetTrailers
    BY <2>1
  <2>3. \A t \in trailers : [key |-> t, prefixed |-> forceSetTrailers] \in after
    BY <2>1
  <2>4. \A u \in after : u.prefixed \/ u.key \in declared
    BY <2>1, <2>2, SameLength
  <2>5. Received = {t.key : t \in after}
    BY <2>4 DEF Received
  <2>6. trailers \subseteq {t.key : t \in after}
    <3> SUFFICES ASSUME NEW t \in trailers PROVE \E u \in after : u.key = t
      OBVIOUS
    <3> QED
      BY <2>3
  <2> QED
    BY <2>2, <2>5, <2>6
<1> QED
  BY <1>1, <1>2 DEF AnswerWhole, TrailersKept

\* AnswerWhole for any trailers, announced or not, and any interleaving of the
\* copying with the goroutine that flushes.
THEOREM AnswerCorrect ==
  ASSUME IsFiniteSet(Trailers)
  PROVE  Spec => []AnswerWhole
<1>1. Init => IInv
  BY DEF Init, IInv
<1>2. IInv /\ [Next]_rvars => IInv'
  BY NextInv
<1>3. IInv => AnswerWhole
  BY WholeFollows
<1> QED
  BY <1>1, <1>2, <1>3, PTL DEF Spec
=============================================================================
