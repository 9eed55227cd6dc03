-------------------------- MODULE ClientHelloProofs --------------------------
(***************************************************************************)
(* parseRawClientHello stays within its message, for every length of the    *)
(* message and every value of the length fields.                            *)
(***************************************************************************)
EXTENDS ClientHello, TLAPS

\* data is a number and, once the parser has returned, at least what it read last.
IInv == data \in Nat /\ read \in Nat /\ (field = "done" => read <= data)

\* Consuming what is there leaves a number of bytes and goes on to another field.
LEMMA ConsumeKeeps ==
  ASSUME NEW n \in Nat, NEW next, data \in Nat, n <= data, next # "done", Consume(next, n)
  PROVE  IInv'
  BY DEF Consume, IInv

\* Returning after a look at bytes that are there leaves the rest alone.
LEMMA ReturnKeeps ==
  ASSUME NEW n \in Nat, data \in Nat, n <= data, Return(n)
  PROVE  IInv'
  BY DEF Return, IInv

\* Every field is read, and skipped, only after a test that it is there.
LEMMA NextInv ==
  ASSUME Fields \subseteq Nat, IInv, [Next]_cvars
  PROVE  IInv'
<1>d. data \in Nat
  BY DEF IInv
<1>1. CASE SessionID
  <2>1. CASE data < 42
    BY <1>1, <2>1, <1>d, ReturnKeeps DEF SessionID
  <2>2. CASE ~(data < 42)
    <3>1. PICK len \in Fields :
             IF len > 32 \/ data < 39 + len THEN Return(39) ELSE Consume("ciphers", 39 + len)
      BY <1>1, <2>2 DEF SessionID
    <3>2. len \in Nat
      BY <3>1
    <3> QED
      BY <2>2, <3>1, <3>2, <1>d, ReturnKeeps, ConsumeKeeps
  <2> QED
    BY <2>1, <2>2
<1>2. CASE CipherSuites
  <2>1. CASE data < 2
    BY <1>2, <2>1, <1>d, ReturnKeeps DEF CipherSuites
  <2>2. CASE ~(data < 2)
    <3>1. PICK len \in Fields :
             IF len % 2 = 1 \/ data < 2 + len THEN Return(2) ELSE Consume("compression", 2 + len)
      BY <1>2, <2>2 DEF CipherSuites
    <3>2. len \in Nat
      BY <3>1
    <3> QED
      BY <2>2, <3>1, <3>2, <1>d, ReturnKeeps, ConsumeKeeps
  <2> QED
    BY <2>1, <2>2
<1>3. CASE CompressionMethods
  <2>1. CASE data < 1
    BY <1>3, <2>1, <1>d, ReturnKeeps DEF CompressionMethods
  <2>2. CASE ~(data < 1)
    <3>1. PICK len \in Fields :
             IF data < 1 + len THEN Return(1) ELSE Consume("extensions", 1 + len)
      BY <1>3, <2>2 DEF CompressionMethods
    <3>2. len \in Nat
      BY <3>1
    <3> QED
      BY <2>2, <3>1, <3>2, <1>d, ReturnKeeps, ConsumeKeeps
  <2> QED
    BY <2>1, <2>2
<1>4. CASE Extensions
  BY <1>4, <1>d, ReturnKeeps, ConsumeKeeps DEF Extensions
<1>5. CASE Extension
  <2>1. CASE data < 4
    BY <1>5, <2>1, <1>d, ReturnKeeps DEF Extension
  <2>2. CASE data >= 4
    <3>1. PICK length \in Fields :
             IF data - 4 < length THEN Return(4)
             ELSE \/ Consume("extension", 4 + length)
                  \/ \E l \in Fields :
                        IF length < 2 \/ l % 2 = 1 \/ length # l + 2
                        THEN Return(4 + IF length < 2 THEN 0 ELSE 2)
                        ELSE Consume("extension", 4 + 2 + l)
                  \/ \E l \in Fields :
                        IF length < 1 \/ length # l + 1
                        THEN Return(4 + IF length < 1 THEN 0 ELSE 1)
                        ELSE Consume("extension", 4 + 1 + l)
      BY <1>5, <2>2, <1>d DEF Extension
    <3>2. length \in Nat
      BY <3>1
    <3>3. CASE Return(4)
      BY <2>2, <3>3, <1>d, ReturnKeeps
    <3>4. CASE length <= data - 4 /\ Consume("extension", 4 + length)
      BY <3>2, <3>4, <1>d, ConsumeKeeps
    <3>5. ASSUME NEW l \in Fields, length <= data - 4,
                 IF length < 2 \/ l % 2 = 1 \/ length # l + 2
                 THEN Return(4 + IF length < 2 THEN 0 ELSE 2)
                 ELSE Consume("extension", 4 + 2 + l)
          PROVE  IInv'
      <4>1. l \in Nat
        BY <3>5
      <4>2. CASE length < 2
        BY <3>2, <3>5, <4>2, <1>d, ReturnKeeps
      <4>3. CASE ~(length < 2) /\ (l % 2 = 1 \/ length # l + 2)
        BY <3>2, <3>5, <4>3, <1>d, ReturnKeeps
      <4>4. CASE length = l + 2 /\ Consume("extension", 4 + 2 + l)
        BY <3>2, <3>5, <4>1, <4>4, <1>d, ConsumeKeeps
      <4> QED
        BY <3>5, <4>2, <4>3, <4>4
    <3>6. ASSUME NEW l \in Fields, length <= data - 4,
                 IF length < 1 \/ length # l + 1
                 THEN Return(4 + IF length < 1 THEN 0 ELSE 1)
                 ELSE Consume("extension", 4 + 1 + l)
          PROVE  IInv'
      <4>1. l \in Nat
        BY <3>6
      <4>2. CASE length = l + 1 /\ Consume("extension", 4 + 1 + l)
        BY <3>2, <3>6, <4>1, <4>2, <1>d, ConsumeKeeps
      <4> QED
        BY <3>2, <3>6, <4>2, <1>d, ReturnKeeps
    <3> QED
      BY <1>d, <3>1, <3>2, <3>3, <3>4, <3>5, <3>6
  <2> QED
    BY <1>d, <2>1, <2>2
<1>6. CASE UNCHANGED cvars
  BY <1>6 DEF IInv, cvars
<1> QED
  BY <1>1, <1>2, <1>3, <1>4, <1>5, <1>6 DEF Next

\* InBounds for messages of every length, with every value in the length fields.
THEOREM InBoundsCorrect ==
  ASSUME Sizes \subseteq Nat, Fields \subseteq Nat
  PROVE  Spec => []InBounds
<1>1. Init => IInv
  BY DEF Init, IInv
<1>2. IInv /\ [Next]_cvars => IInv'
  BY NextInv
<1>3. IInv => InBounds
  BY DEF IInv, InBounds
<1> QED
  BY <1>1, <1>2, <1>3, PTL DEF Spec
=============================================================================
