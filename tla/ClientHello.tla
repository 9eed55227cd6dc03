---------------------------- MODULE ClientHello ----------------------------
(***************************************************************************)
(* parseRawClientHello of httpserver/mitm.go as the walk of an index over   *)
(* the message: every length field holds an arbitrary value, and the state  *)
(* records the highest byte that a step reads against the bytes there are.  *)
(***************************************************************************)
EXTENDS Integers

CONSTANTS
    Sizes,    \* lengths of the message
    Fields    \* values of a length field

VARIABLES
    field,    \* the field that is parsed next, or "done"
    data,     \* len(data): the bytes that remain
    read      \* the bytes of data that the last step read

cvars == <<field, data, read>>

Init == field = "session" /\ data \in Sizes /\ read = 0

Return(n) == field' = "done" /\ read' = n /\ UNCHANGED data
Consume(next, n) == field' = next /\ read' = n /\ data' = data - n

\* Version at 4 and 5, session ID length at 38.
SessionID ==
    /\ field = "session"
    /\ IF data < 42 THEN Return(0)
       ELSE \E len \in Fields :
               IF len > 32 \/ data < 39 + len THEN Return(39) ELSE Consume("ciphers", 39 + len)

\* Faulty variant: the two bytes of the length are forgotten.
CipherSuites_NoHeader ==
    /\ field = "ciphers"
    /\ IF data < 2 THEN Return(0)
       ELSE \E len \in Fields :
               IF len % 2 = 1 \/ data < len THEN Return(2) ELSE Consume("compression", 2 + len)
CipherSuites ==
    /\ field = "ciphers"
    /\ IF data < 2 THEN Return(0)
       ELSE \E len \in Fields :
               IF len % 2 = 1 \/ data < 2 + len THEN Return(2) ELSE Consume("compression", 2 + len)

CompressionMethods ==
    /\ field = "compression"
    /\ IF data < 1 THEN Return(0)
       ELSE \E len \in Fields :
               IF data < 1 + len THEN Return(1) ELSE Consume("extensions", 1 + len)

Extensions ==
    /\ field = "extensions"
    /\ IF data < 2 THEN Return(0)
       ELSE \E len \in Fields :
               IF len # data - 2 THEN Return(2) ELSE Consume("extension", 2)

\* One extension.  The body of supported_groups has a length of two bytes and
\* that of ec_point_formats one of a single byte; other bodies are skipped.
Extension ==
    /\ field = "extension"
    /\ \/ data = 0 /\ Return(0)
       \/ data \in 1 .. 3 /\ Return(0)
       \/ /\ data >= 4
          /\ \E length \in Fields :
                IF data - 4 < length THEN Return(4)
                ELSE \/ Consume("extension", 4 + length)
                     \/ \E l \in Fields :
                           IF length < 2 \/ l % 2 = 1 \/ length # l + 2
                           THEN Return(4 + IF length < 2 THEN 0 ELSE 2)
                           ELSE Consume("extension", 4 + 2 + l)
                     \/ \E l \in Fields :
                           IF length < 1 \/ length # l + 1
                           THEN Return(4 + IF length < 1 THEN 0 ELSE 1)
                           ELSE Consume("extension", 4 + 1 + l)

Next ==
    \/ SessionID \/ CipherSuites \/ CompressionMethods \/ Extensions \/ Extension
    \/ (field = "done" /\ UNCHANGED cvars)

Spec == Init /\ [][Next]_cvars

---------------------------------------------------------------------------

\* Whatever the length fields say, no step reads past the end of the message and
\* no slice begins behind it: Go would panic in the goroutine of the connection.
InBounds == data >= 0 /\ (field = "done" => read <= data)
=============================================================================
