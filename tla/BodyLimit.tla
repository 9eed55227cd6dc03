----------------------------- MODULE BodyLimit -----------------------------
(***************************************************************************)
(* The limits directive: the body limits of a Caddyfile are put in order,   *)
(* the one for the path of a request is chosen, and maxBytesReader hands    *)
(* the body to the handler until the limit is passed.  A path is the        *)
(* sequence of its names, and names have the same length.                   *)
(***************************************************************************)
EXTENDS Naturals, Sequences, SequencesExt, FiniteSetsExt

CONSTANTS
    LimitPaths,   \* paths of limits and of requests
    MaxLimit,     \* the largest limit
    MaxEntries,     \* body lines in the Caddyfile
    MaxBody,      \* length of the longest body
    MaxRead       \* length of the longest buffer that a handler reads into

VARIABLES
    written,      \* the body lines: sequence of [path, limit]
    asked,        \* the path of the request
    body,         \* the length of its body
    step,         \* "setup", "serve", "read"
    limits,       \* config.Limits.MaxRequestBodySizes
    left,         \* n of the reader: bytes that may still be read (limited)
    limited,      \* a maxBytesReader is in front of the body
    taken,        \* bytes of the body that have been read
    got,          \* bytes that the handler has been given
    err           \* the sticky error: "", "EOF", "large" or "broken"

bvars == <<written, asked, body, step, limits, left, limited, taken, got, err>>

Init ==
    /\ written \in SeqOf([path : LimitPaths, limit : 1 .. MaxLimit], MaxEntries)
    /\ asked \in LimitPaths /\ body \in 0 .. MaxBody
    /\ step = "setup" /\ limits = <<>>
    /\ left = 0 /\ limited = FALSE /\ taken = 0 /\ got = 0 /\ err = ""

\* addPathLimit: the last line for a path counts.
addPathLimit(ls, l) ==
    IF \E i \in DOMAIN ls : ls[i].path = l.path
    THEN [i \in DOMAIN ls |-> IF ls[i].path = l.path THEN l ELSE ls[i]]
    ELSE Append(ls, l)

\* SortPathLimits: the longest path first.
SortPathLimits(ls) == SortSeq(ls, LAMBDA a, b : Len(a.path) > Len(b.path))

Setup ==
    /\ step = "setup" /\ step' = "serve"
    /\ limits' = SortPathLimits(FoldLeft(addPathLimit, <<>>, written))
    /\ UNCHANGED <<written, asked, body, left, limited, taken, got, err>>

\* Limit.ServeHTTP: the first limit whose path matches.
Serve ==
    /\ step = "serve" /\ step' = "read"
    /\ LET hits == {i \in DOMAIN limits : IsPrefix(limits[i].path, asked)} IN
       /\ limited' = (hits # {})
       /\ left' = IF hits = {} THEN 0 ELSE limits[Min(hits)].limit
    /\ UNCHANGED <<written, asked, body, limits, taken, got, err>>

\* One byte more than is allowed is enough to see that the limit is passed.
Asks(k) == IF limited /\ k > left + 1 THEN left + 1 ELSE k

\* Faulty variant: a body that is as long as its limit is refused.
Fits_Strict(n) == ~limited \/ n < left
Fits(n) == ~limited \/ n <= left

\* Read: n bytes of the body arrive with the error e, or without one.  The end of
\* the body is told with its last bytes or after them.
Read ==
    /\ step = "read" /\ err = ""
    /\ \E k \in 1 .. MaxRead :
       \E n \in 0 .. Min({Asks(k), body - taken}), e \in {"", "EOF", "broken"} :
          /\ e = "EOF" => taken + n = body
          /\ e = "" => n > 0
          /\ taken' = taken + n
          /\ IF Fits(n)
             THEN /\ got' = got + n
                  /\ left' = IF limited THEN left - n ELSE left
                  /\ err' = e
             ELSE got' = got + left /\ left' = 0 /\ err' = "large"
    /\ UNCHANGED <<written, asked, body, step, limits, limited>>

\* Every later read fails in the same way.
ReadAgain == step = "read" /\ err # "" /\ UNCHANGED bvars

Next == Setup \/ Serve \/ Read \/ ReadAgain

Spec == Init /\ [][Next]_bvars

---------------------------------------------------------------------------

\* The limit that the Caddyfile asks for: of the longest path that matches, the
\* last line; 0 when there is none.
Wanted ==
    LET hits == {i \in DOMAIN written : IsPrefix(written[i].path, asked)}
        best == {i \in hits : \A j \in hits :
                    Len(written[j].path) <= Len(written[i].path)}
    IN  IF hits = {} THEN 0 ELSE written[Max(best)].limit

\* A handler is given the whole body exactly when the body is not longer than the
\* limit for its path, to the byte; else it is given as much as the limit and told
\* so, whatever the sizes of its reads and of the pieces that arrive.
LimitKept ==
    LET over == Wanted > 0 /\ body > Wanted IN
    /\ Wanted > 0 => got <= Wanted
    /\ err = "EOF" => ~over /\ got = body
    /\ err = "large" => over /\ got = Wanted
=============================================================================
