------------------------------ MODULE MCRouting ------------------------------
(***************************************************************************)
(* What decides where a request goes, each piece on a small instance: the   *)
(* sites and servers made of a Caddyfile, the ClientHello of a connection,  *)
(* the limit on a body and the host of an upstream.  A behaviour is one of  *)
(* the piece that part names.                                               *)
(***************************************************************************)
EXTENDS MCSites

VARIABLES
    part,
    stage, sent, teed, readHello, late, helloInfos,
    field, data, touched,
    entries, asked, size, step, limits, left, limited, taken, given, err,
    up, conns, chosen, robin, policy, walk, i, index, least, count, best, steady, quiet

helloVars == <<stage, sent, teed, readHello, late, helloInfos>>
parseVars == <<field, data, touched>>
limitVars == <<entries, asked, size, step, limits, left, limited, taken, given, err>>
policyVars == <<up, conns, chosen, robin, policy, walk, i, index, least, count, best, steady, quiet>>

T == INSTANCE Hellos WITH
        Conns <- 1 .. 3, Remote <- <<"p", "p", "q">>, HelloLen <- 2, buf <- teed
C == INSTANCE ClientHello WITH
        Sizes <- {0} \cup 41 .. 45 \cup {50, 56, 57}, Fields <- 0 .. 8 \cup {32, 33},
        read <- touched
B == INSTANCE BodyLimit WITH
        LimitPaths <- {<<>>, <<"a">>, <<"a", "b">>}, MaxLimit <- 2, MaxEntries <- 2,
        MaxBody <- 4, MaxRead <- 4,
        written <- entries, body <- size, got <- given
P == INSTANCE Policy WITH
        PoolLen <- 4, RobinRange <- 4, MaxConn <- 1,
        Policies <- {"random", "least_conn", "round_robin", "first", "header"},
        phase <- walk

RInit ==
    /\ part \in {"sites", "hellos", "parse", "limits", "policy"}
    /\ IF part = "sites" THEN Init
       ELSE defs = 0 /\ phase = "" /\ sites = 0 /\ next = 0 /\ servers = 0
    /\ IF part = "hellos" THEN T!Init
       ELSE /\ stage = 0 /\ sent = 0 /\ teed = 0 /\ readHello = 0 /\ late = 0
            /\ helloInfos = <<>>
    /\ IF part = "parse" THEN C!Init ELSE field = "" /\ data = 0 /\ touched = 0
    /\ IF part = "limits" THEN B!Init
       ELSE /\ entries = <<>> /\ asked = <<>> /\ size = 0 /\ step = "" /\ limits = <<>>
            /\ left = 0 /\ limited = FALSE /\ taken = 0 /\ given = 0 /\ err = ""
    /\ IF part = "policy" THEN P!Init
       ELSE /\ up = 0 /\ conns = 0 /\ chosen = 0 /\ robin = 0 /\ policy = "" /\ walk = "" /\ i = 0
            /\ index = 0 /\ least = 0 /\ count = 0 /\ best = 0 /\ steady = {} /\ quiet = FALSE

RNext ==
    /\ UNCHANGED part
    /\ \/ part = "sites" /\ Next
          /\ UNCHANGED <<helloVars, parseVars, limitVars, policyVars>>
       \/ part = "hellos" /\ T!Next
          /\ UNCHANGED <<vars, parseVars, limitVars, policyVars>>
       \/ part = "parse" /\ C!Next
          /\ UNCHANGED <<vars, helloVars, limitVars, policyVars>>
       \/ part = "limits" /\ B!Next
          /\ UNCHANGED <<vars, helloVars, parseVars, policyVars>>
       \/ part = "policy" /\ P!Next
          /\ UNCHANGED <<vars, helloVars, parseVars, limitVars>>

RVars == <<part, vars, helloVars, parseVars, limitVars, policyVars>>
RSpec == RInit /\ [][RNext]_RVars

---------------------------------------------------------------------------

\* Stated in the modules of the pieces.  The redirects of automatic HTTPS lead to a
\* site with TLS and shadow no site.
RedirectsRight == RedirectLeads /\ RedirectYields
\* A site is served with TLS unless it says otherwise, and one that asks for client
\* certificates answers only on connections that were asked for them.
TLSKept == TLSUnlessAsked /\ ClientAuthKept
\* A ClientHello is kept no longer than its connection is served.
TableClean == T!TableClean
\* The parser of a ClientHello stays within the message.
InBounds == C!InBounds
\* A handler is given a body up to the limit for its path, to the byte.
LimitKept == B!LimitKept
\* A policy finds a host that stays available, and the right one if none changes.
SelectRight == P!WalkFindsHost /\ P!QuietSuitable
=============================================================================
