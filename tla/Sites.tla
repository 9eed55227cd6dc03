------------------------------- MODULE Sites -------------------------------
(***************************************************************************)
(* From the site addresses of a Caddyfile to the servers that answer for    *)
(* them: InspectServerBlocks and MakeServers of plugin.go, setupTLS of the  *)
(* tls directive, automatic HTTPS (https.go), the TLS configuration of a    *)
(* listener (caddytls/config.go, handshake.go), NewServer, and the choice   *)
(* of a site for a request (vhosttrie.go, serveHTTP).                       *)
(*                                                                         *)
(* A host is the sequence of its labels, <<"">> when there is none; a path  *)
(* is the sequence of its characters.  A definition is an address as it is  *)
(* written, the host to bind to and the tls directive of its block.         *)
(***************************************************************************)
EXTENDS Naturals, Sequences, SequencesExt, FiniteSets, FiniteSetsExt

CONSTANTS
    Caddyfiles,          \* sequences of site definitions
    HTTPPort, HTTPSPort, \* the values of -http-port and -https-port
    Port,                \* the value of -port
    RequestHosts, RequestPaths,
    Faults               \* "acme": no certificate is issued; "files": one cannot be read

VARIABLES
    defs,      \* the definitions of the Caddyfile
    phase,     \* the stage of start-up
    sites,     \* h.siteConfigs
    next,      \* index of the loop that runs
    servers    \* [listener address -> Server]

vars == <<defs, phase, sites, next, servers>>

DefaultPort == "2015"
NoHost == <<"">>
None == 0

---------------------------------------------------------------------------
(* Addresses.                                                               *)

\* strings.ToLower: "A" is the one label with a capital.
Lower(host) == [i \in DOMAIN host |-> IF host[i] = "A" THEN "a" ELSE host[i]]

\* The port that the scheme implies.
SchemePort(a) ==
    IF a.port # "" THEN a.port
    ELSE IF a.scheme = "http" THEN HTTPPort
    ELSE IF a.scheme = "https" THEN HTTPSPort ELSE ""

\* standardizeAddress: the scheme and the port violate convention.
Unconventional(a) ==
    \/ a.scheme = "http" /\ SchemePort(a) = HTTPSPort
    \/ a.scheme = "https" /\ SchemePort(a) = HTTPPort

\* Address.Key: the port only if the address has it.
Key(a) == [scheme |-> a.scheme, host |-> Lower(a.host), port |-> a.port, path |-> a.path]

FilledPort(a) == IF SchemePort(a) = "" /\ Port # DefaultPort THEN Port ELSE SchemePort(a)

\* Address.String: scheme and port as a browser shows them.
Shown(scheme, host, port, path) ==
    LET s == IF scheme # "" THEN scheme ELSE IF port = HTTPSPort THEN "https" ELSE "http"
        implied == port \in {"", IF s = "https" THEN "443" ELSE "80"}
    IN  [scheme |-> s, host |-> host, port |-> IF implied THEN "" ELSE port, path |-> path]

\* siteAddrs of InspectServerBlocks: the address with the default port filled in.
SiteAddr(a) ==
    Shown(a.scheme, Lower(a.host), IF FilledPort(a) = "" THEN Port ELSE FilledPort(a), a.path)

\* A fresh SiteConfig with its caddytls.Config.
NewSite(def) ==
    [written |-> def.addr, scheme |-> def.addr.scheme, host |-> Lower(def.addr.host),
     port |-> FilledPort(def.addr), listenHost |-> def.bind,
     enabled |-> FALSE, managed |-> FALSE, manual |-> FALSE, selfSigned |-> FALSE,
     onDemand |-> FALSE, off |-> FALSE, clients |-> FALSE, params |-> "default",
     hostname |-> Lower(def.addr.host), strict |-> FALSE, redirPort |-> "none"]

Init ==
    /\ defs \in Caddyfiles
    /\ phase = "inspect"
    /\ sites = <<>> /\ next = 1
    /\ servers = <<>>

\* InspectServerBlocks, one key.
InspectKey ==
    /\ phase = "inspect"
    /\ next <= Len(defs)
    /\ LET a == defs[next].addr IN
       IF \/ Unconventional(a)
          \/ \E i \in DOMAIN sites :
                Key(sites[i].written) = Key(a) \/ SiteAddr(sites[i].written) = SiteAddr(a)
       THEN phase' = "error" /\ UNCHANGED <<sites, next>>
       ELSE sites' = Append(sites, NewSite(defs[next])) /\ next' = next + 1 /\ UNCHANGED phase
    /\ UNCHANGED <<defs, servers>>

InspectEnds ==
    /\ phase = "inspect" /\ next > Len(defs)
    /\ phase' = "tls" /\ next' = 1
    /\ UNCHANGED <<defs, sites, servers>>

---------------------------------------------------------------------------
(* The tls directive and automatic HTTPS.                                   *)

Labels(host) == {host[i] : i \in DOMAIN host}

\* certmagic.HostQualifies: a name that, if it has a wildcard, begins with one.
HostQualifies(host) ==
    /\ host # NoHost /\ host # <<"localhost">>
    /\ "*" \in Labels(host) => host[1] = "*" /\ Len(host) > 1

\* What setupTLS refuses: no argument and no block, or a name for which there
\* is no wildcard.
TLSRefused(t, c) ==
    \/ t.arg = "" /\ t.sub = {}
    \/ /\ t.arg # "off" /\ "wildcard" \in t.sub
       /\ (~HostQualifies(c.hostname) \/ "*" \in Labels(c.hostname) \/ Len(c.hostname) < 3)

\* setupTLS for one site.  "off" returns before the block is read.
SetupTLS(t, c) ==
    IF t.arg = "absent" THEN c
    ELSE IF t.arg = "off" THEN [c EXCEPT !.off = TRUE, !.enabled = FALSE]
    ELSE [c EXCEPT !.enabled = TRUE,
                   !.selfSigned = t.arg = "self_signed",
                   !.manual = t.arg = "cert" \/ "load" \in t.sub,
                   !.onDemand = "max_certs" \in t.sub \/ "ask" \in t.sub,
                   !.clients = "clients" \in t.sub,
                   !.params = IF "protocols" \in t.sub THEN "custom" ELSE "default",
                   !.hostname = IF "wildcard" \in t.sub THEN [@ EXCEPT ![1] = "*"] ELSE @]

SetupStep ==
    /\ phase = "tls" /\ next <= Len(sites)
    /\ LET t == defs[next].tls
           c == SetupTLS(t, sites[next])
       IN  \/ /\ TLSRefused(t, sites[next]) \/ ("files" \in Faults /\ c.manual)
             /\ phase' = "error"
             /\ UNCHANGED <<sites, next>>
          \/ /\ ~TLSRefused(t, sites[next])
             /\ sites' = [sites EXCEPT ![next] = c]
             /\ next' = next + 1
             /\ UNCHANGED phase
    /\ UNCHANGED <<defs, servers>>

QualifiesForManagedTLS(c) ==
    /\ ~c.manual \/ c.onDemand
    /\ ~c.selfSigned /\ c.port # "80" /\ ~c.off
    /\ HostQualifies(c.host) \/ c.onDemand

MarkQualified(c) ==
    IF QualifiesForManagedTLS(c) /\ c.scheme # "http" THEN [c EXCEPT !.managed = TRUE] ELSE c

EnableAutoHTTPS(c) ==
    IF ~c.managed \/ c.onDemand THEN c
    ELSE [c EXCEPT !.enabled = TRUE, !.scheme = "https",
                   !.port = IF @ = "" /\ ~c.manual /\ c.host # <<"localhost">>
                            THEN HTTPSPort ELSE @]

\* activateHTTPS up to the redirects: mark, obtain, enable.
ActivateHTTPS ==
    /\ phase = "tls" /\ next > Len(sites)
    /\ \/ /\ phase' = "redirects" /\ next' = 1
          /\ sites' = [i \in DOMAIN sites |-> EnableAutoHTTPS(MarkQualified(sites[i]))]
       \/ /\ "acme" \in Faults
          /\ \E i \in DOMAIN sites : MarkQualified(sites[i]).managed /\ ~sites[i].onDemand
          /\ phase' = "error"
          /\ UNCHANGED <<sites, next>>
    /\ UNCHANGED <<defs, servers>>

\* Faulty variant: the sites with a path are left out.
hostHasOtherPort_NoPath(i, port) ==
    \E j \in DOMAIN sites \ {i} :
       sites[j].host = sites[i].host /\ sites[j].port = port /\ sites[j].written.path = <<>>
hostHasOtherPort(i, port) ==
    \E j \in DOMAIN sites \ {i} : sites[j].host = sites[i].host /\ sites[j].port = port

redirPort(c) == IF c.port = HTTPSPort THEN "" ELSE c.port

\* The new configuration has no scheme, and no tls setting of its own.
redirPlaintextHost(c) ==
    [written |-> [scheme |-> "", host |-> c.host, port |-> HTTPPort, path |-> <<>>],
     scheme |-> "", host |-> c.host, port |-> HTTPPort, listenHost |-> c.listenHost,
     enabled |-> FALSE, managed |-> FALSE, manual |-> FALSE, selfSigned |-> FALSE,
     onDemand |-> c.onDemand, off |-> FALSE, clients |-> FALSE, params |-> "default",
     hostname |-> NoHost, strict |-> FALSE, redirPort |-> redirPort(c)]

\* One round of makePlaintextRedirects: it ranges over the list it was given and
\* looks for ports in the list it has made so far.
MakePlaintextRedirect ==
    /\ phase = "redirects" /\ next <= Len(defs)
    /\ next' = next + 1
    /\ sites' = IF /\ sites[next].managed
                   /\ ~hostHasOtherPort(next, HTTPPort)
                   /\ sites[next].port = HTTPSPort \/ ~hostHasOtherPort(next, HTTPSPort)
                THEN Append(sites, redirPlaintextHost(sites[next]))
                ELSE sites
    /\ UNCHANGED <<defs, phase, servers>>

\* Certificates due for renewal are renewed before start-up goes on.
RedirectsEnd ==
    /\ phase = "redirects" /\ next > Len(defs)
    /\ phase' = "make"
    /\ UNCHANGED <<defs, sites, next, servers>>

---------------------------------------------------------------------------
(* MakeServers.                                                             *)

\* Faulty variant: client authentication without strict host matching.
Strict_Never(c) == FALSE
Strict(c) == c.clients

\* The first loop of MakeServers, then the default port that
\* groupSiteConfigsByListenAddr fills in.
Prepare(c) ==
    LET port == IF c.enabled /\ c.port = "" /\ ((~c.manual /\ ~c.selfSigned) \/ c.onDemand)
                THEN HTTPSPort ELSE c.port
        http == c.port = HTTPPort \/ c.scheme = "http"
    IN  [c EXCEPT !.enabled = @ /\ ~http,
                  !.scheme = IF c.enabled /\ ~http /\ @ = "" THEN "https" ELSE @,
                  !.port = IF port = "" THEN Port ELSE port,
                  !.strict = c.enabled /\ Strict(c)]

ListenAddr(c) == [host |-> c.listenHost, port |-> c.port]

\* The indices of the sites of a listener, in the order of the list.
Group(cs, addr) == SelectSeq([i \in DOMAIN cs |-> i], LAMBDA i : ListenAddr(cs[i]) = addr)

\* assertConfigsCompatible: client certificate pools are compared by pointer.
Compatible(c1, c2) == c1.params = c2.params /\ ~c1.clients /\ ~c2.clients

\* The errors of MakeTLSConfig: TLS and plain HTTP on one listener, and two
\* configurations for one name that are not compatible.
Refused(cs, g) ==
    \/ \E j \in 2 .. Len(g) : cs[g[j]].enabled # cs[g[j - 1]].enabled
    \/ \E j, k \in DOMAIN g :
          /\ k < j /\ cs[g[j]].enabled
          /\ cs[g[j]].hostname = cs[g[k]].hostname
          /\ \A m \in k + 1 .. j - 1 : cs[g[m]].hostname # cs[g[j]].hostname
          /\ ~Compatible(cs[g[j]], cs[g[k]])

\* configMap: the last configuration for a name stays.
ConfigMap(cs, g) ==
    [name \in {cs[g[j]].hostname : j \in DOMAIN g} |->
        g[Max({j \in DOMAIN g : cs[g[j]].hostname = name})]]

\* splitHostPath of Address.VHost.
VHost(c) == [host |-> Lower(c.written.host),
             path |-> IF c.written.path = <<>> THEN <<"/">> ELSE c.written.path]

\* The branch of a host: a node for every prefix of a path, with the site that
\* was inserted there last.
Branch(cs, g, host) ==
    LET of == {j \in DOMAIN g : VHost(cs[g[j]]).host = host}
        nodes == UNION {Prefixes(VHost(cs[g[j]]).path) : j \in of}
        at(p) == {j \in of : VHost(cs[g[j]]).path = p}
    IN  [p \in nodes |-> IF at(p) = {} THEN None ELSE g[Max(at(p))]]

NewServer(cs, g) ==
    [tls |-> cs[g[1]].enabled,
     configs |-> ConfigMap(cs, g),
     vhosts |-> [h \in {VHost(cs[g[j]]).host : j \in DOMAIN g} |-> Branch(cs, g, h)]]

MakeServers ==
    /\ phase = "make"
    /\ LET cs == [i \in DOMAIN sites |-> Prepare(sites[i])]
           addrs == {ListenAddr(cs[i]) : i \in DOMAIN cs}
           refused == \E a \in addrs : Refused(cs, Group(cs, a))
       IN  /\ sites' = cs
           /\ \/ /\ \/ refused
                    \/ "files" \in Faults /\ \E i \in DOMAIN cs : cs[i].enabled /\ cs[i].clients
                 /\ phase' = "error"
                 /\ UNCHANGED servers
              \/ /\ ~refused
                 /\ phase' = "serving"
                 /\ servers' = [a \in addrs |-> NewServer(cs, Group(cs, a))]
    /\ UNCHANGED <<defs, next>>

Finished == phase \in {"error", "serving"} /\ UNCHANGED vars

Next ==
    \/ InspectKey \/ InspectEnds \/ SetupStep \/ ActivateHTTPS
    \/ MakePlaintextRedirect \/ RedirectsEnd \/ MakeServers \/ Finished

Spec == Init /\ [][Next]_vars

---------------------------------------------------------------------------
(* The choice of a TLS configuration and of a site.                         *)

\* The name, then the name with its labels replaced by wildcards from the left.
Candidates(host) ==
    <<host>> \o [i \in 1 .. Len(host) |->
                    [j \in 1 .. Len(host) |-> IF j <= i THEN "*" ELSE host[j]]]

\* The first of a sequence that is in a set, or Absent.
Absent == <<>>
FirstIn(seq, S) ==
    LET hits == {i \in DOMAIN seq : seq[i] \in S}
    IN  IF hits = {} THEN Absent ELSE seq[Min(hits)]

\* getConfig: the configurations it may return.  The last resort is any of them.
getConfig(s, name) ==
    LET key == FirstIn(Candidates(Lower(name)) \o <<NoHost>>, DOMAIN s.configs)
    IN  IF key = Absent THEN {s.configs[k] : k \in DOMAIN s.configs} ELSE {s.configs[key]}

FallbackHosts == <<<<"0", "0", "0", "0">>, <<"[::]">>, NoHost>>

matchHost(s, host) ==
    FirstIn(FlattenSeq([i \in 1 .. 4 |-> Candidates((<<Lower(host)>> \o FallbackHosts)[i])]),
            DOMAIN s.vhosts)

\* The walk down the branch, and the last site that it meets.
matchPath(branch, path) ==
    LET hits == {k \in 1 .. Len(path) :
                    /\ SubSeq(path, 1, k) \in DOMAIN branch
                    /\ branch[SubSeq(path, 1, k)] # None}
    IN  IF hits = {} THEN None ELSE branch[SubSeq(path, 1, Max(hits))]

Match(s, host, path) ==
    LET h == matchHost(s, host)
    IN  IF h = Absent THEN None ELSE matchPath(s.vhosts[h], path)

\* serveHTTP: the index of the site that answers, None for "no such site", and
\* Forbidden where strict host matching refuses.
Forbidden == 1000
serveHTTP(s, sni, host, path) ==
    LET k == Match(s, host, path)
    IN  IF k # None /\ s.tls /\ sites[k].strict /\ Lower(sni) # Lower(host)
        THEN Forbidden ELSE k

---------------------------------------------------------------------------
(* Properties.                                                              *)

Defined == {i \in DOMAIN sites : sites[i].redirPort = "none"}

\* The redirect that automatic HTTPS adds (redirPlaintextHost) sends a client to
\* a listener that exists, that speaks TLS and that does not redirect again.
RedirectLeads ==
    phase = "serving" =>
       \A a \in DOMAIN servers, h \in RequestHosts, p \in RequestPaths :
          LET k == serveHTTP(servers[a], NoHost, h, p) IN
          k \in DOMAIN sites \ Defined =>
             LET to == [host |-> a.host,
                        port |-> IF sites[k].redirPort = "" THEN HTTPSPort ELSE sites[k].redirPort]
             IN  /\ ~servers[a].tls
                 /\ to \in DOMAIN servers
                 /\ servers[to].tls
                 /\ serveHTTP(servers[to], h, h, p) \notin DOMAIN sites \ Defined

\* A site that the Caddyfile defines is never shadowed by such a redirect: at its
\* own address it is not a redirect that answers (hostHasOtherPort).
RedirectYields ==
    phase = "serving" =>
       \A i \in Defined :
          LET v == VHost(sites[i])
          IN  serveHTTP(servers[ListenAddr(sites[i])], v.host, v.host, v.path) \in Defined

\* A site whose tls block asks for client certificates answers only on a
\* connection whose handshake asked for them, whatever names the client gives in
\* its ClientHello and in its Host header (StrictHostMatching of MakeServers,
\* assertConfigsCompatible).  The wildcard subdirective files the configuration
\* under another name than the site's and is left out.
ClientAuthKept ==
    phase = "serving" =>
       \A a \in DOMAIN servers, sni, h \in RequestHosts, p \in RequestPaths :
          LET s == servers[a]
              k == serveHTTP(s, sni, h, p)
          IN  s.tls /\ k \in DOMAIN sites /\ sites[k].clients
              /\ (\A i \in DOMAIN sites : sites[i].hostname \in {sites[i].host, NoHost})
              => \A c \in getConfig(s, sni) : sites[c].clients

\* A site is served without TLS only if its address or its tls directive says so,
\* or if no certificate can be had for its name and none is given.
TLSUnlessAsked ==
    phase = "serving" =>
       \A i \in Defined :
          ~servers[ListenAddr(sites[i])].tls =>
             \/ sites[i].written.scheme = "http" \/ sites[i].port = HTTPPort
             \/ defs[i].tls.arg = "off"
             \/ defs[i].tls.arg = "absent" /\ ~HostQualifies(sites[i].host)

\* Every site that start-up accepts answers at its own address: the addresses
\* are distinct (the comment in InspectServerBlocks).
EverySiteServed ==
    phase = "serving" =>
       \A i \in Defined :
          LET v == VHost(sites[i])
          IN  Match(servers[ListenAddr(sites[i])], v.host, v.path) = i
=============================================================================
