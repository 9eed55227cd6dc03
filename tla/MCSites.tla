------------------------------ MODULE MCSites ------------------------------
(* Sites for TLC: all pairs of definitions of a small set, and triples of a    *)
(* smaller one that has a name, a wildcard for it and a path below it.         *)
EXTENDS Sites

Addr(scheme, host, port, path) == [scheme |-> scheme, host |-> host, port |-> port, path |-> path]
Tls(arg, sub) == [arg |-> arg, sub |-> sub]
Def(addr, bind, tls) == [addr |-> addr, bind |-> bind, tls |-> tls]

NoTls == Tls("absent", {})
Directives ==
    {NoTls, Tls("off", {}), Tls("email", {}), Tls("self_signed", {}), Tls("cert", {}),
     Tls("", {}), Tls("", {"clients"}), Tls("", {"max_certs"}), Tls("email", {"protocols"})}

ab == <<"a", "b">>

\* Every kind of address with every directive that goes with it.
Pairs ==
    LET plain == {Def(Addr(s, h, p, <<>>), "", NoTls) :
                     s \in {"", "http", "https"}, p \in {"", "80", "443", "2015"},
                     h \in {NoHost, ab, <<"A", "b">>}}
        more == {Def(Addr("", h, p, <<>>), "", t) :
                     h \in {ab, NoHost}, p \in {"", "8443"}, t \in Directives}
        below == {Def(Addr("", h, "", w), "", t) :
                     h \in {ab, NoHost}, w \in {<<"/">>, <<"/", "x">>},
                     t \in {NoTls, Tls("off", {}), Tls("", {"clients"})}}
        bound == {Def(Addr(s, ab, "", <<>>), "lo", NoTls) : s \in {"", "http", "https"}}
        odd == {Def(Addr("", <<"localhost">>, "", <<>>), "", NoTls),
                Def(Addr("", <<"c", "a", "b">>, "", <<>>), "", Tls("", {"wildcard"})),
                Def(Addr("", ab, "", <<>>), "", Tls("", {"wildcard"})),
                Def(Addr("", <<"*", "b">>, "", <<>>), "", NoTls),
                Def(Addr("http", ab, "", <<"/">>), "", NoTls),
                Def(Addr("", ab, "", <<>>), "", Tls("", {"load"}))}
    IN  plain \cup more \cup below \cup bound \cup odd

Triples ==
    {Def(Addr("", h, "443", p), "", t) :
        h \in {ab, <<"*", "b">>, NoHost}, p \in {<<>>, <<"/", "x">>},
        t \in {Tls("email", {}), Tls("email", {"clients"})}}

MCCaddyfiles == (Pairs \X Pairs) \cup (Triples \X Triples \X Triples)

MCRequestHosts == {NoHost, ab, <<"A", "b">>, <<"q", "b">>, <<"q">>}
MCRequestPaths == {<<"/">>, <<"/", "x">>, <<"/", "x", "y">>}
=============================================================================
