------------------------------ MODULE MCFiles ------------------------------
(* Sites with files for TLC: a tree with an index page, hidden files, compressed *)
(* ones and a directory that is called like the path of the site.                *)
EXTENDS Naturals, Sequences, FiniteSets

VARIABLES site, pc, get, accept, url, path, answer

Tree ==
    LET dirs == {<<>>, <<"d">>, <<"e">>, <<"s">>, <<"s", "d">>}
        files == {<<"f.html">>, <<"f.html.gz">>, <<"h.html">>, <<"d", "index.html">>,
                  <<"d", "f.html">>, <<"e", "h.html">>, <<"e", "h.html.br">>}
    IN  [p \in dirs \cup files |-> IF p \in dirs THEN "dir" ELSE "file"]

Fixed(p) == [is |-> "fixed", to |-> p]
Path == [is |-> "path"]
PathSlash == [is |-> "path/"]
Rule(base, only, to) == [base |-> base, only |-> only, to |-> to]

\* No rule; a front controller; rules for one path and for a base; a slash is tried
\* first; and the one that FilesSettle leaves out.
Rules ==
    {<<>>,
     <<Rule(<<>>, {}, <<Path, PathSlash, Fixed(<<"f.html">>)>>)>>,
     <<Rule(<<>>, {<<"old">>}, <<Fixed(<<"d", "">>)>>), Rule(<<"d">>, {}, <<Fixed(<<"h">>)>>)>>,
     <<Rule(<<>>, {}, <<PathSlash, Path>>), Rule(<<"e">>, {}, <<Fixed(<<"h.html">>)>>)>>,
     <<Rule(<<>>, {}, <<PathSlash>>)>>}

NoSite == [prefix |-> <<>>, files |-> Tree, hide |-> {}, rules |-> <<>>, exts |-> <<>>,
           index |-> <<"index.html">>, browse |-> FALSE]
Hidden == {<<"h.html">>, <<"d", "index.html">>, <<"e", "h.html">>, <<"e", "h.html.br">>}

FileSites ==
    {[NoSite EXCEPT !.prefix = p, !.hide = h, !.rules = r, !.exts = <<".html">>, !.browse = b] :
        p \in {<<>>, <<"s">>}, h \in {Hidden}, r \in Rules, b \in {FALSE}}
    \cup {[NoSite EXCEPT !.prefix = p, !.hide = Hidden, !.rules = r, !.browse = TRUE] :
             p \in {<<>>, <<"s">>}, r \in {<<>>, <<Rule(<<>>, {}, <<Path, PathSlash>>)>>}}
    \cup {[NoSite EXCEPT !.index = <<"f.html", "index.html">>]}

\* A doubled slash goes with neither a path of the site nor browse.
Requests ==
    LET names == {<<"d">>, <<"f">>, <<"h">>, <<"e", "h">>, <<"old">>, <<"d", "index.html">>}
        below == {<<"">>} \cup names \cup {p \o <<"">> : p \in names}
        doubled == {<<"">> \o p : p \in below}
        within == {<<"s">> \o p : p \in below \cup {<<>>}}
    IN  {r \in FileSites \X below : r[1].prefix = <<>>}
        \cup {r \in FileSites \X doubled : r[1].prefix = <<>> /\ ~r[1].browse}
        \cup {r \in FileSites \X within : r[1].prefix # <<>>}

INSTANCE Files WITH WithExt <- {"index.html", "f.html", "h.html"}
=============================================================================
