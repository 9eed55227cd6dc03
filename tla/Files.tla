------------------------------- MODULE Files -------------------------------
(***************************************************************************)
(* A client that asks a site for a file and follows its redirects: the      *)
(* path of the site is trimmed (serveHTTP), then rewrite, ext, browse and   *)
(* the static file server run in the order of the directives.               *)
(*                                                                         *)
(* A URL path is the sequence of what is between its slashes: "/" is        *)
(* <<"">>, "/d/" is <<"d", "">>, "//f" is <<"", "f">> and "" is <<>>.  A     *)
(* site is a record: its path, its files ([paths without slashes -> "dir"   *)
(* or "file"]), the hidden ones, the rewrite rules, the extensions to try,  *)
(* the index pages, and whether browse is on.  The files do not change.     *)
(***************************************************************************)
EXTENDS Naturals, Sequences, SequencesExt, FiniteSets, FiniteSetsExt

CONSTANTS
    Requests,    \* pairs of a site and a URL path
    WithExt      \* the names that have an extension

VARIABLES
    site,
    pc,          \* "request", "rewrite", "ext", "browse", "files", "done"
    get,         \* the method is GET or HEAD
    accept,      \* the encodings that the client accepts
    url,         \* the path that the client asks for
    path,        \* r.URL.Path
    answer       \* [status, file: what is sent, names: what is listed]

pvars == <<site, pc, get, accept, url, path, answer>>

Nothing == [status |-> 0, file |-> <<>>, names |-> {}]

Init ==
    /\ \E r \in Requests : site = r[1] /\ url = r[2]
    /\ pc = "request"
    /\ get \in BOOLEAN /\ accept \in SUBSET {"br", "gzip"}
    /\ path = <<>> /\ answer = Nothing

Status(s) == pc' = "done" /\ answer' = [Nothing EXCEPT !.status = s]

GoOn(next) == pc' = next /\ UNCHANGED <<url, answer>>

---------------------------------------------------------------------------
(* Paths and files.                                                         *)

\* http.Dir.Open and path.Clean take repeated and trailing slashes away.
Clean(p) == SelectSeq(p, LAMBDA s : s # "")
Slash(p) == p # <<>> /\ Last(p) = ""
Kind(p) == IF Clean(p) \in DOMAIN site.files THEN site.files[Clean(p)] ELSE "absent"

Cleaned(p) == Clean(p) \o (IF Slash(p) THEN <<"">> ELSE <<>>)

\* http.Redirect cleans the path that it sends, and the client follows it.
Redirect(p) == pc' = "request" /\ url' = Cleaned(p)

Suffixed(p, ext) == Front(p) \o <<Last(p) \o ext>>

\* Path.Matches
Matches(p, base) == IsPrefix(base, Clean(p))

\* serveHTTP: the path of the site is trimmed; a request outside of it belongs to
\* another site.
Serve ==
    /\ pc = "request"
    /\ IF IsPrefix(site.prefix, url)
       THEN LET rest == SubSeq(url, Len(site.prefix) + 1, Len(url)) IN
            /\ path' = IF rest = <<>> THEN <<"">> ELSE rest
            /\ GoOn("rewrite")
       ELSE Status(404) /\ UNCHANGED <<path, url>>
    /\ UNCHANGED <<site, get, accept>>

---------------------------------------------------------------------------
(* rewrite and ext.                                                         *)

\* A target of a rule: a path, or {path} with or without a slash after it.  {path}
\* is that of the request as it came, the path of the site included.
Target(t) ==
    IF t.is = "path" THEN Cleaned(url)
    ELSE IF t.is = "path/" THEN Clean(url) \o <<"">>
    ELSE t.to

ValidFile(t) == Kind(t) = (IF Slash(t) THEN "dir" ELSE "file")

\* To: the first target that is there, or the last one.
To(rule) ==
    LET valid == {i \in DOMAIN rule.to : ValidFile(Target(rule.to[i]))}
    IN  Target(rule.to[IF valid = {} THEN Len(rule.to) ELSE Min(valid)])

\* Match of a rule: its base, and its pattern or extensions as the paths they take.
RuleMatches(rule, p) == Matches(p, rule.base) /\ (rule.only = {} \/ Clean(p) \in rule.only)

\* ConfigSelector.Select: the longest base, and the first of that length.
Select(p) ==
    LET hits == {i \in DOMAIN site.rules : RuleMatches(site.rules[i], p)}
        longest == {i \in hits : \A j \in hits :
                       Len(site.rules[j].base) <= Len(site.rules[i].base)}
    IN  IF hits = {} THEN 0 ELSE Min(longest)

Rewritten(p) == IF Select(p) = 0 THEN p ELSE To(site.rules[Select(p)])

Rewrite ==
    /\ pc = "rewrite"
    /\ path' = Rewritten(path)
    /\ GoOn("ext")
    /\ UNCHANGED <<site, get, accept>>

\* Ext.ServeHTTP
Assumed(p) ==
    LET there == {i \in DOMAIN site.exts : Kind(Suffixed(p, site.exts[i])) # "absent"}
    IN  IF p = <<>> \/ Slash(p) \/ Last(p) \in WithExt \/ there = {} THEN p
        ELSE Suffixed(p, site.exts[Min(there)])

Ext ==
    /\ pc = "ext"
    /\ path' = Assumed(path)
    /\ GoOn("browse")
    /\ UNCHANGED <<site, get, accept>>

---------------------------------------------------------------------------
(* browse.                                                                  *)

\* Faulty variant: a file is hidden under the path that the Caddyfile names only.
IsHidden_ByPath(f) == path \in site.hide
\* IsHidden: it is one of the hidden files, whatever path has led to it.
IsHidden(f) == f \in site.hide

Children(p) == {f \in DOMAIN site.files : f # <<>> /\ Front(f) = Clean(p)}

\* A directory: a redirect to the path with a slash, the listing without what is
\* hidden, or an index page that the file server is to send.  Other methods are
\* refused (PROPFIND, OPTIONS) or passed on.
Browse ==
    /\ pc = "browse"
    /\ IF site.browse /\ Kind(path) = "dir" /\ get
       THEN IF path # <<>> /\ ~Slash(path)
            THEN Redirect(path \o <<"">>) /\ UNCHANGED answer
            ELSE IF \E f \in Children(path) : Last(f) \in Range(site.index)
            THEN GoOn("files")
            ELSE /\ pc' = "done"
                 /\ answer' = [status |-> 200, file |-> <<>>,
                               names |-> {f \in Children(path) : ~IsHidden(f)}]
                 /\ UNCHANGED url
       ELSE \/ GoOn("files")
            \/ site.browse /\ Kind(path) = "dir" /\ ~get /\ Status(501) /\ UNCHANGED url
    /\ UNCHANGED <<site, get, accept, path>>

---------------------------------------------------------------------------
(* The static file server.                                                  *)

\* Faulty variant: the path of the site is not put back.
Prefixed_Trimmed(p) == IF p = <<>> THEN <<"">> ELSE p
\* The path as the client sees it.
Prefixed(p) == IF site.prefix \o p = <<>> THEN <<"">> ELSE site.prefix \o p

\* The path of a directory ends in a slash; that of a file does not, nor in the
\* name of an index page.
Canonical(p) ==
    LET u == Prefixed(p)
        file == IF Slash(u) THEN Front(u) ELSE u
        page == file # <<>> /\ Last(file) \in Range(site.index)
    IN  IF Kind(p) = "dir" THEN IF Slash(u) THEN u ELSE u \o <<"">>
        ELSE IF page THEN Front(file) \o <<"">> ELSE file

\* The index page that is sent for a directory: the first that can be opened.
IndexOf(p) ==
    LET there == {i \in DOMAIN site.index : Kind(p \o <<site.index[i]>>) # "absent"}
    IN  IF there = {} THEN p ELSE p \o <<site.index[Min(there)]>>

\* The file on disk with the preferred encoding that the client accepts.
Encoded(f) ==
    LET br == Suffixed(f, ".br")
        gz == Suffixed(f, ".gz")
    IN  IF "br" \in accept /\ Kind(br) # "absent" THEN br
        ELSE IF "gzip" \in accept /\ Kind(gz) # "absent" THEN gz ELSE f

SendFile(p) ==
    LET f == Clean(IF Kind(p) = "dir" THEN IndexOf(p) ELSE p)
    IN  IF Kind(f) = "dir" \/ IsHidden(f) THEN Status(404)
        ELSE pc' = "done" /\ answer' = [Nothing EXCEPT !.status = 200, !.file = Encoded(f)]

FileServer ==
    /\ pc = "files"
    /\ IF ~get THEN Status(405) /\ UNCHANGED url
       ELSE IF Kind(path) = "absent" THEN Status(404) /\ UNCHANGED url
       ELSE IF Canonical(path) # Prefixed(path)
       THEN Redirect(Canonical(path)) /\ UNCHANGED answer
       ELSE SendFile(path) /\ UNCHANGED url
    /\ UNCHANGED <<site, get, accept, path>>

\* A file or directory cannot be opened or read, or the query of a listing is refused.
Unreadable ==
    /\ \/ pc = "files" /\ get /\ \E s \in {403, 404, 500, 503} : Status(s)
       \/ pc = "browse" /\ site.browse /\ \E s \in {400, 403, 404, 410, 500} : Status(s)
    /\ UNCHANGED <<site, get, accept, url, path>>

Done == pc = "done" /\ UNCHANGED pvars

Next == Serve \/ Rewrite \/ Ext \/ Browse \/ FileServer \/ Unreadable \/ Done

\* The server answers and the client follows what it is told.
Fair == WF_pvars(Next)

Spec == Init /\ [][Next]_pvars /\ Fair

---------------------------------------------------------------------------

\* Nothing to redirect in what a rule of the site may rewrite to: its last target
\* does not put a slash behind every path, and its own paths are canonical.
StableRules ==
    \A i \in DOMAIN site.rules :
       LET to == site.rules[i].to IN
       /\ Last(to).is # "path/"
       /\ \A j \in DOMAIN to : to[j].is = "fixed" =>
             Canonical(Assumed(to[j].to)) = Prefixed(Assumed(to[j].to))

\* A client that follows the redirects gets an answer, from this site: they do not
\* go round in a circle, with the path that is rewritten or extended included, and
\* they keep the path of the site.  (With browse only for a site without a path:
\* its redirect does not put the path back.)
FilesSettle ==
    StableRules /\ (site.browse => site.prefix = <<>>)
       => <>(pc = "done" /\ IsPrefix(site.prefix, url))

\* A hidden file is neither sent nor listed, whatever path leads to it: slashes, an
\* index page, an extension that is assumed, a rewrite.  (Unless what is hidden is
\* the compressed form of a file that is not.)
HiddenUnserved ==
    (\A f \in DOMAIN site.files : f # <<>> =>
        \A ext \in {".br", ".gz"} : Suffixed(f, ext) \in site.hide => f \in site.hide)
       => answer.file \notin site.hide /\ answer.names \cap site.hide = {}
=============================================================================
