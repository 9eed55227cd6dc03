-------------------------------- MODULE Chain --------------------------------
(***************************************************************************)
(* One request on its way through Server.ServeHTTP and the middleware of a  *)
(* site: down the chain to the handler that answers it, and back with the   *)
(* status code and error each handler returns.  Modelled are the handlers   *)
(* that write an answer, wrap the ResponseWriter or recover from a panic,   *)
(* in the order of the directives (httpserver/plugin.go):                   *)
(*   1 log  2 gzip  3 header  4 errors  5 basicauth, redir, status          *)
(*   6 internal  7 templates  8 the handler: proxy, fastcgi, static files   *)
(* A ResponseWriter is the state w of all wrappers; writing at a place of   *)
(* the chain passes through the wrappers outside that place.                *)
(***************************************************************************)
EXTENDS Naturals, FiniteSets

CONSTANTS
    Configs,            \* what the directives of the site do with the request
    MaxRedirectCount    \* maxRedirectCount of internal

ASSUME MaxRedirectAssumption == MaxRedirectCount \in Nat

VARIABLES
    cfg,      \* member of Configs
    pc,       \* "serve", "down", "leaf", "up", "panic", "done"
    pos,      \* place in the chain
    ret,      \* status code and error returned by the handler at pos + 1
    w,        \* the response and the state of the wrappers
    count,    \* c, the redirects of internal
    leaf,     \* the last call of the handler: fields set, wrote, body, err
    answer,   \* the status code that the handler responsible has decided on
    brokeOff, \* the handler failed, or a page could not be copied, after writing
    logged    \* the status code in the access log, 0 if there is no entry

vars == <<cfg, pc, pos, ret, w, count, leaf, answer, brokeOff, logged>>

Fields == {"redirect", "encoding", "x"}  \* X-Accel-Redirect, Content-Encoding, one deleted by header
Leaf == 8

ConfigType ==
    [site : {"none", "challenge", "mismatch", "chain"},
     log : BOOLEAN, gzip : {"off", "on", "short"}, header : BOOLEAN,
     errors : {"off", "log", "visible"},
     answers : {"none", "basicauth", "redir", "status", "statusError"},
     internal : {"off", "on", "denied"}, templates : {"off", "stream", "buffer"}]

NewBuffer == [wrote |-> FALSE, stream |-> FALSE, status |-> 200, hdr |-> {}, body |-> {}]

NewWriter ==
    [status |-> 0, heads |-> 0, sent |-> {}, body |-> {}, hdr |-> {}, invalid |-> FALSE,
     rec |-> 200,
     gzHead |-> FALSE, compress |-> FALSE, gz |-> FALSE,
     hdWrote |-> FALSE,
     rb |-> NewBuffer]

NotCalled == [hdr |-> {}, wrote |-> FALSE, body |-> FALSE, err |-> FALSE]

Init ==
    /\ cfg \in Configs
    /\ pc = "serve" /\ pos = 1
    /\ ret = [status |-> 0, err |-> FALSE]
    /\ w = NewWriter /\ count = 0
    /\ leaf = NotCalled
    /\ answer = 0 /\ logged = 0
    /\ brokeOff = FALSE

---------------------------------------------------------------------------
(* WriteHeader and Write of the wrappers, outermost first.  A body is the   *)
(* set of the numbers of times its parts are compressed.                    *)

\* net/http: the first header is sent; a status code below 100 is a panic.
ConnHead(x, c) ==
    CASE x.status # 0 -> [x EXCEPT !.heads = 2]
      [] x.status = 0 /\ c = 0 -> [x EXCEPT !.invalid = TRUE]
      [] OTHER -> [x EXCEPT !.status = c, !.heads = 1, !.sent = x.hdr]
ConnBody(x, n) ==
    LET y == IF x.status = 0 THEN ConnHead(x, 200) ELSE x IN [y EXCEPT !.body = @ \cup {n}]

\* ResponseRecorder
RecHead(x, c) == ConnHead(IF cfg.log THEN [x EXCEPT !.rec = c] ELSE x, c)
RecBody(x, n) == ConnBody(x, n)

\* Faulty variant: SkipCompressedFilter is left out.
ShouldCompress_Always(x) == cfg.gzip = "on"

\* SkipCompressedFilter and LengthFilter
ShouldCompress(x) == cfg.gzip = "on" /\ "encoding" \notin x.hdr

\* ResponseFilterWriter
GzHead(x, c) ==
    IF cfg.gzip = "off" THEN RecHead(x, c)
    ELSE LET comp == ShouldCompress(x) IN
         RecHead([x EXCEPT !.gzHead = TRUE, !.compress = comp, !.gz = @ \/ comp,
                           !.hdr = IF comp THEN @ \cup {"encoding"} ELSE @], c)
GzBody(x, n) ==
    LET y == IF cfg.gzip = "off" \/ x.gzHead THEN x ELSE GzHead(x, 200) IN
    RecBody(y, IF y.compress THEN n + 1 ELSE n)

\* putWriter closes the gzip.Writer, if there is one, which writes its last bytes.
GzClose(x) == IF x.gz THEN RecBody([x EXCEPT !.gz = FALSE], 1) ELSE x

\* responseWriterWrapper of header: later calls of WriteHeader are dropped.
HdHead(x, c) ==
    IF ~cfg.header THEN GzHead(x, c)
    ELSE IF x.hdWrote THEN x
    ELSE GzHead([x EXCEPT !.hdWrote = TRUE, !.hdr = @ \ {"x"}], c)
HdBody(x, n) == GzBody(IF cfg.header THEN HdHead(x, 200) ELSE x, n)

\* internalResponseWriter
Redirects(x) == "redirect" \in x.hdr
IwHead(x, c) == IF cfg.internal = "on" /\ Redirects(x) THEN x ELSE HdHead(x, c)
IwBody(x, n) == IF cfg.internal = "on" /\ Redirects(x) THEN x ELSE HdBody(x, n)

ClearHeader(x) == [x EXCEPT !.hdr = @ \ {"redirect", "encoding"}]

\* ResponseBuffer
CopyHeader(x) == [x EXCEPT !.hdr = @ \cup x.rb.hdr]
RbHead(x, c) ==
    IF cfg.templates = "off" THEN IwHead(x, c)
    ELSE IF x.rb.wrote THEN x
    ELSE LET stream == cfg.templates = "stream"
             y == [x EXCEPT !.rb = [@ EXCEPT !.wrote = TRUE, !.status = c, !.stream = stream]]
         IN IF stream THEN IwHead(CopyHeader(y), c) ELSE y
RbBody(x, n) ==
    LET y == IF cfg.templates # "off" THEN RbHead(x, 200) ELSE x IN
    IF cfg.templates = "off" \/ y.rb.stream THEN IwBody(y, n)
                                            ELSE [y EXCEPT !.rb.body = @ \cup {n}]
RbSet(x, fields) ==
    IF cfg.templates = "off" THEN [x EXCEPT !.hdr = @ \cup fields]
                             ELSE [x EXCEPT !.rb.hdr = @ \cup fields]

\* DefaultErrorFunc at several places of the chain.
ConnText(x, c) == ConnBody(ConnHead(x, c), 0)
RecText(x, c) == RecBody(RecHead(x, c), 0)
HdText(x, c) == HdBody(HdHead(x, c), 0)

---------------------------------------------------------------------------
(* Down the chain                                                           *)

Return(status, err) == ret' = [status |-> status, err |-> err]

\* A handler at the current place answers; the one before it goes on.
AnswerHere(status, err, x, shown) ==
    /\ pc' = "up" /\ pos' = pos - 1
    /\ Return(status, err)
    /\ w' = x
    /\ answer' = shown

\* serveHTTP: no site, an ACME challenge, strict host matching, or the chain.
Serve ==
    /\ pc = "serve"
    /\ \/ cfg.site = "none" /\ AnswerHere(0, FALSE, ConnText(w, 404), 404)
       \/ cfg.site = "challenge" /\ AnswerHere(0, FALSE, ConnText(w, 200), 200)
       \/ cfg.site = "mismatch" /\ AnswerHere(403, FALSE, w, 403)
       \/ /\ cfg.site = "chain"
          /\ pc' = "down"
          /\ UNCHANGED <<pos, ret, w, answer>>
    /\ UNCHANGED <<cfg, count, leaf, brokeOff, logged>>

\* log, gzip, header and errors call the next handler first.
Enter ==
    /\ pc = "down" /\ pos <= 4
    /\ pos' = pos + 1
    /\ UNCHANGED <<cfg, pc, ret, w, count, leaf, answer, brokeOff, logged>>

\* basicauth asks for credentials.
BasicAuth ==
    cfg.answers = "basicauth" /\ AnswerHere(401, TRUE, [w EXCEPT !.hdr = @ \cup {"x"}], 401)

\* redir answers with a redirect or a page that redirects.
Redirect ==
    /\ cfg.answers = "redir"
    /\ \/ AnswerHere(0, FALSE, HdText(w, 302), 302)
       \/ AnswerHere(0, FALSE, HdBody(w, 0), 200)

\* status writes a code below 400 and returns the others.
Status ==
    \/ cfg.answers = "status" /\ AnswerHere(0, FALSE, HdHead(w, 200), 200)
    \/ cfg.answers = "statusError" /\ AnswerHere(404, FALSE, w, 404)

\* These three answer the request or pass it on.
Answer ==
    /\ pc = "down" /\ pos = 5
    /\ \/ BasicAuth \/ Redirect \/ Status
       \/ /\ cfg.answers = "none"
          /\ pos' = pos + 1
          /\ UNCHANGED <<pc, ret, w, answer>>
    /\ UNCHANGED <<cfg, count, leaf, brokeOff, logged>>

\* internal: an internal location is not found.
EnterInternal ==
    /\ pc = "down" /\ pos = 6
    /\ \/ cfg.internal = "denied" /\ AnswerHere(404, FALSE, w, 404)
       \/ /\ cfg.internal # "denied"
          /\ pos' = pos + 1
          /\ UNCHANGED <<pc, ret, w, answer>>
    /\ UNCHANGED <<cfg, count, leaf, brokeOff, logged>>

\* templates makes a ResponseBuffer.
EnterTemplates ==
    /\ pc = "down" /\ pos = 7
    /\ pc' = "leaf" /\ pos' = Leaf
    /\ w' = [w EXCEPT !.rb = NewBuffer]
    /\ leaf' = NotCalled
    /\ UNCHANGED <<cfg, ret, count, answer, brokeOff, logged>>

---------------------------------------------------------------------------
(* The handler                                                              *)

\* A field is set by the handler, or by one before it that is not modelled.
LeafSets ==
    /\ pc = "leaf" /\ ~leaf.wrote
    /\ w' = RbSet(w, {"x"})
    /\ UNCHANGED <<cfg, pc, pos, ret, count, leaf, answer, brokeOff, logged>>

\* proxy and fastcgi copy the fields of the response they got and write its status.
LeafHead(c, fields) ==
    /\ pc = "leaf" /\ ~leaf.wrote
    /\ w' = RbHead(RbSet(w, fields), c)
    /\ leaf' = [leaf EXCEPT !.wrote = TRUE, !.hdr = fields]
    /\ answer' = c
    /\ UNCHANGED <<cfg, pc, pos, ret, count, brokeOff, logged>>

\* Writing a body writes the header, too.
LeafBody ==
    /\ pc = "leaf" /\ ~leaf.body
    /\ w' = RbBody(w, IF "encoding" \in leaf.hdr THEN 1 ELSE 0)
    /\ leaf' = [leaf EXCEPT !.wrote = TRUE, !.body = TRUE]
    /\ answer' = IF leaf.wrote THEN answer ELSE 200
    /\ UNCHANGED <<cfg, pc, pos, ret, count, brokeOff, logged>>

\* What the handler has written has left templates.
Visible == leaf.wrote /\ cfg.templates # "buffer"

\* The handler returns: 0 or 200 when it has answered, fastcgi with the error
\* output of the script as an error; else an error code.  When the copy of a body
\* fails fastcgi returns an error code although it has written a header.
LeafReturns(status, err) ==
    /\ pc = "leaf"
    /\ \/ status \in {0, 200} /\ leaf.wrote /\ (err => status = 0)
       \/ status = 0 /\ ~leaf.wrote /\ ~err
       \/ status = 404 /\ ~leaf.wrote
       \/ status = 502 /\ leaf.wrote /\ err
    /\ pc' = "up" /\ pos' = pos - 1
    /\ Return(status, err)
    /\ leaf' = [leaf EXCEPT !.err = err]
    /\ brokeOff' = (brokeOff \/ (status = 502 /\ Visible))
    /\ answer' = CASE status >= 400 -> status
                   [] status < 400 /\ leaf.wrote -> answer
                   [] OTHER -> 200
    /\ UNCHANGED <<cfg, w, count, logged>>

\* The handler panics.
LeafPanics ==
    /\ pc = "leaf"
    /\ pc' = "panic"
    /\ brokeOff' = (brokeOff \/ Visible)
    /\ answer' = 500
    /\ UNCHANGED <<cfg, pos, ret, w, count, leaf, logged>>

---------------------------------------------------------------------------
(* Back up the chain: the handler at pos gets what the next one returns.    *)

Up(p) == pc = "up" /\ pos = p

PassBack == pos' = pos - 1 /\ UNCHANGED <<pc, ret, w, answer>>

\* What templates does with a response that is not buffered, or failed.
NoTemplate == w.rb.stream \/ ret.status >= 300 \/ ret.err

\* StatusCodeWriter
StatusCodeWriter(x) == x.rb.status

\* templates executes the template; the result has the status of the buffer.
UpTemplates ==
    /\ Up(7)
    /\ \/ (cfg.templates = "off" \/ NoTemplate) /\ PassBack
       \/ /\ cfg.templates # "off" /\ ~NoTemplate
          /\ \/ /\ Return(500, TRUE)
                /\ answer' = 500
                /\ w' = w
             \/ LET y == IwHead(CopyHeader(w), StatusCodeWriter(w)) IN
                /\ Return(0, FALSE)
                /\ w' = IF w.rb.body = {} THEN y ELSE IwBody(y, CHOOSE n \in w.rb.body : TRUE)
                /\ UNCHANGED answer
          /\ pos' = pos - 1 /\ pc' = pc
    /\ UNCHANGED <<cfg, count, leaf, brokeOff, logged>>

MayRedirect == count < MaxRedirectCount

\* Faulty variant: the redirects are not counted.
CountRedirect_Never == UNCHANGED count

CountRedirect == count' = count + 1

\* internal sends a redirected request down the chain again.
UpInternal ==
    /\ Up(6)
    /\ \/ /\ cfg.internal # "on" \/ ~Redirects(w)
          /\ PassBack /\ UNCHANGED count
       \/ /\ cfg.internal = "on" /\ Redirects(w) /\ MayRedirect
          /\ CountRedirect
          /\ w' = ClearHeader(w)
          /\ pc' = "down" /\ pos' = 7
          /\ UNCHANGED <<ret, answer>>
       \/ /\ cfg.internal = "on" /\ Redirects(w) /\ ~MayRedirect
          /\ AnswerHere(500, FALSE, ClearHeader(w), 500)
          /\ UNCHANGED count
    /\ UNCHANGED <<cfg, leaf, brokeOff, logged>>

\* errorPage: a page or a line of text is written; when the page cannot be copied
\* to its end the text is written after it.
ErrorPage(x, c) ==
    \/ w' = HdText(x, c) /\ UNCHANGED brokeOff
    \/ w' = HdText(HdText(x, c), c) /\ brokeOff' = TRUE

\* recovery of errors; when errors are visible the panic is shown.
Recovered(x) ==
    LET y == [x EXCEPT !.invalid = FALSE] IN
    IF cfg.errors = "visible" THEN w' = HdText(y, 500) /\ UNCHANGED brokeOff
                              ELSE ErrorPage(y, 500)

\* Faulty variant: the code is returned although the response is written.
Handled_Forgets(err) == Return(ret.status, err)

\* "returning 0 signals that a response has been written"
Handled(err) == Return(0, err)

UpErrors ==
    LET visible == cfg.errors = "visible" /\ ret.err
        y == HdHead(w, ret.status)
    IN
    /\ Up(4)
    /\ \/ /\ cfg.errors = "off" \/ (~visible /\ ret.status < 400)
          /\ UNCHANGED <<ret, w, brokeOff>>
       \/ /\ visible /\ y.invalid
          /\ Recovered(y) /\ Return(0, FALSE)
       \/ /\ visible /\ ~y.invalid
          /\ w' = HdBody(y, 0) /\ UNCHANGED brokeOff
          /\ Handled(TRUE)
       \/ /\ cfg.errors # "off" /\ ~visible /\ ret.status >= 400
          /\ ErrorPage(w, ret.status)
          /\ Handled(ret.err)
    /\ pos' = pos - 1
    /\ UNCHANGED <<cfg, pc, count, leaf, answer, logged>>

\* status, redir, basicauth and header return what they get.
UpPlain ==
    /\ pc = "up" /\ pos \in {3, 5}
    /\ PassBack
    /\ UNCHANGED <<cfg, count, leaf, brokeOff, logged>>

\* gzip answers an error itself, before its writer is closed.
UpGzip ==
    /\ Up(2)
    /\ IF cfg.gzip # "off" /\ ret.status >= 400
         THEN w' = GzClose(RecText(w, ret.status)) /\ Return(0, ret.err)
         ELSE w' = GzClose(w) /\ UNCHANGED ret
    /\ pos' = pos - 1
    /\ UNCHANGED <<cfg, pc, count, leaf, answer, brokeOff, logged>>

\* log answers an error itself, so that the entry records it.
UpLog ==
    LET y == IF ret.status >= 400 THEN RecText(w, ret.status) ELSE w IN
    /\ Up(1)
    /\ IF cfg.log
         THEN /\ w' = y
              /\ ret' = IF ret.status >= 400 THEN [ret EXCEPT !.status = 0] ELSE ret
              /\ logged' = y.rec
         ELSE UNCHANGED <<w, ret, logged>>
    /\ pos' = pos - 1
    /\ UNCHANGED <<cfg, pc, count, leaf, answer, brokeOff>>

\* ServeHTTP answers the errors that are left.
UpServer ==
    /\ Up(0)
    /\ pc' = "done"
    /\ w' = IF ret.status >= 400 THEN ConnText(w, ret.status) ELSE w
    /\ UNCHANGED <<cfg, pos, ret, count, leaf, answer, brokeOff, logged>>

\* A panic unwinds the chain to errors or, through gzip's deferred call, to ServeHTTP.
Unwind ==
    /\ pc = "panic"
    /\ \/ /\ cfg.errors # "off"
          /\ Recovered(w) /\ Return(0, FALSE)
          /\ pc' = "up" /\ pos' = 3
       \/ /\ cfg.errors = "off"
          /\ w' = ConnText(GzClose(w), 500)
          /\ pc' = "done" /\ pos' = 0
          /\ UNCHANGED <<ret, brokeOff>>
    /\ UNCHANGED <<cfg, count, leaf, answer, logged>>

Finished == pc = "done" /\ UNCHANGED vars

Next ==
    \/ Serve \/ Enter \/ Answer \/ EnterInternal
    \/ EnterTemplates \/ LeafSets
    \/ \E c \in {200, 404}, fields \in SUBSET {"redirect", "encoding"} : LeafHead(c, fields)
    \/ LeafBody \/ LeafPanics
    \/ \E status \in {0, 200, 404, 502}, err \in BOOLEAN : LeafReturns(status, err)
    \/ UpTemplates \/ UpInternal \/ UpErrors \/ UpPlain \/ UpGzip \/ UpLog \/ UpServer
    \/ Unwind \/ Finished

Spec == Init /\ [][Next]_vars
FairSpec == Spec /\ WF_vars(Next)

---------------------------------------------------------------------------
(* Properties                                                               *)

\* The handler has answered and returns an error for the log, which errors shows to
\* the client or for which templates gives up the buffered answer.
ErrorHidesAnswer ==
    leaf.wrote /\ leaf.err /\ (cfg.errors = "visible" \/ cfg.templates = "buffer")
Regular == ~brokeOff /\ ~ErrorHidesAnswer

\* A response header is written at most once, whoever answers ("This signals to other
\* handlers before it that the response is already handled, and that they should
\* not write to it also", httpserver/middleware.go: 44-47).
HeaderOnce == Regular => w.heads <= 1

Sent == IF w.status = 0 THEN 200 ELSE w.status

\* The client gets the status code that the handler responsible has decided on,
\* whichever of the handlers before it are configured to write the response.
StatusKept == pc = "done" /\ Regular => Sent = answer

\* The access log has the status code that the client gets (log.go: 56-57).
LogTells == logged # 0 /\ pc = "done" /\ Regular => logged = Sent

\* The client can decode the body: it is compressed once if the header says so, else
\* not at all.
EncodingTold ==
    Regular => \A n \in w.body : n = IF "encoding" \in w.sent THEN 1 ELSE 0

\* A redirect to an internal location is not shown to the client
\* (internalsrv/internal.go: 29-31).
RedirectHidden == cfg.internal = "on" /\ ~brokeOff => "redirect" \notin w.sent

\* With errors configured, a field that header deletes is never sent, also when it
\* is set later (header.go: 111-112).
DeletedUnsent == cfg.header /\ cfg.errors # "off" => "x" \notin w.sent

\* The answer is one: a single header, with the status code decided on and logged.
OneAnswer == HeaderOnce /\ StatusKept /\ LogTells

\* The fields that are sent are right: they tell the encoding of the body, and
\* neither a redirect that is internal nor a deleted field is among them.
FieldsRight == EncodingTold /\ RedirectHidden /\ DeletedUnsent

\* Every request ends, whatever redirects and panics.
RequestEnds == <>(pc = "done")
=============================================================================
