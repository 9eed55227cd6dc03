# A TLA+ model of iotacaddy

This directory is the formal model of iotacaddy: Caddy 1 (a web server that is
configured by a Caddyfile and reloads it without dropping a connection) with the
`iota` plugin, which answers `attachToTangle` requests with a proof of work. The
TLA+ modules describe the parts of the program that run concurrently or keep
state over time. TLC checks them on small instances, and TLAPS proves the most
important invariants for every value of the constants.

Source paths are relative to `src/`.

## 1. Inventory of the system

| Part | State | Operations | What makes it hard |
|---|---|---|---|
| Process lifecycle (`caddy.go`, `sigtrap*.go`, `caddy/caddymain/run.go`) | list of instances and its mutex, servers and listeners of each, a shared WaitGroup, `shutdownCallbacksOnce` | Start, Restart, Stop, Wait, the handlers of INT, TERM, QUIT, USR1, USR2 | three goroutines, reloads that fail or panic at any step, servers that end while a reload runs |
| Event hooks (`plugins.go`, `onevent/`) | table of hooks | register, purge, restore, emit | a reload empties the table for a while |
| Binary upgrade (`upgrade.go`) | child process, pipe | start the child, hand over listeners, wait for its answer | parent and child run at the same time |
| `iota` plugin (`iota/plugin.go`) | one mutex, two package variables | setup, `ServeHTTP` | the limits are shared by all sites and reloads, the mutex is kept across calls |
| Telemetry client (`telemetry/telemetry.go`) | `updating`, the timer, disabled keys, the reply | StartEmitting, StopEmitting, emit, collection | timer, stop and collection run concurrently; retries; the server steers the client |
| Telemetry buffer (`telemetry/collection.go`) | a map of typed entries, a count of items | Set, SetNested, Append, AppendUnique, Add, reset | five functions that must count alike and agree on types |
| Reverse proxy (`caddyhttp/proxy/`) | per host Conns, Fails, Unhealthy; per request the body, the path and the clock | the retry loop, failure timeouts, health checks, Stop | counters changed by many goroutines, a request that is sent more than once, panics |
| Policies (`caddyhttp/proxy/policy.go`) | `robin` | six Select methods | loops over hosts that change meanwhile, arithmetic modulo the pool |
| HTTP server (`caddyhttp/httpserver/server.go`) | listener, http.Server, connection timeouts | Listen, Serve, Stop, dispatch | graceful stop with a deadline |
| Caddyfile (`caddyfile/`) | token cursor, import stack | lex, parse, dispense | nested blocks, imports that splice tokens |
| Sites and virtual hosts (`plugin.go`, `vhosttrie.go`) | site configurations, trie of hosts and paths | parsing of addresses, grouping by listener, insert, match | an address is adjusted in five places; wildcards, longest match, fall-back hosts |
| TLS (`caddytls/`, `https.go`) | configurations, ticket keys | the tls directive, redirects, selection, rotation | redirects depend on all other sites; a goroutine rotates keys while handshakes read them |
| Detection of interception (`mitm.go`) | table of ClientHellos | Read, ConnState, parsing | pieces of a message, addresses that are used again, lengths stated by the client |
| Answers and tunnels of the proxy (`reverseproxy.go`) | buffers, two copying goroutines, a flushing one | upgrade, copying, trailers | bytes read ahead of the copying, either side may leave at any step |
| FastCGI (`caddyhttp/fastcgi/`) | buffered writer, stream reader, deadlines | parameters, body, records, response | framing, a backend that stalls or goes |
| WebSocket (`caddyhttp/websocket/`) | connection, child process, two pipes | serveWS, two pumps, pinger | four parties that wait for each other |
| Files (`staticfiles`, `browse`, `rewrite`, `extensions`) | the path of a request | `ServeHTTP` of each | redirects that meet rewrites, hidden files |
| Body limits (`caddyhttp/limits/`) | list of limits, reader | setup, Read | the last byte |
| Middleware (`basicauth`, `errors`, `gzip`, `header`, `internal`, `log`, ...) | mostly none | `ServeHTTP` | who writes the response, buffering |
| Simple directives (`bind`, `index`, `root`, ...) | a field of the configuration | setup | none |

How they interact: the lifecycle starts and stops servers and runs the callbacks
that other parts have registered (telemetry's StopEmitting, the proxy's Stop,
the closing of logs). A reload executes every directive's setup, the one of
`iota` included, while requests of the old instance are served. The middleware of
a site hands a request to `iota` and `iota` to the next handler, normally the
proxy, which asks a policy for a host. Start-up makes the servers out of the
Caddyfile's sites; Serve starts the rotation of ticket keys and Stop ends it.

## 2. Modules

| Module | Models | Proofs |
|---|---|---|
| `Lifecycle` | process lifecycle, hooks, the parent's side of an upgrade, graceful stop | `LifecycleProofs` |
| `Interceptor` | the `iota` plugin | `InterceptorProofs` |
| `Telemetry` | the update cycle | `TelemetryProofs` |
| `TelemetryBuffer` | the five collection functions | |
| `Proxy` | the retry loop, host counters, health checks, Stop | `ProxyProofs` |
| `Tunnel` | upgraded connections of the proxy; implements `Pipe` twice | `TunnelProofs` |
| `Response` | other answers of the proxy: body, flushing, trailers | `ResponseProofs` |
| `Pipe` | abstract: what a stream between two peers promises | |
| `Policy` | the load balancing policies | |
| `FastCGI` | a request to a FastCGI backend; its output implements `Pipe` | |
| `WebSocket` | the child process behind a websocket | |
| `Files` | static files with browse, rewrite and ext | |
| `BodyLimit` | the limits on request bodies | |
| `Sites` | from the addresses of a Caddyfile to the site that answers; automatic HTTPS | |
| `Hellos` | the table of ClientHellos | |
| `ClientHello` | the parser of a ClientHello | `ClientHelloProofs` |
| `Tickets` | the rotation of session ticket keys | `TicketsProofs` |
| `Lexer` | the lexer of the Caddyfile | |
| `Dispenser`, `Parser` | the token cursor, the parser, the loops of a setup function | |
| `Chain` | a request through `Server.ServeHTTP` and the middleware | |

The `MC...` modules choose instances for TLC. Four of them hold several
components in one run: `MCHandlers` (interceptor, files, FastCGI, tunnel,
answer, websocket, tickets), `MCRouting` (sites, hellos, parser of a ClientHello,
body limits, policies), `MCParser` (lexer, parser) and `MCTelemetry` (client,
buffer). Their variable `part` names the component that a behaviour is about,
and the others rest. Nothing is composed by it: the run is the union of the
runs of its components, each of which keeps its own specification and fairness.

An operator whose name has a suffix after an underscore (`Without_Kept`,
`Fits_Strict`) is a faulty variant of the operator that follows it. No
specification uses it. Substituted for the operator it breaks the property that
`PROJECT.json` names with it, which shows that the property depends on the code.

### Lifecycle

The variables are the package variables of `caddy.go` and `sigtrap.go`
(`instances`, `instancesMu`, `wg`, `once`), the open listeners (`lfd`) and the
running goroutines (`serve`, `packet`) of all servers, and the locals of the
goroutines `main`, `posix` (SIGTERM, SIGQUIT, SIGUSR1, SIGUSR2, one at a time) and
`sigint`. An instance is a number, a server an instance with an address. Start
and Restart share the actions `AppendInstance`, `ExecuteDirectives`,
`RunStartupCallbacks`, `Listen`, `SpawnServers` and `Unlist`. Restart adds
`RunRestartCallbacks`, `StopServer`, `SpliceOut`, `ShutdownOld`, `EndRestart`,
`RestartFailed` and `RestartRecovered`. `Faults` selects what may go wrong:
directives, callbacks and listeners that fail, panics, and signals that arrive
before Start has returned. Servers end on their own only after Shutdown or when
their listener is closed, as in `Server.Serve`.

### Interceptor

A request goes through `Receive`, `Parse`, `Lock`, `CheckBundle`, `DoPoW` and
`Respond`, with an early return or a call of the next handler at every point where
the code has one. `setup` runs argument by argument (`SetupArg`), because it
assigns the package variables as it goes. `granted` is a history variable: the limits
that the Caddyfile grants to the site that received the request. The content
of a request is a record of the facts the handler tests.

### Telemetry and TelemetryBuffer

`emit` is run by the goroutines of the timer (`Runs`) and by callers of
StopEmitting (`Stoppers`), step by step between its accesses to shared variables.
`PostFails`, `PostRefused` and `PostAnswered` are the outcomes of an attempt.
Collection is in two steps, because `isDisabled` is asked before the buffer is
locked. The contents of the buffer are in a module of their own: an entry is its
kind with its length or its members.

### Proxy and Policy

`Proxy` has one process per request (`Receive`, `Select`, `PolicySelect`, `Send`,
`TripEnds`, `TripFails`, `Retry`), one goroutine for each failure that is
remembered (`sleeping`, `FailTimeoutEnds`), the health check worker and the
caller of Stop. `PolicySelect` allows what any policy may do: take an available host, or
find none if some host is not available. `Policy` has the loops themselves. A
step is one iteration, for `LeastConn` one read of `Conns`, and between steps
the hosts change. `steady` and `quiet` are history variables: the hosts that have
been available throughout the call, and whether none has changed.

### Tunnel, Response and Pipe

`Tunnel` begins with the round trip, in which the transport reads ahead of the
answer (`held["down"]`, the Replay of connHijackerTransport) and the server ahead
of the hijack (`held["up"]`). `WriteReplay`, `WriteBuffered` and the copiers (one
per direction, a read and a write apart) pass the units on; `proxyDone` is the
channel in which the copiers report. A peer sends or leaves at any time.

`Pipe` says what a stream promises: the sink has a prefix of what the source has
sent and gets no more after the end. `Up` and `Down` instantiate it with the units
that a peer has sent, those that the other has received and the end of the copier,
and `TunnelPipes` says that `Tunnel` implements both. `FastCGI` implements it with
the units of standard output.

`Response` is the other branch: the header with the Trailer field, `copyResponse`
with the goroutine of `maxLatencyWriter` and its lock, and the trailers after the
body, which are prefixed when they were not announced. What net/http does with
them is external.

### FastCGI and WebSocket

`FastCGI` has the handler's stages (parameters, body, reading of records, answer),
the buffered writer with its sticky error, the records on the way and two
deadlines. `writePairs` fills a record and flushes it when the next pair does not
fit; a pair longer than a record is cut. The backend reads, writes output or
errors, ends the request, or goes away, whenever it likes.

`WebSocket` is serveWS with pumpStdin on its own goroutine, pumpStdout, pinger and
a child that may or may not read, write and heed an interrupt. The client may
leave and the child exit at any time.

### Files and BodyLimit

In `Files` a client asks for a path and follows redirects. `Serve` trims the path
of the site, then `Rewrite`, `Ext`, `Browse` and `FileServer` run in
the order of the directives. A URL path is the sequence of what stands between its
slashes, so that a closing or a doubled slash is an empty name; opening a file
takes these away as `path.Clean` does. Errors of the file system are any of the
status codes the code maps them to.

`BodyLimit` has addPathLimit, SortPathLimits, the choice of a limit and
maxBytesReader, whose Read gets a buffer of any size and any part of it filled.

### Sites

A definition is an address as written, the host to bind to and the tls directive.
The stages are those of start-up: `InspectKey` for every address (its parsing and the
check for duplicates), `SetupStep` (setupTLS), `ActivateHTTPS` (qualification,
certificates, enabling), `MakePlaintextRedirect` for every site, and `MakeServers`
(`Prepare`, grouping by listener, the compatibility of configurations,
NewServer). Then `serveHTTP` and `getConfig` are operators:
the site for a host and a path (`Match`, with the fall-backs of vhosttrie.go), and
the TLS configuration for the name of a handshake.

### Hellos, ClientHello and Tickets

`Hellos` has connections with their remote addresses; a Read returns any number of
the units that are next, and CloseSocket and StateClosed are two steps, because
an address is free after the first. `ClientHello` is the walk of
parseRawClientHello: a length field is any number, and `read` are the bytes that a
step touches. `Tickets` is standaloneTLSTicketKeyRotation with Serve and Stop of
its server; `front` is a history variable, the key that sealed after each tick.

### Lexer, Dispenser and Parser

`Lexer` reads one rune per step; the variables are the locals of `next` and the
positions at which a token begins and ends, which only the properties use. In
`Parser` a step is one iteration of a loop of `parse.go`: `ParseOne` (parseAll),
`Address`, `Begin`, `Snippet`, `Directives` and `Directive`. The three places that
import share `CanImport` and `Spliced`. After parsing, `Execute` and `CallSetup`
are `executeDirectives`, and `Setup` reads the tokens of a directive with the
operators of `Dispenser`, in the loops that most setup functions have (the map
names the one of `rewrite`). A token is its text, file and line. `consumed` is a history
variable: the positions of the tokens in the order of their use.

### Chain

The position in the chain goes down to the handler and back up with the status code
and error that are returned. The handlers are those that answer, wrap the
ResponseWriter or recover from panics, in the order of the directives. The `iota`
directive comes before all of them in that order, so that its errors reach
`ServeHTTP` directly; it is not part of this chain. `w` is the response with the state of every
wrapper, and `RbHead`, `IwHead`, `HdHead`, `GzHead`, `RecHead` and `ConnHead` are the
WriteHeader methods from the inside to the outside. The body is abstracted to how
often its parts are compressed. Which rules match is fixed by `cfg`, all
combinations of it are initial states. `answer` and `brokeOff` are history
variables: the status code decided on, and whether a handler failed after writing.

## 3. Runs

| Run | Instance | Shows |
|---|---|---|
| `Lifecycle` | 2 addresses, 3 instances; TERM, QUIT, USR1, USR2; faults in setup, callbacks and listening | the WaitGroup counts right, Wait holds the process, no address of the active configuration goes unserved, a reload never ends the process, hooks and callbacks follow the instance |
| `LifecycleLive` | 1 address, 2 instances, 1 busy server; INT, TERM, USR1; faults in setup and OnShutdown, panics | SIGTERM ends the process; every reload ends |
| `LifecycleKeepsOld` | USR1, failing OnShutdown | violation, see section 6 |
| `InterceptorBody` | 1 request that is no command | violation |
| `Telemetry` | client: 2 keys, one of them disabled by the user; 1 stopper, 1 update by the timer after the first; marshal failures. Buffer: 3 keys, 2 values, 4 items | one update at a time, one cycle, none lost, nothing sent that the user disabled, every update ends; the count covers the contents |
| `Proxy` | 2 requests, 2 hosts, max_conns, max_fails, fail_timeout and try_duration 1, 2 tries | Conns and Fails are exact, a retried request has its body, Stop waits for the worker; requests and Stop end |
| `Parser` | lexer: every text of up to 5 runes of 8 kinds. Parser: every sequence of up to 4 words of 7 kinds on one or more lines; longer Caddyfiles with a snippet, imports and up to 2 free words in a block | tokens have the right lines and texts and nothing is lost; every token is used once and in order, blocks are balanced, parser and setup functions end |
| `Chain` | all combinations of log, gzip, header, errors, basicauth, redir, status, internal and templates; 2 internal redirects | one header, the status for client and log, a body that can be decoded, hidden and deleted fields, an end |
| `Routing` | all pairs of 91 and triples of 12 site definitions, 5 request hosts, 3 paths; 3 connections, two of them with one address; messages of 0 to 57 bytes; 2 body limits, bodies and buffers up to 4 bytes; 4 hosts, all policies | redirects lead to a site with TLS and shadow none; a site has TLS unless it says otherwise, and client certificates cannot be avoided; the table holds no hello of a connection that is gone; the parser stays in bounds; limits are exact; policies find the right host |
| `SitesServed` | the same Caddyfiles | violation |
| `HelloIntact` | 1 connection | violation |
| `Handlers` | interceptor: 2 requests, all messages, 1 site, 1 load; files: 15 sites on one tree; FastCGI: 2 parameters, a record of 3 units, 2 records of output; tunnel: 2 units in each direction; answer: 2 trailers, 2 chunks; websocket: 2 lines; tickets: 4 keys, 6 ticks | the mutex and the limits; redirects end and hidden files stay hidden; records are whole and the output is a stream; tunnels are streams and end; trailers arrive; child, pumps and the key rotation end |

Why the bounds are enough. Three instances are a running one, one that fails and
one that succeeds; a fourth meets the same list of at most two instances. Two
addresses make it possible that one listener opens and the next fails, and that
a reload drops, keeps and adds an address. Two requests contend for the mutex and for a host; a
third would wait like the second. The telemetry cycle returns to its first state
after an update. Four items fill the buffer with three keys and leave it when it
is reset. Two hosts are the least for which the body is buffered and a policy
asked. Four hosts are the least power of two on which the steps of
`hostByHashing` differ from a linear walk. `RobinRange` 4 stands for 2^32, which
is a multiple of the pool's length there too; the counter wraps around in
the run. `MaxConn` 1 lets `least_conn` meet more, equal and fewer connections.
Five runes are enough for a quoted token with an
escape or a line break and a neighbour. Four words are an address, a brace, a directive
and its brace; what needs more (snippets, imports within blocks) is in the
longer inputs. These leave out what does not end in the code either: cycles of
imports, and blocks closed on the line on which they open (section 6). Two
redirects reach the limit of `internal` from below and at it.

Sites interact in pairs (a redirect with the site it might shadow, two
configurations of a listener), and in triples where a name, a wildcard and a
fall-back are chosen from. Two connections that use an address one after the
other and one with another address show every way to delete the wrong entry. The
sizes of a ClientHello are those around the first check (42) and large enough for
two extensions. A limit of 2 with bodies and buffers up to 4 has all cases around
the limit; two lines are an order. In FastCGI one parameter fits in a record
and the other is longer than one, and a connection holds 2 records, so that both
sides can be blocked. Two units in a direction are one that is read ahead and one
that is copied, or two in one chunk. Six ticks with four keys push keys out. The
pumps repeat after one line; two fill the pipe while the pump is in a send.

`CHECK_DEADLOCK FALSE` is set where the system may stop: all
requests of the proxy served, the telemetry cycle ended.

Fairness. Goroutines that can run are scheduled. In `Lifecycle`
the goroutines that lock a mutex have strong fairness, because Go's `sync.Mutex` hands
the lock over to a waiter that has starved for a millisecond. In `Telemetry` an
attempt ends because the HTTP client has a timeout. In `Proxy` a round trip ends
(dial, TLS and response timeouts, or the end of the connection), sleeps end, and
the worker that finds both its ticker and the stop channel ready again and
again takes the stop channel in the end, because `select` chooses at random. The
governor of the ticket keys has strong fairness for the same reason. `TimePasses`
has strong fairness: the clock is read at one point of the loop only and time
has passed there. In `FastCGI` the deadlines pass; nothing is assumed of the
backend. In `Tunnel` nothing is assumed of the peers. In `WebSocket` a child that
heeds interrupts exits after one, and one that reads takes its input; a read of a
connection whose client has gone ends. The handler at the end of `Chain` is assumed
to return. `Parser`, `Chain` and `Files` are one goroutine each, which runs. No
liveness is claimed of `Interceptor`; a request that could wait for ever for the
mutex would be a deadlock of the run.

## 4. Proofs

Every theorem has the form `Spec => []P`, or `Spec => Abstract` for the
refinement, and holds for all values of the
constants that satisfy the named assumptions: finite sets of addresses and
requests, bounds that are natural numbers.

- `LifecycleProofs`. `WaitGroupCount` alone is not inductive: that `SpawnServers`
  adds as many goroutines as it adds to the WaitGroup needs that the instance had none before. `IInv`
  adds `PcInv` (the posix goroutine is inside Restart exactly between `Add` and
  `Done`) and `FreshInv` (the instance that is starting has a number no
  server goroutine has). From it: `Typing` (the WaitGroup is never negative),
  `WaitGroupCorrect` and `WaitCorrect` (main cannot return during a
  reload). The proof has one lemma per action.
- `InterceptorProofs`. `MutexHeld` is inductive with the types: each label of the
  critical section is entered from another one or by `Lock`. `OnePoW`, one
  proof of work at a time, follows.
- `TelemetryProofs`. The invariant says that `updating` is set exactly
  while one goroutine is inside, and that a permanent key is in `disabled` with the mark
  "permanent" as long as the server does not disable it (`PermanentCorrect`
  assumes that, and section 6 says why it has to).
- `ProxyProofs`. `ConnsCount` equates a counter with the cardinality of a set, so
  every lemma says how `OnHost` changes. `HostChosen` (a request that sends or is
  on its way has a host) makes the counter that is decremented the one that was
  incremented. `BodyCorrect` assumes that retries happen with several hosts
  only, which is needed (section 6).
- `ClientHelloProofs`. `InBoundsCorrect`: no step of the parser reads beyond the
  message, for messages of any length and any values of their length fields. The
  invariant is that the remaining length is a natural number and covers what was read.
- `TicketsProofs`. `TicketWindowCorrect`, for every number of keys and of ticks: the
  invariant says that the keys installed are the last `NumTickets` of `front`, newest
  first, and that there are none before the first key.
- `ResponseProofs`. `AnswerCorrect`, for every set of trailers and every number of
  chunks: the invariant says that the trailers declared are those announced, that all
  are set when the handler returns, and that the lock is held by the flushing goroutine
  exactly while it flushes, which it does not after the copying.
- `TunnelProofs`. `TunnelCorrect`: both directions implement `Pipe`, for every number
  of units. `Flow(d)` is the heart of the invariant: what has arrived, followed by
  what is held ahead of the copying or is in the chunk of the copier, is the
  beginning of what was sent, up to what was taken, as long as the receiver can be
  written to. `Stage` says what is held before the copiers start. There is one lemma
  per action, and `StepPipes` maps a step to a step of `Pipe` or a stutter.

The type invariants of `Lifecycle`, `Interceptor`, `Telemetry` and `Proxy` are
conjuncts of their inductive invariants and proved with them. The assumptions of the
last four theorems are in their statements: lengths are natural numbers, at least
one key is held, the set of trailers is finite, the bound on units is a natural
number. TLC checks the same definitions (`InBounds`, `TicketWindow`, `AnswerWhole`,
`TunnelPipes`) through the instances of `MCRouting` and `MCHandlers`.

Only model-checked: liveness, the action properties, `NoDowntime` and the
properties of hooks and callbacks, the conjuncts of `CycleKept` other than
`OneUpdate`, the refinement of `Pipe` by `FastCGI`,
and the modules `TelemetryBuffer`, `Policy`, `Lexer`, `Parser`, `Chain`, `Files`,
`BodyLimit`, `Sites`, `Hellos` and `WebSocket`. Some of it is out of the prover's
reach: liveness, and what recursive definitions compute.

## 5. Not modelled

Formatting, logging and file access; the proof of work, the JSON encoding,
`http.Transport`, the ResponseWriter of net/http and certmagic are outcomes of the
model or external. Beyond that:

- `markdown`, `push` and `requestid`, the template context and the replacer: no state beyond
  one call, or the formatting of strings.
- `bind`, `expvar`, `index`, `pprof`, `root` and `timeouts`: each sets a field of the
  configuration or mounts a standard handler. So do most `setup` functions: `Parser` has
  the loops by which they read their tokens, not the fields that they set.
- `caddyfile/json.go`, self-signed certificates, the fingerprints of browsers in
  `mitm.go`: conversions, cryptography and data.
- The child's side of a binary upgrade, QUIC, the setup of several upstreams.
- Other platforms: sigtrap_nonposix.go, Windows.

Limits of what is modelled:

- `Lifecycle`: in the runs signals arrive after Start has returned; earlier signals
  (the fault "early") are covered by the proofs. Panics and failing OnShutdown callbacks are
  not in the run that checks `HooksAndCallbacks`, because it does not hold with them.
- `Sites`: without `-quic` and `-host`; hosts that are IP addresses, the bare `*` and
  names of ports are left out. `FallbackSite` is not set. The `wildcard`
  subdirective is there, but `ClientAuthKept` excludes it.
- `Files`: files do not change during a request, and there are no links. Doubled slashes
  are tried where the site has no path and no browse.
- `BodyLimit`: all names of a path have the same length, so that the longest path
  is the one with the most names.
- `WebSocket`: Unix, and a child without children of its own.
- `Response`: HTTP/1.1.

## 6. Where code and comments disagree

Four disagreements are shown by runs:

- `LifecycleKeepsOld`: `Restart` reports failure after it has stopped the old
  instance when an OnShutdown callback fails ("Upon failure, i will not be
  replaced", `caddy.go:183`).
- `InterceptorBody`: a request whose body is not a command is handed on with its
  body consumed (`iota/plugin.go:136-143`).
- `SitesServed`: two addresses that differ in the closing slash of the path are both
  accepted as distinct, and one of the sites is never served
  (`caddyhttp/httpserver/plugin.go:155-160`).
- `HelloIntact`: a ClientHello that arrives in pieces is stored in part or not at
  all ("clientHelloConn reads the ClientHello and stores it",
  `caddyhttp/httpserver/mitm.go:162`, `193`).

Others that restrict what the passing runs assume, each noted with its hazard in
`PROJECT.json`:

- A permanently disabled key loses its mark when the server disables it, and can
  then be enabled (`telemetry/telemetry.go:174`).
- With one host the body is not buffered, but `try_duration` makes the loop retry
  (`caddyhttp/proxy/proxy.go:147`).
- The probes of `hostByHashing` miss hosts unless the pool's length is a power of
  two (`caddyhttp/proxy/policy.go:131`).
- A `#` inside a word begins a comment that the next space ends
  (`caddyfile/lexer.go:126`).
- A snippet or file that imports itself is imported for ever
  (`caddyfile/parse.go:252`). A block that is closed on the line on which it opens
  makes a setup function loop if the directive occurs again
  (`caddyfile/dispenser.go:114`). A missing brace of a server block
  is not reported after a directive with a block (`caddyfile/parse.go:189`).
- A handler that fails after writing is followed by an error page in the same
  response (`caddyhttp/fastcgi/fastcgi.go:178`). One that answers and returns an
  error loses its answer to `errors visible` and to `templates`
  (`caddyhttp/errors/errors.go:57`, `caddyhttp/templates/templates.go:72`).
- A field deleted by `header` is sent with an error that no `errors` directive
  answers (`caddyhttp/header/header.go:111`).
- The entry of a hijacked connection that is stored late stays in the table of
  hellos, and the end of one connection may delete the entry of the next with its
  address (`caddyhttp/httpserver/server.go:122`).
- `rewrite` to an index page or to `{path}/` alone makes the redirect of the file
  server come round for ever; the redirect of `browse` drops the path of the site
  (`caddyhttp/staticfiles/fileserver.go:131`, `caddyhttp/browse/browse.go:384`).
- A hidden file that is the compressed form of a visible one is sent
  (`caddyhttp/staticfiles/fileserver.go:207`).
- The end of the connection between two FastCGI records counts as a complete
  answer (`caddyhttp/fastcgi/fcgiclient.go:398`).
- Trailers that were not announced are lost when net/http has counted the length
  of a short body (`caddyhttp/proxy/reverseproxy.go:476`).
- A websocket's child that ignores the interrupt is not killed if a failed send has
  closed `done` (`caddyhttp/websocket/websocket.go:146`), and one that does not read its
  input blocks the handler.
- The ticket keys are rotated for ever after a Stop that timed out or came before
  Serve (`caddyhttp/httpserver/server.go:490`).

And those of the lifecycle and the proxy: callbacks
run twice by a SIGINT during a reload, listeners left open by a failed start, an
instance left listed after a panic, the final telemetry update that is skipped,
`max_conns` exceeded by requests that select at the same time, a base path
joined twice on a retry, `LeastConn` that finds no host when Conns changes while
it looks, the connection to a backend that stays open when the replay of what it
sent fails.

## 7. What could come next

1. The upgrade with both processes, composed with `Lifecycle`.
2. The setup of directives that keep state: upstreams and their workers, log
   writers shared by sites, the cache of password files of `basicauth`
   (`GetHtpasswdMatcher` locks `htpasswordsMu`, and its error returns do not unlock it).
3. `Interceptor` and `Proxy` composed with `Chain` as its handlers.
4. An abstract specification of a graceful server (requests are served by one
   configuration at a time, none is refused) that `Lifecycle` implements.
5. Proofs of `NoDowntime`, `CountCovers`, `OneAnswer` and of the refinement by
   `FastCGI`.
