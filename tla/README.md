# A TLA+ verification project for OxiHTTP

OxiHTTP is an asynchronous HTTP client and server in Rust, built on tokio, hyper
and rustls.  This directory models its own control logic, checks it with TLC and
proves the invariants that matter most with TLAPS.  Wire parsing, TLS, connection
pooling and the compression codec belong to libraries; they appear here as the
choices they leave to OxiHTTP.

    tlc -workers 2 -config server.cfg MCServerLifecycle     # a run
    tlapm ServerLifecycleProofs.tla                         # a proof

Contents: [1 The system](#1-the-system) · [2 Modules](#2-modules-and-the-code) ·
[3 Runs](#3-runs) · [4 Fairness](#4-fairness) · [5 Findings](#5-findings) ·
[6 Proofs](#6-proofs) · [7 What is not modelled](#7-what-is-not-modelled) ·
[8 Plan](#8-plan)

## 1. The system

The workspace has four crates: `oxihttp-core` (headers, bodies, cookies, multipart,
content types, errors), `oxihttp-client`, `oxihttp-server` and the facade `oxihttp`.
A server spawns one accept task, which spawns a task for every connection; hyper
drives the connection and calls the dispatch function for each request, through the
tower layers if there are any: middleware, router, handler, middleware.  A handler may answer with an event stream, a file or a
WebSocket upgrade, after which the connection belongs to the application.  A client
is built once, may be derived from, and is shared by concurrent `send()` calls, each of which runs a retry loop around a
redirect loop around hyper's client; what they share is the cookie jar.

| component | state it keeps | operations | interacts with | what is hard | correct when |
|---|---|---|---|---|---|
| WebSocket (`ws.rs`, `ws_frame.rs`) | reassembly buffer and opcode, `closed`, `close_sent`, message budget | `recv`, `send`, `close`, `set_max_message_size` | the peer's frames over a stream that may break; one application task | fragments, control frames between them, both sides closing, limits that change | messages are delivered in order and intact, within the budget; every Ping is answered; one Close; a closed handle is inert |
| Server (`oxihttp-server/src/lib.rs`) | the builder's settings, accept task, connection tasks, semaphore permits, the shutdown future | build, listen, serve, accept, TLS handshake, request, upgrade, timeout, shutdown | kernel backlog, hyper, handlers, the caller of `serve()` | a connection ends in six ways, shutdown races all of them | permits are conserved and come back, the limit holds, accepting never blocks, timed requests end |
| Rate limiter (`middleware.rs`) | token buckets, sweep counter | `check` | every request of every connection, behind one mutex | a sweep and an eviction drop buckets that a later request counts on | a client is granted what its own history allows, in bounded memory |
| Middleware pipeline (`middleware.rs`, `lib.rs`, `router.rs`) | request extensions, per-request body | `pre_handle`, `inject_body_limit`, `body_bytes`, `post_handle`, CORS | limiter, router, handlers, caches between server and browser | early exits, chunked bodies without a length, timeouts, answers that depend on the Origin | no handler holds more than the limit, one token of the right bucket for each admitted request, no cached answer serves the wrong origin |
| Client builder (`client_builder.rs`, `tls.rs`, `request_config.rs`) | settings, a record for derivations | setters, eight build functions, `with_request_tls_config` | rustls, hyper's client | settings copied by hand from builder to client to derived client, three sources of trust | a client trusts whom it was asked to trust, and keeps its settings |
| Client connector (`connector.rs`, `resolver.rs`) | one connection attempt | `call`, TLS handshake, ALPN | resolver, proxies, rustls | TLS within a tunnel | https is never in the clear |
| Client requests (`oxihttp-client/src/lib.rs`) | method, headers, body or stream | setters | `send()` | setters that supersede one another | the last body set is sent, under its own type |
| Client `send()` (`oxihttp-client/src/lib.rs`, `retry.rs`, `redirect.rs`) | attempt, hop, one-shot body, hooks | retry loop, redirect loop, timeout | the network, application hooks, cookie jar | two nested loops with many exits, a body that exists once | a stream is sent once, credentials stay home, hooks balance, no early giving up, it returns |
| Router (`router.rs`) | routes, nested routers, virtual hosts, state | registration, `dispatch`, `resolve` | handlers | overlapping patterns, inherited state, a second copy of the scan | the right handler with the nearest state; `resolve` agrees |
| Proxy connectors (`proxy.rs`) | bytes of the handshake | HTTP CONNECT, SOCKS5 | a proxy that may be slow, wrong or gone | answers in pieces, tunnel bytes behind them | the tunnel starts at its first byte |
| Cookie jar (`cookie.rs`) | a vector of cookies | `add_from_response_headers`, `cookies_for_url`, `insert`, `remove` | concurrent sends through a mutex | expiry, replacement, interleaved requests and responses | it acts as a store keyed by name, domain and path |
| Server-sent events (`sse.rs`) | two bounded channels, a merge task | `send`, `try_send`, `into_response` | handler task, timer, hyper | `select!` cancels a branch, a client that leaves | every accepted event arrives in order, the stream ends, the sender learns |
| Static files (`static_files.rs`) | path, metadata, file handle, bytes left | `serve`, conditional GET, ranges, `FileRangeStream` | a file system others write to | metadata are older than the bytes; links and `..`; the calendar | the body is what the headers say, from the file that was asked for |
| Multipart (`multipart.rs`) | parts, boundary, a queue of streams | `build`, `build_stream` | part streams, the client's Content-Type | streams that fail or are empty, a boundary that occurs in a part | every part stands in its frame |
| Compression and body reading (`compression.rs`, client `body_bytes`) | the body collected so far | `apply`, `negotiate`, `body_bytes` | the codec library, other servers | a limit on bytes not yet decoded, damaged or concatenated streams | decoding gives back what was meant, or a reasoned error |
| Tower layers (`tower_compat.rs`, `tower_middleware.rs`) | a counter of request ids | `build_layered_service`, `call` | router, other requests | order of layers, an id kept across an await | a response carries the id its request was given |
| Content negotiation (`content_type.rs`) | none | `parse_accept`, `negotiate_content_type` | handlers | quality, ties, wildcards | the best offer is made |
| HTTP/3, headers, forms, errors, facade | none | delegation, formatting | other crates | none of its own | not modelled |

The places where this code is hard to test are listed, each at its line with the
properties that watch it, under `hazards` in `PROJECT.json`.

## 2. Modules and the code

Every definition that models code is mapped to its lines in `PROJECT.json`.  A
definition whose name has an underscore and a suffix, as `HasRoom_Ignored`, is a
mutant: the definition below it with a plausible bug, which one of the properties
must notice.

**`WebSocket`**, with **`MessageChannel`** as what it promises.  One connection: the
handle's five fields under the names of the struct, the application's program
counter `pc`, the frames in flight and the peer with its own account of the message
it is sending.  `recv()` is one action for every arm of its match (`RecvPing`,
`RecvClose`, `RecvFirstFragment`, `RecvFinal`, ...); `close()` writes its frame and
then drains through the same actions, as the code calls `recv()` in a loop.  A write
may fail once the link is down, unnoticed or not (`WriteOk`).  Payloads are short
sequences over three letters, two of which are halves of one character.

**`ServerLifecycle`**.  `config` is the `ServerBuilder`: `Set` and `SetTls` are its
setters, `Listen`, `Run`, `BindFails` and `Unserved` the ways to begin, with `listen()`
and then `serve()`, or at once.  A bound socket fills its backlog before anybody
accepts, which `Start` begins.  A connection is a state (`new`, `queued`, `handshake`,
`open`, `handling`, `websocket`, `closed`, `refused`); `permits` and `held` are the
semaphore and the permits that tasks own.  `Accept` and `Refuse` are one turn of the
accept loop, which has no await between the accept and the spawn.  `ServeShutdown`
drops the `JoinHandle` and leaves the accept task running; `Exit` is the program
leaving `main()`.

**`RateLimiter`**, extended by **`Middleware`**.  `Check` is one critical section of
the mutex: count, sweep when it is due, evict when full, refill, take.  Tokens are
multiples of `1/Grain` in place of `f64`.  `PreHandle` is the whole of `pre_handle`
with the limiter's key and its answer.  The key (`rate_limit_key`) is the peer, or, if the
header is trusted, the last entry of the first X-Forwarded-For line, unless that is
missing, blank or no text; `Lines` is the header as it arrives, from the client itself or
through a reverse proxy that overwrites it, extends its last line or adds a line.
`ReadFrame` a frame of `collect_body_limited`; `TimedOut` drops the handler;
`PostHandle` decides the CORS headers and Vary.

**`ClientConfig`**.  `asked` is what the setters were given, in order; `client` what a
build function has made of it, or an error; `overrides` the derivations since.  A
setting is unset or set; of certificates the issuer is kept.

**`ClientConnect`**, over `ClientConfig` and an instance of **`ProxyConnect`**.  A client
opens one connection: resolver and TCP or a proxy's handshake, then TLS if the
scheme asks for it.  `ProxyConnect` has both handshakes: CONNECT byte by byte up to
the blank line or the cap on its length, SOCKS5 message by message, and a proxy that
conforms or answers anything, and may leave within an answer.

**`RequestBuild`** has the setters of `RequestBuilder` as operators on a request.
**`ClientSend`** calls them (`Set`) and sends what they leave.  `pc` walks the two
loops; `hop` holds the locals of `send_inner`, `body` the variant of `OutgoingBody`,
`slot` the request's stream.  The network answers with any status and any location,
absolute or relative, breaks, or stays silent.  `log` records what went on the wire,
`wanted` what the application set last.

**`Router`**, extended by **`RouterResolve`** and **`RouterBuilder`**.
`dispatch_inner` step by step over a tree of routers: virtual hosts, nested prefixes
by prefix and with the sub-path that may be no URI, routes in order, 405, fallback.
`match_pattern` is a recursive function over the pattern, segment by segment, as the
loop in the code.  `RouterBuilder` has the registration
functions, which build the trees of the run.  `RouterResolve` is `resolve()`,
recursive over the nesting as in the code, and compares the two.

**`Serving`**, over the router and **`Negotiation`**.  A request goes through the
layers of `build_layered_service` to the router and back: `EnterRequestId` and
`EnterOther` are a layer up to its inner call, `LeaveLayer` what it does with the
response, and others draw ids from the same counter meanwhile.  `Negotiation` has the stable sort of Accept
entries, one inserted after the other, and the choice of an offer.

**`CookieJar`**, shown to implement **`CookieStore`**.  Two sends read and write the
jar without a lock in between; a response stores all its cookies under one lock; an
application inserts and removes; time passes.  The jar is a vector with expired
cookies in it, the store a set of live ones.  `Retained`, `InsertAll` and
`CookiesForUrl` are the loops of the code as recursive functions.

**`ResponseBody`** composes four kinds of bodies, one at a time, over
**`BodyStream`** (what hyper sees: a body is open, ended, failed or dropped, and the
data it has given).  Its property, `BodyAsPromised`, has a named part for each kind
(`EventsAsPromised`, `FileAsPromised`, `FormAsPromised`, and the coded body):
- **`EventStream`**: `sse.rs` with its two channels; `Send` covers `send` and
  `try_send`, which differ in waiting only.  The merge task is `TakeEvent`,
  `TakeBeat`, `SendMerged`.
- **`FileStream`** over **`ServeDir`** and **`HttpDate`**: `Resolve` (method, path,
  safety, fallback, links), `Stat` (metadata, conditions, range), `Open`, then
  `ReadChunk`; `AppendToFile`, `Truncate`, `ReplaceFile`, `RemoveFile` and `LinkFile`,
  which puts a link out of the root in the file's place, are somebody else.  `is_file()`
  and `canonicalize()`, which follow one another without an await, are one step with the
  check of the text.  `ServeDir` has the small disk and the two readings of a path, by
  its text and by the disk.  `HttpDate` has the calendar, digit for digit.
- **`MultipartStream`**: the choice of the boundary, the in-memory and the streamed
  form, the poll function of its queue, and the Content-Type the client sends.
- **`ContentCoding`**: `Compression::apply`, the Accept-Encoding the client adds,
  the frame-by-frame collection within its limit, the two attempts of a bounded
  decoder, the gzip trailer.  A coded stream is known by its members and its trailer.

The modules whose names begin with `MC` give the constants their values for TLC;
those that end in `Proofs` hold the theorems.

## 3. Runs

| run | what it shows | bounds |
|---|---|---|
| `ws_arbitrary` | Whatever frames the peer sends and whenever the stream breaks: budget, UTF-8, Pongs, one Close, an inert closed handle, and a budget smaller than a control frame does not make control frames unreadable | 3 frames, 1 in flight, 1 send, budgets 1 and 3 |
| `ws_conforming` | Against a peer that obeys RFC 6455 nothing is rejected, reassembly follows the peer, the connection implements `MessageChannel` with its liveness, `close()` returns | 3 frames, 2 in flight, payloads that split a character |
| `server` | No permit lost or doubled, none missing but those of the connections that stay, the backlog drains, timed requests end even after `serve()`, however the server was built and started | 3 connections, no limit or 0 to 2, with and without TLS, timeout, shutdown, spawning |
| `pipeline` | Interleaved requests: body limit, bucket cap, one token of the right bucket for each admission, every check decided by its key's own grants whatever is swept or evicted, and answers a cache may keep | 3 clients and a proxy for 2 buckets, 3 requests, sweep every 3 checks, 5 instants; no proxy or one of three habits, headers of 2 lines, forged, blank or unreadable |
| `connect` | Trust and settings are those asked for, https is never in the clear, the tunnel starts at its first byte, the attempt ends | 3 setter calls, 2 derivations, 2 authorities, a malformed certificate; heads of 6 tokens, 2 tunnel bytes, domains of 2 |
| `send` | Bodies and their types, credentials, hooks, attempts of idempotent requests and termination for every combination of policies; requests built by setters in any order | 2 retries, 0 to 2 redirects and unlimited, 2 origins, 3 setters |
| `router` | Nearest state, right route, agreement of `resolve`; ids through layers; the best offer | all lists of 2 routes out of 14, three routers nested in 12 ways, 10 paths; stacks of 3 layers, 2 other requests; Accept headers of 3 entries |
| `cookies` | The jar implements the store | 2 sends, 3 cookies stored, 2 in one response, 3 instants |
| `bodies` | Every body is what was promised, ends, and its producer learns of a client that left | below |
| `server_drains`, `send_read_timeout`, `form_boundary` | the findings of section 5 | those of `server`, `send`, `bodies` |

Why they are enough.  *WebSocket*: a first, a middle and a last fragment with or
without a control frame in place of one of them need three frames; two budgets make
the larger and the smaller case of every comparison.  *Server*: three connections
for two permits have a connection that is served, one that has just ended and one
that is refused; a limit of 0 refuses all.  *Pipeline*: one client more than buckets forces evictions; the
burst of one token, refilled by two fifths an instant, is full again after three
instants, and the idle timeout of two sweeps it before: the run has the sweeps that make
a client a gift, and those that do not.  `grants` is a history of true grants, so
`CheckIsExact` can compare the limiter with a reference that never forgets; where it must
forget, at an eviction or after a dormant time with such a timeout, the property says so.
A header's line of two entries tells the first from the last, and two lines the first
line from the last; `OneTokenEach` has the requests that are attributed to their clients
as its premise (`Vouched`), which the run's configurations meet and fail in turn.
Clients and requests are only ever compared for equality, which makes the symmetry
sound; the run has no liveness property.  *Send*: two retries and two redirects are
the first number at which "again after again" differs from "again"; with unlimited
redirects the counter is not kept and the state space stays finite; three setters
are a body, one that supersedes it and one that supersedes this.  *Connect*: two
derivations are the first number at which a setting can be lost on the way from one
to the next; three setter calls put any two sources of trust next to each other, one
of them twice.  *Router and layers*: two routes shadow one another; three layers have
two of a kind around another one.  *Cookies*: three
stores are one cookie, its replacement and a third of another key, the last two in
one response or in two.  *Bodies*: buffers
of two and four events fill both channels with an event in the task's hand; a file
of three bytes in chunks of two has a full chunk and a partial one; two edits replace
a file and change it again, and a link may come in its place at any time, between the
check of the path and its opening, too; forms of two parts have a frame between two; paths climb
out of the root once, twice and by more than there is; dates are the first and the
last second of months around February and the turn of the year, in a common year, a
leap year, a century that is one and a century that is not, and at both ends of the
two-digit years; the decoder's limits of 2, 3 and 6 bytes lie below, at and above the
sizes of the bodies and of the first buffer; Accept-Encoding takes, refuses and leaves out
each coding by its name, by `*` and by both.

`CHECK_DEADLOCK FALSE` stands in every run because each of these systems really
stops: a `send()` returns, a request is answered, a program exits.

Liveness properties look at what the code owes: `PlacesComeBack`, `AcceptNeverBlocks`,
`RequestEnds`, `CloseTerminates`, `DeliversInOrder`, `SendReturns`,
`HandshakeEnds`, `BodyEnds`, `ProducerLearns`.

## 4. Fairness

| specification | assumed | why |
|---|---|---|
| `ServerLifecycle!FairSpec` | weak fairness of `Start`, of each connection's `Accept`/`Refuse`, `Timeout`, `TaskEnd`, and of the return of `serve()` | tokio polls a task that can move, the backlog is a queue, a timer fires. Nothing for the program that builds the server, for clients, handshakes, handlers and the signal: none of them is bounded by the code |
| `WebSocket!CloseSpec`, `ReaderSpec` | weak fairness of reading a frame that is there, of a conforming peer's Close echo; in `ReaderSpec` of the application's `recv()` | a read in progress is polled; RFC 6455 obliges the peer; the repository's examples read in a loop. Nothing for peers that do not conform |
| `ClientSend!FairSpec` | weak fairness of the client's own steps and of its timer | the future is polled. The network promises nothing, nor does an application that builds a request |
| `ClientConnect!FairSpec` | weak fairness of the connector's own steps, of TCP and TLS, and of the proxy's answer | the future is polled. Neither handshake has a timer of its own (a hazard listed without a property); a peer that goes away is another action |
| `ResponseBody!FairSpec` | weak fairness of hyper's polls, the merge task, the handler's file steps and the coded body; strong fairness of `TakeEvent` and `EventsEnd` | hyper polls the body of a client that reads. `select!` picks at random among ready branches, so a heartbeat that is due again and again does not win for ever. Nothing for sending events, dropping the sender, edits and clients that leave |

`RateLimiter`, `Serving` and `CookieJar` are checked for safety only.

## 5. Findings

Three runs end in a counterexample to a sentence of the repository.

- **`server_drains`**: README.md:102 says graceful shutdown "drains active requests
  on signal".  `run_server` returns as soon as the signal resolves
  (`oxihttp-server/src/lib.rs:591`); nothing waits for connection tasks, and a caller
  that leaves `main()` after `serve()` drops the requests in their handlers.
- **`send_read_timeout`**: `read_timeout` is documented as the response read timeout
  (`client_builder.rs:203`); it is stored and never read.  Without a request timeout
  `send()` waits for a silent server for ever.
- **`form_boundary`**: the Content-Type of a form names the builder's boundary, taken
  before the body is built (`oxihttp-client/src/lib.rs:754`, `842`); a form with a
  part in memory that contains this boundary is framed with another one.

Other behaviour of the code that its reader may not expect.  There is no run for
these, whose traces are a step or two long; the models have them where they are within
the model's reach.  Where a passing property would otherwise have to allow what the
documentation rules out, it names the case and excludes it, and claims nothing there:

| case | documented | in the code | excluded by |
|---|---|---|---|
| a form set over another typed body | sets `multipart/form-data`, unless "the caller has … already provided one" by an explicit `.header()` (`lib.rs:718`-`723`) | keeps the type the earlier body set (`lib.rs:757`) | `LeftOver` in `HopsFaithful` |
| retries of a POST | for "idempotent requests" (`retry.rs:9`) | retried as any other (`lib.rs:955`) | `Idempotent` in `GivesUpLast` |
| a derivation beside a custom verifier, or certificates beside the built-in roots | verification is skipped or replaced (`request_config.rs:41`, `lib.rs:1334`) | the verifier and the roots stay (`lib.rs:1390`) | `Disputed` in `TrustAsAsked`, `SecuredAsAsked` |
| a proxy that adds an X-Forwarded-For line of its own | a proxy that "overwrites/appends" is trusted (`middleware.rs:656`) | the first line is read, which is the client's (`middleware.rs:668`) | `Vouched` in `OneTokenEach` |
| `gzip;q=0, *` | "gzip explicitly refused" (`compression.rs:292`) | gzip is used (`compression.rs:247`) | `RefusedBesideAny` in `CodedAsPromised` |
| a gzip stream whose last member equals its first | concatenation is "rejected with a typed error" (`lib.rs:536`) | the first member is returned | `Twins` in `CodedAsPromised` |
| a path with `..` that stays in the root | "rejects `..` segments" (`static_files.rs:19`) | served | `..` in `FromTheRoot` |

The list in full:

- WebSocket: whether a fragmented message is in progress is told by its buffer.
  After an empty first fragment a whole message is accepted, and another first
  fragment replaces the opcode (`ws.rs:205`).  `close_sent` stays false after the echo (`ws.rs:187`), so a later
  `send(Close)` writes a second Close; `OneClose` is about `recv()` for this reason.
  `close()` stops draining at the first protocol error (`ws.rs:282`).  `recv()` is
  not cancel-safe: dropped within a frame it loses what it has read.
- Server: the accept task goes on accepting after the shutdown signal (`lib.rs:594`).
  A WebSocket is not counted by `with_max_connections` once it is upgraded
  (`lib.rs:917`).  A TLS handshake has no timeout and holds a permit.  An error of
  `accept()` is retried at once.  The timeout covers the handler and not the body.
- Middleware: answers 429 and 413 carry no CORS headers, which are "applied to all
  responses" (`middleware.rs:500`, `604`).  Of X-Forwarded-For the first line alone is
  read: behind a proxy that adds a line, the client names its own bucket.  A line that is
  no text counts as none, and then, as with a proxy that is not trusted, all its clients
  share the proxy's bucket.  `with_limits` takes an idle timeout in which a bucket does
  not fill: the sweep then gives a client that was idle as long a full one;
  `CheckIsExact` allows that, and nothing else.
- Tower layers: the request timeout and the middleware lie outside of the layers, so
  a 408, a 429 and the 413 of a declared length are neither logged by `LoggingLayer` nor given an `x-request-id`.
- Negotiation: a quality after `"; q="`, with the space, is read as 1.0, and `q=0`
  does not exclude a type (`content_type.rs:238`).
- Client settings: builds with a proxy ignore `tcp_nodelay` and `tcp_keepalive`,
  documented for "all outgoing connections"; a key log is ignored with a custom
  verifier, and so are, deliberately, the certificates.  A derivation keeps a custom
  verifier and the built-in roots, where the documentation has verification skipped or
  the trust replaced (`request_config.rs:41`, `lib.rs:1335`).  An IPv6 host
  keeps its brackets and is no server name (`connector.rs`), so https to one fails.
- Requests: a `multipart()` after another body keeps the Content-Type of that one,
  even the boundary of an earlier form (`lib.rs:757`): `Typed` tells it by "older".
  `Client::execute` and `execute_body` know no default headers, cookies, hooks or
  timeouts.  The jar's Cookie header replaces the application's own (`lib.rs:1102`).
- HTTP/3: `serve()` discards the errors of requests its documentation says are logged.
- Client: retries do not look at the method (`retry.rs:9`, `lib.rs:955`).
  `same_origin` ignores the port (`lib.rs:1204`).  Content-Type stays when a redirect
  has cleared the body.  A relative Location without a leading slash is appended to
  the authority (`lib.rs:1182`).  `max_retries + 1` can overflow.
- Server-sent events: with a heartbeat, `send` goes on returning Ok after the client
  has left, until the merge task's next send fails (`sse.rs:201`).
- Proxies: a CONNECT status line counts as success if it contains `200` (the model
  compares tokens, and no refusal of its contains one); a SOCKS5
  method that was not offered is taken for "no authentication"; lengths are cut to a
  byte (`proxy.rs:336`).
- Router: a nested prefix matches without a segment boundary (`router.rs:606`) and
  drops the query (`router.rs:611`); `resolve` ignores virtual hosts.
- Cookies: a `Max-Age` that leaves the range of `Instant` panics (`cookie.rs:382`); a
  negative one is no number and leaves a cookie that never expires (`cookie.rs:177`).
  `add_from_set_cookie_headers` computes no expiry at all.
- Static files: If-Modified-Since is consulted after an If-None-Match that did not
  match, in whole seconds (`static_files.rs:640`), so a file edited twice in a second
  may be answered with 304.  A path with `..` is served as long as it stays within
  the root (`is_path_safe`), where the module's documentation speaks of rejection.  With
  symlink protection a link that comes after `canonicalize()` and before the file is
  opened is followed: `FromTheRoot` allows a file from outside in this case alone.
- Compression: `gzip;q=0, *` still picks gzip (`negotiate`). A 206 is compressed with
  its Content-Range unchanged. `Vary` is inserted, not added, by `apply`. A gzip
  stream of several members passes for its first one if the last was the same,
  whatever lies between them: against the comment above `bounded_gzip_decompress` but
  as its checks allow.

## 6. Proofs

TLC looks at small instances; these theorems hold for every value of the constants
that the named assumptions of the modules allow (`WebSocketAssumption`,
`ServerAssumption`, `FileAssumption`, `RootAssumption` and so on: bounds are natural
numbers, alphabets are sets of the right type).

**`WebSocketProofs`**.  `TypeCorrect` first, arm by arm of `RecvFrame`.  `OneClose`
is not inductive: that `recv()` writes no second Close depends on the echo being the
last thing an open handle does, and on `close_sent` being set by everybody else who
writes one.  `CloseInv` adds `HandleOpen` (a call that reads has an open handle) and
`CloseAccounted` (a Close on the wire means `close_sent` or `closed`).
`ClosedForGood` is an action property on top of it.  `TextValid` and `Budget` follow
from one lemma about what a frame can append to the buffer and to the messages
returned (`RecvFrameData`), by whichever arm it goes; `ControlReadable` is the action
property for Pings and Pongs.  `PingsAnswered` compares two histories, the Pings returned
and the Pongs written, with `Chosen`, which picks from a sequence of any length
(`ChosenAppend`).  `ConformingPeerHeard` and `Reassembly` need `InSync`: for the frames
in flight there is a history of the peer's states, which begins with what the handle
has reassembled, goes on as each frame has it (`Becomes`), and ends with what the peer
has sent if the link is up; each frame was legal where it was sent (`Allowed`).  A
receive drops the head of that history, a send appends to it, a break cuts it off.
`ChannelSafety` maps every step to one of `MessageChannel` or to none, from the same
invariant.

**`ServerLifecycleProofs`**.  `PermitsKept` and `LimitHolds` hold for every limit, or
none, and every way to build and start the server.  They need `PermitInv`:
conservation; owners of permits have been accepted and not yet forgotten
(`HeldStarted`), so that an accept never hands a second permit to an owner; with
a limit every served connection owns one (`ServedOwn`), from which the limit follows
by counting; and, for the steps that make the semaphore, that nothing is owned
(`NothingYet`) and nobody is served (`NotBefore`) before the accept loop runs.

**`ClientSendProofs`**.  `Base` is the type invariant with two facts about the phases of
a call: nothing has happened before `Start` (`NotBegun`), and there is a result when
`send()` is done and not before (`Returning`).  `HooksKept` and `GivesUpKept` need no
more.  Of the requests to begin with, `ClientAssumption` asks that a body they already
have goes with their Content-Type, which is none or the application's own.  `CredentialsKept` needs `AtHome`: credentials still at hand have not left.
`HopsKept` needs that the request at hand is the one asked for, under a type of its own
unless it is a form over another typed body (`Fitting`, by every setter), that within an attempt the body is empty exactly when a redirect has dropped
it (`Underway`), and that the stream is in its slot, in the hop's hands or gone
(`Once`).

**`MiddlewareProofs`**.  `BucketsKept` counts what one check adds after what it has
evicted.  `BodyKept` and `CacheKept` follow from `ReqInv`: a request in its handler
carries the limit (`Capped`), and a response tells what it depends on (`Tells`), which
each of the ways to answer is shown to do.  `TokensKept` relates requests to the
limiter's history: a request joins the admitted exactly when a grant of its client is
recorded, for the key of a request that is attributed to its client is that client's
address (`Vouched`, `ClientIsKey`).  `LimiterIsExact` holds
for histories of any length: `CheckIsExact` compares a check with all the grants of a
key since its account was last started afresh, and the invariant is that the tokens of its bucket, refilled or assumed full, are
the level of that account (`Level`: no more than any grant leaves room for, and as much
as one of them).  The level rises with time and falls by a token with a grant
(`LevelLater`, `LevelGrant`), it alone decides (`LevelDecides`), and a bucket the sweep
forgets is one whose account is full again (`SweptFull`), or, where an idle timeout does
not fill a bucket, one whose key was dormant for as long (`Gifted`, `Dormant`).

**`ClientConnectProofs`**.  Three invariants.
`ConfigInv`: what a client is rebuilt from is the builder's settings with the trust of
all derivations so far (`RebuildInv`); from it `TrustHeld` for any calls of the setters
and derivations of any length, and `DerivedKeepSettings`, an action property.
`ConnInv`: a handshake in progress is an upgrade, behind a tunnel that is open, with
settings that trust only servers the calls allow, unless the calls are `Disputed`; from it `Secured`.  `TunnelInv`, for
`StreamInSync`: the unread bytes are a rest of the proxy's answer, whose length the
bytes read so far tell, with the tunnel's first bytes behind it, or, of a proxy that has
gone, less than the rest.  `AnswersOf` and `AnswerIsRest` show that every answer a proxy
may begin with is such a rest.

**`RouterProofs`**.  `StateIsNearest`, for every tree of routers, by `OnTheWay`:
while a request is on its way down, what has been injected is the state of the
nearest router above that has one, or the present router has its own.  `RoutesRight`
rests on `MatchesFits`: the segment-by-segment matcher of the code answers yes exactly
when the pattern fits the path in the sense of `Fits`, for patterns and paths of any
length.  Its hypothesis is that nested prefixes do not end in a slash; `NestTrims`
proves that `Router::nest` keeps that so.  `ResolveAgrees` needs `Resolving`: what
`resolve` makes of the whole request is what it makes of the rest of the path at the
router the request has reached.  That its equation has a solution at all follows from
`NestingAssumption`, by which no router contains itself: a router owns those nested in
it.

The same module has the layers and the negotiation.  `IdsArePaired`: on the way in, the
ids computed so far grow from the outside to the inside and lie below the counter, and the
header is the innermost of them (`Entered`); on the way out the response carries the id of
the outermost layer it has left (`Carries`); both need that the stack is
the list of calls, first call outermost (`LayeredIs`).  `OffersBest` rests on `Sorts`:
the insertions give a permutation of the entries, by falling quality and with equals
in their old order, for headers of any length.  `ServesAsRouter` carries the router's
theorems over to the whole stack.

**`ResponseBodyProofs`** proves `BodyAsPromised` (`BodyPromised`), from a theorem for
each of its parts.
- `ContentLengthKept`: a file's body never outgrows its Content-Length, for every chunk
  size, range and number of edits.  The invariant (`Progress`) is that what was read and
  what is left never add up to more than was announced, whatever the file has become;
  before the body is opened, what is left is what was announced.
- `FileDelivered`: while nobody changes the file, the client reads the announced bytes,
  all of them at the end.  `FileInv` adds where the reader stands in what it has read
  (`Reading`), what the headers announce before it begins (`Announces`, `Offered`), and
  that every byte written is older than the next edit (`Written`), from which it follows
  that an edit cannot make a file look untouched again.
- `ConditionsHold`: with no If-None-Match, 304 exactly when the file was last written in
  the second the client names or before.  The hypothesis `Told` says what a client may
  send: the date of an instant in one of three styles, or one that nobody can read.
- `ServedFromRoot`: a path that leads to the page is served it, a file from outside comes
  only through a link that is let or has come since, a refusal has its cause; for every
  root and path.  `Rooted` says it of the check of a path, and `Resolution` carries what
  was found over to the opening.  The
  code reads a path twice, by its text (`Lexical`) and on the disk (`Walk`).  The two do
  not agree on every path, and need not: `WalkAgrees` is that, component by component,
  they name the same directory, or the path leads nowhere on the disk, or its text has
  had a `..` too many and does not begin with `/` any more (`Agree`).  `FileAssumption`
  has that the application names its index and its fallback without a `..`.
- `EventsDelivered`: every event accepted arrives once and in order, for all capacities,
  heartbeats or none.  The invariant counts where the events are: with the client, in
  the merged channel among heartbeats (`InOrder`), in the hand of the merge task
  (`Held`), in the sender's channel (`Waiting`); the task ends only when the last two
  are empty.
- `CodedDelivered`: what a handler wrote comes back from coding and decoding or the
  client is told why not, and it is coded exactly when the client takes a coding the
  server has, for all lengths, bounds, frames and buffers.  `CodedInv` follows the bytes
  on the wire (`OnTheWire`); `TakesIs` compares the code's reading of Accept-Encoding,
  entry by entry, with `Takes`, which looks for a coding's name first and for `*` only
  without one: they agree but on `RefusedBesideAny`;
  `BoundedIs` reduces the two attempts of the decoder to one with the whole bound.
  `CodingAssumption` says what other servers send: a gzip trailer tells of the last
  member, and a deflate stream is not damaged, as the codec would have to tell.

- `FormDelivered`: every part in its frame, in order, all of them at the end, for forms of
  any parts.  The invariant (`FormState`) is that what was yielded and what the queue
  still holds (`Unsent`) are the form together; it needs what flattening makes of
  sequences of sequences (`FlattenJoin`, `SpreadFlat`).  The boundary: finitely many are
  taken (`TakenFinite`), so among one more there is one left (`OneIsLeft`).
  `FormAssumption` has that a chunk collides with finitely many boundaries, and with the
  one without a suffix if with any.

The dates come first.  `DayIsKept`: the civil date of a day names this day again, for
every integer.  The lemmas are the bounds of the algorithm: `DayWithinYear` (the
three corrections for leap years never leave a day outside of its year), `MonthOfDay`
(nor of its month), `CivilParts`.  `DateIsKept`: an instant since the epoch that is
written as Last-Modified is read back as the same instant; `YearSinceEpoch` excludes
that the reader's test for years before 1970 meets a date of the writer, for January
and February of 1970 are counted from March 1969.  `DatesAreKept` extends it to the
styles of other clients, with two digits for the year where there are such.

**`CookieJarProofs`**.  `JarIsStore`: every step of the jar is a step of the store, or one
the store does not see.  The invariant (`JarIs`) is that the cookies lie in the jar in the
order they were set in, each once, none newer than the last; so a sorted insertion puts a
cookie behind its equals (`PlacedIs`), and what removal takes is gone (`RemovedIs`).
`OneMoreIsPut` is the step of a response: its cookies so far, less those a later one
replaces, and the jar's that none of them replaces, make the list; replacement being
transitive, that is again so with the next one.  `CookiesForUrlIs` has what a request
carries, `TickPasses` that time takes cookies away though no one touches the jar.
`JarAssumption` has the types of URLs and parsed cookies only.

Some lemmas are about data of any length: `ChosenIs` (`WebSocket`), `MatchesFits`,
`LayeredIs`, `Sorts`, `WalkIs`, `LexicalIs`, `FlattenIs`, `RetainedIs`, `InsertAllIs` and
`CookiesForUrlIs`, and the one about `resolve` about nesting of any depth.
The model has these operators as recursive functions, and the induction runs over a
measure by well-foundedness (`Induction`, from the least counterexample), once to show
that the recursive equation has a solution and once for what it computes.

Only model-checked: all liveness, for the prover has no fairness and no `ENABLED`.  Of
`DeliversInOrder` the safety part is `ChannelSafety`.  Every other property of the
passing runs is stated by a theorem.

## 7. What is not modelled

- The text of headers, log lines, errors, URLs, cookies and multipart headers.  A
  cookie's attributes are inputs, as `parse_set_cookie` leaves them.
- Socket and HTTP/2 options, which are handed on; that none of them is lost on the
  way through a client's derivations is `SettingsKept`.
- Several requests at a time on one connection, as HTTP/2 has them: permits belong to
  connections and timeouts to requests, which the model has once each.
- `f64` rounding in the rate limiter; the clock moves in ticks.
- The RNG behind boundaries and WebSocket keys; that two boundaries differ is the
  relation `Collides`.
- The codec: compressing and decompressing is a library's, known by container,
  members and trailer.
- Frames of a WebSocket are read in one step, so a cancelled `recv()` is not modelled.
- TLS, DNS, connection pooling, HTTP/2 flow control: hyper, rustls, the system.
- HTTP/3: it delegates to another crate, whose connection state is not here.
- `Client::execute` and `execute_body`: one exchange, without any of what `send()` does.
- Headers, forms, extractors, errors, the facade: pure functions and wrappers.

## 8. Plan

Built in this order: WebSocket with its channel; the server and its permits; the
limiter and the pipeline; `send()`; the router; proxies; cookies; bodies; client
settings and the connector; request building; tower layers and negotiation; the
server's builder.  Next: a response body that outlives
its request's timeout; cookies along redirects in `ClientSend`; several requests at a
time on one connection.
