----------------------------- MODULE Middleware -----------------------------
(***************************************************************************)
(* The middleware pipeline a request goes through (oxihttp-server/src/     *)
(* middleware.rs, dispatch_with_middleware in lib.rs, body_bytes in        *)
(* router.rs): CORS preflight, rate limit, declared body limit, then the   *)
(* handler under a timeout, then the CORS headers.  Requests of different  *)
(* connections interleave; they share the rate limiter.                    *)
(*                                                                         *)
(* Of the CORS headers the model has Access-Control-Allow-Origin, which    *)
(* the others accompany, and the tokens of Vary.                           *)
(***************************************************************************)
EXTENDS RateLimiter

CONSTANTS
  Req,         \* requests
  Proxy,       \* the address of the reverse proxy
  Origin,      \* origins of web pages
  Traffic,     \* servers and what they are sent: [config, requests]
  MaxBytes     \* BodyLimitConfig::max_bytes

ASSUME PipelineAssumption ==
  /\ MaxBytes \in Nat /\ {"*", "none"} \cap Origin = {}
  /\ Proxy \in Key /\ {"", "opaque"} \cap Key = {}
  /\ \A t \in Traffic :
       /\ t.config \in [cors : BOOLEAN, origins : SUBSET (Origin \cup {"*"}),
                       limiter : BOOLEAN, trust : BOOLEAN,
                       proxy : {"none", "overwrites", "extends", "adds"},
                       bodyLimit : BOOLEAN, timeout : BOOLEAN, compress : BOOLEAN]
       /\ t.requests \subseteq
            [client : Key, sent : Seq(Seq(Key \cup {"", "opaque"}) \ {<<>>}),
             options : BOOLEAN, gzip : BOOLEAN, origin : Origin \cup {"none"},
             body : [declared : BOOLEAN, size : Nat]]

VARIABLES
  config,    \* MiddlewarePipeline: which middleware the server has (trust: does it
             \* believe X-Forwarded-For?), whether its handlers compress; and what the
             \* proxy before it, if there is one, does with X-Forwarded-For
  phase,     \* "pre" until pre_handle has run, then "handler" or "done"
  request,   \* what the client sent; sent: its own lines of X-Forwarded-For, each a
             \* list of entries ("" is blank, "opaque" is not ASCII)
  capped,    \* is a BodyLimitConfig in the request's extensions?
  read,      \* bytes of the body collected by body_bytes()
  answer     \* the response: status, allowed origin, Vary, is it compressed?

reqVars == <<phase, request, capped, read, answer>>
vars == <<limiterVars, reqVars, config>>

None == "none"
Plain(status) == [status |-> status, allow |-> None, vary |-> {}, coded |-> FALSE]

-----------------------------------------------------------------------------
(* CORS                                                                     *)

Wildcard == "*" \in config.origins

\* What a page of origin o is granted.
Granted(o) ==
  IF Wildcard THEN "*" ELSE IF o \in config.origins THEN o ELSE None

\* Mutant: Vary is added where the origin is, after the early return.
add_vary_origin_IfAllowed(tokens, o) ==
  tokens \cup (IF Wildcard \/ Granted(o) = None THEN {} ELSE {"Origin"})

\* Whom else the answer would be different for.
add_vary_origin(tokens, o) == tokens \cup (IF Wildcard THEN {} ELSE {"Origin"})

apply_headers(response, o) ==
  [response EXCEPT !.allow = Granted(o), !.vary = add_vary_origin(@, o)]

-----------------------------------------------------------------------------

\* The response goes out.
Answer(r, response) ==
  /\ phase' = [phase EXCEPT ![r] = "done"]
  /\ answer' = [answer EXCEPT ![r] = response]

\* post_handle, which the handler's responses go through.
PostHandle(r, response) ==
  Answer(r, IF config.cors THEN apply_headers(response, request[r].origin) ELSE response)

\* What a handler answers, through Compression or not; its errors are plain.
Response(r, status) ==
  IF status = 200 /\ config.compress /\ request[r].gzip
    THEN [Plain(200) EXCEPT !.coded = TRUE, !.vary = {"Accept-Encoding"}]
    ELSE Plain(status)

Preflight(r) == config.cors /\ request[r].options

\* Mutant: only a declared body is capped.
Injected_Declared(r) == config.bodyLimit /\ request[r].body.declared

\* inject_body_limit: every request that reaches a handler carries the limit.
Injected(r) == config.bodyLimit

\* check_content_length: only a declared length can be held against the limit.
TooLong(r) ==
  config.bodyLimit /\ request[r].body.declared /\ request[r].body.size > MaxBytes

\* What follows the rate limiter: 413, or on to the handler.
CheckLength(r) ==
  IF TooLong(r)
    THEN Answer(r, Plain(413)) /\ UNCHANGED capped
    ELSE /\ phase' = [phase EXCEPT ![r] = "handler"]
         /\ capped' = [capped EXCEPT ![r] = Injected(r)]
         /\ UNCHANGED answer

\* The lines of X-Forwarded-For that reach the server.
Lines(r) ==
  LET sent == request[r].sent
      mine == <<request[r].client>>
  IN  CASE config.proxy = "none" -> sent
        [] config.proxy = "overwrites" -> <<mine>>
        [] config.proxy = "extends" ->
             IF sent = <<>> THEN <<mine>> ELSE [sent EXCEPT ![Len(sent)] = @ \o mine]
        [] config.proxy = "adds" -> Append(sent, mine)

\* Whom the server is connected to.
Peer(r) == IF config.proxy = "none" THEN request[r].client ELSE Proxy

\* headers.get(): the first line alone; a missing one is as good as a blank one.
FirstLine(r) == IF Lines(r) = <<>> THEN <<"">> ELSE Lines(r)[1]

\* to_str()
Readable(line) == \A i \in DOMAIN line : line[i] # "opaque"

\* Mutant: the first entry is believed.
rate_limit_key_First(r) ==
  LET line == FirstLine(r)
  IN  IF config.trust /\ Readable(line) /\ line[1] # "" THEN line[1] ELSE Peer(r)

\* The last entry of the line if it is to be trusted, can be read and is not blank;
\* the peer's address otherwise.
rate_limit_key(r) ==
  LET line == FirstLine(r)
      last == line[Len(line)]
  IN  IF config.trust /\ Readable(line) /\ last # "" THEN last ELSE Peer(r)

\* pre_handle and inject_body_limit, from the moment the limiter's lock is had.
PreHandle(r) ==
  /\ phase[r] = "pre"
  /\ \/ /\ Preflight(r)
        /\ Answer(r, apply_headers(Plain(204), request[r].origin))
        /\ UNCHANGED <<limiterVars, capped>>
     \/ /\ ~Preflight(r) /\ config.limiter
        /\ \E ok \in BOOLEAN :
             /\ Check(rate_limit_key(r), ok)
             /\ IF ok THEN CheckLength(r)
                      ELSE Answer(r, Plain(429)) /\ UNCHANGED capped
     \/ /\ ~Preflight(r) /\ ~config.limiter
        /\ CheckLength(r)
        /\ UNCHANGED limiterVars
  /\ UNCHANGED <<request, read, config>>

\* Mutant: the limit is compared with the frame alone.
Overrun_FrameOnly(r, n) == capped[r] /\ n > MaxBytes

\* Would n more bytes take the collected body past the limit?
Overrun(r, n) == capped[r] /\ read[r] + n > MaxBytes

\* collect_body_limited: one more frame of n bytes, or an error, and body_bytes
\* has consumed the request.  A handler passes the error on, which dispatch turns
\* into a 500, or answers on its own.
ReadFrame(r, n) ==
  /\ phase[r] = "handler"
  /\ read[r] + n <= request[r].body.size
  /\ IF Overrun(r, n)
       THEN (\E status \in {200, 500} : PostHandle(r, Response(r, status))) /\ UNCHANGED read
       ELSE /\ read' = [read EXCEPT ![r] = @ + n]
            /\ UNCHANGED <<phase, answer>>
  /\ UNCHANGED <<limiterVars, request, capped, config>>

\* The handler returns, having read the body or not.
Return(r) ==
  /\ phase[r] = "handler"
  /\ \E status \in {200, 500} : PostHandle(r, Response(r, status))
  /\ UNCHANGED <<limiterVars, request, capped, read, config>>

\* The timeout drops the handler, whatever it was waiting for.
TimedOut(r) ==
  /\ config.timeout /\ phase[r] = "handler"
  /\ PostHandle(r, Plain(408))
  /\ UNCHANGED <<limiterVars, request, capped, read, config>>

-----------------------------------------------------------------------------

Init ==
  /\ LimiterInit
  /\ \E t \in Traffic : config = t.config /\ request \in [Req -> t.requests]
  /\ phase = [r \in Req |-> "pre"]
  /\ capped = [r \in Req |-> FALSE]
  /\ read = [r \in Req |-> 0]
  /\ answer = [r \in Req |-> Plain(0)]

Clock == Tick /\ UNCHANGED <<reqVars, config>>

Next ==
  \/ Clock
  \/ \E r \in Req :
       \/ PreHandle(r)
       \/ \E n \in 1..MaxBytes + 1 : ReadFrame(r, n)
       \/ Return(r)
       \/ TimedOut(r)

Spec == Init /\ [][Next]_vars

-----------------------------------------------------------------------------
(* Properties                                                               *)

\* No handler is given more bytes of a body than the limit, whether the client
\* declared a length or sent the body in chunks (router.rs collect_body_limited).
BodyBounded == config.bodyLimit => \A r \in Req : read[r] <= MaxBytes

\* Requests the rate limiter has let through.
Admitted(k) ==
  {r \in Req : /\ request[r].client = k
               /\ phase[r] # "pre" /\ answer[r].status \notin {204, 429}}

\* Is the request attributed to its client?  Without a proxy, as long as the server
\* does not look for one's header, or finds no entry in it; behind a trusted proxy
\* that overwrites the header, or that ends the client's only line with the client's
\* address, as long as that line can be read.  Not so behind a proxy that adds a line
\* of its own after the client's, which is the one the code reads.
Vouched(r) ==
  LET sent == request[r].sent
  IN  IF config.proxy = "none"
        THEN config.trust => sent = <<>> \/ sent[1] = <<"">>
        ELSE /\ config.trust
             /\ \/ sent = <<>> \/ config.proxy = "overwrites"
                \/ config.proxy = "extends" /\ Len(sent) = 1 /\ Readable(sent[1])

\* The requests of a client that got past the rate limiter are the tokens it was
\* granted, one each: what CheckIsExact says of tokens holds of requests, those
\* rejected for their length included, and whatever clients write themselves into
\* the one line of X-Forwarded-For that a trusted proxy extends or overwrites
\* (middleware.rs rate_limit_key).
OneTokenEach ==
  (config.limiter /\ \A r \in Req : Vouched(r)) =>
    \A k \in Key : Cardinality(Admitted(k)) = Len(grants[k])

\* What a cache in front of the server keys on.
Field(r, h) == IF h = "Origin" THEN request[r].origin ELSE request[r].gzip

\* A cache may serve an answer to any other request that has the same values of the
\* headers its Vary names: that request's page is granted what the cached answer
\* says, and its client understands the coding (middleware.rs apply_headers: "a
\* shared cache or CDN ... could serve one origin's headers (or lack thereof) to a
\* different origin").  The rejections, which are not for caches, have no part in it.
CacheSafe ==
  \A r, s \in Req :
    (/\ answer[r].status \notin {0, 413, 429}
     /\ \A h \in answer[r].vary : Field(r, h) = Field(s, h)) =>
      /\ config.cors => answer[r].allow = Granted(request[s].origin)
      /\ answer[r].coded => request[s].gzip
=============================================================================
