-------------------------- MODULE MiddlewareProofs --------------------------
(***************************************************************************)
(* Proofs about Middleware and its RateLimiter, for every number of        *)
(* clients, requests and buckets and every configuration: the limits on    *)
(* buckets and bodies, what a cache may keep, that each request costs a    *)
(* token and that a token is there exactly if the rate allows it.          *)
(***************************************************************************)
EXTENDS Middleware, FiniteSetTheorems, TLAPS

-----------------------------------------------------------------------------
(* Buckets                                                                  *)

BucketsInv == DOMAIN buckets \subseteq Key /\ BucketsBounded

\* One check adds a bucket at most, after it has made room for it.
LEMMA CheckBuckets ==
  ASSUME BucketsInv, NEW k \in Key, NEW ok \in BOOLEAN, Check(k, ok)
  PROVE  BucketsInv'
<1>1. PICK gone \in Evicted(Swept, k) : DOMAIN buckets' = (Swept \ gone) \cup {k}
  BY DEF Check
<1> DEFINE live == Swept \ gone
<1>2. Swept \subseteq DOMAIN buckets /\ live \subseteq Swept
  BY DEF Swept
<1>3. IsFiniteSet(DOMAIN buckets)
  BY LimiterAssumption, FS_Subset DEF BucketsInv
<1>4. /\ IsFiniteSet(Swept) /\ IsFiniteSet(live)
      /\ Cardinality(Swept) <= Cardinality(DOMAIN buckets)
  BY <1>2, <1>3, FS_Subset
<1>5. /\ Cardinality(DOMAIN buckets) \in Nat /\ Cardinality(Swept) \in Nat
      /\ Cardinality(live) \in Nat
  BY <1>3, <1>4, FS_CardinalityType
<1>6. max_buckets \in Nat
  BY LimiterAssumption DEF max_buckets
<1>7. Cardinality(live \cup {k}) <= max_buckets
  <2>1. CASE k \in Swept
    <3>1. live \cup {k} = Swept
      BY <2>1 DEF Evicted
    <3>. QED  BY <1>4, <1>5, <1>6, <3>1 DEF BucketsInv, BucketsBounded
  <2>2. CASE k \notin Swept
    <3>1. Cardinality(live \cup {k}) = Cardinality(live) + 1
      BY <1>2, <1>4, <2>2, FS_AddElement
    <3>2. CASE Full(Swept)
      <4>1. PICK e \in Swept : gone = {e}
        BY <2>2, <3>2 DEF Evicted
      <4>2. Cardinality(live) = Cardinality(Swept) - 1
        BY <1>4, <4>1, FS_RemoveElement
      <4>. QED  BY <1>4, <1>5, <1>6, <3>1, <4>2 DEF BucketsInv, BucketsBounded
    <3>3. CASE ~Full(Swept)
      <4>1. live = Swept
        BY <2>2, <3>3 DEF Evicted
      <4>. QED  BY <1>5, <1>6, <3>1, <3>3, <4>1 DEF Full
    <3>. QED  BY <3>2, <3>3
  <2>. QED  BY <2>1, <2>2
<1>. QED  BY <1>1, <1>2, <1>7 DEF BucketsInv, BucketsBounded

-----------------------------------------------------------------------------
(* Requests                                                                 *)

Config ==
  [cors : BOOLEAN, origins : SUBSET (Origin \cup {"*"}), limiter : BOOLEAN,
   trust : BOOLEAN, proxy : {"none", "overwrites", "extends", "adds"},
   bodyLimit : BOOLEAN, timeout : BOOLEAN, compress : BOOLEAN]
Entry == Key \cup {"", "opaque"}
Request ==
  [client : Key, sent : Seq(Seq(Entry) \ {<<>>}), options : BOOLEAN, gzip : BOOLEAN,
   origin : Origin \cup {None}, body : [declared : BOOLEAN, size : Nat]]

Answers ==
  [status : Nat, allow : Origin \cup {"*", None},
   vary : SUBSET {"Origin", "Accept-Encoding"}, coded : BOOLEAN]

ReqType ==
  /\ config \in Config /\ request \in [Req -> Request]
  /\ phase \in [Req -> {"pre", "handler", "done"}]
  /\ capped \in [Req -> BOOLEAN]
  /\ read \in [Req -> Nat]
  /\ answer \in [Req -> Answers]

\* A request that a handler has seen carries the limit.
Capped == \A r \in Req : phase[r] = "handler" => capped[r] = config.bodyLimit

\* A response says what it depends on.
Tells(response, r) ==
  response.status \notin {0, 413, 429} =>
    /\ config.cors => /\ response.allow = Granted(request[r].origin)
                      /\ Wildcard \/ "Origin" \in response.vary
    /\ response.coded => request[r].gzip /\ "Accept-Encoding" \in response.vary

\* There is no answer before the handler's.
Unanswered == \A r \in Req : phase[r] # "done" => answer[r].status = 0

ReqInv ==
  ReqType /\ Capped /\ BodyBounded /\ Unanswered /\ \A r \in Req : Tells(answer[r], r)

\* What is assumed of the constants, apart from the traffic.
LEMMA Given == Proxy \in Key /\ "" \notin Key /\ "opaque" \notin Key
  BY PipelineAssumption

LEMMA BytesNat == MaxBytes \in Nat
  BY PipelineAssumption

\* Lines of a sequence of lines.
LEMMA LineList ==
  ASSUME NEW S, NEW s \in Seq(S), NEW e \in S
  PROVE  /\ <<e>> \in Seq(S) /\ Append(s, e) \in Seq(S)
         /\ s # <<>> => /\ Len(s) \in 1..Len(s) /\ s[Len(s)] \in S /\ s[1] \in S
                        /\ [s EXCEPT ![Len(s)] = e] \in Seq(S)
OBVIOUS

\* One entry more at the end of a line.
LEMMA LineGrows ==
  ASSUME NEW S, NEW s \in Seq(S), NEW e \in S
  PROVE  s \o <<e>> \in Seq(S) \ {<<>>}
<1>1. s \o <<e>> \in Seq(S) /\ Len(s \o <<e>>) = Len(s) + 1 /\ Len(s) \in Nat
  OBVIOUS
<1>2. Len(<<>>) = 0
  OBVIOUS
<1>. QED  BY <1>1, <1>2

\* A line of one entry.
LEMMA OneEntry ==
  ASSUME NEW e \in Entry
  PROVE  <<e>> \in Seq(Entry) \ {<<>>} /\ Len(<<e>>) = 1
<1>1. <<e>> \in Seq(Entry) /\ Len(<<e>>) = 1 /\ Len(<<>>) = 0
  OBVIOUS
<1>. QED  BY <1>1

\* A line, and what is read of it.
LEMMA LineAt ==
  ASSUME NEW line \in Seq(Entry) \ {<<>>}
  PROVE  Len(line) \in 1..Len(line) /\ line[Len(line)] \in Entry
OBVIOUS

\* What reaches the server of X-Forwarded-For.
LEMMA FirstLineType ==
  ASSUME ReqType, NEW r \in Req
  PROVE  FirstLine(r) \in Seq(Entry) \ {<<>>}
<1> DEFINE sent == request[r].sent
           me == request[r].client
           Line == Seq(Entry) \ {<<>>}
<1>1. /\ sent \in Seq(Line) /\ me \in Key
      /\ config.proxy \in {"none", "overwrites", "extends", "adds"}
  BY DEF ReqType, Request, Config
<1>2. me \in Entry /\ <<me>> \in Line /\ <<"">> \in Line
  <2>1. me \in Entry /\ "" \in Entry
    BY <1>1 DEF Entry
  <2>. QED  BY <2>1, OneEntry
<1>3. ASSUME NEW line \in Line PROVE line \o <<me>> \in Line
  BY <1>2, LineGrows
<1>4. \/ Lines(r) = sent \/ Lines(r) = <<<<me>>>> \/ Lines(r) = Append(sent, <<me>>)
      \/ sent # <<>> /\ Lines(r) = [sent EXCEPT ![Len(sent)] = sent[Len(sent)] \o <<me>>]
  <2>1. CASE config.proxy = "none"
    BY <2>1 DEF Lines
  <2>2. CASE config.proxy = "overwrites"
    BY <2>2 DEF Lines
  <2>3. CASE config.proxy = "extends"
    BY <2>3 DEF Lines
  <2>4. CASE config.proxy = "adds"
    BY <2>4 DEF Lines
  <2>. QED  BY <1>1, <2>1, <2>2, <2>3, <2>4
<1> HIDE DEF Line, sent, me
<1>5. Lines(r) \in Seq(Line)
  <2>1. CASE sent # <<>> /\ Lines(r) = [sent EXCEPT ![Len(sent)] = sent[Len(sent)] \o <<me>>]
    <3>1. sent[Len(sent)] \o <<me>> \in Line
      BY <1>1, <1>2, <1>3, <2>1, LineList
    <3>. QED  BY <1>1, <2>1, <3>1, LineList
  <2>. QED  BY <1>1, <1>2, <1>4, <2>1, LineList
<1>6. Lines(r) # <<>> => Lines(r)[1] \in Line
  BY <1>2, <1>5, LineList
<1>7. FirstLine(r) \in Line
  BY <1>2, <1>6 DEF FirstLine
<1>. QED  BY <1>7 DEF Line

\* Every request has a key, be it whose it may.
LEMMA KeyType ==
  ASSUME ReqType, NEW r \in Req
  PROVE  rate_limit_key(r) \in Key /\ request[r].client \in Key
<1> DEFINE line == FirstLine(r)
           last == line[Len(line)]
<1>1. request[r].client \in Key /\ Peer(r) \in Key
  BY Given DEF ReqType, Request, Peer
<1>2. line \in Seq(Entry) \ {<<>>}
  BY FirstLineType
<1> HIDE DEF line
<1>3. Len(line) \in DOMAIN line /\ last \in Entry
  BY <1>2, LineAt
<1>4. Readable(line) /\ last # "" => last \in Key
  BY <1>3 DEF Readable, Entry
<1>. QED  BY <1>1, <1>4 DEF rate_limit_key, line

\* A request that is vouched for is counted as its client's: the only line that can be
\* read ends with what the proxy wrote, or there is no proxy and nothing to read.
LEMMA ClientIsKey ==
  ASSUME ReqType, NEW r \in Req, Vouched(r)
  PROVE  rate_limit_key(r) = request[r].client
<1> DEFINE sent == request[r].sent
           me == request[r].client
<1>1. /\ sent \in Seq(Seq(Entry) \ {<<>>}) /\ me \in Key
      /\ config.proxy \in {"none", "overwrites", "extends", "adds"}
  BY DEF ReqType, Request, Config
<1>2. me # "" /\ me # "opaque"
  BY <1>1, Given
<1>3. CASE config.proxy = "none"
  <2>1. config.trust => sent = <<>> \/ sent[1] = <<"">>
    BY <1>3 DEF Vouched
  <2>2. config.trust => FirstLine(r) = <<"">>
    BY <1>3, <2>1 DEF FirstLine, Lines
  <2>3. Peer(r) = me
    BY <1>3 DEF Peer
  <2>4. Len(<<"">>) = 1 /\ <<"">>[1] = ""
    OBVIOUS
  <2>5. CASE config.trust
    <3>1. FirstLine(r)[Len(FirstLine(r))] = ""
      BY <2>2, <2>4, <2>5
    <3>. QED  BY <2>3, <3>1 DEF rate_limit_key
  <2>6. CASE ~config.trust
    BY <2>3, <2>6 DEF rate_limit_key
  <2>. QED  BY <2>5, <2>6
<1>4. CASE config.proxy # "none"
  <2>1. config.trust
    BY <1>4 DEF Vouched
  <2>2. ASSUME NEW line \in Seq(Entry), Readable(line), FirstLine(r) = line \o <<me>>
        PROVE  rate_limit_key(r) = me
    <3>1. me \in Entry
      BY <1>1 DEF Entry
    <3> HIDE DEF me
    <3>2. /\ Len(line \o <<me>>) = Len(line) + 1 /\ (line \o <<me>>)[Len(line) + 1] = me
          /\ \A i \in 1..(Len(line) + 1) :
               (line \o <<me>>)[i] = IF i = Len(line) + 1 THEN me ELSE line[i]
          /\ DOMAIN (line \o <<me>>) = 1..(Len(line) + 1)
      BY <2>2, <3>1
    <3>3. Readable(line \o <<me>>)
      <4> SUFFICES ASSUME NEW i \in DOMAIN (line \o <<me>>)
                   PROVE  (line \o <<me>>)[i] # "opaque"
        BY DEF Readable
      <4>1. CASE i = Len(line) + 1
        BY <1>2, <3>2, <4>1
      <4>2. CASE i # Len(line) + 1
        <5>1. i \in DOMAIN line
          BY <3>2, <4>2
        <5>. QED  BY <2>2, <3>2, <4>2, <5>1 DEF Readable
      <4>. QED  BY <4>1, <4>2
    <3>. QED  BY <1>2, <2>1, <2>2, <3>2, <3>3 DEF rate_limit_key
  <2>3. Readable(<<>>) /\ <<>> \in Seq(Entry) /\ <<>> \o <<me>> = <<me>>
    BY DEF Readable
  <2>4. CASE FirstLine(r) = <<me>>
    <3>1. FirstLine(r) = <<>> \o <<me>>
      BY <2>3, <2>4
    <3>. QED  BY <2>2, <2>3, <3>1
  <2>5. CASE config.proxy = "extends" /\ sent # <<>> /\ Len(sent) = 1 /\ Readable(sent[1])
    <3>1. Lines(r) = [sent EXCEPT ![1] = @ \o <<me>>]
      BY <2>5 DEF Lines
    <3>2. sent[1] \in Seq(Entry) /\ 1 \in DOMAIN sent
      BY <1>1, <2>5
    <3>3. Lines(r)[1] = sent[1] \o <<me>> /\ Lines(r) # <<>>
      <4> HIDE DEF sent, me
      <4>1. DOMAIN [sent EXCEPT ![1] = @ \o <<me>>] = DOMAIN sent /\ DOMAIN <<>> = {}
        OBVIOUS
      <4>. QED  BY <3>1, <3>2, <4>1
    <3>4. FirstLine(r) = sent[1] \o <<me>>
      BY <3>3 DEF FirstLine
    <3>. QED  BY <2>2, <2>5, <3>2, <3>4
  <2>6. CASE sent = <<>> \/ config.proxy = "overwrites"
    <3>1. Lines(r) = <<<<me>>>>
      <4>1. Append(<<>>, <<me>>) = <<<<me>>>>
        OBVIOUS
      <4>. QED  BY <1>1, <1>4, <2>6, <4>1 DEF Lines
    <3>2. <<<<me>>>> # <<>> /\ <<<<me>>>>[1] = <<me>>
      OBVIOUS
    <3>. QED  BY <2>4, <3>1, <3>2 DEF FirstLine
  <2>. QED  BY <1>4, <2>5, <2>6 DEF Vouched
<1>. QED  BY <1>3, <1>4

LEMMA PlainType ==
  ASSUME NEW status \in Nat
  PROVE  Plain(status) \in Answers
  BY DEF Plain, Answers

\* CORS headers for a response without them.
LEMMA Headers ==
  ASSUME ReqType, NEW response \in Answers, NEW o \in Origin \cup {None}
  PROVE  LET answered == apply_headers(response, o)
         IN  /\ answered \in Answers
             /\ answered.allow = Granted(o)
             /\ Wildcard \/ "Origin" \in answered.vary
             /\ answered.status = response.status /\ answered.coded = response.coded
             /\ response.vary \subseteq answered.vary
<1>1. Granted(o) \in Origin \cup {"*", None}
  BY DEF Granted, ReqType, Config
<1>. QED  BY <1>1 DEF apply_headers, add_vary_origin, Answers

LEMMA InitReq == Init => ReqInv
<1> SUFFICES ASSUME Init PROVE ReqInv
  OBVIOUS
<1>1. PICK t \in Traffic : config = t.config /\ request \in [Req -> t.requests]
  BY DEF Init
<1>2. config \in Config /\ request \in [Req -> Request]
  BY <1>1, PipelineAssumption DEF Config, Request, Entry, None
<1>3. Plain(0) \in Answers /\ Plain(0).status = 0
  BY PlainType DEF Plain
<1>4. ReqType
  BY <1>2, <1>3 DEF Init, ReqType
<1>. QED
  BY <1>3, <1>4, BytesNat DEF Init, ReqInv, Capped, BodyBounded, Unanswered, Tells

\* A response goes out.
LEMMA Answering ==
  ASSUME ReqInv, NEW r \in Req, NEW response \in Answers, Tells(response, r),
         Answer(r, response), UNCHANGED <<request, config, capped, read>>
  PROVE  ReqInv'
<1>1. ReqType'
  BY DEF ReqInv, ReqType, Answer
<1>2. \A q \in Req : Tells(answer'[q], q)
  BY DEF ReqInv, ReqType, Answer
<1>3. Unanswered'
  BY DEF ReqInv, ReqType, Answer, Unanswered
<1>4. Capped' /\ BodyBounded'
  BY DEF ReqInv, ReqType, Answer, Capped, BodyBounded
<1>5. \A q \in Req : Tells(answer[q], q)'
  BY <1>2 DEF Tells, Granted, Wildcard
<1>. QED  BY <1>1, <1>3, <1>4, <1>5 DEF ReqInv

\* What goes through post_handle tells what it depends on.
LEMMA PostAnswering ==
  ASSUME ReqInv, NEW r \in Req, NEW response \in Answers,
         response.coded => request[r].gzip /\ "Accept-Encoding" \in response.vary,
         PostHandle(r, response), UNCHANGED <<request, config, capped, read>>
  PROVE  ReqInv'
<1> DEFINE headed == apply_headers(response, request[r].origin)
<1>1. request[r].origin \in Origin \cup {None}
  BY DEF ReqInv, ReqType, Request
<1>2. /\ headed \in Answers /\ headed.allow = Granted(request[r].origin)
      /\ Wildcard \/ "Origin" \in headed.vary
      /\ headed.coded = response.coded /\ response.vary \subseteq headed.vary
  BY <1>1, Headers DEF ReqInv
<1> HIDE DEF headed
<1>3. CASE config.cors
  <2>1. Tells(headed, r)
    BY <1>2 DEF Tells
  <2>2. Answer(r, headed)
    BY <1>3 DEF PostHandle, headed
  <2>. QED  BY <1>2, <2>1, <2>2, Answering
<1>4. CASE ~config.cors
  <2>1. Tells(response, r) /\ Answer(r, response)
    BY <1>4 DEF Tells, PostHandle
  <2>. QED  BY <2>1, Answering
<1>. QED  BY <1>3, <1>4

\* The length is checked and the handler called, or the answer is 413.
LEMMA CheckLengthKeeps ==
  ASSUME ReqInv, NEW r \in Req, phase[r] = "pre", CheckLength(r),
         UNCHANGED <<request, config, read>>
  PROVE  ReqInv'
<1>1. CASE TooLong(r)
  <2>1. Plain(413) \in Answers /\ Tells(Plain(413), r)
    BY PlainType DEF Plain, Tells
  <2>. QED  BY <1>1, <2>1, Answering DEF CheckLength
<1>2. CASE ~TooLong(r)
  <2>1. ReqType' /\ Capped' /\ BodyBounded'
    BY <1>2 DEF CheckLength, ReqInv, ReqType, Config, Capped, BodyBounded, Injected
  <2>2. UNCHANGED answer /\ \A q \in Req : phase'[q] # "done" => phase[q] # "done"
    BY <1>2 DEF CheckLength, ReqInv, ReqType
  <2>. QED
    BY <2>1, <2>2 DEF ReqInv, Tells, Granted, Wildcard, Unanswered
<1>. QED  BY <1>1, <1>2

\* What a handler answers.
LEMMA ResponseType ==
  ASSUME ReqType, NEW r \in Req, NEW status \in {200, 500}
  PROVE  LET response == Response(r, status)
         IN  /\ response \in Answers /\ response.status = status
             /\ response.coded => request[r].gzip /\ "Accept-Encoding" \in response.vary
<1>1. /\ Plain(status) \in Answers /\ ~Plain(status).coded
      /\ Plain(status).status = status
  BY PlainType DEF Plain
<1>2. CASE status = 200 /\ config.compress /\ request[r].gzip
  <2>1. Response(r, status) = [status |-> 200, allow |-> None,
                               vary |-> {"Accept-Encoding"}, coded |-> TRUE]
    BY <1>2 DEF Response, Plain
  <2>2. Response(r, status) \in Answers
    BY <2>1 DEF Answers
  <2>3. "Accept-Encoding" \in Response(r, status).vary /\ Response(r, status).status = 200
    BY <2>1
  <2>. QED  BY <1>2, <2>2, <2>3
<1>3. CASE ~(status = 200 /\ config.compress /\ request[r].gzip)
  BY <1>1, <1>3 DEF Response
<1>. QED  BY <1>2, <1>3

LEMMA ReqStep == ReqInv /\ [Next]_vars => ReqInv'
<1> SUFFICES ASSUME ReqInv, [Next]_vars PROVE ReqInv'
  OBVIOUS
<1>1. ASSUME NEW r \in Req, PreHandle(r) PROVE ReqInv'
  <2>1. UNCHANGED <<request, read, config>> /\ phase[r] = "pre"
    BY <1>1 DEF PreHandle
  <2>2. CASE Preflight(r) /\ Answer(r, apply_headers(Plain(204), request[r].origin))
                         /\ UNCHANGED capped
    <3>1. PostHandle(r, Plain(204))
      BY <2>2 DEF PostHandle, Preflight
    <3>2. Plain(204) \in Answers /\ ~Plain(204).coded
      BY PlainType DEF Plain
    <3>. QED  BY <2>1, <2>2, <3>1, <3>2, PostAnswering
  <2>3. CASE CheckLength(r)
    BY <2>1, <2>3, CheckLengthKeeps
  <2>4. CASE Answer(r, Plain(429)) /\ UNCHANGED capped
    <3>1. Plain(429) \in Answers /\ Tells(Plain(429), r)
      BY PlainType DEF Plain, Tells
    <3>. QED  BY <2>1, <2>4, <3>1, Answering
  <2>. QED  BY <1>1, <2>2, <2>3, <2>4 DEF PreHandle
<1>2. ASSUME NEW r \in Req, NEW status \in {200, 500}
      PROVE  LET response == Response(r, status)
             IN  /\ response \in Answers
                 /\ response.coded => request[r].gzip /\ "Accept-Encoding" \in response.vary
  BY ResponseType DEF ReqInv
<1>3. ASSUME NEW r \in Req, NEW n \in 1..MaxBytes + 1, ReadFrame(r, n) PROVE ReqInv'
  <2>1. CASE Overrun(r, n)
    <3>1. PICK status \in {200, 500} : PostHandle(r, Response(r, status))
      BY <1>3, <2>1 DEF ReadFrame
    <3>. QED  BY <1>2, <1>3, <2>1, <3>1, PostAnswering DEF ReadFrame
  <2>2. CASE ~Overrun(r, n)
    <3>1. n \in Nat /\ read' = [read EXCEPT ![r] = @ + n]
      BY <1>3, <2>2, BytesNat DEF ReadFrame
    <3>2. ReqType'
      BY <1>3, <2>2, <3>1 DEF ReadFrame, ReqInv, ReqType
    <3>3. BodyBounded'
      <4>1. config.bodyLimit => read[r] + n <= MaxBytes
        <5>1. config.bodyLimit => capped[r]
          BY <1>3 DEF ReadFrame, ReqInv, Capped
        <5>2. config.bodyLimit => ~(read[r] + n > MaxBytes)
          BY <2>2, <5>1 DEF Overrun
        <5>3. read[r] \in Nat
          BY DEF ReqInv, ReqType
        <5>. QED  BY <3>1, <5>2, <5>3, BytesNat
      <4>2. \A q \in Req : read'[q] = IF q = r THEN read[r] + n ELSE read[q]
        BY <3>1 DEF ReqInv, ReqType
      <4>. QED  BY <1>3, <4>1, <4>2 DEF ReadFrame, ReqInv, BodyBounded
    <3>. QED
      BY <1>3, <2>2, <3>2, <3>3
         DEF ReadFrame, ReqInv, Capped, Unanswered, Tells, Granted, Wildcard
  <2>. QED  BY <2>1, <2>2
<1>4. ASSUME NEW r \in Req, Return(r) PROVE ReqInv'
  <2>1. PICK status \in {200, 500} : PostHandle(r, Response(r, status))
    BY <1>4 DEF Return
  <2>. QED  BY <1>2, <1>4, <2>1, PostAnswering DEF Return
<1>5. ASSUME NEW r \in Req, TimedOut(r) PROVE ReqInv'
  <2>1. Plain(408) \in Answers /\ ~Plain(408).coded
    BY PlainType DEF Plain
  <2>. QED  BY <1>5, <2>1, PostAnswering DEF TimedOut
<1>6. CASE Clock \/ UNCHANGED vars
  BY <1>6 DEF Clock, vars, reqVars, ReqInv, ReqType, Capped, BodyBounded, Unanswered, Tells,
     Granted, Wildcard
<1>. QED  BY <1>1, <1>3, <1>4, <1>5, <1>6 DEF Next

LEMMA ReqInvariant == Spec => []ReqInv
  BY InitReq, ReqStep, PTL DEF Spec

\* The limiter is used by pre_handle only.
LEMMA LimiterUse ==
  ASSUME ReqInv, [Next]_vars
  PROVE  \/ UNCHANGED <<buckets, grants>>
         \/ \E k \in Key, ok \in BOOLEAN : Check(k, ok)
<1>1. ASSUME NEW r \in Req, PreHandle(r), ~UNCHANGED <<buckets, grants>>
      PROVE  \E k \in Key, ok \in BOOLEAN : Check(k, ok)
  BY <1>1, KeyType DEF PreHandle, ReqInv, limiterVars
<1>. QED
  BY <1>1 DEF Next, Clock, Tick, ReadFrame, Return, TimedOut, limiterVars, vars

\* The bucket map never outgrows its cap, for any number of clients: the sweep and the
\* eviction make room before a bucket is added (RateLimiter::check).
THEOREM BucketsKept == Spec => []BucketsBounded
<1>1. Init => BucketsInv
  BY LimiterAssumption, FS_EmptySet
     DEF Init, LimiterInit, BucketsInv, BucketsBounded, max_buckets
<1>2. ReqInv /\ BucketsInv /\ [Next]_vars => BucketsInv'
  <2> SUFFICES ASSUME ReqInv, BucketsInv, [Next]_vars PROVE BucketsInv'
    OBVIOUS
  <2>1. CASE UNCHANGED <<buckets, grants>>
    BY <2>1 DEF BucketsInv, BucketsBounded
  <2>. QED  BY <2>1, LimiterUse, CheckBuckets
<1>3. BucketsInv => BucketsBounded
  BY DEF BucketsInv
<1>. QED  BY <1>1, <1>2, <1>3, ReqInvariant, PTL DEF Spec

\* No handler holds more of a body than the limit, declared or chunked, whatever the
\* sizes of its frames (collect_body_limited).
THEOREM BodyKept == Spec => []BodyBounded
  BY ReqInvariant, PTL DEF ReqInv

\* An answer may be given to every request that agrees with its own in the headers
\* named by Vary, for every set of allowed origins (apply_headers, Compression).
THEOREM CacheKept == Spec => []CacheSafe
<1>1. ReqInv => CacheSafe
  <2> SUFFICES ASSUME ReqInv, NEW r \in Req, NEW s \in Req,
                      answer[r].status \notin {0, 413, 429},
                      \A h \in answer[r].vary : Field(r, h) = Field(s, h)
               PROVE  /\ config.cors => answer[r].allow = Granted(request[s].origin)
                      /\ answer[r].coded => request[s].gzip
    BY DEF CacheSafe
  <2>1. Tells(answer[r], r)
    BY DEF ReqInv
  <2>2. config.cors => answer[r].allow = Granted(request[s].origin)
    BY <2>1 DEF Tells, Field, Granted
  <2>3. answer[r].coded => request[s].gzip
    BY <2>1 DEF Tells, Field
  <2>. QED  BY <2>2, <2>3
<1>. QED  BY <1>1, ReqInvariant, PTL

-----------------------------------------------------------------------------
(* Tokens                                                                   *)

Attributed == config.limiter /\ \A r \in Req : Vouched(r)

Counted ==
  Attributed =>
    \A k \in Key : IsFiniteSet(Admitted(k)) /\ Cardinality(Admitted(k)) = Len(grants[k])

TokensInv == now \in Nat /\ grants \in [Key -> Seq(Nat)] /\ Counted

\* A check that passes is one grant more of its key, another one none.
LEMMA CheckGrants ==
  ASSUME TokensInv, NEW k \in Key, NEW ok \in BOOLEAN, Check(k, ok)
  PROVE  /\ now' = now /\ grants' \in [Key -> Seq(Nat)]
         /\ \A x \in Key :
              Len(grants'[x]) = IF x = k /\ ok THEN Len(grants[x]) + 1 ELSE Len(grants[x])
<1>1. now' = now /\ grants' = [grants EXCEPT ![k] = IF ok THEN Append(@, now) ELSE @]
  BY DEF Check
<1>2. CASE ok
  <2>1. grants' = [grants EXCEPT ![k] = Append(@, now)]
    BY <1>1, <1>2
  <2>. QED  BY <1>1, <1>2, <2>1 DEF TokensInv
<1>3. CASE ~ok
  <2>1. grants' = grants
    BY <1>1, <1>3 DEF TokensInv
  <2>. QED  BY <1>1, <1>3, <2>1 DEF TokensInv
<1>. QED  BY <1>2, <1>3

\* Requests that have been admitted stay so, and nobody joins them.
LEMMA NobodyJoins ==
  ASSUME ReqType, UNCHANGED <<request, config>>,
         \A q \in Req : (phase'[q] # "pre" /\ answer'[q].status \notin {204, 429})
                     <=> (phase[q] # "pre" /\ answer[q].status \notin {204, 429})
  PROVE  \A k : Admitted(k)' = Admitted(k)
  BY DEF Admitted

\* A response that is not the limiter's or a preflight's, to a request in its handler.
LEMMA HandlerAnswers ==
  ASSUME ReqInv, NEW r \in Req, phase[r] = "handler", NEW response \in Answers,
         response.status \notin {204, 429}, PostHandle(r, response),
         UNCHANGED <<request, config>>
  PROVE  \A k : Admitted(k)' = Admitted(k)
<1>1. request[r].origin \in Origin \cup {None}
  BY DEF ReqInv, ReqType, Request
<1>2. apply_headers(response, request[r].origin).status = response.status
  BY <1>1, Headers DEF ReqInv
<1>3. PICK sent : sent.status = response.status /\ Answer(r, sent)
  BY <1>2 DEF PostHandle
<1>4. answer[r].status = 0
  BY DEF ReqInv, Unanswered
<1>. QED  BY <1>3, <1>4, NobodyJoins DEF Answer, ReqInv, ReqType

\* A rejection by pre_handle that the limiter or the preflight decides.
LEMMA PreAnswers ==
  ASSUME ReqInv, NEW r \in Req, phase[r] = "pre", NEW response,
         response.status \in {204, 429}, Answer(r, response), UNCHANGED <<request, config>>
  PROVE  \A k : Admitted(k)' = Admitted(k)
  BY NobodyJoins DEF Answer, ReqInv, ReqType

\* A request that gets to its length joins those of its client.
LEMMA ClientJoins ==
  ASSUME ReqInv, NEW r \in Req, phase[r] = "pre", CheckLength(r),
         UNCHANGED <<request, config>>, NEW k \in Key
  PROVE  Admitted(k)' = Admitted(k) \cup (IF request[r].client = k THEN {r} ELSE {})
<1>1. /\ phase'[r] # "pre" /\ answer'[r].status \notin {204, 429}
      /\ \A q \in Req \ {r} : phase'[q] = phase[q] /\ answer'[q] = answer[q]
  <2>1. CASE TooLong(r)
    BY <2>1 DEF CheckLength, Answer, Plain, ReqInv, ReqType
  <2>2. CASE ~TooLong(r)
    BY <2>2 DEF CheckLength, ReqInv, ReqType, Unanswered
  <2>. QED  BY <2>1, <2>2
<1>. QED  BY <1>1 DEF Admitted

LEMMA TokensPre ==
  ASSUME ReqInv, TokensInv, NEW r \in Req, PreHandle(r)
  PROVE  TokensInv'
<1>1. /\ UNCHANGED <<request, config>> /\ phase[r] = "pre"
      /\ (Attributed' <=> Attributed) /\ (Attributed => config.limiter)
  <2>1. UNCHANGED <<request, config>>
    BY DEF PreHandle
  <2>2. \A q : Vouched(q)' <=> Vouched(q)
    BY <2>1 DEF Vouched, Readable
  <2>. QED  BY <2>1, <2>2 DEF PreHandle, Attributed
<1>2. CASE /\ Answer(r, apply_headers(Plain(204), request[r].origin))
           /\ UNCHANGED limiterVars
  <2>1. apply_headers(Plain(204), request[r].origin).status = 204
    <3>1. Plain(204) \in Answers /\ request[r].origin \in Origin \cup {None}
      BY PlainType DEF ReqInv, ReqType, Request
    <3>. QED  BY <3>1, Headers DEF Plain, ReqInv
  <2>2. \A k : Admitted(k)' = Admitted(k)
    BY <1>1, <1>2, <2>1, PreAnswers
  <2>. QED  BY <1>1, <1>2, <2>2 DEF TokensInv, Counted, limiterVars
<1>3. ASSUME NEW ok \in BOOLEAN, Check(rate_limit_key(r), ok),
             IF ok THEN CheckLength(r) ELSE Answer(r, Plain(429))
      PROVE  TokensInv'
  <2> DEFINE me == rate_limit_key(r)
  <2>1. me \in Key /\ Check(me, ok)
    BY <1>3, KeyType DEF ReqInv
  <2>5. Attributed => me = request[r].client
    BY ClientIsKey DEF Attributed, ReqInv
  <2> HIDE DEF me
  <2>2. /\ now' = now /\ grants' \in [Key -> Seq(Nat)]
        /\ \A x \in Key : Len(grants'[x]) = IF x = me /\ ok THEN Len(grants[x]) + 1
                                                         ELSE Len(grants[x])
    BY <2>1, CheckGrants
  <2>3. CASE ~ok
    <3>1. \A k : Admitted(k)' = Admitted(k)
      BY <1>1, <1>3, <2>3, PreAnswers DEF Plain
    <3>. QED  BY <1>1, <2>2, <2>3, <3>1 DEF TokensInv, Counted
  <2>4. CASE ok
    <3>1. ASSUME Attributed, NEW k \in Key
          PROVE  /\ IsFiniteSet(Admitted(k)')
                 /\ Cardinality(Admitted(k)') = Len(grants'[k])
      <4>1. IsFiniteSet(Admitted(k)) /\ Cardinality(Admitted(k)) = Len(grants[k])
        BY <3>1 DEF TokensInv, Counted
      <4>2. Admitted(k)' = Admitted(k) \cup (IF me = k THEN {r} ELSE {})
        BY <1>1, <1>3, <2>4, <2>5, <3>1, ClientJoins
      <4>3. CASE me = k
        <5>1. r \notin Admitted(k)
          BY <1>1 DEF Admitted
        <5>2. Admitted(k)' = Admitted(k) \cup {r}
          BY <4>2, <4>3
        <5>3. /\ IsFiniteSet(Admitted(k)')
              /\ Cardinality(Admitted(k)') = Cardinality(Admitted(k)) + 1
          BY <4>1, <5>1, <5>2, FS_AddElement
        <5>4. Len(grants'[k]) = Len(grants[k]) + 1
          BY <2>2, <2>4, <4>3
        <5>. QED  BY <4>1, <5>3, <5>4
      <4>4. CASE me # k
        <5>1. Admitted(k)' = Admitted(k)
          BY <4>2, <4>4
        <5>. QED  BY <2>2, <4>1, <4>4, <5>1
      <4>. QED  BY <4>3, <4>4
    <3>. QED  BY <1>1, <2>2, <3>1 DEF TokensInv, Counted
  <2>. QED  BY <2>3, <2>4
<1>4. CASE ~config.limiter /\ UNCHANGED limiterVars
  BY <1>1, <1>4 DEF TokensInv, Counted, limiterVars
<1>. QED  BY <1>2, <1>3, <1>4 DEF PreHandle

LEMMA TokensStep == ReqInv /\ TokensInv /\ [Next]_vars => TokensInv'
<1> SUFFICES ASSUME ReqInv, TokensInv, [Next]_vars PROVE TokensInv'
  OBVIOUS
<1>1. ASSUME UNCHANGED <<limiterVars, config, request>>, \A k : Admitted(k)' = Admitted(k)
      PROVE  TokensInv'
  <2>1. Attributed' <=> Attributed
    BY <1>1 DEF Attributed, Vouched, Readable
  <2>. QED  BY <1>1, <2>1 DEF TokensInv, Counted, limiterVars
<1>2. ASSUME NEW r \in Req, NEW status \in {200, 500}
      PROVE  /\ Response(r, status) \in Answers
             /\ Response(r, status).status \notin {204, 429}
  BY ResponseType DEF ReqInv
<1>3. ASSUME NEW r \in Req, NEW n \in 1..MaxBytes + 1, ReadFrame(r, n)
      PROVE  TokensInv'
  <2>1. CASE Overrun(r, n)
    <3>1. PICK status \in {200, 500} : PostHandle(r, Response(r, status))
      BY <1>3, <2>1 DEF ReadFrame
    <3>. QED  BY <1>1, <1>2, <1>3, <3>1, HandlerAnswers DEF ReadFrame
  <2>2. CASE ~Overrun(r, n)
    BY <1>1, <1>3, <2>2, NobodyJoins DEF ReadFrame, ReqInv
  <2>. QED  BY <2>1, <2>2
<1>4. ASSUME NEW r \in Req, Return(r) PROVE TokensInv'
  <2>1. PICK status \in {200, 500} : PostHandle(r, Response(r, status))
    BY <1>4 DEF Return
  <2>. QED  BY <1>1, <1>2, <1>4, <2>1, HandlerAnswers DEF Return
<1>5. ASSUME NEW r \in Req, TimedOut(r) PROVE TokensInv'
  <2>1. Plain(408) \in Answers /\ Plain(408).status \notin {204, 429}
    BY PlainType DEF Plain
  <2>. QED  BY <1>1, <1>5, <2>1, HandlerAnswers DEF TimedOut
<1>6. CASE Clock
  <2>1. UNCHANGED <<grants, config>> /\ \A k : Admitted(k)' = Admitted(k)
    BY <1>6, NobodyJoins DEF Clock, Tick, reqVars, ReqInv
  <2>2. now' \in Nat
    BY <1>6 DEF Clock, Tick, TokensInv
  <2>3. Attributed' <=> Attributed
    BY <1>6 DEF Clock, reqVars, Attributed, Vouched, Readable
  <2>. QED  BY <2>1, <2>2, <2>3 DEF TokensInv, Counted
<1>7. CASE UNCHANGED vars
  <2>1. Attributed' <=> Attributed
    BY <1>7 DEF vars, reqVars, Attributed, Vouched, Readable
  <2>. QED  BY <1>7, <2>1 DEF vars, TokensInv, Counted, Admitted, reqVars, limiterVars
<1>. QED  BY TokensPre, <1>3, <1>4, <1>5, <1>6, <1>7 DEF Next

\* The requests of a client that pass the limiter are the tokens it was granted, one
\* each, whatever is written into the one line of X-Forwarded-For that a trusted proxy
\* ends, and into any that it overwrites: for any number of requests.
THEOREM TokensKept == Spec => []OneTokenEach
<1>1. Init => TokensInv
  <2> SUFFICES ASSUME Init PROVE TokensInv
    OBVIOUS
  <2>1. \A k : Admitted(k) = {}
    BY DEF Init, Admitted
  <2>2. now \in Nat /\ grants = [k \in Key |-> <<>>]
    BY DEF Init, LimiterInit
  <2>3. Counted
    <3>1. IsFiniteSet({}) /\ Cardinality({}) = 0
      BY FS_EmptySet
    <3>2. \A k \in Key : Len(grants[k]) = 0
      BY <2>2
    <3>. QED  BY <2>1, <3>1, <3>2 DEF Counted
  <2>. QED  BY <2>2, <2>3 DEF TokensInv
<1>2. TokensInv => OneTokenEach
  BY DEF TokensInv, Counted, Attributed, OneTokenEach
<1>. QED  BY <1>1, <1>2, TokensStep, ReqInvariant, PTL DEF Spec

-----------------------------------------------------------------------------
(* The rate                                                                 *)

\* What the grants from the i-th on leave of the burst, and what has come back since.
Room(log, i, t) ==
  Capacity - (Len(log) - i + 1) * Grain + (t - log[i]) * RefillRate

\* v is all that the rate still allows at t: no more than the burst, nor than any of
\* the grants leaves room for, and as much as one of them.
Level(v, log, t) ==
  /\ v \in Int /\ v <= Capacity
  /\ \A i \in 1..Len(log) : v <= Room(log, i, t)
  /\ v = Capacity \/ \E i \in 1..Len(log) : v = Room(log, i, t)

\* What the parameters are.
LEMMA LimiterNumbers ==
  /\ Grain \in Nat /\ Grain > 0 /\ RefillRate \in Nat /\ Capacity \in Nat
  /\ IdleTimeout \in Nat
  BY LimiterAssumption DEF Capacity

\* A number, negative if the rate was exceeded.
LEMMA RoomType ==
  ASSUME NEW log \in Seq(Nat), NEW t \in Nat, NEW i \in 1..Len(log)
  PROVE  Room(log, i, t) \in Int
<1>1. log[i] \in Nat /\ Len(log) \in Nat
  OBVIOUS
<1>. QED  BY <1>1, LimiterNumbers DEF Room

\* Time gives back the same for all of them.
LEMMA RoomLater ==
  ASSUME NEW log \in Seq(Nat), NEW t \in Nat, NEW d \in Nat, NEW i \in 1..Len(log)
  PROVE  Room(log, i, t + d) = Room(log, i, t) + d * RefillRate
<1>1. PICK a \in Int : a = t - log[i]
  OBVIOUS
<1>2. t + d - log[i] = a + d
  BY <1>1
<1>3. (a + d) * RefillRate = a * RefillRate + d * RefillRate
  BY LimiterNumbers
<1>4. PICK b \in Int, c \in Int : b = a * RefillRate /\ c = d * RefillRate
  BY LimiterNumbers
<1>5. PICK g \in Int : g = (Len(log) - i + 1) * Grain
  <2>1. Len(log) - i + 1 \in Int
    OBVIOUS
  <2>. QED  BY <2>1, LimiterNumbers
<1>6. Room(log, i, t) = Capacity - g + b
  BY <1>1, <1>4, <1>5 DEF Room
<1>7. Room(log, i, t + d) = Capacity - g + (b + c)
  BY <1>2, <1>3, <1>4, <1>5 DEF Room
<1>. QED  BY <1>4, <1>6, <1>7, LimiterNumbers

\* So the level rises as a bucket does.
LEMMA LevelLater ==
  ASSUME NEW log \in Seq(Nat), NEW t \in Nat, NEW d \in Nat, NEW v, Level(v, log, t)
  PROVE  Level(Lesser(v + d * RefillRate, Capacity), log, t + d)
<1>1. PICK b \in Nat : b = d * RefillRate
  BY LimiterNumbers
<1>2. \A i \in 1..Len(log) : /\ Room(log, i, t) \in Int
                             /\ Room(log, i, t + d) = Room(log, i, t) + b
  BY <1>1, RoomType, RoomLater
<1>3. v + b \in Int /\ Lesser(v + b, Capacity) <= v + b
      /\ Lesser(v + b, Capacity) \in Int /\ Lesser(v + b, Capacity) <= Capacity
  BY LimiterNumbers DEF Level, Lesser
<1>4. \A i \in 1..Len(log) : v + b <= Room(log, i, t + d)
  BY <1>2 DEF Level
<1>5. \A i \in 1..Len(log) : Room(log, i, t + d) \in Int
  BY <1>2
<1>6. \A i \in 1..Len(log) : Lesser(v + b, Capacity) <= Room(log, i, t + d)
  BY <1>3, <1>4, <1>5
<1>7. CASE v + b >= Capacity
  <2>1. Lesser(v + b, Capacity) = Capacity
    BY <1>7, <1>3, LimiterNumbers DEF Lesser
  <2>. QED  BY <1>1, <1>3, <1>6, <2>1 DEF Level
<1>8. CASE v + b < Capacity
  <2>1. Lesser(v + b, Capacity) = v + b
    BY <1>8, <1>3, LimiterNumbers DEF Lesser
  <2>2. v # Capacity
    BY <1>1, <1>8, LimiterNumbers DEF Level
  <2>3. PICK i \in 1..Len(log) : v = Room(log, i, t)
    BY <2>2 DEF Level
  <2>4. v + b = Room(log, i, t + d)
    BY <1>2, <2>3
  <2>. QED  BY <1>1, <1>3, <1>6, <2>1, <2>4 DEF Level
<1>. QED  BY <1>3, <1>7, <1>8, LimiterNumbers

\* A grant takes a token's worth from all of them.
LEMMA LevelGrant ==
  ASSUME NEW log \in Seq(Nat), NEW t \in Nat, NEW v, Level(v, log, t)
  PROVE  Level(v - Grain, Append(log, t), t)
<1> DEFINE next == Append(log, t)
           n == Len(log)
<1>1. /\ n \in Nat /\ Len(next) = n + 1 /\ next[n + 1] = t
      /\ \A i \in 1..n : next[i] = log[i]
  OBVIOUS
<1> HIDE DEF next
<1>2. Room(next, n + 1, t) = Capacity - Grain
  <2>1. (t - t) * RefillRate = 0 /\ (n + 1 - (n + 1) + 1) * Grain = Grain
    BY <1>1, LimiterNumbers
  <2>. QED  BY <1>1, <2>1, LimiterNumbers DEF Room
<1>3. \A i \in 1..n : Room(next, i, t) = Room(log, i, t) - Grain
  <2> TAKE i \in 1..n
  <2>1. PICK a \in Int : a = n - i + 1
    BY <1>1
  <2>2. n + 1 - i + 1 = a + 1
    BY <1>1, <2>1
  <2>3. (a + 1) * Grain = a * Grain + Grain /\ a * Grain \in Int
    BY LimiterNumbers
  <2>4. PICK b \in Int : b = (t - log[i]) * RefillRate
    BY LimiterNumbers
  <2>. QED  BY <1>1, <2>1, <2>2, <2>3, <2>4, LimiterNumbers DEF Room
<1>4. \A i \in 1..n : Room(log, i, t) \in Int
  BY RoomType
<1>5. \A i \in 1..(n + 1) : i \in 1..n \/ i = n + 1
  BY <1>1
<1>6. /\ v - Grain \in Int /\ v - Grain <= Capacity
      /\ \A i \in 1..(n + 1) : v - Grain <= Room(next, i, t)
  BY <1>2, <1>3, <1>4, <1>5, LimiterNumbers DEF Level
<1>7. \E i \in 1..(n + 1) : v - Grain = Room(next, i, t)
  <2>1. CASE v = Capacity
    BY <1>1, <1>2, <2>1
  <2>2. CASE v # Capacity
    <3>1. PICK i \in 1..n : v = Room(log, i, t)
      BY <2>2 DEF Level
    <3>. QED  BY <1>1, <1>3, <3>1
  <2>. QED  BY <2>1, <2>2
<1>. QED  BY <1>1, <1>6, <1>7 DEF Level, next

\* There is a token exactly if one more grant stays within the rate.
LEMMA LevelDecides ==
  ASSUME NEW log \in Seq(Nat), NEW t \in Nat, NEW v, Level(v, log, t)
  PROVE  v >= Grain <=> Conforms(Append(log, t))
<1> DEFINE next == Append(log, t)
           n == Len(log)
<1>1. /\ n \in Nat /\ Len(next) = n + 1 /\ next[n + 1] = t
      /\ \A i \in 1..n : next[i] = log[i]
  OBVIOUS
<1> HIDE DEF next
<1>2. Conforms(next) <=>
        \A i \in 1..(n + 1) :
          (n + 1 - i + 1) * Grain <= Capacity + (t - next[i]) * RefillRate
  BY <1>1 DEF Conforms
<1>3. (n + 1 - (n + 1) + 1) * Grain <= Capacity + (t - next[n + 1]) * RefillRate
        <=> Grain <= Capacity
  <2>1. (t - t) * RefillRate = 0 /\ (n + 1 - (n + 1) + 1) * Grain = Grain
    BY <1>1, LimiterNumbers
  <2>. QED  BY <1>1, <2>1, LimiterNumbers
<1>4. \A i \in 1..n :
        (n + 1 - i + 1) * Grain <= Capacity + (t - next[i]) * RefillRate
          <=> Grain <= Room(log, i, t)
  <2> TAKE i \in 1..n
  <2>1. PICK a \in Int : a = n - i + 1
    BY <1>1
  <2>2. n + 1 - i + 1 = a + 1
    BY <1>1, <2>1
  <2>3. PICK c \in Int : c = a * Grain
    BY LimiterNumbers
  <2>4. (n + 1 - i + 1) * Grain = c + Grain
    <3>1. (a + 1) * Grain = a * Grain + Grain
      BY LimiterNumbers
    <3>. QED  BY <2>2, <2>3, <3>1
  <2>5. PICK b \in Int : b = (t - log[i]) * RefillRate
    BY LimiterNumbers
  <2>6. Room(log, i, t) = Capacity - c + b
    BY <2>1, <2>3, <2>5 DEF Room
  <2>7. (t - next[i]) * RefillRate = b
    BY <1>1, <2>5
  <2>. QED  BY <2>4, <2>6, <2>7, LimiterNumbers
<1>5. \A i \in 1..(n + 1) : i \in 1..n \/ i = n + 1
  BY <1>1
<1>6. Conforms(next) <=> Grain <= Capacity /\ \A i \in 1..n : Grain <= Room(log, i, t)
  BY <1>1, <1>2, <1>3, <1>4, <1>5
<1>7. \A i \in 1..n : Room(log, i, t) \in Int
  BY RoomType
<1>8. v >= Grain <=> Grain <= Capacity /\ \A i \in 1..n : Grain <= Room(log, i, t)
  BY <1>7, LimiterNumbers DEF Level
<1>. QED  BY <1>6, <1>8 DEF next

\* The tokens a key has at this moment, with a bucket or without.
Value(k) == IF k \in DOMAIN buckets THEN Refilled(buckets[k]).tokens ELSE Capacity

LimiterType ==
  /\ now \in Nat /\ DOMAIN buckets \subseteq Key
  /\ \A k \in DOMAIN buckets :
       buckets[k] \in [tokens : Nat, last_refill : Nat] /\ buckets[k].last_refill <= now
  /\ grants \in [Key -> Seq(Nat)]
  /\ forgotten \in [Key -> Nat] /\ \A k \in Key : forgotten[k] <= Len(grants[k])

Exact == \A k \in Key : Level(Value(k), Account(k), now)

\* Grants are of the past, and of the time before the key's bucket was last used.
Dated ==
  \A k \in Key : \A i \in 1..Len(grants[k]) :
    /\ grants[k][i] <= now
    /\ k \in DOMAIN buckets => grants[k][i] <= buckets[k].last_refill

LimiterInv == LimiterType /\ Exact /\ Dated

\* An account is a sequence of times.
LEMMA AccountType == ASSUME LimiterType, NEW k \in Key PROVE Account(k) \in Seq(Nat)
<1>1. grants[k] \in Seq(Nat) /\ forgotten[k] \in Nat /\ Len(grants[k]) \in Nat
  BY DEF LimiterType
<1>. QED  BY <1>1 DEF Account

\* Sequences of the same entries are the same.
LEMMA SameSequence ==
  ASSUME NEW S, NEW b \in Seq(S), NEW c \in Seq(S), Len(b) = Len(c),
         \A i \in 1..Len(b) : b[i] = c[i]
  PROVE  b = c
OBVIOUS

\* An entry of a part of a sequence.
LEMMA PartAt ==
  ASSUME NEW S, NEW s \in Seq(S), NEW m \in Nat, m <= Len(s)
  PROVE  LET p == SubSeq(s, m + 1, Len(s))
         IN  /\ p \in Seq(S) /\ Len(p) = Len(s) - m
             /\ \A i \in 1..(Len(s) - m) : p[i] = s[m + i]
<1>1. Len(s) \in Nat
  OBVIOUS
<1>2. SubSeq(s, m + 1, Len(s)) = [i \in 1..(Len(s) - m) |-> s[m + i]]
  <2>1. Len(s) - (m + 1) + 1 = Len(s) - m
    BY <1>1
  <2>2. \A i \in 1..(Len(s) - m) : i + (m + 1) - 1 = m + i
    BY <1>1
  <2>. QED  BY <1>1, <2>1, <2>2
<1>3. \A i \in 1..(Len(s) - m) : s[m + i] \in S
  BY <1>1
<1>. QED  BY <1>1, <1>2, <1>3

\* A grant is one more on the account.
LEMMA AccountGrows ==
  ASSUME NEW log \in Seq(Nat), NEW f \in Nat, f <= Len(log), NEW t \in Nat
  PROVE  SubSeq(Append(log, t), f + 1, Len(Append(log, t)))
           = Append(SubSeq(log, f + 1, Len(log)), t)
<1> DEFINE next == Append(log, t)
           a == SubSeq(log, f + 1, Len(log))
           b == SubSeq(next, f + 1, Len(next))
           c == Append(a, t)
           n == Len(log) - f
<1>1. /\ Len(log) \in Nat /\ next \in Seq(Nat) /\ Len(next) = Len(log) + 1 /\ n \in Nat
      /\ next[Len(log) + 1] = t /\ \A i \in 1..Len(log) : next[i] = log[i]
  OBVIOUS
<1> HIDE DEF next
<1>2. a \in Seq(Nat) /\ Len(a) = n /\ \A i \in 1..n : a[i] = log[f + i]
  BY PartAt
<1>3. Len(next) - f = n + 1
  BY <1>1
<1>4. b \in Seq(Nat) /\ Len(b) = n + 1 /\ \A i \in 1..(n + 1) : b[i] = next[f + i]
  BY <1>1, <1>3, PartAt
<1> HIDE DEF a, b
<1>5. /\ c \in Seq(Nat) /\ Len(c) = n + 1 /\ c[n + 1] = t
      /\ \A i \in 1..n : c[i] = a[i]
  BY <1>2
<1> HIDE DEF c
<1>6. \A i \in 1..(n + 1) : b[i] = c[i]
  <2> TAKE i \in 1..(n + 1)
  <2>1. CASE i = n + 1
    <3>1. f + i = Len(log) + 1
      BY <1>1, <2>1
    <3>. QED  BY <1>1, <1>4, <1>5, <2>1, <3>1
  <2>2. CASE i \in 1..n
    <3>1. f + i \in 1..Len(log)
      BY <1>1, <2>2
    <3>. QED  BY <1>1, <1>2, <1>4, <1>5, <2>2, <3>1
  <2>. QED  BY <1>1, <2>1, <2>2
<1>7. b = c
  BY <1>4, <1>5, <1>6, SameSequence
<1>. QED  BY <1>7 DEF a, b, c, next

\* At first every key has the burst.
LEMMA LimiterStart == LimiterInit => LimiterInv
<1> SUFFICES ASSUME LimiterInit PROVE LimiterInv
  OBVIOUS
<1>1. LimiterType
  BY DEF LimiterInit, LimiterType
<1>2. ASSUME NEW k \in Key PROVE Level(Value(k), Account(k), now)
  <2>1. Value(k) = Capacity
    BY DEF LimiterInit, Value
  <2>2. Len(Account(k)) = 0
    BY DEF LimiterInit, Account
  <2>. QED  BY <2>1, <2>2, LimiterNumbers DEF Level
<1>3. Dated
  BY DEF LimiterInit, Dated
<1>. QED  BY <1>1, <1>2, <1>3 DEF LimiterInv, Exact

\* A tick refills every key.
LEMMA LimiterTick ==
  ASSUME LimiterInv, Tick
  PROVE  LimiterInv'
<1>1. LimiterType'
  BY DEF LimiterInv, LimiterType, Tick
<1>2. ASSUME NEW k \in Key PROVE Level(Value(k), Account(k), now)'
  <2>1. Level(Value(k), Account(k), now) /\ now \in Nat /\ Account(k) \in Seq(Nat)
    BY <1>2, AccountType DEF LimiterInv, Exact, LimiterType
  <2>2. Value(k)' = Lesser(Value(k) + 1 * RefillRate, Capacity)
    <3>1. CASE k \in DOMAIN buckets
      <4>1. PICK a \in Int : a = now - buckets[k].last_refill
        BY <3>1 DEF LimiterInv, LimiterType
      <4>2. now' - buckets[k].last_refill = a + 1
        BY <3>1, <4>1 DEF LimiterInv, LimiterType, Tick
      <4>3. (a + 1) * RefillRate = a * RefillRate + RefillRate /\ a * RefillRate \in Int
        BY LimiterNumbers
      <4>4. buckets[k].tokens \in Nat
        BY <3>1 DEF LimiterInv, LimiterType
      <4>5. Value(k) = Lesser(buckets[k].tokens + a * RefillRate, Capacity)
        BY <3>1, <4>1 DEF Value, Refilled
      <4>6. Value(k)' = Lesser(buckets[k].tokens + (a + 1) * RefillRate, Capacity)
        BY <3>1, <4>2 DEF Value, Refilled, Tick
      <4>. QED  BY <4>3, <4>4, <4>5, <4>6, LimiterNumbers DEF Lesser
    <3>2. CASE k \notin DOMAIN buckets
      BY <3>2, LimiterNumbers DEF Value, Lesser, Tick
    <3>. QED  BY <3>1, <3>2
  <2>3. Account(k)' = Account(k) /\ now' = now + 1
    BY DEF Account, Tick
  <2>4. Level(Value(k)', Account(k), now + 1)
    BY <2>1, <2>2, LevelLater
  <2>. QED  BY <2>3, <2>4 DEF Level, Room
<1>3. Dated'
  <2> SUFFICES ASSUME NEW k \in Key, NEW i \in 1..Len(grants[k])
               PROVE  /\ grants[k][i] <= now'
                      /\ k \in DOMAIN buckets => grants[k][i] <= buckets[k].last_refill
    BY DEF Dated, Tick
  <2>1. grants[k][i] \in Nat /\ now \in Nat /\ now' = now + 1
    BY DEF LimiterInv, LimiterType, Tick
  <2>. QED  BY <2>1 DEF LimiterInv, Dated
<1>. QED  BY <1>1, <1>2, <1>3 DEF LimiterInv, Exact

\* Where the idle timeout is long enough, what the sweep drops is full again.
LEMMA SweptFull ==
  ASSUME LimiterType, SweepIsNeutral, NEW x \in DOMAIN buckets, x \notin Swept
  PROVE  Value(x) = Capacity
<1>1. PICK a \in Nat : a = now - buckets[x].last_refill /\ a >= IdleTimeout
  BY LimiterNumbers DEF LimiterType, Swept, Stale
<1>2. PICK e \in Nat : a = IdleTimeout + e
  <2>1. a - IdleTimeout \in Nat /\ a = IdleTimeout + (a - IdleTimeout)
    BY <1>1, LimiterNumbers
  <2>. QED  BY <2>1
<1>3. /\ a * RefillRate = IdleTimeout * RefillRate + e * RefillRate
      /\ e * RefillRate \in Nat /\ IdleTimeout * RefillRate \in Nat
  BY <1>2, LimiterNumbers
<1>4. a * RefillRate \in Int /\ a * RefillRate >= Capacity
  BY <1>3, LimiterNumbers DEF SweepIsNeutral
<1>5. Value(x) = Lesser(buckets[x].tokens + a * RefillRate, Capacity)
  BY <1>1 DEF Value, Refilled
<1>6. buckets[x].tokens \in Nat
  BY DEF LimiterType
<1>. QED  BY <1>4, <1>5, <1>6, LimiterNumbers DEF Lesser

\* A bucket that is refilled at once is as it was.
LEMMA RefilledNow ==
  ASSUME now \in Nat, NEW v \in Int, v <= Capacity
  PROVE  Refilled([tokens |-> v, last_refill |-> now]) = [tokens |-> v, last_refill |-> now]
<1>1. (now - now) * RefillRate = 0
  BY LimiterNumbers
<1>2. Lesser(v + (now - now) * RefillRate, Capacity) = v
  BY <1>1, LimiterNumbers DEF Lesser
<1>. QED  BY <1>2 DEF Refilled

\* What a key has when the sweep is over, and the grants that this answers for.
Kept(k) == IF k \in Swept THEN Value(k) ELSE Capacity
Left(k) ==
  SubSeq(grants[k], (IF k \in Gifted THEN Len(grants[k]) ELSE forgotten[k]) + 1,
         Len(grants[k]))

\* Nothing of a sequence.
LEMMA NothingLeft ==
  ASSUME NEW log \in Seq(Nat)
  PROVE  Len(SubSeq(log, Len(log) + 1, Len(log))) = 0
OBVIOUS

\* The sweep keeps the levels: what it drops was full, or is a gift and forgotten.
LEMMA SweptLevel ==
  ASSUME LimiterInv, NEW k \in Key
  PROVE  Level(Kept(k), Left(k), now) /\ Left(k) \in Seq(Nat)
<1>1. /\ Level(Value(k), Account(k), now) /\ Account(k) \in Seq(Nat)
      /\ grants[k] \in Seq(Nat)
  BY AccountType DEF LimiterInv, Exact, LimiterType
<1>2. CASE k \in Gifted
  <2>1. Kept(k) = Capacity
    BY <1>2 DEF Kept, Gifted
  <2>2. Left(k) = SubSeq(grants[k], Len(grants[k]) + 1, Len(grants[k]))
    BY <1>2 DEF Left
  <2>3. Len(Left(k)) = 0 /\ Left(k) \in Seq(Nat)
    BY <1>1, <2>2, NothingLeft
  <2>. QED  BY <2>1, <2>3, LimiterNumbers DEF Level
<1>3. CASE k \notin Gifted
  <2>1. Left(k) = Account(k)
    BY <1>3 DEF Left, Account
  <2>2. Kept(k) = Value(k)
    <3>1. CASE k \in DOMAIN buckets \ Swept
      <4>1. ~(Refilled(buckets[k]).tokens < Capacity)
        BY <1>3, <3>1 DEF Gifted
      <4>2. Value(k) = Refilled(buckets[k]).tokens
        BY <3>1 DEF Value
      <4>3. Value(k) \in Int /\ Value(k) <= Capacity
        BY <1>1 DEF Level
      <4>. QED  BY <3>1, <4>1, <4>2, <4>3, LimiterNumbers DEF Kept
    <3>2. CASE k \in Swept
      BY <3>2 DEF Kept
    <3>3. CASE k \notin DOMAIN buckets
      BY <3>3 DEF Kept, Value, Swept
    <3>. QED  BY <3>1, <3>2, <3>3
  <2>. QED  BY <1>1, <2>1, <2>2
<1>. QED  BY <1>2, <1>3

\* check() takes from a bucket that holds what the key has then.
LEMMA TakenFrom ==
  ASSUME LimiterType, NEW k \in Key, NEW gone \in Evicted(Swept, k)
  PROVE  BucketOf(Swept \ gone, k) = [tokens |-> Kept(k), last_refill |-> now]
<1>1. k \notin gone
  BY DEF Evicted
<1>2. CASE k \in Swept
  <2>1. k \in DOMAIN buckets
    BY <1>2 DEF Swept
  <2>2. BucketOf(Swept \ gone, k) = Refilled(buckets[k])
    BY <1>1, <1>2 DEF BucketOf
  <2>. QED  BY <1>2, <2>1, <2>2 DEF Kept, Value, Refilled
<1>3. CASE k \notin Swept
  <2>1. BucketOf(Swept \ gone, k) = Refilled([tokens |-> Capacity, last_refill |-> now])
    BY <1>3 DEF BucketOf
  <2>2. BucketOf(Swept \ gone, k) = [tokens |-> Capacity, last_refill |-> now]
    BY <2>1, RefilledNow, LimiterNumbers DEF LimiterType
  <2>. QED  BY <1>3, <2>2 DEF Kept
<1>. QED  BY <1>2, <1>3

\* What check() takes from is a bucket, refilled now.
LEMMA BucketType ==
  ASSUME LimiterType, NEW k \in Key, NEW gone
  PROVE  \E v \in Nat : /\ BucketOf(Swept \ gone, k) = [tokens |-> v, last_refill |-> now]
                        /\ v <= Capacity
<1> DEFINE b == IF k \in Swept \ gone THEN buckets[k]
                                      ELSE [tokens |-> Capacity, last_refill |-> now]
<1>1. b.tokens \in Nat /\ b.last_refill \in Nat /\ b.last_refill <= now
  BY LimiterNumbers DEF LimiterType, Swept
<1>2. BucketOf(Swept \ gone, k) = Refilled(b)
  BY DEF BucketOf
<1> HIDE DEF b
<1>3. PICK a \in Nat : a = now - b.last_refill
  BY <1>1 DEF LimiterType
<1>4. a * RefillRate \in Nat
  BY LimiterNumbers
<1> DEFINE v == Lesser(b.tokens + a * RefillRate, Capacity)
<1>5. v \in Nat /\ v <= Capacity
  BY <1>1, <1>4, LimiterNumbers DEF Lesser
<1>6. Refilled(b) = [tokens |-> v, last_refill |-> now]
  BY <1>3 DEF Refilled
<1>. QED  BY <1>2, <1>5, <1>6

\* What one check() does, its choice of a bucket to evict fixed.
Checked(k, ok, gone, v) ==
  LET live == Swept \ gone
      rest == IF ok THEN v - Grain ELSE v
  IN  /\ v \in Nat /\ v <= Capacity /\ (ok <=> v >= Grain)
      /\ now' = now
      /\ gone \subseteq Swept /\ k \notin gone
      /\ DOMAIN buckets' = live \cup {k}
      /\ buckets'[k] = [tokens |-> rest, last_refill |-> now]
      /\ \A x \in live : x # k => buckets'[x] = buckets[x]
      /\ grants' = [grants EXCEPT ![k] = IF ok THEN Append(@, now) ELSE @]
      /\ forgotten' = [x \in Key |-> IF x \in gone \cup Gifted THEN Len(grants[x])
                                                            ELSE forgotten[x]]

\* Every check is one of those.
LEMMA CheckIs ==
  ASSUME LimiterType, NEW k \in Key, NEW ok \in BOOLEAN, Check(k, ok)
  PROVE  \E gone \in Evicted(Swept, k) : Checked(k, ok, gone, Kept(k))
<1>1. PICK gone \in Evicted(Swept, k) :
        LET live == Swept \ gone
            mine == BucketOf(live, k)
        IN  /\ ok <=> mine.tokens >= Grain
            /\ buckets' = [x \in live \cup {k} |->
                 IF x = k
                   THEN [mine EXCEPT !.tokens = IF ok THEN @ - Grain ELSE @]
                   ELSE buckets[x]]
            /\ grants' = [grants EXCEPT ![k] = IF ok THEN Append(@, now) ELSE @]
            /\ forgotten' = [x \in Key |-> IF x \in gone \cup Gifted THEN Len(grants[x])
                                                                  ELSE forgotten[x]]
  BY DEF Check
<1>2. PICK v \in Nat :
        /\ BucketOf(Swept \ gone, k) = [tokens |-> v, last_refill |-> now] /\ v <= Capacity
  BY BucketType
<1>3. v = Kept(k)
  <2>1. BucketOf(Swept \ gone, k) = [tokens |-> Kept(k), last_refill |-> now]
    BY TakenFrom
  <2>. QED  BY <1>2, <2>1
<1>4. gone \subseteq Swept /\ k \notin gone
  BY DEF Evicted
<1>5. now' = now
  BY DEF Check
<1>6. /\ DOMAIN buckets' = (Swept \ gone) \cup {k}
      /\ \A x \in Swept \ gone : x # k => buckets'[x] = buckets[x]
  BY <1>1
<1>7. buckets'[k] = [tokens |-> IF ok THEN v - Grain ELSE v, last_refill |-> now]
  <2>1. buckets'[k] = [BucketOf(Swept \ gone, k) EXCEPT !.tokens = IF ok THEN @ - Grain ELSE @]
    BY <1>1
  <2>. QED  BY <1>2, <2>1
<1>8. ok <=> v >= Grain
  BY <1>1, <1>2
<1>9. Checked(k, ok, gone, v)
  BY <1>1, <1>2, <1>4, <1>5, <1>6, <1>7, <1>8 DEF Checked
<1>. QED  BY <1>3, <1>9

\* So it answers as the rate does.
LEMMA CheckDecides ==
  ASSUME LimiterInv, NEW k \in Key, NEW ok \in BOOLEAN, Check(k, ok)
  PROVE  ok <=> Conforms(Append(Standing(k), now))
<1>1. PICK gone : Checked(k, ok, gone, Kept(k))
  BY CheckIs DEF LimiterInv
<1>2. Standing(k) = Left(k)
  BY <1>1 DEF Checked, Standing, Left
<1>3. Level(Kept(k), Left(k), now) /\ Left(k) \in Seq(Nat) /\ now \in Nat
  BY SweptLevel DEF LimiterInv, LimiterType
<1>4. ok <=> Kept(k) >= Grain
  BY <1>1 DEF Checked
<1>. QED  BY <1>2, <1>3, <1>4, LevelDecides

\* An account starts afresh with an eviction, or with a gift to who has been away.
LEMMA CheckForgets ==
  ASSUME LimiterInv, NEW k \in Key, NEW ok \in BOOLEAN, Check(k, ok),
         NEW x \in Key, forgotten'[x] # forgotten[x]
  PROVE  \/ x # k /\ Cardinality(DOMAIN buckets') >= max_buckets
         \/ ~SweepIsNeutral /\ Dormant(x)
<1>0. LimiterType
  BY DEF LimiterInv
<1>1. PICK gone \in Evicted(Swept, k) : Checked(k, ok, gone, Kept(k))
  BY <1>0, CheckIs
<1>2. x \in gone \/ x \in Gifted
  BY <1>1 DEF Checked
<1>3. CASE x \in gone
  <2>1. k \notin Swept /\ Full(Swept) /\ x \in Swept /\ gone = {x}
    BY <1>3 DEF Evicted
  <2>2. DOMAIN buckets' = (Swept \ {x}) \cup {k}
    BY <1>1, <2>1 DEF Checked
  <2>3. IsFiniteSet(Swept)
    <3>1. Swept \subseteq Key
      BY <1>0 DEF Swept, LimiterType
    <3>. QED  BY <3>1, LimiterAssumption, FS_Subset
  <2>4. IsFiniteSet(Swept \ {x}) /\ Cardinality(Swept \ {x}) = Cardinality(Swept) - 1
    BY <2>1, <2>3, FS_RemoveElement
  <2>5. Cardinality((Swept \ {x}) \cup {k}) = Cardinality(Swept \ {x}) + 1
    BY <2>1, <2>4, FS_AddElement
  <2>6. Cardinality(Swept) \in Nat
    BY <2>3, FS_CardinalityType
  <2>. QED  BY <2>1, <2>2, <2>4, <2>5, <2>6 DEF Full
<1>4. CASE x \in Gifted
  <2>1. x \in DOMAIN buckets /\ x \notin Swept /\ Refilled(buckets[x]).tokens < Capacity
    BY <1>4 DEF Gifted
  <2>2. ~SweepIsNeutral
    <3> SUFFICES ASSUME SweepIsNeutral PROVE FALSE
      OBVIOUS
    <3>1. Refilled(buckets[x]).tokens = Capacity
      BY <1>0, <2>1, SweptFull DEF Value
    <3>. QED  BY <2>1, <3>1, LimiterNumbers
  <2>3. Dormant(x)
    <3> SUFFICES ASSUME NEW i \in DOMAIN grants[x]
                 PROVE  now - grants[x][i] >= IdleTimeout
      BY DEF Dormant
    <3>1. i \in 1..Len(grants[x]) /\ grants[x][i] \in Nat
      BY <1>0 DEF LimiterType
    <3>2. grants[x][i] <= buckets[x].last_refill
      BY <2>1, <3>1 DEF LimiterInv, Dated
    <3>3. now - buckets[x].last_refill >= IdleTimeout
      BY <2>1 DEF Swept, Stale
    <3>4. now \in Nat /\ buckets[x].last_refill \in Nat
      BY <1>0, <2>1 DEF LimiterType
    <3>. QED  BY <3>1, <3>2, <3>3, <3>4, LimiterNumbers
  <2>. QED  BY <2>2, <2>3
<1>. QED  BY <1>2, <1>3, <1>4

\* Every check keeps the levels: what starts an account afresh fills its bucket.
LEMMA LimiterCheck ==
  ASSUME LimiterInv, NEW k \in Key, NEW ok \in BOOLEAN, Check(k, ok)
  PROVE  LimiterInv'
<1> DEFINE v == Kept(k)
           rest == IF ok THEN v - Grain ELSE v
<1>0. LimiterType
  BY DEF LimiterInv
<1>1. PICK gone : Checked(k, ok, gone, v)
  BY <1>0, CheckIs
<1> HIDE DEF v
<1>2. rest \in Nat /\ rest <= Capacity
  BY <1>1, LimiterNumbers DEF Checked
<1>3. /\ \A x \in Key : x # k => grants'[x] = grants[x]
      /\ grants'[k] = IF ok THEN Append(grants[k], now) ELSE grants[k]
      /\ grants' \in [Key -> Seq(Nat)]
  BY <1>0, <1>1 DEF Checked, LimiterType
<1>4. \A x \in Key :
        forgotten'[x] = IF x \in gone \cup Gifted THEN Len(grants[x]) ELSE forgotten[x]
  BY <1>1 DEF Checked
<1>5. LimiterType'
  <2>1. /\ DOMAIN buckets' \subseteq Key
        /\ \A x \in DOMAIN buckets' :
             /\ buckets'[x] \in [tokens : Nat, last_refill : Nat]
             /\ buckets'[x].last_refill <= now'
    <3>1. Swept \subseteq DOMAIN buckets
      BY DEF Swept
    <3>2. buckets'[k] \in [tokens : Nat, last_refill : Nat] /\ buckets'[k].last_refill = now
      BY <1>0, <1>1, <1>2 DEF Checked, LimiterType
    <3>. QED  BY <1>0, <1>1, <3>1, <3>2 DEF Checked, LimiterType
  <2>2. /\ forgotten' \in [Key -> Nat]
        /\ \A x \in Key : forgotten'[x] <= Len(grants'[x])
    <3>1. \A x \in Key : Len(grants[x]) \in Nat /\ Len(grants'[x]) \in Nat
                         /\ Len(grants[x]) <= Len(grants'[x])
      <4> TAKE x \in Key
      <4>1. grants[x] \in Seq(Nat) /\ now \in Nat
        BY <1>0 DEF LimiterType
      <4>2. grants'[x] = grants[x] \/ grants'[x] = Append(grants[x], now)
        BY <1>3
      <4>. QED  BY <4>1, <4>2
    <3>. QED  BY <1>0, <1>1, <1>4, <3>1 DEF Checked, LimiterType
  <2>. QED  BY <1>0, <1>1, <1>3, <2>1, <2>2 DEF Checked, LimiterType
<1>6. ASSUME NEW x \in Key
      PROVE  Level(Value(x)', Account(x)', now)
  <2>0. /\ Level(Kept(x), Left(x), now) /\ Left(x) \in Seq(Nat)
        /\ now \in Nat /\ grants[x] \in Seq(Nat) /\ forgotten[x] \in Nat
        /\ forgotten[x] <= Len(grants[x])
    BY <1>0, SweptLevel DEF LimiterType
  <2>1. CASE x = k
    <3>1. Value(x)' = rest
      <4>1. Refilled(buckets'[k]) = buckets'[k]
        BY <1>0, <1>1, <1>2, RefilledNow DEF Checked, LimiterType
      <4>2. k \in DOMAIN buckets' /\ now' = now
        BY <1>1 DEF Checked
      <4>3. Value(x)' = Refilled(buckets'[k]).tokens
        BY <2>1, <4>2 DEF Value, Refilled
      <4>. QED  BY <1>1, <4>1, <4>3 DEF Checked
    <3>2. Account(x)' = IF ok THEN Append(Left(x), now) ELSE Left(x)
      <4> DEFINE f == IF x \in Gifted THEN Len(grants[x]) ELSE forgotten[x]
      <4>1. forgotten'[x] = f
        BY <1>1, <1>4, <2>1 DEF Checked
      <4>2. /\ f \in Nat /\ f <= Len(grants[x])
            /\ Left(x) = SubSeq(grants[x], f + 1, Len(grants[x]))
        BY <2>0 DEF Left
      <4> HIDE DEF f
      <4>3. CASE ok
        <5>1. grants'[x] = Append(grants[x], now)
          BY <1>3, <2>1, <4>3
        <5>2. Account(x)' = SubSeq(Append(grants[x], now), f + 1, Len(Append(grants[x], now)))
          BY <4>1, <5>1 DEF Account
        <5> DEFINE log == grants[x]
        <5>3. log \in Seq(Nat) /\ f \in Nat /\ f <= Len(log) /\ now \in Nat
          BY <2>0, <4>2
        <5> HIDE DEF log
        <5>4. SubSeq(Append(log, now), f + 1, Len(Append(log, now)))
                = Append(SubSeq(log, f + 1, Len(log)), now)
          BY <5>3, AccountGrows, Zenon
        <5>. QED  BY <4>2, <4>3, <5>2, <5>4 DEF log
      <4>4. CASE ~ok
        BY <1>3, <2>1, <4>1, <4>2, <4>4 DEF Account
      <4>. QED  BY <4>3, <4>4
    <3>3. Kept(x) = v
      BY <2>1 DEF v
    <3>. QED  BY <2>0, <3>1, <3>2, <3>3, LevelGrant
  <2>2. CASE x # k /\ x \in gone
    <3>1. Value(x)' = Capacity
      BY <1>1, <2>2 DEF Value, Checked
    <3>2. Len(Account(x)') = 0
      BY <1>3, <1>4, <2>0, <2>2 DEF Account
    <3>. QED  BY <3>1, <3>2, LimiterNumbers DEF Level
  <2>3. CASE x # k /\ x \notin gone
    <3>1. Account(x)' = Left(x)
      BY <1>3, <1>4, <2>3 DEF Account, Left
    <3>2. Value(x)' = Kept(x)
      <4>1. CASE x \in Swept
        <5>1. x \in DOMAIN buckets /\ x \in DOMAIN buckets' /\ buckets'[x] = buckets[x]
              /\ now' = now
          BY <1>1, <2>3, <4>1 DEF Checked, Swept
        <5>. QED  BY <4>1, <5>1 DEF Kept, Value, Refilled
      <4>2. CASE x \notin Swept
        <5>1. x \notin DOMAIN buckets'
          BY <1>1, <2>3, <4>2 DEF Checked
        <5>. QED  BY <4>2, <5>1 DEF Kept, Value
      <4>. QED  BY <4>1, <4>2
    <3>. QED  BY <2>0, <3>1, <3>2
  <2>. QED  BY <2>1, <2>2, <2>3
<1>7. now' = now
  BY <1>1 DEF Checked
<1>8. Exact'
  BY <1>6, <1>7 DEF Exact, Level, Room
<1>9. Dated'
  <2> SUFFICES ASSUME NEW x \in Key, NEW i \in 1..Len(grants'[x])
               PROVE  /\ grants'[x][i] <= now
                      /\ x \in DOMAIN buckets' => grants'[x][i] <= buckets'[x].last_refill
    BY <1>7 DEF Dated
  <2>1. grants[x] \in Seq(Nat) /\ now \in Nat
    BY <1>0 DEF LimiterType
  <2>2. grants'[x][i] <= now
    <3>1. CASE grants'[x] = grants[x]
      BY <3>1 DEF LimiterInv, Dated
    <3>2. CASE grants'[x] = Append(grants[x], now)
      <4>1. \/ i \in 1..Len(grants[x]) /\ grants'[x][i] = grants[x][i]
            \/ grants'[x][i] = now
        BY <2>1, <3>2
      <4>. QED  BY <2>1, <4>1 DEF LimiterInv, Dated
    <3>. QED  BY <1>3, <3>1, <3>2
  <2>3. ASSUME x \in DOMAIN buckets' PROVE grants'[x][i] <= buckets'[x].last_refill
    <3>1. CASE x = k
      BY <1>1, <2>2, <3>1 DEF Checked
    <3>2. CASE x # k
      <4>1. x \in DOMAIN buckets /\ buckets'[x] = buckets[x]
        BY <1>1, <2>3, <3>2 DEF Checked, Swept
      <4>. QED  BY <1>3, <3>2, <4>1 DEF LimiterInv, Dated
    <3>. QED  BY <3>1, <3>2
  <2>. QED  BY <2>2, <2>3
<1>. QED  BY <1>5, <1>8, <1>9 DEF LimiterInv

\* The limiter's variables change with the clock and with a check only.
LEMMA LimiterSteps ==
  ASSUME ReqInv, [Next]_vars
  PROVE  \/ Tick \/ UNCHANGED limiterVars
         \/ \E k \in Key, ok \in BOOLEAN : Check(k, ok)
<1>1. ASSUME NEW r \in Req, PreHandle(r), ~UNCHANGED limiterVars
      PROVE  \E k \in Key, ok \in BOOLEAN : Check(k, ok)
  BY <1>1, KeyType DEF PreHandle, ReqInv
<1>. QED
  BY <1>1 DEF Next, Clock, ReadFrame, Return, TimedOut, vars

\* Every step of the pipeline keeps the levels.
LEMMA LimiterStep == ReqInv /\ LimiterInv /\ [Next]_vars => LimiterInv'
<1> SUFFICES ASSUME ReqInv, LimiterInv, [Next]_vars PROVE LimiterInv'
  OBVIOUS
<1>1. CASE UNCHANGED limiterVars
  BY <1>1 DEF limiterVars, LimiterInv, LimiterType, Exact, Dated, Value, Refilled,
     Account, Level, Room
<1>. QED  BY <1>1, LimiterSteps, LimiterTick, LimiterCheck

\* A check passes exactly if the key's own grants stay within the rate, for every burst,
\* rate, idle timeout and number of keys and buckets; and only an eviction, or the sweep
\* of a key that has been away for an idle timeout too short to fill its bucket, lets
\* the grants of before go (RateLimiter::check).
THEOREM LimiterIsExact == Spec => CheckIsExact
<1>1. Init => LimiterInv
  BY LimiterStart DEF Init
<1>2. LimiterInv =>
        [\A k \in Key, ok \in BOOLEAN : Check(k, ok) =>
           /\ ok <=> Conforms(Append(Standing(k), now))
           /\ \A x \in Key : forgotten'[x] # forgotten[x] =>
                \/ x # k /\ Cardinality(DOMAIN buckets') >= max_buckets
                \/ ~SweepIsNeutral /\ Dormant(x)]_limiterVars
  BY CheckDecides, CheckForgets
<1>. QED  BY <1>1, <1>2, LimiterStep, ReqInvariant, PTL DEF Spec, CheckIsExact
=============================================================================
