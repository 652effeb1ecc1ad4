---------------------------- MODULE ContentCoding ----------------------------
(***************************************************************************)
(* A body that is compressed for the way: Compression::apply and negotiate *)
(* of oxihttp-server/src/compression.rs, and body_bytes of                 *)
(* oxihttp-client/src/lib.rs, which collects the body frame by frame and   *)
(* decodes it within a bound.                                              *)
(*                                                                         *)
(* A stream of coded bytes is known by what it holds: members of plain     *)
(* bytes one after the other, in a container, and a trailer that tells the *)
(* bytes of the last member as they were when it was made.  The codec      *)
(* itself is a library.                                                    *)
(***************************************************************************)
EXTENDS BodyStream

CONSTANTS
  Exchanges,    \* a request, the handler's response and the client's settings:
                \* [accept, feature, decompress, cap, own, status, coding, stream,
                \*  meant, preferred, min]; own tells whether the server is this
                \* one, feature whether the client is built with its decoders
  Frame,        \* bytes of a frame at most
  Ratio, Floor  \* the first buffer of a decoder: Ratio times the input, or Floor

VARIABLES
  exchange,   \* which one
  phase,      \* "handler", "sent", "collected", "done"
  wire,       \* the response on its way: [coding, stream, length]
  result      \* what body_bytes returns: [ok, stream]

codedVars == <<exchange, phase, wire, result>>

-----------------------------------------------------------------------------
(* Streams of bytes                                                         *)

\* Bytes that are not coded.
Plain(bytes) == [form |-> "plain", members |-> <<bytes>>, trailer |-> bytes]

\* What the codec makes of them: a container of its own for each coding.
Coded(coding, bytes) ==
  [Plain(bytes) EXCEPT !.form = IF coding = "gzip" THEN "gzip" ELSE "zlib"]

Whole(stream) == FlattenSeq(stream.members)

\* Bytes a stream has on the wire: the container takes two.
Size(stream) ==
  IF stream.form = "plain" THEN Len(Whole(stream)) ELSE 2 + Len(stream.members)

Codings == {"gzip", "deflate"}

\* What is sent: a handler's own coding is sound; another server's gzip has the trailer
\* of what it meant, or of the last of its members; a damaged deflate stream, of which
\* the codec would have to tell, is none of this.
Sent(x) ==
  LET s == x.stream
  IN  CASE x.own -> \/ x.coding = "identity" /\ s = Plain(x.meant)
                    \/ x.coding \in Codings /\ s = Coded(x.coding, x.meant)
        [] ~x.own /\ x.coding = "gzip" -> Len(s.members) = 1 => s.trailer = x.meant
        [] ~x.own /\ x.coding = "deflate" /\ s.form \in {"zlib", "raw"} ->
             s.members = <<x.meant>>
        [] OTHER -> TRUE

ASSUME CodingAssumption ==
  /\ Frame \in Nat \ {0} /\ Ratio \in Nat /\ Floor \in Nat
  /\ \A x \in Exchanges :
       /\ x.cap \in Nat /\ x.min \in Nat /\ x.meant \in Seq(Nat)
       /\ {x.own, x.feature, x.decompress} \subseteq BOOLEAN
       /\ x.preferred \in Seq(Codings) /\ \A i \in DOMAIN x.accept : x.accept[i].q \in Nat
       /\ x.stream.members \in Seq(Seq(Nat)) \ {<<>>}
       /\ x.stream.form = "plain" => x.stream = Plain(Head(x.stream.members))
       /\ Sent(x)

-----------------------------------------------------------------------------
(* The server                                                               *)

\* Mutant: an entry with q=0 is as good as another.
Accepted_Refused(accept, name) ==
  \E i \in DOMAIN accept : accept[i].name \in {name, "*"}

\* The coding names are looked for in the server's order, which decides.
Accepted(accept, name) ==
  \E i \in DOMAIN accept : accept[i].name \in {name, "*"} /\ accept[i].q > 0

\* At most one coding.
Negotiate(accept, preferred) ==
  LET acceptable == {i \in DOMAIN preferred : Accepted(accept, preferred[i])}
  IN  IF acceptable = {} THEN {} ELSE {preferred[Min(acceptable)]}

\* With decoders built in, send_inner adds Accept-Encoding unless the request has
\* one; <<>> stands for none.
AcceptEncoding(x) ==
  IF x.accept # <<>> \/ ~(x.feature /\ x.decompress) THEN x.accept
  ELSE <<[name |-> "gzip", q |-> 10], [name |-> "deflate", q |-> 10]>>

\* Compression::apply, on a response the handler may have coded itself.
Compresses(x) ==
  /\ x.own /\ x.status \in 200..299 /\ x.coding = "identity"
  /\ Len(Whole(x.stream)) >= x.min
  /\ Negotiate(AcceptEncoding(x), x.preferred) # {}

Respond ==
  /\ phase = "handler"
  /\ IF Compresses(exchange)
       THEN \E c \in Negotiate(AcceptEncoding(exchange), exchange.preferred) :
              LET s == Coded(c, Whole(exchange.stream))
              IN  wire' = [coding |-> c, stream |-> s, length |-> Size(s)]
       ELSE wire' = [coding |-> exchange.coding, stream |-> exchange.stream,
                     length |-> Size(exchange.stream)]
  /\ phase' = "sent"
  /\ Created
  /\ UNCHANGED <<exchange, result>>

-----------------------------------------------------------------------------
(* The client                                                               *)

Ok(stream) == [ok |-> TRUE, stream |-> stream]
Failed == [ok |-> FALSE, stream |-> Plain(<<>>)]

ToCome == wire.length - Len(got)

CodedPoll == body = "open" /\ phase = "sent"

\* Mutant: the bound is looked at for each frame.
Fits_Frame(n) == n <= exchange.cap

\* The bound is looked at before a frame is added.
Fits(n) == Len(got) + n <= exchange.cap

\* A frame arrives: the bytes of the stream, by their number.
CollectFrame ==
  /\ CodedPoll
  /\ \E n \in 1..Min({ToCome, Frame}) :
       IF Fits(n)
         THEN /\ Yield([i \in 1..n |-> Len(got) + i])
              /\ UNCHANGED <<phase, result>>
         ELSE /\ Fail /\ phase' = "done" /\ result' = Failed
  /\ UNCHANGED <<exchange, wire>>

\* The last one has come.
CollectEnd ==
  /\ CodedPoll /\ ToCome = 0
  /\ End
  /\ phase' = "collected"
  /\ UNCHANGED <<exchange, wire, result>>

\* The connection breaks, and hyper reports it.
CollectError ==
  /\ CodedPoll /\ ToCome > 0
  /\ Fail
  /\ phase' = "done" /\ result' = Failed
  /\ UNCHANGED <<exchange, wire>>

\* A decoder writes into a buffer of a size; it reads the first member only, in a
\* container it knows.
Inflate(stream, forms, room) ==
  IF stream.form \in forms /\ Len(Head(stream.members)) <= room
    THEN Ok(Plain(Head(stream.members))) ELSE Failed

\* bounded_inflate: a buffer by the size of the input at first, the whole cap next.
FirstTry(stream, cap) == Min({cap, Max({Ratio * Size(stream), Floor})})

\* Mutant: what the first buffer cannot hold is refused.
BoundedInflate_Once(stream, forms, cap) == Inflate(stream, forms, FirstTry(stream, cap))

BoundedInflate(stream, forms, cap) ==
  LET first == Inflate(stream, forms, FirstTry(stream, cap))
  IN  IF first.ok \/ FirstTry(stream, cap) >= cap THEN first
      ELSE Inflate(stream, forms, cap)

\* Mutant: the length alone is compared.
TrailerAgrees_Length(stream, decoded) == Len(stream.trailer) = Len(Whole(decoded))

\* The length and the checksum in the trailer must be those of what was decoded.
TrailerAgrees(stream, decoded) == stream.trailer = Whole(decoded)

Gunzip(stream, cap) ==
  LET decoded == BoundedInflate(stream, {"gzip"}, cap)
  IN  IF decoded.ok /\ TrailerAgrees(stream, decoded.stream) THEN decoded ELSE Failed

\* zlib first, raw deflate next.
Unzlib(stream, cap) == BoundedInflate(stream, {"zlib", "raw"}, cap)

\* Decoding what has been collected.
Decoded(x) ==
  CASE ~x.decompress \/ wire.coding \notin {"gzip", "deflate"} -> Ok(wire.stream)
    [] x.decompress /\ wire.coding \in {"gzip", "deflate"} /\ ~x.feature -> Failed
    [] x.decompress /\ wire.coding = "gzip" /\ x.feature -> Gunzip(wire.stream, x.cap)
    [] OTHER -> Unzlib(wire.stream, x.cap)

BodyBytes ==
  /\ phase = "collected"
  /\ result' = Decoded(exchange)
  /\ phase' = "done"
  /\ UNCHANGED <<exchange, wire, bodyVars>>

CodedInit(exchanges) ==
  /\ exchange \in exchanges
  /\ phase = "handler"
  /\ wire = [coding |-> "identity", stream |-> exchange.stream, length |-> 0]
  /\ result = Failed

CodedNext == Respond \/ CollectFrame \/ CollectEnd \/ CollectError \/ BodyBytes

\* What body_bytes returns is what the sender meant, decoded if the client has
\* asked for that.
Returned(x) ==
  LET decodes == x.decompress /\ wire.coding \in {"gzip", "deflate"}
  IN  result.stream = IF decodes THEN Plain(x.meant) ELSE wire.stream

\* A gzip stream of several members whose last is the same as the first: the code
\* takes the first for the whole.
Twins(x) ==
  /\ ~x.own /\ x.coding = "gzip" /\ Len(x.stream.members) > 1
  /\ Head(x.stream.members) = x.stream.trailer

\* It fails for a reason: the connection broke, the body is too long, on the wire
\* or decoded, or its coding is damaged, unknown or of more than one member.
Excused(x) ==
  \/ body = "failed" \/ ~x.feature
  \/ Len(x.meant) > x.cap
  \/ ~x.own /\ wire.stream # Coded(wire.coding, x.meant)

\* What an Accept-Encoding says of a coding: by its name, or else by "*".
Entries(accept, name) == {i \in DOMAIN accept : accept[i].name = name}

Takes(accept, coding) ==
  LET own == Entries(accept, coding)
  IN  \E i \in IF own # {} THEN own ELSE Entries(accept, "*") : accept[i].q # 0

\* A coding is refused by its name and "*" takes the others: "gzip;q=0, *".  The code
\* goes by the "*".
RefusedBesideAny(accept) ==
  \E c \in Codings : \E i \in Entries(accept, c), j \in Entries(accept, "*") :
    accept[i].q = 0 /\ accept[j].q # 0

\* A body that is worth it is sent in a coding that the client takes, if the server
\* has one; any other as the handler has made it.
Negotiated(x) ==
  LET taken == {c \in Range(x.preferred) : Takes(AcceptEncoding(x), c)}
      worth == /\ x.own /\ x.status \in 200..299 /\ x.coding = "identity"
               /\ Len(x.meant) >= x.min
  IN  IF worth /\ taken # {} THEN wire.coding \in taken ELSE wire.coding = x.coding

\* A body's way through coding and decoding gives back what the handler wrote, in no
\* coding that the client refuses, and no more than the client's bound.
CodedAsPromised ==
  /\ phase # "handler" /\ ~RefusedBesideAny(AcceptEncoding(exchange)) => Negotiated(exchange)
  /\ phase = "done" =>
       IF result.ok
         THEN /\ Size(result.stream) <= exchange.cap
              /\ ~Twins(exchange) => Returned(exchange)
         ELSE Excused(exchange)
=============================================================================
