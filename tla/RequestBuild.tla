---------------------------- MODULE RequestBuild ----------------------------
(***************************************************************************)
(* RequestBuilder of the client (oxihttp-client/src/lib.rs): a request as  *)
(* its setters leave it, each of which takes the request and returns it.   *)
(*                                                                         *)
(* A body is known by the setter that made it, and its Content-Type by the *)
(* setter it is the type of; "own" is one the application gave, "older"    *)
(* that of another form, which was set before the one in the body.         *)
(***************************************************************************)
EXTENDS Integers

Method == {"GET", "HEAD", "POST"}
Unlimited == -1                  \* RedirectPolicy::All

\* Bodies in memory; "none" is the empty one.
Bytes == {"none", "raw", "json", "form", "parts"}
ContentType == {"none", "own", "json", "form", "parts", "older"}

\* The client's policies are part of it.  max_redirects is 0 for
\* RedirectPolicy::None; stream: is there a stream_body?
RequestType ==
  [method : Method, body : Bytes, stream : BOOLEAN, content_type : ContentType,
   auth : BOOLEAN, timeout : BOOLEAN, read_timeout : BOOLEAN,
   retry : BOOLEAN, max_retries : Nat, retry_on_connection_error : BOOLEAN,
   retry_on_timeout : BOOLEAN, max_redirects : Nat \cup {Unlimited}]

\* What would be sent: a stream goes before the bytes.
Content(r) == IF r.stream THEN "stream" ELSE r.body

\* Bodies whose setter sees to their type.
Typing == {"json", "form", "parts", "stream"}

\* A body goes out under its own type or the application's; raw bytes need none.
TypeFits(content, type) ==
  /\ content \in {"json", "form"} => type \in {content, "own"}
  /\ content \in {"parts", "stream"} => type \in {"parts", "own"}

\* Mutant: a stream set before is left where it is.
WithBytes_StreamLeft(r, bytes) == [r EXCEPT !.body = bytes]

WithBytes(r, bytes) == [r EXCEPT !.body = bytes, !.stream = FALSE]

\* A form's type, which names its boundary, gives way to any that is there, be it that
\* of a body which is no longer sent.
Typed(r) ==
  CASE r.content_type = "none" -> "parts"
    [] r.content_type = "parts" -> "older"
    [] OTHER -> r.content_type

\* The setters.
Body(r) == WithBytes(r, "raw")
Json(r) == [WithBytes(r, "json") EXCEPT !.content_type = "json"]
Form(r) == [WithBytes(r, "form") EXCEPT !.content_type = "form"]
Multipart(r) == [WithBytes(r, "parts") EXCEPT !.content_type = Typed(r)]
MultipartStream(r) ==
  [r EXCEPT !.body = "none", !.stream = TRUE, !.content_type = Typed(r)]

\* header() and headers() with a Content-Type; both replace.
Header(r) == [r EXCEPT !.content_type = "own"]

Authorized(r) == [r EXCEPT !.auth = TRUE]

WithTimeout(r) == [r EXCEPT !.timeout = TRUE]

\* The body setters, and what the caller of each asks for.
BodySet(r) ==
  {<<Body(r), "raw">>, <<Json(r), "json">>, <<Form(r), "form">>,
   <<Multipart(r), "parts">>, <<MultipartStream(r), "stream">>}

HeadSet(r) == {Header(r), Authorized(r), WithTimeout(r)}
=============================================================================
