---------------------------- MODULE ResponseBody ----------------------------
(***************************************************************************)
(* The bodies of the library, one at a time: server-sent events, a file, a *)
(* multipart form, a response that may be compressed on its way.           *)
(***************************************************************************)
EXTENDS EventStream, FileStream, MultipartStream, ContentCoding

VARIABLE kind     \* which of them

vars == <<kind, bodyVars, eventVars, fileVars, partVars, codedVars>>

Kinds == {"events", "file", "form", "coded"}

\* The others stay as they are; one state of theirs is enough.
Of(k, inputs) == IF kind = k THEN inputs ELSE {CHOOSE x \in inputs : TRUE}

Init ==
  /\ kind \in Kinds
  /\ BodyInit
  /\ EventInit /\ (kind # "events" => ~heartbeat)
  /\ FileInit(Of("file", FileRequests))
  /\ PartInit(Of("form", Forms))
  /\ CodedInit(Of("coded", Exchanges))

\* A step of one of them.
OfEvents(A) == kind = "events" /\ A /\ UNCHANGED <<kind, fileVars, partVars, codedVars>>
OfFile(A) == kind = "file" /\ A /\ UNCHANGED <<kind, eventVars, partVars, codedVars>>
OfForm(A) == kind = "form" /\ A /\ UNCHANGED <<kind, eventVars, fileVars, codedVars>>
OfCoded(A) == kind = "coded" /\ A /\ UNCHANGED <<kind, eventVars, fileVars, partVars>>

Events == OfEvents(EventNext)
File == OfFile(FileNext)
Form == OfForm(PartNext)
Coding == OfCoded(CodedNext)

Next == Events \/ File \/ Form \/ Coding

Spec == Init /\ [][Next]_vars

\* The handler returns its response; hyper polls the body of a client that goes
\* on reading; the runtime polls the task, its timer fires, and select!, which
\* picks a ready branch at random, does not pick the same one for ever.
FairSpec ==
  /\ Spec
  /\ WF_vars(OfEvents(IntoResponse \/ PollEvents \/ PollMerged))
  /\ WF_vars(OfEvents(TakeBeat \/ SendMerged \/ SendMergedFails))
  /\ SF_vars(OfEvents(TakeEvent)) /\ SF_vars(OfEvents(EventsEnd))
  /\ WF_vars(OfFile(Resolve \/ Stat \/ Open \/ Missing \/ ReadChunk \/ ReadEnd \/ ReadError))
  /\ WF_vars(OfForm(Build \/ BuildStream \/ PollReady \/ PollNested \/ PollDrained))
  /\ WF_vars(OfCoded(CodedNext))

-----------------------------------------------------------------------------
(* Properties                                                               *)

\* What a client reads is the beginning of what was promised, and all of it once
\* the body ends.
Delivers(promised) ==
  IsPrefix(got, promised) /\ (body = "ended" => got = promised)

\* Every event that send() accepted, in order, heartbeats or none.
EventsAsPromised == kind = "events" => Delivers([i \in 1..accepted |-> i])

\* The bytes of the file the headers describe, unless it is changed under the reader;
\* never more than the Content-Length, whatever happens to the file, which is the one
\* in the root that was asked for; If-Modified-Since tells the seconds of every day
\* apart.
FileAsPromised ==
  kind = "file" =>
    (Untouched => Delivers(Announced)) /\ LengthKept /\ FromTheRoot /\ ConditionsKept

\* Every part within its frame, whose boundary no part in memory contains.
FormAsPromised ==
  kind = "form" =>
    /\ Delivers(Serialized)
    /\ \A k \in Boundaries, i \in InMemory : <<Head(form[i].chunks), k>> \notin Collides

\* A client reads what was promised it: all the events, the file it asked for, each
\* part of a form in its frame, what the handler wrote, coded on the way or not.
BodyAsPromised ==
  /\ EventsAsPromised /\ FileAsPromised /\ FormAsPromised
  /\ kind = "coded" => Delivers([i \in 1..wire.length |-> i]) /\ CodedAsPromised

\* The body ends: an event stream's once the sender is dropped (sse.rs: "the
\* stream ends when the sender is dropped"), for all the heartbeats; a file's,
\* truncated or not; a form's.
BodyEnds ==
  (kind = "events" => sender = "dropped") ~> body \notin {"none", "open"}

\* When the client has left, the channel is closed before long, and the handler's
\* task learns it from its next send(), events or no events.
ProducerLearns ==
  (kind = "events" /\ body = "dropped") ~> rx = "dropped"

\* The Content-Type a form is sent with has "the exact boundary value"
\* (oxihttp-client/src/lib.rs:1680): it names the boundary of the body.
ContentTypeNamesBoundary == kind = "form" => Boundaries \subseteq {Named}
=============================================================================
