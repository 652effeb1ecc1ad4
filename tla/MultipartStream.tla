-------------------------- MODULE MultipartStream --------------------------
(***************************************************************************)
(* Multipart/form-data bodies (oxihttp-core/src/multipart.rs): in one      *)
(* buffer, or produced lazily by a queue of chunks that are ready and of   *)
(* streams that are polled for theirs.                                     *)
(*                                                                         *)
(* Boundary 0 is the builder's, boundary k the same with suffix k.  Part i *)
(* is framed by <<"part", boundary, i>> and <<"end", i>>; the chunks of a  *)
(* part are tuples that begin with "data".                                 *)
(***************************************************************************)
EXTENDS BodyStream

CONSTANTS
  Empty,     \* the chunk without bytes
  Collides,  \* <<chunk, k>>: boundary k occurs in the chunk
  Forms      \* sequences of parts: [streamed, chunks, fails]

ASSUME FormAssumption ==
  \* A boundary that carries a suffix contains the one without; a chunk is finite.
  /\ \A pair \in Collides :
       /\ pair[2] \in Nat /\ <<pair[1], 0>> \in Collides
       /\ pair = <<pair[1], pair[2]>> /\ IsFiniteSet({q \in Collides : q[1] = pair[1]})
  /\ Empty[1] = "data"
  /\ \A f \in Forms :
       /\ f \in Seq(Range(f))
       /\ \A p \in Range(f) :
            /\ p.streamed \in BOOLEAN /\ p.fails \in BOOLEAN
            /\ p.chunks \in Seq(Range(p.chunks)) /\ \A c \in Range(p.chunks) : c[1] = "data"
            /\ ~p.streamed => Len(p.chunks) = 1

VARIABLES
  form,      \* StreamingMultipart::parts
  queue      \* MultipartStream::queue

partVars == <<form, queue>>

-----------------------------------------------------------------------------

InMemory == {i \in DOMAIN form : ~form[i].streamed}

\* Mutant: the boundary is not looked for in the parts.
Boundary_First == 0

\* find_unique_boundary: streams are not searched.
Taken == {pair[2] : pair \in {q \in Collides : \E i \in InMemory : q[1] = Head(form[i].chunks)}}

Boundary == Min(0..Cardinality(Taken) \ Taken)

\* content_type(), which names the builder's boundary; RequestBuilder takes it
\* before it builds the body.
Named == 0

Preamble(i) == <<"part", Boundary, i>>
Close(i) == <<"end", i>>
Final == <<"final">>

Ready(chunk) == [nested |-> FALSE, chunks |-> <<chunk>>, fails |-> FALSE]
Nested(p) == [nested |-> TRUE, chunks |-> p.chunks, fails |-> p.fails]

\* An in-memory part has one chunk, its body.
Queued(i, p) ==
  << Ready(Preamble(i)),
     IF p.streamed THEN Nested(p) ELSE Ready(Head(p.chunks)),
     Ready(Close(i)) >>

PartInit(forms) == form \in forms /\ queue = <<>>

BuildStream ==
  /\ Created /\ InMemory # DOMAIN form
  /\ queue' = FlattenSeq([i \in DOMAIN form |-> Queued(i, form[i])])
                \o << Ready(Final) >>
  /\ UNCHANGED form

\* What a chunk adds to the body.
Chunks(c) == IF c = Empty THEN <<>> ELSE <<c>>

\* build(): all of the body in one buffer, which hyper takes at once.
Build ==
  /\ body = "none" /\ InMemory = DOMAIN form
  /\ got' = FlattenSeq([i \in DOMAIN form |->
               <<Preamble(i)>> \o Chunks(Head(form[i].chunks)) \o <<Close(i)>>])
             \o <<Final>>
  /\ body' = "ended"
  /\ UNCHANGED partVars

\* Mutant: a stream that has more goes to the end of the queue.
Resumed_Last(s, rest) == Append(rest, s)

\* A stream that has more is polled again before what follows it.
Resumed(s, rest) == <<s>> \o rest

PartPoll == body = "open"

\* A turn of poll_next's loop: empty chunks take another one.
PollReady ==
  /\ PartPoll /\ queue # <<>> /\ ~Head(queue).nested
  /\ Yield(Chunks(Head(queue).chunks[1]))
  /\ queue' = Tail(queue)
  /\ UNCHANGED form

PollNested ==
  /\ PartPoll /\ queue # <<>> /\ Head(queue).nested
  /\ LET s == Head(queue)
     IN  CASE s.chunks # <<>> ->
                /\ Yield(Chunks(Head(s.chunks)))
                /\ queue' = Resumed([s EXCEPT !.chunks = Tail(@)], Tail(queue))
           [] s.chunks = <<>> /\ s.fails -> Fail /\ queue' = Tail(queue)
           [] OTHER -> queue' = Tail(queue) /\ UNCHANGED bodyVars
  /\ UNCHANGED form

PollDrained == PartPoll /\ queue = <<>> /\ End /\ UNCHANGED partVars

PartLosesClient == Disconnect /\ UNCHANGED partVars

PartNext ==
  Build \/ BuildStream \/ PollReady \/ PollNested \/ PollDrained \/ PartLosesClient

\* The body the parts stand for.
Filled(chunks) == FlattenSeq([j \in DOMAIN chunks |-> Chunks(chunks[j])])
Framed(i) == <<Preamble(i)>> \o Filled(form[i].chunks) \o <<Close(i)>>
Serialized == FlattenSeq([i \in DOMAIN form |-> Framed(i)]) \o <<Final>>

\* The boundaries in use.
Boundaries == {got[j][2] : j \in {n \in DOMAIN got : got[n][1] = "part"}}
=============================================================================
