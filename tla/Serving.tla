------------------------------ MODULE Serving ------------------------------
(***************************************************************************)
(* A request on its way through the tower layers of a server to the router *)
(* and back (oxihttp-server/src/tower_compat.rs, tower_middleware.rs, the  *)
(* service of accept_loop in lib.rs).                                      *)
(*                                                                         *)
(* A layer is "id" (RequestIdLayer), "log" (LoggingLayer, which changes    *)
(* nothing) or "user", which may also answer on its own.  Handlers choose  *)
(* the type of their answer by Request::negotiate.  Other requests pass    *)
(* through the same layers meanwhile and share the counter.                *)
(***************************************************************************)
EXTENDS RouterResolve, Negotiation

CONSTANTS
  Setups,     \* what is served: [trees, requests, stacks], sets of each
  Offered,    \* the types handlers offer, in their order of preference
  HasTimeout, \* was with_timeout called?
  MaxOthers   \* bound: the other requests that take an id

VARIABLES
  layers,     \* the with_layer calls, in their order
  stack,      \* the service they make, the outermost layer first
  phase,      \* "in", "out" or "done"
  depth,      \* how many layers the request is inside of
  header,     \* its x-request-id header
  ran,        \* has a handler run?
  ids,        \* the id each layer has computed for it
  counter,    \* REQUEST_COUNTER
  reply       \* the response on its way out: [kind, id, type], type an index of Offered

stackVars == <<layers, stack, phase, depth, header, ran, ids, counter, reply>>
servingVars == <<vars, stackVars>>

NoId == 0

Reply(kind, type) == [kind |-> kind, id |-> NoId, type |-> type]

ASSUME ServingAssumption ==
  /\ MaxOthers \in Nat /\ HasTimeout \in BOOLEAN
  /\ Offered \in Seq(Range(Offered))
  /\ \A s \in Setups : /\ s.trees \subseteq Trees /\ s.requests \subseteq Requests
                       /\ \A list \in s.stacks : list \in Seq({"id", "log", "user"})
  /\ \A r \in Requests :
       /\ r.accept \in Seq(Range(r.accept))
       /\ \A h \in Range(r.accept) : h \in Seq({e \in Range(h) : e.q \in Nat})

-----------------------------------------------------------------------------
(* The stack                                                                *)

\* layer_boxed: the layer goes around the service.
layer_boxed(service, layer) == <<layer>> \o service

\* The router, here <<>>, with the layers around it in the order of the list.
Around(list) ==
  LET of[n \in 0..Len(list)] ==
        IF n = 0 THEN <<>> ELSE layer_boxed(of[n - 1], list[n])
  IN  of[Len(list)]

\* Mutant: the layers are folded in the order of their calls.
build_layered_service_Forward(list) == Around(list)

\* From the last call to the first.
build_layered_service(list) == Around(Reverse(list))

-----------------------------------------------------------------------------
(* The way in                                                               *)

Arriving == phase = "in" /\ answer.kind = "waiting"

\* The next service inside is that layer.
Facing(layer) == depth < Len(stack) /\ stack[depth + 1] = layer

Into == depth' = depth + 1

\* RequestIdService::call replaces whatever id the client has sent.
EnterRequestId ==
  /\ Arriving /\ Facing("id") /\ Into
  /\ counter' = counter + 1
  /\ header' = counter
  /\ ids' = [ids EXCEPT ![depth + 1] = counter]
  /\ UNCHANGED <<vars, layers, stack, phase, ran, reply>>

EnterOther ==
  /\ Arriving /\ (Facing("log") \/ Facing("user")) /\ Into
  /\ UNCHANGED <<vars, layers, stack, phase, header, ran, ids, counter, reply>>

\* A user's layer turns the request away, with a response or an error.
LayerAnswers ==
  /\ Arriving /\ Facing("user")
  /\ \E kind \in {"ok", "error"} : reply' = Reply(kind, 0)
  /\ phase' = "out"
  /\ UNCHANGED <<vars, layers, stack, depth, header, ran, ids, counter>>

\* RouterService::call: one step of the router's dispatch.
Dispatch ==
  /\ Arriving /\ depth = Len(stack)
  /\ Next
  /\ UNCHANGED <<layers, stack, phase, depth, header, ran, ids, counter, reply>>

\* The handler that was called returns.
HandlerReturns ==
  /\ phase = "in" /\ answer.kind \in {"route", "not_allowed", "fallback"}
  /\ \E kind \in {"ok", "error"} :
       reply' = Reply(kind, IF kind = "ok" THEN negotiate_from_headers(req.accept, Offered)
                                           ELSE 0)
  /\ ran' = TRUE
  /\ phase' = "out"
  /\ UNCHANGED <<vars, layers, stack, depth, header, ids, counter>>

\* The router answers by itself.
RouterReturns ==
  /\ phase = "in" /\ answer.kind \in {"error", "404", "405"}
  /\ reply' = Reply(IF answer.kind = "error" THEN "error" ELSE "ok", 0)
  /\ phase' = "out"
  /\ UNCHANGED <<vars, layers, stack, depth, header, ran, ids, counter>>

-----------------------------------------------------------------------------
(* The way out                                                              *)

\* Mutant: the id is read off the counter when the response comes back.
Stamp_Late == counter - 1

\* The id a RequestIdLayer writes: the one it had computed before it called inside.
Stamp == ids[depth]

LeaveLayer ==
  /\ phase = "out" /\ depth > 0
  /\ depth' = depth - 1
  /\ reply' = IF stack[depth] = "id" /\ reply.kind = "ok"
                THEN [reply EXCEPT !.id = Stamp] ELSE reply
  /\ UNCHANGED <<vars, layers, stack, phase, header, ran, ids, counter>>

\* An error that no layer has caught becomes a 500.
Sent ==
  /\ phase = "out" /\ depth = 0
  /\ phase' = "done"
  /\ reply' = IF reply.kind = "error" THEN Reply("500", 0) ELSE reply
  /\ UNCHANGED <<vars, layers, stack, depth, header, ran, ids, counter>>

\* The timeout drops the call with every layer it is in.
TimedOut ==
  /\ HasTimeout /\ phase # "done"
  /\ phase' = "done"
  /\ reply' = Reply("408", 0)
  /\ UNCHANGED <<vars, layers, stack, depth, header, ran, ids, counter>>

\* Another request enters a RequestIdLayer.
OtherRequest ==
  /\ phase # "done" /\ Contains(layers, "id") /\ counter <= MaxOthers + Len(layers)
  /\ counter' = counter + 1
  /\ UNCHANGED <<vars, layers, stack, phase, depth, header, ran, ids, reply>>

-----------------------------------------------------------------------------

ServeInit ==
  /\ \E s \in Setups : tree \in s.trees /\ req \in s.requests /\ layers \in s.stacks
  /\ Init
  /\ stack = build_layered_service(layers)
  /\ phase = "in"
  /\ depth = 0
  /\ header = req.claim
  /\ ran = FALSE
  /\ ids = [i \in DOMAIN layers |-> NoId]
  /\ counter = 1
  /\ reply = Reply("none", 0)

ServeNext ==
  \/ EnterRequestId \/ EnterOther \/ LayerAnswers \/ Dispatch
  \/ HandlerReturns \/ RouterReturns \/ LeaveLayer \/ Sent \/ TimedOut
  \/ OtherRequest

ServeSpec == ServeInit /\ [][ServeNext]_servingVars

-----------------------------------------------------------------------------
(* Properties                                                               *)

IdLayers == {i \in DOMAIN layers : layers[i] = "id"}
Outermost == CHOOSE i \in IdLayers : \A j \in IdLayers : i <= j
Innermost == CHOOSE i \in IdLayers : \A j \in IdLayers : j <= i

\* "the first with_layer call produces the layer that sees requests first" and ids
\* are propagated to the response: a handler sees the id of the last RequestIdLayer,
\* never the client's; an answer that comes through the layers carries the id of the
\* first one, whatever the other requests have drawn from the counter meanwhile
\* (tower_middleware.rs RequestIdService::call).  With one such layer the two are the
\* same; a 500 or a 408 carries none.
IdsPair ==
  phase = "done" =>
    /\ (ran /\ IdLayers # {}) =>
         /\ header = ids[Innermost]
         /\ \A i, j \in IdLayers : i < j => ids[i] < ids[j]
    /\ IF reply.kind = "ok" /\ \E i \in IdLayers : ids[i] # NoId
         THEN reply.id = ids[Outermost]
         ELSE reply.id = NoId

\* Does the entry i of the first Accept line take the type k?
Accepted(i, k) == Takes(req.accept[1][i], Offered[k])

\* The type an answer has is one the client accepts, and no other would have been
\* preferred: none of a higher quality, none named earlier at the same quality, none
\* the handler offers earlier; without an answerable entry there is none (Request::
\* negotiate).  Qualities are as the code reads them.
BestOffer ==
  (phase = "done" /\ reply.kind = "ok" /\ ran /\ req.accept # <<>>) =>
    LET q(i) == Quality(req.accept[1][i])
        I == DOMAIN req.accept[1]
        K == DOMAIN Offered
    IN  IF reply.type = 0 THEN \A i \in I, k \in K : ~Accepted(i, k)
        ELSE \E i \in I :
               /\ Accepted(i, reply.type)
               /\ \A k \in 1..reply.type - 1 : ~Accepted(i, k)
               /\ \A j \in I : (\E k \in K : Accepted(j, k)) =>
                    q(j) < q(i) \/ (q(j) = q(i) /\ i <= j)
=============================================================================
