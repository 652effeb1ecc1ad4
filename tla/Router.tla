------------------------------- MODULE Router -------------------------------
(***************************************************************************)
(* Dispatch of a request through a tree of routers (oxihttp-server/src/    *)
(* router.rs): virtual hosts, nested prefixes, the routes in the order of  *)
(* their registration, 405, the fallback, 404, and the state that reaches  *)
(* the handler in the request's extensions.                                *)
(*                                                                         *)
(* A path is a sequence of tokens, Slash and names; two names in a row     *)
(* stand for one longer name, so that a prefix may end within a segment.   *)
(* with_state is called with one type; the query is left out.              *)
(***************************************************************************)
EXTENDS Integers, Sequences, SequencesExt, TLC

CONSTANTS
  Slash,     \* the separator
  Router,    \* the routers there are
  Root,      \* the router the server was given
  Trees,     \* what may have been built of them
  Requests   \* the requests: [method, host, path]

VARIABLES
  tree,      \* Router: [routes, nested, vhosts, fallback, not_allowed, state]
  req,       \* the request as the client sent it
  at,        \* the router whose dispatch_inner runs
  path,      \* the path it sees
  injected,  \* the router whose state is in the extensions
  answer,    \* what the client gets: [kind, route, params]
  chain      \* history: the routers the request went through

vars == <<tree, req, at, path, injected, answer, chain>>

None == "None"
NoParams == [n \in {} |-> <<>>]
Says(kind) == [kind |-> kind, route |-> 0, params |-> NoParams]

\* What paths are made of.
Token == {Slash} \cup UNION {Range(r.path) : r \in Requests}

\* The variants of Segment.
SegmentKind == {"literal", "param", "wildcard"}

ASSUME RouterAssumption ==
  /\ Root \in Router /\ None \notin Router
  /\ \A t \in Trees : \A r \in Router :
       /\ t[r].nested \in Seq(Range(t[r].nested))
       /\ \A i \in DOMAIN t[r].nested : LET n == t[r].nested[i] IN
            n.router \in Router /\ n.prefix \in Seq(Range(n.prefix))
       /\ \A i \in DOMAIN t[r].vhosts : t[r].vhosts[i].router \in Router
       /\ t[r].routes \in Seq(Range(t[r].routes))
       /\ \A i \in DOMAIN t[r].routes : LET p == t[r].routes[i].pattern IN
            p \in Seq({seg \in Range(p) : seg.kind \in SegmentKind})
       /\ t[r].state \in BOOLEAN
  /\ \A r \in Requests : r.path \in Seq(Token)

Me == tree[at]

\* Entry i of a list is where a loop with an early return stops.
IsFirst(list, i, Test(_)) == Test(list[i]) /\ \A j \in 1..i - 1 : ~Test(list[j])

First(list, Test(_)) == CHOOSE i \in DOMAIN list : IsFirst(list, i, Test)

Some(list, Test(_)) == \E i \in DOMAIN list : Test(list[i])

-----------------------------------------------------------------------------
(* Patterns                                                                 *)

\* split('/') without its empty pieces: a token that follows no name begins one.
Segments(p) ==
  LET of[n \in 0..Len(p)] ==
        IF n = 0 THEN <<>>
        ELSE IF p[n] = Slash THEN of[n - 1]
        ELSE IF n = 1 \/ p[n - 1] = Slash THEN Append(of[n - 1], <<p[n]>>)
        ELSE [of[n - 1] EXCEPT ![Len(of[n - 1])] = Append(@, p[n])]
  IN  of[Len(p)]

\* One turn of match_pattern's loop.  A later parameter of the same name wins;
\* a wildcard takes all that is left and ends the loop.
MatchSegment(m, seg) ==
  CASE ~m.ok \/ m.wild -> m
    [] m.ok /\ ~m.wild /\ m.rest = <<>> -> [m EXCEPT !.ok = FALSE]
    [] OTHER ->
         CASE seg.kind = "literal" ->
                [m EXCEPT !.ok = (Head(m.rest) = seg.name), !.rest = Tail(@)]
           [] seg.kind = "param" ->
                [m EXCEPT !.params = seg.name :> <<Head(m.rest)>> @@ @,
                          !.rest = Tail(@)]
           [] OTHER ->
                [m EXCEPT !.params = seg.name :> m.rest @@ @,
                          !.rest = <<>>, !.wild = TRUE]

Matched(pattern, p) ==
  LET after[i \in 0..Len(pattern)] ==
        IF i = 0 THEN [ok |-> TRUE, wild |-> FALSE, rest |-> Segments(p),
                       params |-> NoParams]
        ELSE MatchSegment(after[i - 1], pattern[i])
  IN  after[Len(pattern)]

\* match_pattern returns Some: the whole path is matched.
Matches(pattern, p) == Matched(pattern, p).ok /\ Matched(pattern, p).rest = <<>>

-----------------------------------------------------------------------------
(* Dispatch                                                                 *)

\* Mutant: a router that has no state hides its parent's.
Inherited_Never(sub) == injected

\* What is in the extensions when sub is entered.
Inherited(sub) == IF ~tree[sub].state /\ Me.state THEN at ELSE injected

\* What a handler of this router finds there.
Injected == IF Me.state THEN at ELSE injected

Enter(sub, p) ==
  /\ at' = sub
  /\ path' = p
  /\ injected' = Inherited(sub)
  /\ chain' = Append(chain, sub)
  /\ UNCHANGED <<tree, req, answer>>

Answer(a) ==
  /\ answer' = a
  /\ UNCHANGED <<tree, req, at, path, chain>>

\* A handler is called.
Handle(a) == Answer(a) /\ injected' = Injected

Waiting == answer.kind = "waiting"

HostFits(v) == v.host = req.host
PrefixFits(n) == IsPrefix(n.prefix, path)

\* Virtual hosts come first and rewrite nothing.
VirtualHost ==
  /\ Waiting
  /\ \E i \in DOMAIN Me.vhosts :
       IsFirst(Me.vhosts, i, HostFits) /\ Enter(Me.vhosts[i].router, path)

\* The rest of the path after a prefix, "/" if that is all of it.
SubPath(p, prefix) ==
  IF p = prefix THEN <<Slash>> ELSE SubSeq(p, Len(prefix) + 1, Len(p))

\* The first prefix of the path takes the request; no route is tried after it.
Nested ==
  /\ Waiting /\ ~Some(Me.vhosts, HostFits)
  /\ \E i \in DOMAIN Me.nested :
       /\ IsFirst(Me.nested, i, PrefixFits)
       /\ Enter(Me.nested[i].router, SubPath(path, Me.nested[i].prefix))

\* Rebuilding the URI fails: what http::Uri makes of a path without its slash
\* is the library's business.  A prefix of nothing leaves the path that was read.
BadSubPath ==
  /\ Waiting /\ ~Some(Me.vhosts, HostFits)
  /\ \E i \in DOMAIN Me.nested :
       /\ IsFirst(Me.nested, i, PrefixFits)
       /\ Me.nested[i].prefix # <<>>
       /\ Head(SubPath(path, Me.nested[i].prefix)) # Slash
  /\ Answer(Says("error"))
  /\ UNCHANGED injected

\* The router's own routes are tried.
OwnRoutes ==
  Waiting /\ ~Some(Me.vhosts, HostFits) /\ ~Some(Me.nested, PrefixFits)

PathFits(route) == Matches(route.pattern, path)

\* Mutant: the first route of that path decides, whatever its method.
RouteFits_PathOnly(route) == PathFits(route)

RouteFits(route) == PathFits(route) /\ route.method = req.method

CallRoute ==
  /\ OwnRoutes
  /\ \E i \in DOMAIN Me.routes :
       /\ IsFirst(Me.routes, i, RouteFits)
       /\ Handle([kind |-> "route", route |-> i,
                  params |-> Matched(Me.routes[i].pattern, path).params])

MethodNotAllowed ==
  /\ OwnRoutes /\ ~Some(Me.routes, RouteFits) /\ Some(Me.routes, PathFits)
  /\ IF Me.not_allowed THEN Handle(Says("not_allowed"))
                       ELSE Answer(Says("405")) /\ UNCHANGED injected

NotFound ==
  /\ OwnRoutes /\ ~Some(Me.routes, PathFits)
  /\ IF Me.fallback THEN Handle(Says("fallback"))
                    ELSE Answer(Says("404")) /\ UNCHANGED injected

Init ==
  /\ tree \in Trees
  /\ req \in Requests
  /\ at = Root
  /\ path = req.path
  /\ injected = None
  /\ answer = Says("waiting")
  /\ chain = <<Root>>

Next ==
  VirtualHost \/ Nested \/ BadSubPath \/ CallRoute \/ MethodNotAllowed \/ NotFound

Spec == Init /\ [][Next]_vars

-----------------------------------------------------------------------------
(* Properties                                                               *)

\* The routers on the way to the handler that have a state.
Holders == {i \in DOMAIN chain : tree[chain[i]].state}

\* A handler finds the state of the nearest router around it that has one, over
\* any depth of nesting and virtual hosts (with_state: nested routers without a
\* state inherit, and with one take precedence).
NearestState ==
  answer.kind \in {"route", "not_allowed", "fallback"} =>
    \/ Holders = {} /\ injected = None
    \/ \E i \in Holders : /\ injected = chain[i]
                          /\ \A j \in Holders : j <= i

IsWild(seg) == seg.kind = "wildcard"

\* A pattern without its wildcard, and what follows it, fits the first segments
\* of the path; the path is as long, or longer if there is a wildcard.
Fits(pattern, p) ==
  LET segs == Segments(p)
      n == IF Some(pattern, IsWild) THEN First(pattern, IsWild) - 1
                                    ELSE Len(pattern)
  IN  /\ IF Some(pattern, IsWild) THEN Len(segs) > n ELSE Len(segs) = n
      /\ \A i \in 1..n : pattern[i].kind = "literal" => segs[i] = pattern[i].name

\* The route that is called is the first one registered for the method whose
\* pattern fits the path; 405 means that some fit and none has the method; 404
\* that none fits.  A path fails only where a prefix ends within a segment of it,
\* never for the slash a prefix was written with (Router::nest).
RightRoute ==
  LET fits(i) == Fits(Me.routes[i].pattern, path)
      right(i) == fits(i) /\ Me.routes[i].method = req.method
      D == DOMAIN Me.routes
  IN  /\ answer.kind = "route" =>
           right(answer.route) /\ \A i \in 1..answer.route - 1 : ~right(i)
      /\ answer.kind \in {"not_allowed", "405"} =>
           (\E i \in D : fits(i)) /\ \A i \in D : ~right(i)
      /\ answer.kind \in {"fallback", "404"} => \A i \in D : ~fits(i)
      /\ answer.kind = "error" =>
           \E n \in Range(Me.nested) :
             PrefixFits(n) /\ n.prefix # <<>> /\ Last(n.prefix) # Slash
=============================================================================
