------------------------------ MODULE MCRouter ------------------------------
(* Instances of Serving for TLC: a root, a router below it and a leaf below  *)
(* that one or behind a virtual host; stacks of layers; Accept headers.      *)
EXTENDS Serving, RouterBuilder

s == "/"
Lit(n) == [kind |-> "literal", name |-> <<n>>]
Par(n) == [kind |-> "param", name |-> n]
Wild(n) == [kind |-> "wildcard", name |-> n]

Methods == {"GET", "POST"}
Patterns ==
  {<<>>, <<Lit("a")>>, <<Par("x")>>, <<Wild("w")>>, <<Lit("a"), Par("x")>>,
   <<Par("x"), Par("x")>>, <<Lit("a"), Wild("w"), Lit("b")>>}
Routes == [method : Methods, pattern : Patterns]

Handlers(r, custom) == IF custom THEN MethodNotAllowedBy(Fallback(r)) ELSE r
State(r, has) == IF has THEN WithState(r) ELSE r
With(r, list) ==
  LET add(acc, route) == Route(acc, route.method, route.pattern)
  IN  FoldLeft(add, r, list)
Below(r, list) ==
  LET add(acc, n) == Nest(acc, n.prefix, n.router)
  IN  FoldLeft(add, r, list)
Hosting(r, list) ==
  LET add(acc, v) == Host(acc, v.host, v.router)
  IN  FoldLeft(add, r, list)

\* Every list of up to two routes, with custom handlers and without.
RouteLists ==
  {[r \in {"root", "sub", "leaf"} |-> Handlers(With(NewRouter, routes), custom)] :
     routes \in BoundedSeq(Routes, 2), custom \in BOOLEAN}

Simple ==
  Route(Health(NewRouter, <<Lit("b")>>), "POST", <<Wild("w")>>)

\* Every nesting of three routers, with every choice of their states; prefixes with
\* and without a slash at their end.
Nestings ==
  {[root |-> State(Handlers(Hosting(Below(Simple, nested), vhosts), TRUE), st[1]),
    sub  |-> State(Handlers(Below(Simple, below), custom), st[2]),
    leaf |-> State(Simple, st[3])] :
     nested \in {<<>>, <<[prefix |-> <<s, "a">>, router |-> "sub"]>>,
                 <<[prefix |-> <<s>>, router |-> "sub"]>>,
                 <<[prefix |-> <<s, "b">>, router |-> "leaf"],
                   [prefix |-> <<s, "a", s, "b", s>>, router |-> "sub"]>>},
     vhosts \in {<<>>, <<[host |-> "h", router |-> "sub"]>>},
     below \in {<<>>, <<[prefix |-> <<s, "b", s>>, router |-> "leaf"]>>,
               <<[prefix |-> <<s>>, router |-> "leaf"]>>},
     custom \in BOOLEAN, st \in [1..3 -> BOOLEAN]}

Paths ==
  {<<s>>, <<s, "a">>, <<s, "b">>, <<s, "a", s>>, <<s, "a", "b">>,
   <<s, "a", s, "b">>, <<s, s, "a", s, "b", s, "a">>, <<s, "a", s, "b", s, "b">>,
   <<s, "a", s, "b", s, "a">>, <<s, "b", s, "a", s, "b">>}
Fetches ==
  [method : Methods, host : {"h", "other"}, path : Paths, accept : {<<>>}, claim : {-1}]

\* A route, a fallback and a custom 405; none of them.
Handling == {[r \in {"root", "sub", "leaf"} |-> Handlers(Simple, custom)] : custom \in BOOLEAN}

Get(p, accept, claim) ==
  [method |-> "GET", host |-> "other", path |-> p, accept |-> accept, claim |-> claim]
Calls == {Get(p, <<>>, claim) : p \in {<<s, "b">>, <<s, "a">>, <<s>>}, claim \in {0, -1}}
Stacks == BoundedSeq({"id", "log", "user"}, 3)

\* Headers of up to three entries, in one line or two.
Html == <<"text", "html">>
Ranges == {<<"*", "*">>, <<"text", "*">>, Html, <<"text", "xml">>, <<"image", "png">>}
Entries ==
  {[range |-> r, mark |-> "none", q |-> 10] : r \in Ranges}
  \cup {[range |-> r, mark |-> m, q |-> q] :
          r \in Ranges, m \in {"tight", "spaced"}, q \in {0, 5}}
Lines == BoundedSeq(Entries, 2)
         \cup {<<e, f, g>> : e, f, g \in {x \in Entries : x.mark # "spaced" /\ x.q # 0}}
Asks ==
  {Get(<<s, "b">>, <<line>>, 0) : line \in Lines}
  \cup {Get(<<s, "b">>, <<<<e>>, <<f>>>>, 0) : e, f \in Entries}
MCOffered == << <<"application", "json">>, <<"application", "xml">>, Html>>

MCTrees == RouteLists \cup Nestings \cup Handling
MCRequests == Fetches \cup Calls \cup Asks

MCSetups ==
  {[trees |-> RouteLists \cup Nestings, requests |-> Fetches, stacks |-> {<<>>}],
   [trees |-> Handling, requests |-> Calls, stacks |-> Stacks],
   [trees |-> Handling, requests |-> Asks, stacks |-> {<<>>}]}
=============================================================================
