--------------------------- MODULE RouterResolve ---------------------------
(***************************************************************************)
(* Router::resolve, which answers for benchmarks and introspection what    *)
(* dispatch would do, without doing it (oxihttp-server/src/router.rs).     *)
(***************************************************************************)
EXTENDS Router

\* A router owns those nested in it: no tree contains itself.
ASSUME NestingAssumption ==
  /\ IsFiniteSet(Router)
  /\ \A t \in Trees : \E level \in [Router -> 0..Cardinality(Router)] :
       \A r \in Router : \A n \in Range(t[r].nested) : level[n.router] < level[r]

\* Mutant: the sub-path keeps its prefix.
SubPathOf_Unstripped(p, prefix) == p

SubPathOf(p, prefix) == SubPath(p, prefix)

\* What router r of the tree t makes of a path, given what the routers below make of theirs:
\* [some, params], an Option<HashMap<String, String>>.
Resolution(t, below, r, method, p) ==
  LET under(n) == IsPrefix(n.prefix, p)
      fits(route) == Matches(route.pattern, p)
      right(route) == fits(route) /\ route.method = method
      me == t[r]
  IN  IF Some(me.nested, under)
        THEN LET n == me.nested[First(me.nested, under)]
             IN  below[n.router][SubPathOf(p, n.prefix)]
      ELSE IF Some(me.routes, right)
        THEN [some |-> TRUE,
              params |-> Matched(me.routes[First(me.routes, right)].pattern, p).params]
      ELSE [some |-> Some(me.routes, fits), params |-> NoParams]

Resolve(t, r, method, p) ==
  LET of[s \in Router] == [q \in Seq(Token) |-> Resolution(t, of, s, method, q)]
  IN  of[r][p]

\* resolve "replicates the O(n) dispatch scan": where no virtual host takes the
\* request, it finds what dispatch finds, with the same parameters.
AgreesWithDispatch ==
  (answer.kind \notin {"waiting", "error"}
     /\ \A r \in Router : ~Some(tree[r].vhosts, HostFits)) =>
    LET found == Resolve(tree, Root, req.method, req.path)
    IN  /\ found.some <=> answer.kind \notin {"404", "fallback"}
        /\ found.params = answer.params
=============================================================================
