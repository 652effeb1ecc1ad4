--------------------------- MODULE RouterBuilder ---------------------------
(***************************************************************************)
(* The functions a program builds its routers with (oxihttp-server/src/    *)
(* router.rs).  A router is the record that tree holds; a router that is   *)
(* nested or mounted on a host goes by its name in Router.                 *)
(***************************************************************************)
EXTENDS Router

NewRouter ==
  [routes |-> <<>>, nested |-> <<>>, vhosts |-> <<>>, fallback |-> FALSE,
   not_allowed |-> FALSE, state |-> FALSE]

\* route, which get, post, put, delete, patch and head call.  An earlier route of
\* the same method and path stays, and shadows the new one.
Route(r, method, pattern) ==
  [r EXCEPT !.routes = Append(@, [method |-> method, pattern |-> pattern])]

\* health is a GET route like any other.
Health(r, pattern) == Route(r, "GET", pattern)

\* trim_end_matches('/').
Trimmed(prefix) ==
  LET names == {i \in DOMAIN prefix : prefix[i] # Slash}
  IN  IF names = {} THEN <<>>
      ELSE SubSeq(prefix, 1, CHOOSE i \in names : \A j \in names : j <= i)

\* Mutant: the prefix is kept as it is written.
Nest_AsWritten(r, prefix, sub) ==
  [r EXCEPT !.nested = Append(@, [prefix |-> prefix, router |-> sub])]

Nest(r, prefix, sub) ==
  [r EXCEPT !.nested = Append(@, [prefix |-> Trimmed(prefix), router |-> sub])]

Host(r, host, sub) ==
  [r EXCEPT !.vhosts = Append(@, [host |-> host, router |-> sub])]

\* Setters: a second call replaces the first one's value.
Fallback(r)           == [r EXCEPT !.fallback = TRUE]
MethodNotAllowedBy(r) == [r EXCEPT !.not_allowed = TRUE]
WithState(r)          == [r EXCEPT !.state = TRUE]
=============================================================================
