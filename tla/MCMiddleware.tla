---------------------------- MODULE MCMiddleware ----------------------------
(* Instances of Middleware for TLC.  Requests are interchangeable, and so    *)
(* are clients: only their equality matters.                                 *)
EXTENDS Middleware, TLC

CONSTANTS k1, k2, k3, p, r1, r2, r3

Clients == {k1, k2, k3}
Addresses == Clients \cup {p}
Requests == {r1, r2, r3}
Interchangeable == Permutations(Requests) \cup Permutations(Clients)

\* Within the limit of 2 and beyond it, declared and chunked.
Short == [declared |-> TRUE, size |-> 1]
Bodies ==
  {Short, [declared |-> TRUE, size |-> 3],
   [declared |-> FALSE, size |-> 3]}

Pages == {"listed", "other"}

Nothing ==
  [cors |-> FALSE, origins |-> {}, limiter |-> FALSE, trust |-> FALSE,
   proxy |-> "none", bodyLimit |-> FALSE, timeout |-> FALSE, compress |-> FALSE]

\* A GET without anything special.
Get(k) ==
  [client |-> k, sent |-> <<>>, options |-> FALSE, gzip |-> FALSE, origin |-> "none",
   body |-> [declared |-> TRUE, size |-> 0]]

Uploads(C, B) ==
  {[Get(k) EXCEPT !.body = b] : k \in C, b \in B}
    \cup {[Get(k) EXCEPT !.options = TRUE] : k \in C}

\* Pages of several origins, in browsers and caches of several kinds.
Fetches ==
  {[Get(k1) EXCEPT !.gzip = g, !.origin = w] : g \in BOOLEAN, w \in Pages \cup {"none"}}
    \cup {[Get(k1) EXCEPT !.options = TRUE, !.origin = w] : w \in Pages}

\* What clients write into X-Forwarded-For: nothing, blanks, what is not ASCII, that
\* they are k1, and that in the first of two lines.
Nobody == <<>>
Blank == <<<<"">>>>
Opaque == <<<<"opaque">>>>
First == <<<<k1>>>>
Twice == <<<<k1>>, <<"">>>>

\* A limiter that trusts the header or not, behind a proxy or not, and its clients.
Behind(t, x, claims) ==
  [config |-> [Nothing EXCEPT !.limiter = TRUE, !.trust = t, !.proxy = x],
   requests |-> {[Get(k) EXCEPT !.sent = c] : k \in {k1, k2}, c \in claims}]

\* A limiter before a body limit; a body limit and a timeout; CORS for all, for some and for
\* nobody; a limiter behind proxies of all kinds, and one that is not.
MCTraffic ==
  {[config |-> [Nothing EXCEPT !.cors = TRUE, !.origins = {"*"}, !.limiter = TRUE,
                               !.bodyLimit = TRUE],
    requests |-> Uploads(Clients, Bodies \ {Short})],
   [config |-> [Nothing EXCEPT !.bodyLimit = TRUE, !.timeout = TRUE],
    requests |-> Uploads({k1}, Bodies)]}
   \cup {[config |-> [Nothing EXCEPT !.cors = TRUE, !.origins = o, !.compress = c,
                                     !.timeout = TRUE],
          requests |-> Fetches] : o \in {{}, {"listed"}, {"*"}}, c \in BOOLEAN}
   \cup {Behind(FALSE, "none", {Nobody, First}), Behind(TRUE, "none", {Nobody, Blank}),
          Behind(TRUE, "overwrites", {First, Twice}),
          Behind(TRUE, "extends", {Blank, First, Opaque}),
          Behind(TRUE, "adds", {Nobody, First})}
=============================================================================
