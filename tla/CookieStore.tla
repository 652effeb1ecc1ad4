---------------------------- MODULE CookieStore ----------------------------
(***************************************************************************)
(* What a cookie jar promises its requests: a set of live cookies, one for *)
(* each name, domain and path, that a later cookie replaces and that time  *)
(* takes away.  A request carries the ones that apply to its URL, the more *)
(* specific first.                                                         *)
(***************************************************************************)
EXTENDS Naturals, Sequences, SequencesExt

CONSTANTS Send, Url, Never, PathOf(_), Applies(_, _)

VARIABLES now, live, carried, stored

storeVars == <<now, live, carried, stored>>

Same(c, d) == c.name = d.name /\ c.domain = d.domain /\ c.path = d.path
Lasts(c, t) == c.expires = Never \/ c.expires > t

Init == now = 0 /\ live = {} /\ carried = [s \in Send |-> <<>>] /\ stored = 0

\* A response's cookies are stored as one: each replaces the cookie it updates, and
\* a dead one deletes it.  They are numbered as they were set, new are those that
\* no later one of the response has replaced, so that the last one is among them.
PutAll(new) ==
  /\ live' = {d \in live : \A c \in new : ~Same(c, d)} \cup {c \in new : Lasts(c, now)}
  /\ \E c \in new : c.value = stored' - 1

\* The application's cookie replaces every one of its name.
PutByName(new) ==
  /\ \E c \in new : new = {c} /\ live' = {d \in live : d.name # c.name} \cup {c}
  /\ stored' = stored + 1

Drop(c) == live' = live \ {c}

\* Longer paths first, and among equals the cookie stored first.
MoreSpecific(c, d) ==
  LET m == Len(PathOf(c)) n == Len(PathOf(d)) IN m > n \/ (m = n /\ c.value < d.value)

Ordered(list) == \A i, j \in DOMAIN list : i < j => MoreSpecific(list[i], list[j])

Carry(s, url) ==
  LET due == {c \in live : Applies(c, url)}
      list == carried'[s]
  IN  /\ list \in Seq(due) /\ ToSet(list) = due /\ Ordered(list)
      /\ carried' = [carried EXCEPT ![s] = list]

Pass(t) == now' = t /\ live' = {c \in live : Lasts(c, t)}

\* What sends do to the store, and what the application and time do; new are the
\* cookies that were not there before.
StepOfSend(new) ==
  \/ \E s \in Send, url \in Url : Carry(s, url) /\ UNCHANGED <<now, live, stored>>
  \/ PutAll(new) /\ UNCHANGED <<now, carried>>

StepOfOthers(new) ==
  \/ PutByName(new) /\ UNCHANGED <<now, carried>>
  \/ \E c \in live : Drop(c) /\ UNCHANGED <<now, carried, stored>>
  \/ Pass(now + 1) /\ UNCHANGED <<carried, stored>>
=============================================================================
