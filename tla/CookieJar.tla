----------------------------- MODULE CookieJar -----------------------------
(***************************************************************************)
(* The CookieJar of oxihttp-core/src/cookie.rs, shared behind a mutex by   *)
(* the concurrent sends of a client (oxihttp-client/src/lib.rs             *)
(* send_inner): each hop reads the jar before the request and writes it    *)
(* after the response, and holds the lock for neither in between.          *)
(*                                                                         *)
(* A domain is the sequence of its labels, a path that of its segments.    *)
(* The absent domain is the empty one, which every host matches.           *)
(***************************************************************************)
EXTENDS Integers, Sequences, SequencesExt

CONSTANTS
  Send,      \* the sends under way
  Url,       \* what they fetch, and are redirected to: [secure, host, path]
  SetCookie, \* what servers set: [name, domain, path, secure, max_age]
  Mine,      \* what the application inserts, with no regard to a URL: the same
  MaxHeaders, \* bound: Set-Cookie headers of one response
  MaxTime,   \* bound: the last tick
  MaxStored  \* bound: cookies put into the jar

\* What parse_set_cookie makes of a header; max_age is an unsigned number.
ParsedCookie ==
  [name : STRING, domain : Seq(STRING), path : Seq(STRING), secure : BOOLEAN,
   max_age : Nat \cup {-1}]

ASSUME JarAssumption ==
  /\ MaxHeaders \in Nat /\ MaxTime \in Nat /\ MaxStored \in Nat
  /\ SetCookie \subseteq ParsedCookie /\ Mine \subseteq ParsedCookie
  /\ Url \subseteq [secure : BOOLEAN, host : Seq(STRING), path : Seq(STRING)]

VARIABLES
  now,      \* Instant::now()
  jar,      \* CookieJar::cookies
  send,     \* each send: [pc, url], between hops or awaiting a response
  header,   \* the cookies of the request each has sent last, in order
  stored    \* history: how many cookies were stored; the value of the next one

vars == <<now, jar, send, header, stored>>

NoDomain == <<>>
NoPath == <<"no path attribute">>
Never == -1                       \* no Max-Age, no expiry

-----------------------------------------------------------------------------

\* Mutant: cookies are told apart by their name alone.
SameCookie_ByName(c, d) == c.name = d.name

\* The key of insert_for_url.
SameCookie(c, d) == c.name = d.name /\ c.domain = d.domain /\ c.path = d.path

\* retain(): the cookies that are in T, in their order.
Retained(cookies, T) ==
  LET of[n \in 0..Len(cookies)] ==
        IF n = 0 THEN <<>>
        ELSE IF cookies[n] \in T THEN Append(of[n - 1], cookies[n]) ELSE of[n - 1]
  IN  of[Len(cookies)]

\* The path up to its last slash.
DefaultPath(url) == IF url.path = <<>> THEN <<>> ELSE Front(url.path)

\* insert_for_url's defaults and expiry.
Completed(sc, url, value) ==
  [name |-> sc.name, value |-> value, secure |-> sc.secure,
   domain |-> IF sc.domain = NoDomain THEN url.host ELSE sc.domain,
   path |-> IF sc.path = NoPath THEN DefaultPath(url) ELSE sc.path,
   expires |-> IF sc.max_age = Never THEN Never ELSE now + sc.max_age]

InsertForUrl(cookies, c) ==
  Append(Retained(cookies, {d \in ToSet(cookies) : ~SameCookie(c, d)}), c)

\* One after the other.
InsertAll(completed) ==
  LET after[n \in 0..Len(completed)] ==
        IF n = 0 THEN jar ELSE InsertForUrl(after[n - 1], completed[n])
  IN  after[Len(completed)]

\* Mutant: the headers are taken from the last to the first.
AddFromResponse_Reversed(headers, url) ==
  LET n == Len(headers)
  IN  InsertAll([i \in 1..n |-> Completed(headers[n + 1 - i], url, stored + n - i)])

\* add_from_response_headers, with the lock held over all of them.
AddFromResponse(headers, url) ==
  InsertAll([i \in DOMAIN headers |-> Completed(headers[i], url, stored + i - 1)])

\* domain_match: the host or a domain above it.
DomainMatch(domain, host) == IsSuffix(domain, host)

\* A cookie without a path, as the application may insert, is for all of its host.
PathOf(c) == IF c.path = NoPath THEN <<>> ELSE c.path

PathMatch(cpath, path) == IsPrefix(cpath, path)

\* Mutant: a cookie is still sent in the instant of its expiry.
Expired_Late(c) == c.expires # Never /\ c.expires < now

Expired(c) == c.expires # Never /\ c.expires <= now

Applies(c, url) ==
  /\ c.secure => url.secure
  /\ DomainMatch(c.domain, url.host)
  /\ PathMatch(PathOf(c), url.path)

\* Mutant: no sorting.
Before_Unsorted(c, d) == TRUE

\* The sort is stable: longer paths first, the jar's order among equals.
Before(c, d) == Len(PathOf(c)) >= Len(PathOf(d))

\* Before the first that does not go before c.
Place(list, c) == Min({i \in DOMAIN list : ~Before(list[i], c)} \cup {Len(list) + 1})

\* The cookies that match, each sorted into those there are.
CookiesForUrl(url) ==
  LET of[n \in 0..Len(jar)] ==
        IF n = 0 THEN <<>>
        ELSE IF ~Expired(jar[n]) /\ Applies(jar[n], url)
             THEN InsertAt(of[n - 1], Place(of[n - 1], jar[n]), jar[n])
             ELSE of[n - 1]
  IN  of[Len(jar)]

-----------------------------------------------------------------------------

\* One hop up to client.request(): the Cookie header is what the jar holds now.
Request(s) ==
  /\ send[s].pc = "ready"
  /\ header' = [header EXCEPT ![s] = CookiesForUrl(send[s].url)]
  /\ send' = [send EXCEPT ![s].pc = "sent"]
  /\ UNCHANGED <<now, jar, stored>>

\* The response, with Set-Cookie headers or without; a redirect makes the next
\* hop of it.
Response(s) ==
  /\ send[s].pc = "sent"
  /\ \/ UNCHANGED <<jar, stored>>
     \/ \E n \in 1..MaxHeaders : \E headers \in [1..n -> SetCookie] :
          /\ stored + n <= MaxStored
          /\ jar' = AddFromResponse(headers, send[s].url)
          /\ stored' = stored + n
  /\ \/ send' = [send EXCEPT ![s].pc = "done"]
     \/ \E url \in Url : send' = [send EXCEPT ![s] = [pc |-> "ready", url |-> url]]
  /\ UNCHANGED <<now, header>>

\* The application holds the jar too: insert() replaces every cookie of a name and
\* takes the new one as it is; remove() takes the first one of a name.
InsertByName(sc) ==
  /\ stored < MaxStored
  /\ LET c == [name |-> sc.name, value |-> stored, secure |-> sc.secure,
               domain |-> sc.domain, path |-> sc.path, expires |-> Never]
     IN  jar' = Append(Retained(jar, {d \in ToSet(jar) : d.name # sc.name}), c)
  /\ stored' = stored + 1
  /\ UNCHANGED <<now, send, header>>

RemoveByName(name) ==
  /\ \E i \in DOMAIN jar :
       /\ jar[i].name = name /\ \A j \in 1..i - 1 : jar[j].name # name
       /\ jar' = RemoveAt(jar, i)
  /\ UNCHANGED <<now, send, header, stored>>

Tick ==
  /\ now < MaxTime
  /\ now' = now + 1
  /\ UNCHANGED <<jar, send, header, stored>>

Init ==
  /\ now = 0
  /\ jar = <<>>
  /\ send \in [Send -> [pc : {"ready"}, url : Url]]
  /\ header = [s \in Send |-> <<>>]
  /\ stored = 0

Next ==
  \/ \E s \in Send : Request(s) \/ Response(s)
  \/ \E sc \in Mine : InsertByName(sc) \/ RemoveByName(sc.name)
  \/ Tick

Spec == Init /\ [][Next]_vars

-----------------------------------------------------------------------------
(* Properties                                                               *)

Live == {c \in ToSet(jar) : c.expires = Never \/ c.expires > now}

Store == INSTANCE CookieStore WITH live <- Live, carried <- header

\* What a step of the jar is to the store; new cookies are told by their numbers.
StoreStep ==
  LET new == {c \in ToSet(jar') : c.value >= stored}
  IN  IF send' # send THEN Store!StepOfSend(new) ELSE Store!StepOfOthers(new)

\* The jar never removes an expired cookie and finds the one to replace by
\* searching; for its requests it is a CookieStore all the same: each carries the
\* last cookie set for every name, domain and path, as long as it lives, more
\* specific ones first and older ones among equals, whatever other sends store
\* between its request and its response; a response's cookies are stored together.
ActsAsStore == Store!Init /\ [][StoreStep]_(Store!storeVars)
=============================================================================
