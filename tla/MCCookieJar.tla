---------------------------- MODULE MCCookieJar ----------------------------
(* Instances of CookieJar for TLC: a site, a host below it, two paths.       *)
EXTENDS CookieJar

site == <<"org">>
host == <<"www", "org">>
Urls ==
  {[secure |-> FALSE, host |-> site, path |-> <<"a">>],
   [secure |-> TRUE, host |-> host, path |-> <<"a", "b">>]}

\* A host cookie, secure or not, a domain cookie that lives for a tick, and one
\* that is dead on arrival: the way a server deletes a cookie.
SetCookies ==
  {[name |-> "x", domain |-> NoDomain, path |-> NoPath, secure |-> secure,
    max_age |-> Never] : secure \in BOOLEAN}
  \cup {[name |-> "x", domain |-> site, path |-> <<"a">>, secure |-> FALSE,
         max_age |-> age] : age \in {0, 1}}

\* The application's own cookies, of every host or of the site's, and of no path.
InsertedCookies ==
  {[name |-> "x", domain |-> domain, path |-> NoPath, secure |-> FALSE,
    max_age |-> Never] : domain \in {NoDomain, site}}
=============================================================================
