---------------------------- MODULE ClientConfig ----------------------------
(***************************************************************************)
(* ClientBuilder (oxihttp-client/src/client_builder.rs): its setters, the  *)
(* eight functions that build a client from it, and the clients derived    *)
(* from one with with_request_tls_config (lib.rs).                         *)
(*                                                                         *)
(* A setting is Unset or has been set; of its values the model keeps what  *)
(* the properties tell apart.  Certificates are named after the authority  *)
(* that issued them.                                                       *)
(***************************************************************************)
EXTENDS Naturals, Sequences, FiniteSets, SequencesExt, Functions

CONSTANTS
  Authorities,  \* issuers a caller may trust by their certificate
  Malformed,    \* a certificate that cannot be parsed
  MaxCalls,     \* bound: setters called on a builder
  MaxDerived    \* bound: derivations from a client

ASSUME ConfigAssumption ==
  Malformed \notin Authorities /\ {MaxCalls, MaxDerived} \subseteq Nat

VARIABLES
  asked,      \* history: the arguments each setter was given, in order
  overrides,  \* history: what with_request_tls_config was given, in order
  client      \* what the builder has become: nothing yet, an error, a client

configVars == <<asked, overrides, client>>

Unset == "unset"
NoClient == [kind |-> "none"]

-----------------------------------------------------------------------------
(* Settings                                                                 *)

Pool == {"pool_max_idle_per_host", "pool_idle_timeout", "http2_settings"}
Socket == {"connect_timeout", "tcp_nodelay", "tcp_keepalive"}

\* What send() takes from the client, whatever its connector.
Shared ==
  {"read_timeout", "redirect_policy", "retry_policy", "default_headers", "user_agent",
   "decompression", "max_response_body", "middleware", "cookie_jar"}

TlsFlags == {"accept_invalid_certs", "use_webpki_roots", "early_data"}
Tls == TlsFlags \cup {"trusted_certs_der", "alpn", "key_log_path", "custom_cert_verifier"}

Route == {"proxy", "resolver"}

Settings == Pool \cup Socket \cup Shared \cup Tls \cup Route

\* A verifier is the set of issuers it lets pass; there is none or one.
Issuers == Authorities \cup {"webpki", "nobody"}

Values(s) ==
  CASE s \in {"accept_invalid_certs", "decompression"} -> BOOLEAN
    [] s \in {"use_webpki_roots", "early_data"} -> {TRUE}
    [] s = "proxy" -> {"HttpConnect", "Socks5"}
    [] s = "trusted_certs_der" -> Authorities \cup {Malformed}
    [] s = "alpn" -> {{"h2", "http/1.1"}, {"http/1.1"}}
    [] s = "custom_cert_verifier" -> {<<Authorities>>, <<Issuers>>}
    [] OTHER -> {"set"}

\* The setters that append; all the others replace.
Lists == {"trusted_certs_der", "middleware"}

\* ClientBuilder::new.
Default(s) ==
  CASE s \in Lists -> <<>>
    [] s = "custom_cert_verifier" -> <<>>
    [] s = "alpn" -> {}
    [] s \in TlsFlags \cup {"decompression"} -> FALSE
    [] OTHER -> Unset

-----------------------------------------------------------------------------
(* The builder                                                              *)

CallsMade == ReduceSet(LAMBDA t, n : n + Len(asked[t]), Settings, 0)

Called(s, v) ==
  /\ client = NoClient
  /\ CallsMade < MaxCalls
  /\ v \in Values(s)
  /\ asked' = [asked EXCEPT ![s] = Append(@, v)]
  /\ UNCHANGED <<overrides, client>>

\* pool_max_idle_per_host to with_tcp_keepalive.
SetTransfer == \E s \in Pool \cup Socket \cup Shared : \E v \in Values(s) : Called(s, v)

\* with_resolver, with_http_proxy, with_socks5_proxy.
SetRoute == \E s \in Route : \E v \in Values(s) : Called(s, v)

\* with_tls to with_custom_cert_verifier.
SetTls == \E s \in Tls : \E v \in Values(s) : Called(s, v)

\* The builder's fields.
builder ==
  [s \in Settings |->
     IF s \in Lists THEN asked[s]
     ELSE IF asked[s] = <<>> THEN Default(s) ELSE Last(asked[s])]

-----------------------------------------------------------------------------
(* The TLS connector                                                        *)

\* Mutant: the danger flag is looked at first.
Verifying_FlagFirst(c) ==
  IF c["accept_invalid_certs"] THEN Issuers
  ELSE IF c["custom_cert_verifier"] # <<>> THEN Head(c["custom_cert_verifier"])
  ELSE ToSet(c["trusted_certs_der"])
         \cup (IF c["use_webpki_roots"] THEN {"webpki"} ELSE {})

\* The issuers whose certificates the connector accepts.
Verifying(c) ==
  IF c["custom_cert_verifier"] # <<>> THEN Head(c["custom_cert_verifier"])
  ELSE IF c["accept_invalid_certs"] THEN Issuers
  ELSE ToSet(c["trusted_certs_der"])
         \cup (IF c["use_webpki_roots"] THEN {"webpki"} ELSE {})

\* What is in force with a custom verifier: not the key log.
InForce(c) ==
  IF c["custom_cert_verifier"] # <<>> THEN [c EXCEPT !["key_log_path"] = Unset] ELSE c

\* The outcomes of building it.  Whether oxitls refuses to build without any root
\* is its own affair.
TlsOutcomes(c) ==
  IF c["custom_cert_verifier"] # <<>> THEN {"ok"}
  ELSE IF Malformed \in ToSet(c["trusted_certs_der"]) THEN {"tls"}
  ELSE IF Verifying(c) = {} THEN {"ok", "tls"}
  ELSE {"ok"}

-----------------------------------------------------------------------------
(* Clients                                                                  *)

TlsKinds == {"https", "proxy_https", "socks5_proxy_https", "https_with_resolver"}
ProxyKinds == {"proxy", "proxy_https", "socks5_proxy", "socks5_proxy_https"}
ResolverKinds == {"with_resolver", "https_with_resolver"}

\* What a build function makes no use of: the proxy connectors dial by themselves,
\* with the connect timeout alone.
Ignored(kind) ==
  (IF kind \in ProxyKinds THEN {"tcp_nodelay", "tcp_keepalive"} ELSE {"proxy"})
    \cup (IF kind \in ResolverKinds THEN {} ELSE {"resolver"})
    \cup (IF kind \in TlsKinds THEN {} ELSE Tls)

\* The client: the settings in force, and TlsRebuildConfig.
Made(kind, conf, rebuild) == [kind |-> kind, conf |-> conf, rebuild |-> rebuild]

Failed(error) == [kind |-> "error", error |-> error]

Rebuilt == Pool \cup Socket \cup Tls

\* What a build function passes on.
Taken(kind) ==
  [s \in Settings |-> IF s \in Ignored(kind) THEN Default(s) ELSE builder[s]]

Build(kind) ==
  client' = Made(kind, InForce(Taken(kind)),
              Restrict(builder, IF kind = "https" THEN Rebuilt ELSE {}))

\* build_tls_connector_inner()?.
WithTls(kind) ==
  \E outcome \in TlsOutcomes(builder) :
    IF outcome = "ok" THEN Build(kind) ELSE client' = Failed(outcome)

Refuse(error) == client' = Failed(error)

Finish == client = NoClient /\ UNCHANGED <<asked, overrides>>

build == Finish /\ Build("plain")

build_proxy ==
  /\ Finish
  /\ IF builder["proxy"] = "HttpConnect" THEN Build("proxy") ELSE Refuse("ConnectionPool")

build_socks5_proxy ==
  /\ Finish
  /\ IF builder["proxy"] = "Socks5" THEN Build("socks5_proxy") ELSE Refuse("ConnectionPool")

build_proxy_https ==
  /\ Finish
  /\ IF builder["proxy"] = "HttpConnect" THEN WithTls("proxy_https")
                                         ELSE Refuse("ConnectionPool")

build_socks5_proxy_https ==
  /\ Finish
  /\ IF builder["proxy"] = "Socks5" THEN WithTls("socks5_proxy_https")
                                    ELSE Refuse("ConnectionPool")

build_https == Finish /\ WithTls("https")

build_with_resolver ==
  /\ Finish
  /\ IF builder["resolver"] # Unset THEN Build("with_resolver") ELSE Refuse("dns")

\* The TLS connector is built before the resolver is missed.
build_https_with_resolver ==
  /\ Finish
  /\ IF builder["resolver"] # Unset THEN WithTls("https_with_resolver")
     ELSE \E outcome \in TlsOutcomes(builder) :
            Refuse(IF outcome = "ok" THEN "dns" ELSE outcome)

Built ==
  \/ build \/ build_proxy \/ build_socks5_proxy \/ build_proxy_https
  \/ build_socks5_proxy_https \/ build_https \/ build_with_resolver
  \/ build_https_with_resolver

-----------------------------------------------------------------------------
(* Derived clients                                                          *)

\* RequestTlsConfig.
Overrides ==
  [trusted_cert_ders : {<<>>, <<Malformed>>} \cup {<<a>> : a \in Authorities},
   accept_invalid_certs : BOOLEAN]

Merged(base, o) ==
  [base EXCEPT !["trusted_certs_der"] =
                 IF o.trusted_cert_ders = <<>> THEN @ ELSE o.trusted_cert_ders,
               !["accept_invalid_certs"] = @ \/ o.accept_invalid_certs]

\* Mutant: the TCP options are not carried on.
Rebuild_Partly(merged) == [merged EXCEPT !["tcp_nodelay"] = Unset]

\* The TlsRebuildConfig of the new client.
Rebuild(merged) == merged

\* The connector and the pool are built from the merged settings, the rest is the
\* client's own.
Derived(merged) ==
  [s \in Settings |-> IF s \in Rebuilt THEN merged[s] ELSE client.conf[s]]

\* With an error the client stays what it was.
with_request_tls_config ==
  /\ client.kind = "https" /\ Len(overrides) < MaxDerived
  /\ \E o \in Overrides :
       LET merged == Merged(client.rebuild, o)
       IN  /\ "ok" \in TlsOutcomes(merged)
           /\ client' = Made("https", InForce(Derived(merged)), Rebuild(merged))
           /\ overrides' = Append(overrides, o)
  /\ UNCHANGED asked

-----------------------------------------------------------------------------

ConfigInit ==
  /\ asked = [s \in Settings |-> <<>>]
  /\ overrides = <<>>
  /\ client = NoClient

ConfigNext == SetTransfer \/ SetRoute \/ SetTls \/ Built \/ with_request_tls_config

-----------------------------------------------------------------------------
(* Properties                                                               *)

IsClient == client.kind \notin {"none", "error"}

\* The last certificates an override gave, or the builder's.
Pins ==
  LET given == {i \in DOMAIN overrides : overrides[i].trusted_cert_ders # <<>>}
  IN  IF given = {} THEN ToSet(asked["trusted_certs_der"])
                    ELSE ToSet(overrides[Max(given)].trusted_cert_ders)

AskedFor(s) == asked[s] # <<>> /\ Last(asked[s]) = TRUE

\* The issuers the caller has asked to trust, in all the calls that led to the
\* client.
MayTrust ==
  IF asked["custom_cert_verifier"] # <<>> THEN Head(Last(asked["custom_cert_verifier"]))
  ELSE IF AskedFor("accept_invalid_certs")
            \/ \E i \in DOMAIN overrides : overrides[i].accept_invalid_certs
    THEN Issuers
  ELSE Pins \cup (IF AskedFor("use_webpki_roots") THEN {"webpki"} ELSE {})

\* Where the documentation of a derivation and its code disagree: with a custom
\* verifier, an override is said to skip verification if either side disables it
\* (request_config.rs), and the override's certificates to replace the client's trust
\* configuration (with_request_tls_config); the code keeps the verifier, as it keeps
\* the public roots beside the override's certificates.
Disputed ==
  LET pinned == \E i \in DOMAIN overrides : overrides[i].trusted_cert_ders # <<>>
      skipped == \/ AskedFor("accept_invalid_certs")
                 \/ \E i \in DOMAIN overrides : overrides[i].accept_invalid_certs
  IN  /\ overrides # <<>>
      /\ \/ asked["custom_cert_verifier"] # <<>> /\ (pinned \/ skipped)
         \/ AskedFor("use_webpki_roots") /\ pinned

\* A client trusts whom it was asked to trust, through every chain of derivations but
\* the disputed ones: a custom verifier alone decides in the client it was built into
\* (client_builder.rs: "it takes precedence over" the certificates and the danger
\* flag), a list of certificates replaces the one before it (request_config.rs: "When
\* non-empty this list replaces ..."), and a verification once disabled stays so
\* ("ORed with the global flag").
TrustAsAsked ==
  (IsClient /\ client.kind \in TlsKinds /\ ~Disputed) => Verifying(client.conf) = MayTrust

\* A derived client "shares all settings with the original" but its trust
\* (request_config.rs), and so does one derived from it: what TlsRebuildConfig
\* misses shows at the second derivation only.
SettingsKept ==
  [][(IsClient /\ overrides' # overrides /\ overrides' # <<>>) =>
       \A s \in Settings \ {"trusted_certs_der", "accept_invalid_certs"} :
         client'.conf[s] = client.conf[s]]_configVars
=============================================================================
