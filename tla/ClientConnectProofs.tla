------------------------ MODULE ClientConnectProofs ------------------------
(***************************************************************************)
(* Proofs about ClientConnect and the modules it is made of: a client's    *)
(* trust and settings through the chain of its derivations (ClientConfig), *)
(* the security of the connection, and the handshakes with a proxy         *)
(* (ProxyConnect), whose unread bytes are at every moment the rest of its  *)
(* answer.                                                                 *)
(***************************************************************************)
EXTENDS ClientConnect, TLAPS

-----------------------------------------------------------------------------
(* The configuration                                                        *)

Trust == {"trusted_certs_der", "accept_invalid_certs"}

Verifiers == {<<Authorities>>, <<Issuers>>}

\* What the setters have been given, as far as the trust depends on it.
ConfigType ==
  /\ asked \in [Settings -> Seq(UNION {Values(s) : s \in Settings})]
  /\ asked["custom_cert_verifier"] \in Seq(Verifiers)
  /\ asked["accept_invalid_certs"] \in Seq(BOOLEAN)
  /\ asked["use_webpki_roots"] \in Seq(BOOLEAN)
  /\ overrides \in Seq(Overrides)

\* The overrides that pin certificates, and the last of them.
Pinning == {i \in DOMAIN overrides : overrides[i].trusted_cert_ders # <<>>}

PinningEnds == Pinning # {} => \E i \in Pinning : \A j \in Pinning : i >= j

\* Has an override disabled the verification?
Disabled == \E i \in DOMAIN overrides : overrides[i].accept_invalid_certs

\* What a client is rebuilt from: the builder's settings, with the trust of all the
\* overrides.
RebuildInv ==
  /\ client.rebuild = [s \in Rebuilt |-> client.rebuild[s]]
  /\ \A s \in Rebuilt \ Trust : client.rebuild[s] = builder[s]
  /\ ToSet(client.rebuild["trusted_certs_der"]) = Pins
  /\ client.rebuild["accept_invalid_certs"] \in BOOLEAN
  /\ client.rebuild["accept_invalid_certs"] <=> AskedFor("accept_invalid_certs") \/ Disabled
  /\ client.conf = InForce([s \in Settings |-> IF s \in Rebuilt THEN client.rebuild[s]
                                               ELSE Taken("https")[s]])

Kinds == TlsKinds \cup {"plain", "proxy", "socks5_proxy", "with_resolver"}

ConfigInv ==
  /\ ConfigType
  /\ PinningEnds
  /\ (client.kind # "https") => overrides = <<>>
  /\ IsClient => client.kind \in Kinds
  /\ (IsClient /\ client.kind # "https") => client.conf = InForce(Taken(client.kind))
  /\ client.kind = "https" => RebuildInv

\* What the setters of the trust are given.
LEMMA ValuesOf ==
  /\ Values("custom_cert_verifier") = Verifiers
  /\ Values("accept_invalid_certs") = BOOLEAN
  /\ Values("use_webpki_roots") = {TRUE}
<1>1. Values("custom_cert_verifier") = Verifiers
  BY ZenonT(20) DEF Values, Verifiers
<1>2. Values("accept_invalid_certs") = BOOLEAN
  BY ZenonT(20) DEF Values
<1>3. Values("use_webpki_roots") = {TRUE}
  BY ZenonT(20) DEF Values
<1> QED  BY <1>1, <1>2, <1>3

\* A new builder (ClientBuilder::new) has asked for nothing.
LEMMA ConfigInitially == ConfigInit => ConfigInv
  BY DEF ConfigInit, ConfigInv, ConfigType, PinningEnds, Pinning, NoClient, IsClient,
         Settings, Pool, Socket, Shared, Tls, TlsFlags, Route

\* A setter of the builder.
LEMMA CalledKeeps ==
  ASSUME ConfigInv, NEW s \in Settings, NEW v, Called(s, v)
  PROVE  ConfigInv'
<1>1. client = NoClient /\ client' = client /\ overrides' = overrides
  BY DEF Called
<1>2. v \in Values(s) /\ asked' = [asked EXCEPT ![s] = Append(@, v)]
  BY DEF Called
<1> DEFINE V == UNION {Values(t) : t \in Settings}
<1>3. v \in V  BY <1>2
<1>4. asked \in [Settings -> Seq(V)]
  BY DEF ConfigInv, ConfigType
<1> HIDE DEF V
<1>5. asked' \in [Settings -> Seq(V)]
  BY <1>2, <1>3, <1>4
<1>6. ASSUME NEW t \in Settings, NEW S, asked[t] \in Seq(S), s = t => v \in S
      PROVE  asked'[t] \in Seq(S)
  BY <1>2, <1>4, <1>6
<1>7. asked'["custom_cert_verifier"] \in Seq(Verifiers)
  BY <1>2, <1>6, ValuesOf DEF ConfigInv, ConfigType, Settings, Tls
<1> DEFINE B == BOOLEAN
<1>8. asked["accept_invalid_certs"] \in Seq(B) /\ asked["use_webpki_roots"] \in Seq(B)
  BY DEF ConfigInv, ConfigType
<1>9. s \in {"accept_invalid_certs", "use_webpki_roots"} => v \in B
  BY <1>2, ValuesOf
<1>10. {"accept_invalid_certs", "use_webpki_roots"} \subseteq Settings
  BY DEF Settings, Tls, TlsFlags
<1> HIDE DEF B
<1>11. asked'["accept_invalid_certs"] \in Seq(B) /\ asked'["use_webpki_roots"] \in Seq(B)
  BY <1>6, <1>8, <1>9, <1>10
<1>12. ConfigType'
  BY <1>1, <1>5, <1>7, <1>11 DEF ConfigInv, ConfigType, V, B
<1> QED
  BY <1>1, <1>12 DEF ConfigInv, PinningEnds, Pinning, NoClient, IsClient

\* Which settings TlsRebuildConfig carries, and which build_https ignores.
LEMMA SettingFacts ==
  /\ Rebuilt \subseteq Settings /\ Trust \subseteq Rebuilt
  /\ {"custom_cert_verifier", "use_webpki_roots", "key_log_path"} \subseteq Rebuilt \ Trust
  /\ \A s \in Rebuilt : s \notin Ignored("https")
  /\ \A kind \in TlsKinds : \A s \in Tls : s \notin Ignored(kind)
  /\ Trust \cup {"custom_cert_verifier", "use_webpki_roots", "key_log_path"} \subseteq Tls
  BY DEF Rebuilt, Settings, Trust, Ignored, ProxyKinds, ResolverKinds, TlsKinds, Pool,
         Socket, Shared, Tls, TlsFlags, Route

\* A build function that succeeds.
LEMMA BuildKeeps ==
  ASSUME ConfigInv, NEW kind \in Kinds, client = NoClient, Build(kind),
         UNCHANGED <<asked, overrides>>
  PROVE  ConfigInv'
<1>1. overrides = <<>> /\ overrides' = <<>> /\ asked' = asked
  BY DEF ConfigInv, NoClient
<1>2. builder' = builder
  BY <1>1 DEF builder
<1>3. \A k : Taken(k)' = Taken(k)
  BY <1>2 DEF Taken
<1>4. ConfigType' /\ PinningEnds'
  BY <1>1 DEF ConfigInv, ConfigType, PinningEnds, Pinning
<1>5. client'.kind = kind /\ client'.conf = InForce(Taken(kind))
  BY DEF Build, Made
<1>6. CASE kind # "https"
  BY <1>1, <1>3, <1>4, <1>5, <1>6 DEF ConfigInv
<1>7. CASE kind = "https"
  <2>1. client'.rebuild = [s \in Rebuilt |-> builder[s]]
    BY <1>7 DEF Build, Made, Restrict
  <2>2. \A s \in Rebuilt \ Trust : client'.rebuild[s] = builder'[s]
    BY <1>2, <2>1
  <2>3. builder["trusted_certs_der"] = asked["trusted_certs_der"]
    BY SettingFacts DEF builder, Lists, Trust
  <2>4. Pins' = ToSet(asked["trusted_certs_der"])
    BY <1>1 DEF Pins
  <2>5. ToSet(client'.rebuild["trusted_certs_der"]) = Pins'
    BY <2>1, <2>3, <2>4, SettingFacts DEF Trust
  <2>6. builder["accept_invalid_certs"] =
          IF asked["accept_invalid_certs"] = <<>> THEN FALSE
          ELSE Last(asked["accept_invalid_certs"])
    BY SettingFacts DEF builder, Lists, Trust, Default, TlsFlags
  <2>7. client'.rebuild["accept_invalid_certs"] = builder["accept_invalid_certs"]
    BY <2>1, SettingFacts DEF Trust
  <2>8. asked["accept_invalid_certs"] # <<>> =>
          Last(asked["accept_invalid_certs"]) \in BOOLEAN
    BY DEF ConfigInv, ConfigType, Last
  <2>9. ~Disabled'
    BY <1>1 DEF Disabled
  <2>10. client'.rebuild["accept_invalid_certs"] \in BOOLEAN
    BY <2>6, <2>7, <2>8
  <2>11. client'.rebuild["accept_invalid_certs"]
           <=> AskedFor("accept_invalid_certs")' \/ Disabled'
    BY <1>1, <2>6, <2>7, <2>8, <2>9 DEF AskedFor
  <2>12. \A s \in Settings :
           Taken("https")[s] = IF s \in Rebuilt THEN client'.rebuild[s] ELSE Taken("https")[s]
    BY <2>1, SettingFacts DEF Taken
  <2>13. Taken("https") = [s \in Settings |-> IF s \in Rebuilt THEN client'.rebuild[s]
                                              ELSE Taken("https")[s]]
    BY <2>12 DEF Taken
  <2>14. client'.conf = InForce([s \in Settings |-> IF s \in Rebuilt THEN client'.rebuild[s]
                                                    ELSE Taken("https")'[s]])
    BY <1>3, <1>5, <1>7, <2>13
  <2>15. RebuildInv'
    BY <2>1, <2>2, <2>5, <2>10, <2>11, <2>14 DEF RebuildInv
  <2> QED
    BY <1>4, <1>5, <1>7, <2>15 DEF ConfigInv
<1> QED
  BY <1>6, <1>7

\* Max, for a set known to have a greatest member.
LEMMA MaxIs ==
  ASSUME NEW S, NEW x \in S, S \subseteq Nat, \A y \in S : x >= y
  PROVE  Max(S) = x
<1>1. Max(S) \in S /\ \A y \in S : Max(S) >= y
  BY DEF Max
<1>2. Max(S) \in Nat /\ x \in Nat /\ Max(S) >= x /\ x >= Max(S)
  BY <1>1
<1> QED  BY <1>2

\* with_request_tls_config: the new client has the trust of one override more, and all the
\* other settings of the old one.
LEMMA DerivedKeeps ==
  ASSUME ConfigInv, with_request_tls_config
  PROVE  /\ ConfigInv'
         /\ \A s \in Settings \ Trust : client'.conf[s] = client.conf[s]
<1>1. PICK o \in Overrides :
        /\ client' = Made("https", InForce(Derived(Merged(client.rebuild, o))),
                          Rebuild(Merged(client.rebuild, o)))
        /\ overrides' = Append(overrides, o)
  BY DEF with_request_tls_config
<1>2. client.kind = "https" /\ asked' = asked /\ RebuildInv
  BY DEF with_request_tls_config, ConfigInv
<1> DEFINE old == client.rebuild
           new == client'.rebuild
           n == Len(overrides)
<1>3. /\ client'.kind = "https" /\ new = Merged(old, o)
      /\ client'.conf = InForce(Derived(new))
  BY <1>1 DEF Made, Rebuild
<1>4. old = [s \in Rebuilt |-> old[s]]
  BY <1>2 DEF RebuildInv
<1>5. /\ new = [s \in Rebuilt |-> new[s]]
      /\ \A s \in Rebuilt \ Trust : new[s] = old[s]
      /\ new["trusted_certs_der"] =
           IF o.trusted_cert_ders = <<>> THEN old["trusted_certs_der"] ELSE o.trusted_cert_ders
      /\ new["accept_invalid_certs"] = (old["accept_invalid_certs"] \/ o.accept_invalid_certs)
  <2> HIDE DEF old, new
  <2> QED  BY <1>3, <1>4, SettingFacts DEF Merged, Trust
<1>6. builder' = builder /\ \A k : Taken(k)' = Taken(k)
  BY <1>2 DEF builder, Taken
<1>7. \A s \in Rebuilt \ Trust : new[s] = builder'[s]
  BY <1>2, <1>5, <1>6 DEF RebuildInv
<1>8. /\ overrides \in Seq(Overrides) /\ overrides' \in Seq(Overrides)
      /\ n \in Nat /\ Len(overrides') = n + 1 /\ overrides'[n + 1] = o
      /\ \A i \in 1..n : overrides'[i] = overrides[i]
      /\ DOMAIN overrides = 1..n /\ DOMAIN overrides' = 1..n + 1
  BY <1>1 DEF ConfigInv, ConfigType
<1>9. Pins = IF Pinning = {} THEN ToSet(asked["trusted_certs_der"])
             ELSE ToSet(overrides[Max(Pinning)].trusted_cert_ders)
  BY DEF Pins, Pinning
<1>10. Pins' = IF Pinning' = {} THEN ToSet(asked["trusted_certs_der"])
               ELSE ToSet(overrides'[Max(Pinning')].trusted_cert_ders)
  BY <1>2 DEF Pins, Pinning
<1>11. ToSet(new["trusted_certs_der"]) = Pins' /\ PinningEnds'
  <2>1. CASE o.trusted_cert_ders = <<>>
    <3>1. Pinning' = Pinning
      BY <1>8, <2>1 DEF Pinning
    <3>2. Pins' = Pins
      <4>1. CASE Pinning = {}
        BY <1>9, <1>10, <3>1, <4>1
      <4>2. CASE Pinning # {}
        <5>1. PICK m \in Pinning : \A j \in Pinning : m >= j
          BY <4>2 DEF ConfigInv, PinningEnds
        <5>2. Pinning \subseteq 1..n
          BY <1>8 DEF Pinning
        <5>3. Max(Pinning) = m
          <6>1. Pinning \subseteq Nat
          BY <1>8, <5>2
        <6> QED  BY ONLY <5>1, <6>1, MaxIs
        <5> QED  BY <1>8, <1>9, <1>10, <3>1, <4>2, <5>2, <5>3
      <4> QED  BY <4>1, <4>2
    <3>3. ToSet(new["trusted_certs_der"]) = Pins'
      BY <1>2, <1>5, <2>1, <3>2 DEF RebuildInv
    <3>4. PinningEnds'
      BY <3>1 DEF ConfigInv, PinningEnds
    <3> QED  BY <3>3, <3>4
  <2>2. CASE o.trusted_cert_ders # <<>>
    <3>1. n + 1 \in Pinning' /\ Pinning' \subseteq 1..n + 1
      BY <1>8, <2>2 DEF Pinning
    <3>2. \A j \in Pinning' : n + 1 >= j
      BY <1>8, <3>1
    <3>3. PinningEnds'
      BY <3>1, <3>2 DEF PinningEnds
    <3>4. Max(Pinning') = n + 1
      <4>1. Pinning' \subseteq Nat
        BY <1>8, <3>1
      <4> QED  BY ONLY <3>1, <3>2, <4>1, MaxIs
    <3>5. ToSet(new["trusted_certs_der"]) = Pins'
      BY <1>5, <1>8, <1>10, <2>2, <3>1, <3>4
    <3> QED  BY <3>3, <3>5
  <2> QED  BY <2>1, <2>2
<1>13. Disabled' <=> Disabled \/ o.accept_invalid_certs
  BY <1>8 DEF Disabled
<1>14. o.accept_invalid_certs \in BOOLEAN /\ old["accept_invalid_certs"] \in BOOLEAN
  BY <1>2 DEF Overrides, RebuildInv
<1>15. /\ new["accept_invalid_certs"] \in BOOLEAN
       /\ new["accept_invalid_certs"] <=> AskedFor("accept_invalid_certs")' \/ Disabled'
  BY <1>2, <1>5, <1>13, <1>14 DEF RebuildInv, AskedFor
<1>16. client.conf = InForce([s \in Settings |-> IF s \in Rebuilt THEN old[s]
                                                 ELSE Taken("https")[s]])
  BY <1>2 DEF RebuildInv
<1>17. \A s \in Settings \ Rebuilt : client.conf[s] = Taken("https")[s]
  BY <1>16, SettingFacts DEF InForce
<1>18. Derived(new) = [s \in Settings |-> IF s \in Rebuilt THEN new[s]
                                          ELSE Taken("https")'[s]]
  BY <1>6, <1>17 DEF Derived
<1>19. RebuildInv'
  BY <1>3, <1>5, <1>7, <1>11, <1>15, <1>18 DEF RebuildInv
<1>20. ConfigType'
  BY <1>2, <1>8 DEF ConfigInv, ConfigType
<1>21. ConfigInv'
  BY <1>3, <1>11, <1>19, <1>20 DEF ConfigInv, Kinds, TlsKinds
<1>22. \A s \in Settings \ Trust : client'.conf[s] = client.conf[s]
  <2>1. new["custom_cert_verifier"] = old["custom_cert_verifier"]
    BY <1>5, SettingFacts
  <2>2. client'.conf = InForce([s \in Settings |-> IF s \in Rebuilt THEN new[s]
                                                   ELSE Taken("https")[s]])
    BY <1>3, <1>6, <1>18
  <2> HIDE DEF old, new
  <2> QED  BY <1>5, <1>16, <2>1, <2>2, SettingFacts DEF InForce
<1> QED  BY <1>21, <1>22

\* Every step of the configuration.
LEMMA ConfigNextKeeps ==
  ASSUME ConfigInv, ConfigNext
  PROVE  ConfigInv'
<1>1. CASE SetTransfer
  BY <1>1, CalledKeeps DEF SetTransfer, Settings
<1>2. CASE SetRoute
  BY <1>2, CalledKeeps DEF SetRoute, Settings
<1>3. CASE SetTls
  BY <1>3, CalledKeeps DEF SetTls, Settings
<1>4. CASE Built
  <2>1. client = NoClient /\ UNCHANGED <<asked, overrides>>
    BY <1>4 DEF Built, build, build_proxy, build_socks5_proxy, build_proxy_https,
      build_socks5_proxy_https, build_https, build_with_resolver, build_https_with_resolver,
      Finish
  <2>2. (\E kind \in Kinds : Build(kind)) \/ (\E e : client' = Failed(e))
    BY <1>4 DEF Built, build, build_proxy, build_socks5_proxy, build_proxy_https,
      build_socks5_proxy_https, build_https, build_with_resolver, build_https_with_resolver,
      WithTls, Refuse, Kinds, TlsKinds
  <2>3. CASE \E e : client' = Failed(e)
    <3>1. client'.kind = "error"
      BY <2>3 DEF Failed
    <3> QED
      BY <2>1, <3>1 DEF ConfigInv, ConfigType, PinningEnds, Pinning, IsClient, NoClient
  <2> QED  BY <2>1, <2>2, <2>3, BuildKeeps
<1>5. CASE with_request_tls_config
  BY <1>5, DerivedKeeps
<1> QED  BY <1>1, <1>2, <1>3, <1>4, <1>5 DEF ConfigNext

\* The four settings the verification depends on, in every TLS client.
LEMMA TrustSettings ==
  ASSUME ConfigInv, IsClient, client.kind \in TlsKinds
  PROVE  /\ client.conf["custom_cert_verifier"] =
              IF asked["custom_cert_verifier"] = <<>> THEN <<>>
              ELSE Last(asked["custom_cert_verifier"])
         /\ client.conf["accept_invalid_certs"]
              <=> AskedFor("accept_invalid_certs") \/ Disabled
         /\ ToSet(client.conf["trusted_certs_der"]) = Pins
         /\ client.conf["use_webpki_roots"] <=> AskedFor("use_webpki_roots")
<1> DEFINE B(s) == IF asked[s] = <<>> THEN FALSE ELSE Last(asked[s])
<1>1. /\ builder["custom_cert_verifier"] =
           IF asked["custom_cert_verifier"] = <<>> THEN <<>>
           ELSE Last(asked["custom_cert_verifier"])
      /\ builder["accept_invalid_certs"] = B("accept_invalid_certs")
      /\ builder["trusted_certs_der"] = asked["trusted_certs_der"]
      /\ builder["use_webpki_roots"] = B("use_webpki_roots")
  BY SettingFacts DEF builder, Lists, Trust, Default, TlsFlags
<1>2. /\ B("accept_invalid_certs") <=> AskedFor("accept_invalid_certs")
      /\ B("use_webpki_roots") <=> AskedFor("use_webpki_roots")
  <2>1. ASSUME NEW s, asked[s] \in Seq(BOOLEAN)
        PROVE  B(s) <=> AskedFor(s)
    <3>1. CASE asked[s] = <<>>
      BY <3>1 DEF AskedFor
    <3>2. CASE asked[s] # <<>>
      <4>1. Last(asked[s]) \in BOOLEAN
        BY <2>1, <3>2 DEF Last
      <4> QED  BY <3>2, <4>1 DEF AskedFor
    <3> QED  BY <3>1, <3>2
  <2> QED  BY <2>1 DEF ConfigInv, ConfigType
<1> HIDE DEF B
<1>3. CASE client.kind = "https"
  <2> DEFINE r == client.rebuild
  <2>1. RebuildInv
    BY <1>3 DEF ConfigInv
  <2>2. client.conf = InForce([s \in Settings |-> IF s \in Rebuilt THEN r[s]
                                                  ELSE Taken("https")[s]])
    BY <2>1 DEF RebuildInv
  <2> HIDE DEF r
  <2>3. \A s \in Tls \ {"key_log_path"} : client.conf[s] = r[s]
    BY <2>2, SettingFacts DEF InForce, Rebuilt
  <2>4. /\ client.conf["custom_cert_verifier"] = r["custom_cert_verifier"]
        /\ client.conf["accept_invalid_certs"] = r["accept_invalid_certs"]
        /\ client.conf["trusted_certs_der"] = r["trusted_certs_der"]
        /\ client.conf["use_webpki_roots"] = r["use_webpki_roots"]
    BY <2>3 DEF Tls, TlsFlags
  <2>5. /\ r["custom_cert_verifier"] = builder["custom_cert_verifier"]
        /\ r["use_webpki_roots"] = builder["use_webpki_roots"]
        /\ ToSet(r["trusted_certs_der"]) = Pins
        /\ r["accept_invalid_certs"] <=> AskedFor("accept_invalid_certs") \/ Disabled
    BY <2>1, SettingFacts DEF RebuildInv, r
  <2>6. client.conf["accept_invalid_certs"]
          <=> AskedFor("accept_invalid_certs") \/ Disabled
    BY <2>4, <2>5
  <2>7. client.conf["use_webpki_roots"] <=> AskedFor("use_webpki_roots")
    BY <1>1, <1>2, <2>4, <2>5
  <2> QED  BY <1>1, <2>4, <2>5, <2>6, <2>7
<1>4. CASE client.kind # "https"
  <2>1. client.conf = InForce(Taken(client.kind)) /\ overrides = <<>>
    BY <1>4 DEF ConfigInv
  <2>2. \A s \in Tls \ {"key_log_path"} : client.conf[s] = builder[s]
    BY <2>1, SettingFacts DEF InForce, Taken, Rebuilt
  <2>3. /\ client.conf["custom_cert_verifier"] = builder["custom_cert_verifier"]
        /\ client.conf["accept_invalid_certs"] = builder["accept_invalid_certs"]
        /\ client.conf["trusted_certs_der"] = builder["trusted_certs_der"]
        /\ client.conf["use_webpki_roots"] = builder["use_webpki_roots"]
    BY <2>2 DEF Tls, TlsFlags
  <2>4. ~Disabled /\ Pins = ToSet(asked["trusted_certs_der"])
    BY <2>1 DEF Disabled, Pins
  <2>5. client.conf["accept_invalid_certs"]
          <=> AskedFor("accept_invalid_certs") \/ Disabled
    BY <1>1, <1>2, <2>3, <2>4
  <2>6. client.conf["use_webpki_roots"] <=> AskedFor("use_webpki_roots")
    BY <1>1, <1>2, <2>3
  <2> QED  BY <1>1, <2>3, <2>4, <2>5, <2>6
<1> QED  BY <1>3, <1>4

\* The invariant says whom a client trusts (build_tls_connector).
LEMMA ConfigTrust ==
  ConfigInv => (IsClient /\ client.kind \in TlsKinds => Verifying(client.conf) = MayTrust)
<1> SUFFICES ASSUME ConfigInv, IsClient, client.kind \in TlsKinds
             PROVE  Verifying(client.conf) = MayTrust
  OBVIOUS
<1> DEFINE c == client.conf
           given == asked["custom_cert_verifier"]
<1>1. given # <<>> => Last(given) # <<>>
  BY DEF ConfigInv, ConfigType, Verifiers, Last
<1>2. c["custom_cert_verifier"] = IF given = <<>> THEN <<>> ELSE Last(given)
  BY TrustSettings
<1>3. c["accept_invalid_certs"] <=> AskedFor("accept_invalid_certs") \/ Disabled
  BY TrustSettings
<1>4. ToSet(c["trusted_certs_der"]) = Pins
  BY TrustSettings
<1>5. c["use_webpki_roots"] <=> AskedFor("use_webpki_roots")
  BY TrustSettings
<1> DEFINE roots == IF c["use_webpki_roots"] THEN {"webpki"} ELSE {}
<1>6. roots = IF AskedFor("use_webpki_roots") THEN {"webpki"} ELSE {}
  BY <1>5
<1>7. MayTrust = IF given # <<>> THEN Head(Last(given))
                 ELSE IF AskedFor("accept_invalid_certs") \/ Disabled THEN Issuers
                 ELSE Pins \cup (IF AskedFor("use_webpki_roots") THEN {"webpki"} ELSE {})
  BY DEF MayTrust, Disabled
<1>8. Verifying(c) = IF c["custom_cert_verifier"] # <<>> THEN Head(c["custom_cert_verifier"])
                     ELSE IF c["accept_invalid_certs"] THEN Issuers
                     ELSE ToSet(c["trusted_certs_der"]) \cup roots
  BY DEF Verifying
<1> HIDE DEF c, given, roots
<1>9. Verifying(c) = MayTrust
  BY <1>1, <1>2, <1>3, <1>4, <1>6, <1>7, <1>8
<1> QED  BY <1>9 DEF c

-----------------------------------------------------------------------------
(* The connection                                                           *)

Results ==
  {"pending", "ok", "io", "timeout", "rejected", "too_large", "version", "auth", "atyp"}

\* The TLS handshake is for upgrades alone, over the tunnel the proxy has opened.
ConnInv ==
  /\ stage \in {"none", "called", "inner", "tls", "done"}
  /\ result \in Results
  /\ stage # "done" => stream = "pending"
  /\ (stage # "none" /\ conn.kind \in TlsKinds) => (conn.trusts => conn.allowed)
  /\ stage = "tls" => Upgrades(conn)
  /\ ((stage = "tls" \/ stream \in {"http", "https"}) /\ conn.kind \in ProxyKinds) =>
       pc = "done" /\ result = "ok"
  /\ stream = "http" => ~Upgrades(conn)
  /\ stream = "https" => Upgrades(conn) /\ conn.trusts
  /\ stream = "https" /\ proto = "h2" => "h2" \in conn.alpn

\* The connection's invariant is enough for its property.
LEMMA ConnSafe == ConnInv => SecuredAsAsked
  BY DEF ConnInv, SecuredAsAsked, NegotiatedH2, Upgrades

\* The connection starts with the trust of the client that asks for it.
LEMMA ConnectKeeps ==
  ASSUME ConfigInv, ConnInv, Connect
  PROVE  ConfigInv' /\ ConnInv'
<1>1. ConfigInit'
  BY DEF Connect, ConfigInit
<1>2. ConfigInv'
  BY <1>1, ConfigInitially, PTL
<1>3. PICK scheme \in Schemes(client.kind), host \in {"name", "[ip]"}, issuer \in Issuers :
        conn' = [kind |-> client.kind, scheme |-> scheme, host |-> host,
                 alpn |-> client.conf["alpn"],
                 timeout |-> client.conf["connect_timeout"] # Unset,
                 trusts |-> issuer \in Verifying(client.conf),
                 allowed |-> Disputed \/ issuer \in MayTrust]
  BY DEF Connect
<1>4. conn'.kind = client.kind /\ (conn'.trusts <=> issuer \in Verifying(client.conf))
        /\ (issuer \in MayTrust => conn'.allowed)
  BY <1>3
<1>5. client.kind \in TlsKinds => Verifying(client.conf) = MayTrust
  BY ConfigTrust DEF Connect
<1>6. stage = "none" /\ stage' = "called" /\ stream' = "pending" /\ result' = result
  BY DEF Connect, ConnInv, tunnelVars
<1> QED  BY <1>2, <1>4, <1>5, <1>6 DEF ConnInv

\* OxiHttpsConnector::call, once the inner connector's stream is there.
LEMMA OpenedKeeps ==
  ASSUME ConnInv, stage \in {"called", "inner"}, Opened, UNCHANGED tunnelVars,
         conn.kind \in ProxyKinds => pc = "done" /\ result = "ok"
  PROVE  ConnInv'
  BY DEF ConnInv, Opened, Finished, tunnelVars, None, Upgrades

\* A connection that fails is no stream.
LEMMA FinishedKeeps ==
  ASSUME ConnInv, stage # "none", UNCHANGED tunnelVars,
         NEW error, error \notin {"http", "https"}, Finished(error, None)
  PROVE  ConnInv'
  BY DEF ConnInv, Finished, tunnelVars, None

\* A handshake that has ended has ended.
LEMMA ProxyResult ==
  ASSUME result \in Results, Proxy!Next
  PROVE  result' \in Results /\ (pc = "done" => pc' = pc /\ result' = result)
<1>1. CASE Proxy!ProxyAnswer \/ Proxy!ProxyLeaves
  BY <1>1 DEF Proxy!ProxyAnswer, Proxy!ProxyLeaves, Proxy!clientVars
<1>2. CASE Proxy!DialFails \/ Proxy!Dial \/ Proxy!Eof \/ Proxy!ReadHead
  BY <1>2 DEF Proxy!DialFails, Proxy!Dial, Proxy!Eof, Proxy!ReadHead, Proxy!Fail, Proxy!Ask,
    Results
<1>3. CASE Proxy!ReadMethod
  BY <1>3, Zenon DEF Proxy!ReadMethod, Proxy!Got, Proxy!Fail, Proxy!Ask, Proxy!Request, Results
<1>4. CASE Proxy!ReadAuth
  BY <1>4 DEF Proxy!ReadAuth, Proxy!Got, Proxy!Fail, Proxy!Ask, Proxy!Request, Results
<1>5. CASE Proxy!ReadReply
  BY <1>5, Zenon DEF Proxy!ReadReply, Proxy!Got, Proxy!Fail, Proxy!Await, Results
<1>6. CASE Proxy!ReadLength \/ Proxy!ReadAddress \/ Proxy!ReadPort
  BY <1>6 DEF Proxy!ReadLength, Proxy!ReadAddress, Proxy!ReadPort, Proxy!Got, Proxy!Await,
    Results
<1> QED
  BY <1>1, <1>2, <1>3, <1>4, <1>5, <1>6 DEF Proxy!Next, Proxy!Client

\* Every step keeps both invariants.
LEMMA ConnNext ==
  ASSUME ConfigInv, ConnInv, [Next]_vars
  PROVE  ConfigInv' /\ ConnInv'
<1> USE DEF configVars, connVars
<1>1. CASE Configure
  BY <1>1, ConfigNextKeeps DEF Configure, ConnInv, tunnelVars
<1>2. CASE Connect
  BY <1>2, ConnectKeeps
<1>3. ASSUME UNCHANGED configVars
      PROVE  ConfigInv'
  BY <1>3 DEF ConfigInv, ConfigType, PinningEnds, Pinning, RebuildInv, IsClient, Pins,
    Disabled, AskedFor, builder, Taken
<1>4. CASE Unsupported
  BY <1>3, <1>4, FinishedKeeps DEF Unsupported
<1>5. CASE Direct
  BY <1>3, <1>5, FinishedKeeps, OpenedKeeps DEF Direct
<1>6. CASE ToProxy
  BY <1>3, <1>6 DEF ToProxy, ConnInv, Proxy!Start
<1>7. CASE Tunnel
  BY <1>3, <1>7, ProxyResult DEF Tunnel, ConnInv
<1>8. CASE Tunnelled
  <2>1. result \notin {"http", "https"}
    BY DEF ConnInv, Results
  <2> QED  BY <1>3, <1>8, <2>1, FinishedKeeps, OpenedKeeps DEF Tunnelled
<1>9. CASE Handshake
  <2>1. UNCHANGED <<configVars, tunnelVars>> /\ stage = "tls"
    BY <1>9 DEF Handshake
  <2>2. CASE Finished("tls", None)
    BY <1>3, <2>1, <2>2, FinishedKeeps
  <2>3. CASE conn.trusts /\ \E p \in {None} \cup conn.alpn : Finished("https", p)
    BY <1>3, <2>1, <2>3 DEF ConnInv, Finished, tunnelVars, None
  <2>4. Finished("tls", None)
          \/ (conn.trusts /\ \E p \in {None} \cup conn.alpn : Finished("https", p))
    BY <1>9 DEF Handshake
  <2> QED  BY <2>2, <2>3, <2>4
<1>10. CASE UNCHANGED vars
  BY <1>3, <1>10 DEF vars, ConnInv, tunnelVars
<1> QED
  BY <1>1, <1>2, <1>4, <1>5, <1>6, <1>7, <1>8, <1>9, <1>10 DEF Next

\* They hold always.
LEMMA ConnInvariant == Spec => [](ConfigInv /\ ConnInv)
<1>1. Init => ConfigInv /\ ConnInv
  BY ConfigInitially DEF Init, ConnInv, Proxy!Init, Results
<1> QED
  BY <1>1, ConnNext, PTL DEF Spec

\* A TLS client trusts whom its builder's calls and all the with_request_tls_config since
\* have asked it to trust, whatever their number and order (Verifying: build_tls_connector
\* and build_tls_connector_with_verifier), where the documentation and the code agree on
\* what a call asks.
THEOREM TrustHeld == Spec => []TrustAsAsked
<1>1. ConfigInv => TrustAsAsked
  BY ConfigTrust DEF TrustAsAsked
<1> QED  BY <1>1, ConnInvariant, PTL

\* OxiHttpsConnector hands an https request a TLS stream only, to a server the caller's
\* undisputed calls allow, behind the proxy's open tunnel if there is a proxy, and HTTP/2
\* only if the client has named it.
THEOREM Secured == Spec => []SecuredAsAsked
  BY ConnInvariant, ConnSafe, PTL

\* with_request_tls_config changes no setting but the trust, through a chain of derivations
\* of any length: TlsRebuildConfig misses nothing.
THEOREM DerivedKeepSettings == Spec => SettingsKept
<1> DEFINE Kept ==
      (IsClient /\ overrides' # overrides /\ overrides' # <<>>) =>
        \A s \in Settings \ {"trusted_certs_der", "accept_invalid_certs"} :
          client'.conf[s] = client.conf[s]
<1>1. ConfigInv /\ [Next]_vars => [Kept]_configVars
  <2> SUFFICES ASSUME ConfigInv, Next PROVE Kept \/ UNCHANGED configVars
    BY DEF vars
  <2>1. CASE Connect
    BY <2>1 DEF Connect
  <2>2. CASE Configure
    <3>1. CASE with_request_tls_config
      BY <3>1, DerivedKeeps DEF Trust
    <3>2. CASE ~with_request_tls_config
      BY <2>2, <3>2 DEF Configure, ConfigNext, SetTransfer, SetRoute, SetTls, Called, Built,
        build, build_proxy, build_socks5_proxy, build_proxy_https, build_socks5_proxy_https,
        build_https, build_with_resolver, build_https_with_resolver, Finish
    <3> QED  BY <3>1, <3>2
  <2>3. CASE ~Connect /\ ~Configure
    BY <2>3 DEF Next, Unsupported, Direct, ToProxy, Tunnel, Tunnelled, Handshake
  <2> QED  BY <2>1, <2>2, <2>3
<1> QED
  BY <1>1, ConnInvariant, PTL DEF Spec, SettingsKept

-----------------------------------------------------------------------------
(* The tunnel                                                               *)

Tokens == Nat \cup {"200", "407", "header", "CRLF", "data"}

\* What is unread is r, the rest of the proxy's answer, and the tunnel's bytes behind
\* it; or, of a proxy that has gone away, a part of r.
Unread(r) ==
  /\ \A i \in 1..Len(inbox) : inbox[i] = IF i <= Len(r) THEN r[i] ELSE "data"
  /\ \/ Len(inbox) = Len(r) + data
     \/ link = "closed" /\ Len(inbox) < Len(r)

\* The lines read, and those which follow.
Continues(h, r, line, n) ==
  LET whole == Proxy!HttpAnswer(line, n)
  IN  /\ Len(h) + Len(r) = Len(whole) /\ r # <<>>
      /\ \A i \in 1..Len(h) : h[i] = whole[i]
      /\ \A i \in 1..Len(r) : r[i] = whole[Len(h) + i]

\* The rest of the answer: how long it is, the bytes read so far tell.
RestOfHead(r) == \E line \in {"200", "407"}, n \in Nat : Continues(head, r, line, n)

RestOfReply(r) ==
  /\ Len(r) >= 4
  /\ r[4] = 1 => Len(r) = 10
  /\ r[4] = 4 => Len(r) = 22
  /\ r[4] = 3 => r[5] \in Nat /\ Len(r) = 7 + r[5]

Rest(r) ==
  /\ pc = "head" => RestOfHead(r)
  /\ pc \in {"method", "auth", "port"} => Len(r) = 2
  /\ pc = "reply" => RestOfReply(r)
  /\ pc = "length" => r # <<>> /\ r[1] \in Nat /\ Len(r) = 3 + r[1]
  /\ pc = "address" => Len(r) = want + 2

Awaiting == {"head", "method", "auth", "reply", "length", "address", "port"}

TunnelInv ==
  /\ inbox \in Seq(Tokens) /\ head \in Seq(Tokens) /\ data \in Nat /\ want \in Nat
  /\ pc \in {"idle", "dial", "done"} \cup Awaiting
  /\ pc \in {"idle", "dial"} => inbox = <<>> /\ head = <<>> /\ data = 0 /\ message = "None"
  /\ pc \in Awaiting => result = "pending"
  /\ pc \in {"method", "auth"} => data = 0
  /\ message # "None" =>
       /\ inbox = <<>> /\ data = 0
       /\ \/ pc = "head" /\ message = "CONNECT" /\ head = <<>>
          \/ pc = "method" /\ message = "greeting"
          \/ pc = "auth" /\ message = "auth"
          \/ pc = "reply" /\ message = "request"
          \/ pc = "done" /\ link = "closed"
  /\ (pc \in Awaiting /\ message = "None") => \E r \in Seq(Tokens) : Rest(r) /\ Unread(r)
  /\ (pc = "done" /\ result = "ok") => message = "None" /\ Unread(<<>>)
  /\ pc \in {"idle", "dial"} => result = "pending"

\* At the end of the handshake nothing is left but the tunnel's bytes.
LEMMA TunnelSafe == TunnelInv => TunnelInSync
<1> SUFFICES ASSUME TunnelInv, pc = "done", result = "ok"
             PROVE  inbox = [i \in 1..data |-> "data"]
  BY DEF TunnelInSync, Proxy!TunnelInSync, Proxy!Data
<1>1. inbox \in Seq(Tokens) /\ data \in Nat /\ Unread(<<>>)
  BY DEF TunnelInv
<1>2. Len(inbox) = data /\ \A i \in 1..data : inbox[i] = "data"
  BY <1>1 DEF Unread
<1> QED  BY <1>1, <1>2

\* Of the answer's rest r the first n bytes are read, which leaves s.
Cut(r, n, s) ==
  /\ n <= Len(inbox) /\ Len(s) = Len(r) - n
  /\ \A i \in 1..n : inbox[i] = r[i]
  /\ \A i \in 1..Len(r) - n : s[i] = r[n + i]
  /\ Len(inbox) = Len(r) + data \/ Len(inbox) < Len(r)

\* read_exact(n) takes n bytes of the answer, and leaves the rest of it.
LEMMA UnreadTaken ==
  ASSUME NEW r \in Seq(Tokens), NEW n \in Nat, n <= Len(r), n <= Len(inbox),
         inbox \in Seq(Tokens), data \in Nat, Unread(r), Proxy!Take(n), UNCHANGED <<link, data>>
  PROVE  /\ inbox' \in Seq(Tokens)
         /\ \E s \in Seq(Tokens) : Unread(s)' /\ Cut(r, n, s)
<1> DEFINE s == SubSeq(r, n + 1, Len(r))
<1>1. s \in Seq(Tokens) /\ Len(s) = Len(r) - n /\ \A i \in 1..Len(r) - n : s[i] = r[n + i]
  OBVIOUS
<1>2. /\ inbox' \in Seq(Tokens) /\ Len(inbox') = Len(inbox) - n
      /\ \A i \in 1..Len(inbox) - n : inbox'[i] = inbox[n + i]
  BY DEF Proxy!Take
<1>3. \A i \in 1..n : inbox[i] = r[i]
  BY DEF Unread
<1> HIDE DEF s
<1>4. \A i \in 1..Len(inbox') : inbox'[i] = IF i <= Len(s) THEN s[i] ELSE "data"
  <2> SUFFICES ASSUME NEW i \in 1..Len(inbox')
               PROVE  inbox'[i] = IF i <= Len(s) THEN s[i] ELSE "data"
    OBVIOUS
  <2>1. n + i \in 1..Len(inbox) /\ inbox'[i] = inbox[n + i]
    BY <1>2
  <2>2. inbox[n + i] = IF n + i <= Len(r) THEN r[n + i] ELSE "data"
    BY <2>1 DEF Unread
  <2> QED  BY <1>1, <2>1, <2>2
<1>5. Len(inbox') = Len(s) + data \/ (link = "closed" /\ Len(inbox') < Len(s))
  BY <1>1, <1>2 DEF Unread
<1>6. Unread(s)'
  BY <1>4, <1>5 DEF Unread, s
<1>7. Len(inbox) = Len(r) + data \/ Len(inbox) < Len(r)
  BY DEF Unread
<1>8. Cut(r, n, s)
  BY <1>1, <1>3, <1>7 DEF Cut
<1> QED  BY <1>1, <1>2, <1>6, <1>8

\* What a read of n bytes finds, and what it leaves to be read.
LEMMA GotPart ==
  ASSUME TunnelInv, NEW state \in Awaiting \ {"head"}, NEW n \in Nat, Proxy!Got(state, n),
         n > 0 \/ state = "address",
         \A r \in Seq(Tokens) : Rest(r) => n <= Len(r)
  PROVE  /\ message = "None" /\ UNCHANGED <<link, data>> /\ pc = state
         /\ inbox' \in Seq(Tokens)
         /\ \E r, s \in Seq(Tokens) : Rest(r) /\ Unread(s)' /\ Cut(r, n, s)
<1>1. pc = state /\ Len(inbox) >= n /\ Proxy!Take(n) /\ UNCHANGED <<link, data>>
  BY DEF Proxy!Got
<1>2. message = "None"
  BY <1>1 DEF TunnelInv, Awaiting
<1>3. PICK r \in Seq(Tokens) : Rest(r) /\ Unread(r)
  BY <1>1, <1>2 DEF TunnelInv
<1>4. inbox \in Seq(Tokens) /\ data \in Nat /\ n <= Len(r) /\ n <= Len(inbox)
  BY <1>1, <1>3 DEF TunnelInv
<1>5. inbox' \in Seq(Tokens) /\ \E s \in Seq(Tokens) : Unread(s)' /\ Cut(r, n, s)
  BY <1>1, <1>3, <1>4, UnreadTaken
<1> QED  BY <1>1, <1>2, <1>3, <1>5

\* After an answer that opens no tunnel nothing is left.
LEMMA MethodKeeps ==
  ASSUME TunnelInv, Proxy!ReadMethod \/ Proxy!ReadAuth
  PROVE  TunnelInv'
<1>1. PICK state \in {"method", "auth"} : Proxy!Got(state, 2)
  BY DEF Proxy!ReadMethod, Proxy!ReadAuth
<1>2. pc = state
  BY <1>1 DEF Proxy!Got
<1>3. /\ message = "None" /\ UNCHANGED <<link, data>>
      /\ inbox' \in Seq(Tokens)
      /\ \E r, s \in Seq(Tokens) : Rest(r) /\ Unread(s)' /\ Cut(r, 2, s)
  <2>1. \A r \in Seq(Tokens) : Rest(r) => 2 <= Len(r)
    BY <1>2 DEF Rest
  <2>2. state \in Awaiting \ {"head"}
    BY DEF Awaiting
  <2> QED  BY <1>1, <2>1, <2>2, GotPart
<1>4. data = 0 /\ Len(inbox) = 2
  <2>1. PICK r \in Seq(Tokens), s \in Seq(Tokens) : Rest(r) /\ Cut(r, 2, s)
    BY <1>3
  <2>2. Len(r) = 2
    BY <1>2, <2>1 DEF Rest
  <2>3. inbox \in Seq(Tokens) /\ data = 0
    BY <1>2 DEF TunnelInv
  <2>4. 2 <= Len(inbox) /\ (Len(inbox) = Len(r) + data \/ Len(inbox) < Len(r))
    BY <2>1 DEF Cut
  <2> QED  BY <2>2, <2>3, <2>4
<1>5. inbox' = <<>>
  BY <1>1, <1>4 DEF Proxy!Got, Proxy!Take, TunnelInv
<1>6. \/ pc' = "done" /\ message' = message /\ result' \notin {"ok", "pending"}
      \/ pc' = "reply" /\ message' = "request" /\ result' = result
      \/ pc' = "auth" /\ message' = "auth" /\ result' = result
  <2>1. CASE Proxy!ReadMethod
    BY <2>1, Zenon DEF Proxy!ReadMethod, Proxy!Fail, Proxy!Ask, Proxy!Request
  <2>2. CASE Proxy!ReadAuth
    BY <2>2 DEF Proxy!ReadAuth, Proxy!Fail, Proxy!Ask, Proxy!Request
  <2> QED  BY <2>1, <2>2
<1>7. want' = want /\ head' = head
  <2>1. CASE Proxy!ReadMethod
    BY <2>1, Zenon DEF Proxy!ReadMethod, Proxy!Fail, Proxy!Ask, Proxy!Request
  <2>2. CASE Proxy!ReadAuth
    BY <2>2 DEF Proxy!ReadAuth, Proxy!Fail, Proxy!Ask, Proxy!Request
  <2> QED  BY <2>1, <2>2
<1> QED
  BY <1>2, <1>3, <1>4, <1>5, <1>6, <1>7 DEF TunnelInv, Awaiting

\* The reply's first four bytes, whose ATYP tells what is read next.
LEMMA ReplyKeeps ==
  ASSUME TunnelInv, Proxy!ReadReply
  PROVE  TunnelInv'
<1>1. Proxy!Got("reply", 4)
  BY DEF Proxy!ReadReply
<1>2. pc = "reply"
  BY <1>1 DEF Proxy!Got
<1>3. \A r \in Seq(Tokens) : Rest(r) => 4 <= Len(r)
  BY <1>2 DEF Rest, RestOfReply
<1>4. "reply" \in Awaiting \ {"head"}
  BY DEF Awaiting
<1>5. /\ message = "None" /\ UNCHANGED <<link, data>> /\ inbox' \in Seq(Tokens)
      /\ \E r, s \in Seq(Tokens) : Rest(r) /\ Unread(s)' /\ Cut(r, 4, s)
  BY <1>1, <1>3, <1>4, GotPart
<1>6. PICK r \in Seq(Tokens), s \in Seq(Tokens) : Rest(r) /\ Unread(s)' /\ Cut(r, 4, s)
  BY <1>5
<1>7. /\ Len(s) = Len(r) - 4 /\ \A i \in 1..4 : inbox[i] = r[i]
      /\ \A i \in 1..Len(r) - 4 : s[i] = r[4 + i]
  BY <1>6 DEF Cut
<1>8. \/ pc' = "done" /\ result' \notin {"ok", "pending"} /\ want' = want
      \/ pc' = "length" /\ inbox[4] = 3 /\ result' = result /\ want' = want
      \/ pc' = "address" /\ inbox[4] = 1 /\ want' = 4 /\ result' = result
      \/ pc' = "address" /\ inbox[4] = 4 /\ want' = 16 /\ result' = result
  BY Zenon DEF Proxy!ReadReply, Proxy!Fail, Proxy!Await
<1>9. message' = message /\ head' = head
  BY Zenon DEF Proxy!ReadReply, Proxy!Fail, Proxy!Await
<1>10. inbox[4] = r[4] /\ Len(r) \in Nat
  BY <1>7
<1>11. /\ r[4] = 1 => Len(r) = 10
       /\ r[4] = 4 => Len(r) = 22
       /\ r[4] = 3 => r[5] \in Nat /\ Len(r) = 7 + r[5]
  BY <1>2, <1>6 DEF Rest, RestOfReply
<1>12. CASE pc' = "done" /\ result' \notin {"ok", "pending"} /\ want' = want
  BY <1>5, <1>6, <1>7, <1>9, <1>12 DEF TunnelInv, Awaiting
<1>13. CASE pc' = "length" /\ inbox[4] = 3 /\ result' = result /\ want' = want
  <2>1. r[4] = 3
    BY <1>10, <1>13
  <2>2. r[5] \in Nat /\ Len(r) = 7 + r[5]
    BY <1>11, <2>1
  <2>3. Len(s) = 3 + r[5]
    BY <1>7, <2>2
  <2>4. 1 \in 1..Len(r) - 4 /\ 4 + 1 = 5
    BY <2>2
  <2>5. s[1] = r[5] /\ s # <<>>
    BY <1>7, <2>2, <2>3, <2>4
  <2>6. Rest(s)'
    BY <1>13, <2>2, <2>3, <2>5 DEF Rest
  <2> QED  BY <1>2, <1>5, <1>6, <1>9, <1>13, <2>6 DEF TunnelInv, Awaiting
<1>14. CASE pc' = "address" /\ inbox[4] \in {1, 4} /\ result' = result
              /\ want' = IF inbox[4] = 1 THEN 4 ELSE 16
  <2>1. r[4] = inbox[4]
    BY <1>10
  <2>2. CASE inbox[4] = 1
    <3>1. Len(r) = 10 /\ want' = 4
      BY <1>11, <1>14, <2>1, <2>2
    <3>2. Len(s) = want' + 2
      BY <1>7, <3>1
    <3>3. Rest(s)' /\ want' \in Nat
      BY <1>14, <3>1, <3>2 DEF Rest
    <3> QED  BY <1>2, <1>5, <1>6, <1>9, <1>14, <3>3 DEF TunnelInv, Awaiting
  <2>3. CASE inbox[4] = 4
    <3>1. Len(r) = 22 /\ want' = 16
      BY <1>11, <1>14, <2>1, <2>3
    <3>2. Len(s) = want' + 2
      BY <1>7, <3>1
    <3>3. Rest(s)' /\ want' \in Nat
      BY <1>14, <3>1, <3>2 DEF Rest
    <3> QED  BY <1>2, <1>5, <1>6, <1>9, <1>14, <3>3 DEF TunnelInv, Awaiting
  <2> QED  BY <1>14, <2>2, <2>3
<1> QED
  BY <1>8, <1>12, <1>13, <1>14

\* The length byte of a domain.
LEMMA LengthKeeps ==
  ASSUME TunnelInv, Proxy!ReadLength
  PROVE  TunnelInv'
<1>1. /\ Proxy!Got("length", 1) /\ pc' = "address" /\ want' = inbox[1]
      /\ UNCHANGED <<head, result, message>>
  BY DEF Proxy!ReadLength
<1>2. pc = "length" /\ "length" \in Awaiting \ {"head"}
  BY <1>1 DEF Proxy!Got, Awaiting
<1>3. ASSUME NEW r \in Seq(Tokens), Rest(r)
      PROVE  1 <= Len(r) /\ r[1] \in Nat /\ Len(r) = 3 + r[1]
  BY <1>2, <1>3 DEF Rest
<1>4. /\ message = "None" /\ UNCHANGED <<link, data>> /\ inbox' \in Seq(Tokens)
      /\ \E r, s \in Seq(Tokens) : Rest(r) /\ Unread(s)' /\ Cut(r, 1, s)
  BY <1>1, <1>2, <1>3, GotPart
<1>5. PICK r \in Seq(Tokens), s \in Seq(Tokens) : Rest(r) /\ Unread(s)' /\ Cut(r, 1, s)
  BY <1>4
<1>6. Len(s) = Len(r) - 1 /\ inbox[1] = r[1]
  BY <1>5 DEF Cut
<1>7. r[1] \in Nat /\ Len(s) = 2 + r[1]
  BY <1>3, <1>5, <1>6
<1>8. Rest(s)' /\ want' \in Nat
  BY <1>1, <1>6, <1>7 DEF Rest
<1> QED
  BY <1>1, <1>2, <1>4, <1>5, <1>8 DEF TunnelInv, Awaiting

\* BND.ADDR is drained.
LEMMA AddressKeeps ==
  ASSUME TunnelInv, Proxy!ReadAddress
  PROVE  TunnelInv'
<1>1. /\ Proxy!Got("address", want) /\ pc' = "port"
      /\ UNCHANGED <<want, head, result, message>>
  BY DEF Proxy!ReadAddress, Proxy!Await
<1>2. pc = "address" /\ "address" \in Awaiting \ {"head"} /\ want \in Nat
  BY <1>1 DEF Proxy!Got, Awaiting, TunnelInv
<1>3. ASSUME NEW r \in Seq(Tokens), Rest(r)
      PROVE  want <= Len(r) /\ Len(r) = want + 2
  BY <1>2, <1>3 DEF Rest
<1>4. /\ message = "None" /\ UNCHANGED <<link, data>> /\ inbox' \in Seq(Tokens)
      /\ \E r, s \in Seq(Tokens) : Rest(r) /\ Unread(s)' /\ Cut(r, want, s)
  BY <1>1, <1>2, <1>3, GotPart
<1>5. PICK r \in Seq(Tokens), s \in Seq(Tokens) : Rest(r) /\ Unread(s)' /\ Cut(r, want, s)
  BY <1>4
<1>6. Len(s) = 2
  BY <1>2, <1>3, <1>5 DEF Cut
<1>7. Rest(s)'
  BY <1>1, <1>6 DEF Rest
<1> QED
  BY <1>1, <1>2, <1>4, <1>5, <1>7 DEF TunnelInv, Awaiting

\* The last two bytes of the reply are read, and the tunnel starts.
LEMMA PortKeeps ==
  ASSUME TunnelInv, Proxy!ReadPort
  PROVE  TunnelInv'
<1>1. /\ Proxy!Got("port", 2) /\ pc' = "done" /\ result' = "ok"
      /\ UNCHANGED <<want, head, message>>
  BY DEF Proxy!ReadPort, Proxy!PortLength
<1>2. pc = "port" /\ "port" \in Awaiting \ {"head"}
  BY <1>1 DEF Proxy!Got, Awaiting
<1>3. ASSUME NEW r \in Seq(Tokens), Rest(r)
      PROVE  2 <= Len(r) /\ Len(r) = 2
  BY <1>2, <1>3 DEF Rest
<1>4. /\ message = "None" /\ UNCHANGED <<link, data>> /\ inbox' \in Seq(Tokens)
      /\ \E r, s \in Seq(Tokens) : Rest(r) /\ Unread(s)' /\ Cut(r, 2, s)
  BY <1>1, <1>2, <1>3, GotPart
<1>5. PICK r \in Seq(Tokens), s \in Seq(Tokens) : Rest(r) /\ Unread(s)' /\ Cut(r, 2, s)
  BY <1>4
<1>6. s = <<>>
  <2>1. Len(r) = 2
    BY <1>3, <1>5
  <2>2. Len(s) = Len(r) - 2
    BY <1>5 DEF Cut
  <2>3. Len(s) = 0
    BY <2>1, <2>2
  <2> QED  BY <2>3
<1>7. Unread(<<>>)'
  BY <1>5, <1>6
<1> QED
  BY <1>1, <1>2, <1>4, <1>7 DEF TunnelInv, Awaiting

-----------------------------------------------------------------------------

\* The blank line is the answer's last, and no other.
LEMMA HeadEnds ==
  ASSUME NEW line \in {"200", "407"}, NEW n \in Nat, NEW h \in Seq(Tokens), Len(h) >= 1,
         Len(h) <= 2 * n + 3, \A i \in 1..Len(h) : h[i] = Proxy!HttpAnswer(line, n)[i]
  PROVE  Proxy!Ended(h) <=> Len(h) = 2 * n + 3
<1> DEFINE m == Len(h)
           w(i) == IF i = 1 THEN line
                   ELSE IF i % 2 = 0 \/ i = 2 * n + 3 THEN "CRLF" ELSE "header"
<1>1. m \in Nat /\ m >= 1
  OBVIOUS
<1>2. ASSUME NEW i \in 1..m
      PROVE  h[i] = w(i)
  <2>1. i \in 1..2 * n + 3
    OBVIOUS
  <2> QED  BY <2>1 DEF Proxy!HttpAnswer, Proxy!CRLF
<1>3. Proxy!Ended(h) <=> m >= 2 /\ h[m - 1] = "CRLF" /\ h[m] = "CRLF"
  <2>1. CASE m >= 2
    <3> DEFINE e == SubSeq(h, m - 1, m)
    <3>1. e \in Seq(Tokens) /\ Len(e) = 2 /\ e[1] = h[m - 1] /\ e[2] = h[m]
      BY <2>1
    <3>2. Proxy!Ended(h) <=> e = <<"CRLF", "CRLF">>
      BY <2>1 DEF Proxy!Ended, Proxy!CRLF
    <3> HIDE DEF e
    <3>3. e = <<"CRLF", "CRLF">> <=> e[1] = "CRLF" /\ e[2] = "CRLF"
      BY <3>1
    <3> QED  BY <2>1, <3>1, <3>2, <3>3
  <2>2. CASE ~(m >= 2)
    BY <2>2 DEF Proxy!Ended
  <2> QED  BY <2>1, <2>2
<1>4. CASE m = 1
  BY <1>3, <1>4
<1>5. CASE m >= 2 /\ m = 2 * n + 3
  <2>1. w(m) = "CRLF" /\ w(m - 1) = "CRLF"
    BY <1>5
  <2> QED  BY <1>1, <1>2, <1>3, <1>5, <2>1
<1>6. CASE m >= 2 /\ m # 2 * n + 3
  <2>1. m % 2 # 0 \/ (m - 1) % 2 # 0
    BY <1>1
  <2>2. w(m) # "CRLF" \/ w(m - 1) # "CRLF"
    BY <1>1, <1>6, <2>1
  <2> HIDE DEF w
  <2>3. m \in 1..m /\ m - 1 \in 1..m
    BY <1>1, <1>6
  <2>4. h[m] = w(m) /\ h[m - 1] = w(m - 1)
    BY <1>2, <2>3
  <2> QED  BY <1>3, <1>6, <2>2, <2>4
<1> HIDE DEF m
<1>7. m = 1 \/ (m >= 2 /\ m = 2 * n + 3) \/ (m >= 2 /\ m # 2 * n + 3)
  BY <1>1
<1> QED  BY <1>4, <1>5, <1>6, <1>7 DEF m

\* One byte of the CONNECT response: what is unread goes on being its rest, and is empty
\* when response_buf ends with a blank line.
LEMMA HeadKeeps ==
  ASSUME TunnelInv, Proxy!ReadHead
  PROVE  TunnelInv'
<1> DEFINE h == Append(head, Head(inbox))
<1>1. /\ pc = "head" /\ inbox # <<>> /\ Proxy!Take(1) /\ UNCHANGED <<message, link, data>>
      /\ \/ Proxy!Ended(h) /\ pc' = "done" /\ UNCHANGED <<want, head>>
         \/ pc' = "done" /\ result' = "too_large" /\ UNCHANGED <<want, head>>
         \/ ~Proxy!Ended(h) /\ head' = h /\ UNCHANGED <<pc, want, result>>
  BY DEF Proxy!ReadHead, Proxy!Fail
<1>2. /\ message = "None" /\ inbox \in Seq(Tokens) /\ head \in Seq(Tokens) /\ data \in Nat
      /\ Len(inbox) >= 1
  BY <1>1 DEF TunnelInv
<1>3. PICK r \in Seq(Tokens) : RestOfHead(r) /\ Unread(r)
  BY <1>1, <1>2 DEF TunnelInv, Awaiting, Rest
<1>4. PICK line \in {"200", "407"}, n \in Nat : Continues(head, r, line, n)
  BY <1>3 DEF RestOfHead
<1> DEFINE whole == Proxy!HttpAnswer(line, n)
<1>5. Len(whole) = 2 * n + 3
  BY DEF Proxy!HttpAnswer
<1>6. /\ Len(head) + Len(r) = Len(whole) /\ Len(r) >= 1
      /\ \A i \in 1..Len(head) : head[i] = whole[i]
      /\ \A i \in 1..Len(r) : r[i] = whole[Len(head) + i]
      /\ Len(head) \in Nat /\ Len(r) \in Nat
  BY <1>2, <1>4 DEF Continues
<1>7. inbox' \in Seq(Tokens) /\ \E s \in Seq(Tokens) : Unread(s)' /\ Cut(r, 1, s)
  BY <1>1, <1>2, <1>3, <1>6, UnreadTaken
<1>8. PICK s \in Seq(Tokens) : Unread(s)' /\ Cut(r, 1, s)
  BY <1>7
<1>9. /\ s \in Seq(Tokens) /\ Len(s) = Len(r) - 1 /\ Unread(s)' /\ inbox' \in Seq(Tokens)
      /\ inbox[1] = r[1]
      /\ \A i \in 1..Len(r) - 1 : s[i] = r[1 + i]
  BY <1>7, <1>8 DEF Cut
<1>10. /\ h \in Seq(Tokens) /\ Len(h) = Len(head) + 1 /\ h[Len(head) + 1] = r[1]
      /\ \A i \in 1..Len(head) : h[i] = head[i]
  BY <1>2, <1>9
<1> HIDE DEF h, whole
<1>11. /\ Len(head) \in Nat /\ Len(r) \in Nat /\ Len(r) >= 1
       /\ Len(head) + Len(r) = 2 * n + 3
       /\ Len(h) = Len(head) + 1 /\ Len(s) = Len(r) - 1
  BY <1>5, <1>6, <1>9, <1>10
<1>12. ASSUME NEW i \in 1..Len(h)
      PROVE  h[i] = whole[i]
  <2>1. CASE i \in 1..Len(head)
    BY <1>6, <1>10, <2>1
  <2>2. CASE i = Len(head) + 1
    <3>1. 1 \in 1..Len(r)
      BY <1>11
    <3> QED  BY <1>6, <1>10, <2>2, <3>1
  <2> QED  BY <1>11, <2>1, <2>2
<1>13. Proxy!Ended(h) <=> Len(s) = 0
  <2>1. Len(h) >= 1 /\ Len(h) <= 2 * n + 3
    BY <1>11
  <2>2. Proxy!Ended(h) <=> Len(h) = 2 * n + 3
    BY <1>10, <1>12, <2>1, HeadEnds DEF whole
  <2> QED  BY <1>11, <2>2
<1>14. CASE Proxy!Ended(h) /\ pc' = "done" /\ UNCHANGED <<want, head>>
  <2>1. s = <<>>
    BY <1>9, <1>13, <1>14
  <2>2. Unread(<<>>)'
    BY <1>9, <2>1
  <2> QED  BY <1>1, <1>2, <1>9, <1>14, <2>2 DEF TunnelInv, Awaiting
<1>15. CASE pc' = "done" /\ result' = "too_large" /\ UNCHANGED <<want, head>>
  BY <1>1, <1>2, <1>9, <1>15 DEF TunnelInv, Awaiting
<1>16. CASE ~Proxy!Ended(h) /\ head' = h /\ UNCHANGED <<pc, want, result>>
  <2>1. Len(h) + Len(s) = Len(whole)
    BY <1>5, <1>11
  <2>2. s # <<>>
    BY <1>9, <1>13, <1>16
  <2>3. ASSUME NEW i \in 1..Len(s)
        PROVE  s[i] = whole[Len(h) + i]
    <3>1. i \in 1..Len(r) - 1 /\ 1 + i \in 1..Len(r)
      BY <1>11
    <3>2. s[i] = r[1 + i] /\ r[1 + i] = whole[Len(head) + (1 + i)]
      BY <1>6, <1>9, <3>1
    <3>3. Len(head) + (1 + i) = Len(h) + i
      BY <1>11, <3>1
    <3> QED  BY <3>2, <3>3
  <2>4. Continues(h, s, line, n)
    BY <1>12, <2>1, <2>2, <2>3 DEF Continues, whole
  <2>5. RestOfHead(s)'
    BY <1>16, <2>4 DEF RestOfHead
  <2>6. Rest(s)'
    BY <1>1, <1>16, <2>5 DEF Rest
  <2> QED  BY <1>1, <1>2, <1>9, <1>10, <1>16, <2>6 DEF TunnelInv, Awaiting
<1> QED  BY <1>1, <1>14, <1>15, <1>16

\* Before the handshake, and at its end by an error.
LEMMA DialKeeps ==
  ASSUME TunnelInv, Proxy!DialFails \/ Proxy!Dial \/ Proxy!Eof
  PROVE  TunnelInv'
<1>1. CASE Proxy!DialFails
  BY <1>1 DEF Proxy!DialFails, Proxy!Fail, Proxy!proxyVars, TunnelInv, Awaiting
<1>2. CASE Proxy!Dial
  BY <1>2 DEF Proxy!Dial, Proxy!Ask, TunnelInv, Awaiting
<1>3. CASE Proxy!Eof
  BY <1>3 DEF Proxy!Eof, Proxy!AtEof, Proxy!Fail, Proxy!proxyVars, TunnelInv, Awaiting
<1> QED  BY <1>1, <1>2, <1>3

\* The connector is called.
LEMMA StartKeeps ==
  ASSUME TunnelInv, NEW kind, NEW timeout, Proxy!Start(kind, timeout)
  PROVE  TunnelInv'
  BY DEF TunnelInv, Proxy!Start, Awaiting

-----------------------------------------------------------------------------
(* The proxy's answers                                                      *)

\* The proxy's answers, message by message.
LEMMA AnswersOf ==
  /\ Proxy!Answers("CONNECT") = Proxy!HttpAnswers
  /\ Proxy!Answers("greeting") = Proxy!MethodAnswers
  /\ Proxy!Answers("auth") = Proxy!AuthAnswers
  /\ Proxy!Answers("request") = Proxy!Replies
<1>1. Proxy!Answers("CONNECT") = Proxy!HttpAnswers
  BY ZenonT(20) DEF Proxy!Answers
<1>2. Proxy!Answers("greeting") = Proxy!MethodAnswers
  BY ZenonT(20) DEF Proxy!Answers
<1>3. Proxy!Answers("auth") = Proxy!AuthAnswers
  BY ZenonT(20) DEF Proxy!Answers
<1>4. Proxy!Answers("request") = Proxy!Replies
  BY ZenonT(20) DEF Proxy!Answers
<1> QED  BY <1>1, <1>2, <1>3, <1>4

\* Concatenation.
LEMMA Joined ==
  ASSUME NEW p \in Seq(Tokens), NEW q \in Seq(Tokens)
  PROVE  /\ p \o q \in Seq(Tokens) /\ Len(p \o q) = Len(p) + Len(q)
         /\ \A i \in 1..Len(p) : (p \o q)[i] = p[i]
         /\ \A i \in 1..Len(q) : (p \o q)[Len(p) + i] = q[i]
  OBVIOUS

\* Sequences of one to three tokens.
LEMMA ShortSequences ==
  ASSUME NEW x \in Tokens, NEW y \in Tokens, NEW z \in Tokens
  PROVE  /\ <<x>> \in Seq(Tokens) /\ Len(<<x>>) = 1 /\ <<x>>[1] = x
         /\ <<x, y>> \in Seq(Tokens) /\ Len(<<x, y>>) = 2
         /\ <<x, y>>[1] = x /\ <<x, y>>[2] = y
         /\ <<x, y, z>> \in Seq(Tokens) /\ Len(<<x, y, z>>) = 3
  OBVIOUS

\* Bytes are tokens.
LEMMA NumbersAreTokens == \A n \in Nat : n \in Tokens
  BY DEF Tokens

\* A CONNECT response, none of it read.
LEMMA HttpAnswerType ==
  ASSUME NEW a \in Proxy!HttpAnswers
  PROVE  /\ a \in Seq(Tokens) /\ Len(a) > 0
         /\ head = <<>> => RestOfHead(a)
<1>1. PICK line \in {"200", "407"}, n \in 0..MaxHeaders : a = Proxy!HttpAnswer(line, n)
  BY DEF Proxy!HttpAnswers
<1>2. n \in Nat
  BY ProxyAssumption
<1>3. a = [i \in 1..2 * n + 3 |->
             IF i = 1 THEN line ELSE IF i % 2 = 0 \/ i = 2 * n + 3 THEN "CRLF" ELSE "header"]
  BY <1>1 DEF Proxy!HttpAnswer, Proxy!CRLF
<1>4. \A i \in 1..2 * n + 3 : a[i] \in Tokens
  BY <1>3 DEF Tokens
<1>5. a = [i \in 1..2 * n + 3 |-> a[i]]
  BY <1>3
<1>6. 2 * n + 3 \in Nat
  BY <1>2
<1>7. a \in Seq(Tokens) /\ Len(a) = 2 * n + 3
  BY <1>4, <1>5, <1>6
<1>8. head = <<>> => Continues(head, a, line, n)
  <2> SUFFICES ASSUME head = <<>> PROVE Continues(head, a, line, n)
    OBVIOUS
  <2>1. Len(head) = 0 /\ a # <<>>
    BY <1>6, <1>7
  <2>2. Len(head) + Len(a) = Len(a) /\ \A i \in 1..Len(a) : Len(head) + i = i
    BY <1>6, <1>7, <2>1
  <2> QED  BY <1>1, <2>1, <2>2 DEF Continues
<1> QED  BY <1>2, <1>6, <1>7, <1>8 DEF RestOfHead

\* The answers to the greeting and to the credentials have two bytes.
LEMMA ShortAnswerType ==
  ASSUME NEW a \in Proxy!MethodAnswers \cup Proxy!AuthAnswers
  PROVE  a \in Seq(Tokens) /\ Len(a) = 2
<1>1. \E x, y \in Nat : a = <<x, y>>
  BY DEF Proxy!MethodAnswers, Proxy!AuthAnswers, Proxy!Versions, Proxy!Methods,
    Proxy!NO_AUTH, Proxy!NO_METHOD, Proxy!USER_PASS
<1> QED  BY <1>1, NumbersAreTokens, ShortSequences

\* What an address type says of the length behind it.
LEMMA AddressType ==
  ASSUME NEW b \in Proxy!Addresses
  PROVE  /\ b \in Seq(Tokens) /\ Len(b) >= 1
         /\ b[1] = 1 => Len(b) = 5
         /\ b[1] = 4 => Len(b) = 17
         /\ b[1] = 3 => b[2] \in Nat /\ Len(b) = 2 + b[2]
<1>1. ASSUME NEW n \in Nat
      PROVE  Proxy!Fill(n) \in Seq(Tokens) /\ Len(Proxy!Fill(n)) = n
  BY NumbersAreTokens DEF Proxy!Fill
<1>2. ASSUME NEW n \in Nat, NEW t \in Nat, b = <<t>> \o Proxy!Fill(n)
      PROVE  b \in Seq(Tokens) /\ Len(b) = 1 + n /\ b[1] = t
  <2>1. <<t>> \in Seq(Tokens) /\ Len(<<t>>) = 1 /\ <<t>>[1] = t
    BY NumbersAreTokens, ShortSequences
  <2> QED  BY <1>1, <1>2, <2>1, Joined
<1>3. ASSUME NEW n \in Nat, b = <<3, n>> \o Proxy!Fill(n)
      PROVE  b \in Seq(Tokens) /\ Len(b) = 2 + n /\ b[1] = 3 /\ b[2] = n
  <2>1. <<3, n>> \in Seq(Tokens) /\ Len(<<3, n>>) = 2 /\ <<3, n>>[1] = 3 /\ <<3, n>>[2] = n
    BY NumbersAreTokens, ShortSequences
  <2>2. Proxy!Fill(n) \in Seq(Tokens) /\ Len(Proxy!Fill(n)) = n
    BY <1>1
  <2> DEFINE p == <<3, n>>
             q == Proxy!Fill(n)
  <2>3. p \in Seq(Tokens) /\ Len(p) = 2 /\ p[1] = 3 /\ p[2] = n
    BY <2>1
  <2>4. q \in Seq(Tokens) /\ Len(q) = n /\ b = p \o q
    BY <1>3, <2>2
  <2> HIDE DEF p, q
  <2>5. /\ p \o q \in Seq(Tokens) /\ Len(p \o q) = Len(p) + Len(q)
        /\ \A i \in 1..Len(p) : (p \o q)[i] = p[i]
    BY <2>3, <2>4, Joined
  <2>6. 1 \in 1..Len(p) /\ 2 \in 1..Len(p) /\ Len(p \o q) = 2 + n
    BY <2>3, <2>4, <2>5
  <2> QED  BY <2>3, <2>4, <2>5, <2>6
<1>4. CASE b = <<1>> \o Proxy!Fill(4) \/ b = <<4>> \o Proxy!Fill(16)
  <2>1. CASE b = <<1>> \o Proxy!Fill(4)
    <3>1. b \in Seq(Tokens) /\ Len(b) = 1 + 4 /\ b[1] = 1
      BY <1>2, <2>1
    <3> QED  BY <3>1
  <2>2. CASE b = <<4>> \o Proxy!Fill(16)
    <3>1. b \in Seq(Tokens) /\ Len(b) = 1 + 16 /\ b[1] = 4
      BY <1>2, <2>2
    <3> QED  BY <3>1
  <2> QED  BY <1>4, <2>1, <2>2
<1>5. CASE \E n \in 0..MaxDomain : b = <<3, n>> \o Proxy!Fill(n)
  <2>1. PICK n \in 0..MaxDomain : b = <<3, n>> \o Proxy!Fill(n)
    BY <1>5
  <2>2. n \in Nat
    BY ProxyAssumption
  <2>3. b \in Seq(Tokens) /\ Len(b) = 2 + n /\ b[1] = 3 /\ b[2] = n
    BY <1>3, <2>1, <2>2
  <2> QED  BY <2>2, <2>3
<1>6. CASE b = <<9>>
  BY <1>6, NumbersAreTokens, ShortSequences
<1> QED  BY <1>4, <1>5, <1>6 DEF Proxy!Addresses

\* A SOCKS5 reply, none of it read.
LEMMA ReplyType ==
  ASSUME NEW a \in Proxy!Replies
  PROVE  a \in Seq(Tokens) /\ Len(a) > 0 /\ RestOfReply(a)
<1>1. PICK rep \in {0, 1}, b \in Proxy!Addresses : a = Proxy!Reply(rep, b)
  BY DEF Proxy!Replies
<1> DEFINE p == <<5, rep, 0>>
           q == <<0, 0>>
<1>2. /\ p \in Seq(Tokens) /\ Len(p) = 3
      /\ q \in Seq(Tokens) /\ Len(q) = 2
  BY NumbersAreTokens, ShortSequences
<1>3. a = (p \o b) \o q
  BY <1>1, Zenon DEF Proxy!Reply
<1> HIDE DEF p, q
<1>4. /\ b \in Seq(Tokens) /\ Len(b) \in Nat /\ Len(b) >= 1
      /\ b[1] = 1 => Len(b) = 5
      /\ b[1] = 4 => Len(b) = 17
      /\ b[1] = 3 => b[2] \in Nat /\ Len(b) = 2 + b[2]
  BY AddressType
<1> DEFINE c == p \o b
<1>5. /\ c \in Seq(Tokens) /\ Len(c) = 3 + Len(b)
      /\ \A i \in 1..Len(b) : c[3 + i] = b[i]
  <2>1. /\ c \in Seq(Tokens) /\ Len(c) = Len(p) + Len(b)
        /\ \A i \in 1..Len(b) : c[Len(p) + i] = b[i]
    BY <1>2, <1>4, Joined
  <2> HIDE DEF c
  <2> QED  BY <1>2, <2>1
<1> HIDE DEF c
<1>6. /\ a \in Seq(Tokens) /\ Len(a) = 5 + Len(b)
      /\ \A i \in 1..3 + Len(b) : a[i] = c[i]
  <2>1. /\ c \o q \in Seq(Tokens) /\ Len(c \o q) = Len(c) + Len(q)
        /\ \A i \in 1..Len(c) : (c \o q)[i] = c[i]
    BY <1>2, <1>5, Joined
  <2>2. a = c \o q
    BY <1>3 DEF c
  <2>3. /\ a \in Seq(Tokens) /\ Len(a) = Len(c) + Len(q)
        /\ \A i \in 1..Len(c) : a[i] = c[i]
    BY <2>1, <2>2
  <2> QED  BY <1>2, <1>4, <1>5, <2>3
<1>7. a[4] = b[1]
  <2>1. 1 \in 1..Len(b) /\ 4 \in 1..3 + Len(b) /\ 3 + 1 = 4
    BY <1>4
  <2> QED  BY <1>5, <1>6, <2>1
<1>8. Len(b) >= 2 => a[5] = b[2]
  <2> SUFFICES ASSUME Len(b) >= 2 PROVE a[5] = b[2]
    OBVIOUS
  <2>1. 2 \in 1..Len(b) /\ 5 \in 1..3 + Len(b) /\ 3 + 2 = 5
    BY <1>4
  <2> QED  BY <1>5, <1>6, <2>1
<1>9. b[1] = 3 => Len(b) >= 2
  BY <1>4
<1>10. Len(a) >= 4
  BY <1>4, <1>6
<1>11. a[4] = 1 => Len(a) = 10
  <2> SUFFICES ASSUME a[4] = 1 PROVE Len(a) = 10
    OBVIOUS
  <2>1. b[1] = 1
    BY <1>7
  <2>2. Len(b) = 5
    BY <1>4, <2>1
  <2> QED  BY <1>6, <2>2
<1>12. a[4] = 4 => Len(a) = 22
  <2> SUFFICES ASSUME a[4] = 4 PROVE Len(a) = 22
    OBVIOUS
  <2>1. b[1] = 4
    BY <1>7
  <2>2. Len(b) = 17
    BY <1>4, <2>1
  <2> QED  BY <1>6, <2>2
<1>13. a[4] = 3 => a[5] \in Nat /\ Len(a) = 7 + a[5]
  BY <1>4, <1>6, <1>7, <1>8, <1>9
<1> QED  BY <1>6, <1>10, <1>11, <1>12, <1>13 DEF RestOfReply

\* What the proxy may answer is what the connector awaits.
LEMMA AnswerIsRest ==
  ASSUME TunnelInv, message # "None", pc # "done", NEW a \in Proxy!Answers(message)
  PROVE  a \in Seq(Tokens) /\ Rest(a) /\ Len(a) > 0
<1>1. CASE pc = "head" /\ message = "CONNECT" /\ head = <<>>
  BY <1>1, AnswersOf, HttpAnswerType DEF Rest
<1>2. CASE pc = "method" /\ message = "greeting"
  BY <1>2, AnswersOf, ShortAnswerType DEF Rest
<1>3. CASE pc = "auth" /\ message = "auth"
  BY <1>3, AnswersOf, ShortAnswerType DEF Rest
<1>4. CASE pc = "reply" /\ message = "request"
  BY <1>4, AnswersOf, ReplyType DEF Rest
<1> QED  BY <1>1, <1>2, <1>3, <1>4 DEF TunnelInv

\* There is an answer to every message.
LEMMA AnswerExists ==
  ASSUME TunnelInv, message # "None", pc # "done"
  PROVE  \E a : a \in Proxy!Answers(message)
<1>1. Proxy!HttpAnswer("200", 0) \in Proxy!HttpAnswers
  BY ProxyAssumption DEF Proxy!HttpAnswers
<1>2. <<5, 0>> \in Proxy!MethodAnswers
  BY DEF Proxy!MethodAnswers, Proxy!Versions, Proxy!Methods, Proxy!NO_AUTH
<1>3. <<1, 0>> \in Proxy!AuthAnswers
  BY DEF Proxy!AuthAnswers
<1>4. \E a : a \in Proxy!Replies
  <2>1. <<1>> \o Proxy!Fill(4) \in Proxy!Addresses
    BY DEF Proxy!Addresses
  <2> QED  BY <2>1 DEF Proxy!Replies
<1> QED  BY <1>1, <1>2, <1>3, <1>4, AnswersOf DEF TunnelInv

\* The proxy answers, the tunnel's first bytes behind the answer.
LEMMA ProxyAnswerKeeps ==
  ASSUME TunnelInv, Proxy!ProxyAnswer
  PROVE  TunnelInv'
<1>1. /\ message # "None" /\ link = "up" /\ message' = "None"
      /\ UNCHANGED <<pc, want, head, result, link>>
  BY DEF Proxy!ProxyAnswer, Proxy!clientVars, Proxy!None
<1>2. pc # "done" /\ inbox = <<>>
  BY <1>1 DEF TunnelInv
<1>3. PICK a \in Proxy!Answers(message), n \in 0..MaxData :
        /\ n > 0 => Proxy!Opens(message, a)
        /\ inbox' = inbox \o a \o [i \in 1..n |-> "data"]
        /\ data' = n
  BY DEF Proxy!ProxyAnswer, Proxy!Data
<1>4. a \in Seq(Tokens) /\ Rest(a)
  BY <1>1, <1>2, AnswerIsRest
<1>5. n \in Nat
  BY ProxyAssumption
<1> DEFINE t == [i \in 1..n |-> "data"]
<1>6. t \in Seq(Tokens) /\ Len(t) = n /\ \A i \in 1..n : t[i] = "data"
  BY <1>5 DEF Tokens
<1>7. inbox' = a \o t
  BY <1>2, <1>3, <1>4
<1> HIDE DEF t
<1>8. /\ inbox' \in Seq(Tokens) /\ Len(inbox') = Len(a) + n
      /\ \A i \in 1..Len(a) + n : inbox'[i] = IF i <= Len(a) THEN a[i] ELSE "data"
  <2>1. /\ a \o t \in Seq(Tokens) /\ Len(a \o t) = Len(a) + n
        /\ \A i \in 1..Len(a) : (a \o t)[i] = a[i]
        /\ \A i \in 1..n : (a \o t)[Len(a) + i] = "data"
    BY <1>4, <1>6, Joined
  <2>2. ASSUME NEW i \in 1..Len(a) + n, ~(i <= Len(a))
        PROVE  (a \o t)[i] = "data"
    <3>1. i - Len(a) \in 1..n /\ Len(a) + (i - Len(a)) = i
      BY <1>4, <1>5, <2>2
    <3> QED  BY <2>1, <3>1
  <2>3. ASSUME NEW i \in 1..Len(a) + n, i <= Len(a)
        PROVE  (a \o t)[i] = a[i]
    BY <1>4, <1>5, <2>1, <2>3
  <2> QED  BY <1>7, <2>1, <2>2, <2>3
<1>9. Unread(a)'
  BY <1>3, <1>4, <1>5, <1>8 DEF Unread
<1>10. Rest(a)'
  BY <1>1, <1>4 DEF Rest, RestOfHead
<1>11. pc \in {"method", "auth"} => data' = 0
  BY <1>1, <1>3, <1>5 DEF TunnelInv, Proxy!Opens
<1> QED
  BY <1>1, <1>2, <1>3, <1>4, <1>5, <1>8, <1>9, <1>10, <1>11 DEF TunnelInv, Awaiting

\* The proxy goes away, with a part of its answer sent or nothing.
LEMMA ProxyLeavesKeeps ==
  ASSUME TunnelInv, Proxy!ProxyLeaves
  PROVE  TunnelInv'
<1>1. /\ link = "up" /\ link' = "closed" /\ message' = "None"
      /\ UNCHANGED <<pc, want, head, result, data>>
      /\ \/ inbox' = inbox
         \/ /\ message # "None"
            /\ \E a \in Proxy!Answers(message) : \E n \in 1..Len(a) - 1 :
                 inbox' = inbox \o SubSeq(a, 1, n)
  BY DEF Proxy!ProxyLeaves, Proxy!clientVars, Proxy!None
<1>2. CASE message = "None"
  <2>1. inbox' = inbox
    BY <1>1, <1>2
  <2>2. \A r : Unread(r) => Unread(r)'
    BY <1>1, <2>1 DEF Unread
  <2>3. \A r : Rest(r) => Rest(r)'
    BY <1>1 DEF Rest, RestOfHead
  <2> QED  BY <1>1, <1>2, <2>1, <2>2, <2>3 DEF TunnelInv
<1>3. CASE message # "None"
  <2>1. pc # "done" /\ inbox = <<>> /\ data = 0
    BY <1>1, <1>3 DEF TunnelInv
  <2>2. PICK a \in Proxy!Answers(message) :
          \/ inbox' = <<>>
          \/ \E n \in 1..Len(a) - 1 : inbox' = inbox \o SubSeq(a, 1, n)
    BY <1>1, <1>3, <2>1, AnswerExists
  <2>3. a \in Seq(Tokens) /\ Rest(a) /\ Len(a) > 0
    BY <1>3, <2>1, AnswerIsRest
  <2>4. inbox' \in Seq(Tokens) /\ Unread(a)'
    <3>1. CASE inbox' = <<>>
      BY <1>1, <2>3, <3>1 DEF Unread
    <3>2. CASE \E n \in 1..Len(a) - 1 : inbox' = inbox \o SubSeq(a, 1, n)
      <4>1. PICK n \in 1..Len(a) - 1 : inbox' = inbox \o SubSeq(a, 1, n)
        BY <3>2
      <4>2. inbox' = SubSeq(a, 1, n)
        BY <2>1, <2>3, <4>1
      <4>3. /\ inbox' \in Seq(Tokens) /\ Len(inbox') = n
            /\ \A i \in 1..n : inbox'[i] = a[i]
        BY <2>3, <4>2
      <4> QED  BY <1>1, <2>3, <4>3 DEF Unread
    <3> QED  BY <2>2, <3>1, <3>2
  <2>5. Rest(a)'
    BY <1>1, <2>3 DEF Rest, RestOfHead
  <2> QED  BY <1>1, <1>3, <2>1, <2>3, <2>4, <2>5 DEF TunnelInv
<1> QED  BY <1>2, <1>3

\* Every step keeps the tunnel's invariant.
LEMMA TunnelNext == TunnelInv /\ [Next]_vars => TunnelInv'
<1> SUFFICES ASSUME TunnelInv, [Next]_vars PROVE TunnelInv'
  OBVIOUS
<1>1. CASE UNCHANGED tunnelVars
  BY <1>1 DEF tunnelVars, TunnelInv, Unread, Rest, RestOfHead
<1>2. CASE Tunnel
  BY <1>2, DialKeeps, MethodKeeps, ReplyKeeps, LengthKeeps, AddressKeeps, PortKeeps,
    HeadKeeps, ProxyAnswerKeeps, ProxyLeavesKeeps DEF Tunnel, Proxy!Next, Proxy!Client
<1>3. CASE ToProxy
  BY <1>3, StartKeeps DEF ToProxy
<1> QED
  BY <1>1, <1>2, <1>3 DEF Next, vars, Configure, Connect, Unsupported, Direct, Tunnelled,
    Handshake

\* Both proxy connectors (ProxyConnector::call, Socks5Connector::call) hand over a stream
\* that starts where the tunnel does, whatever the proxy's answer, its length, and how much
\* came with it.
THEOREM StreamInSync == Spec => []TunnelInSync
<1>1. Init => TunnelInv
  BY DEF Init, Proxy!Init, Proxy!None, TunnelInv, Awaiting
<1> QED
  BY <1>1, TunnelNext, TunnelSafe, PTL DEF Spec

=============================================================================
