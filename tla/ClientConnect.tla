--------------------------- MODULE ClientConnect ---------------------------
(***************************************************************************)
(* From a ClientBuilder to an open stream: the client is configured, built *)
(* and perhaps derived from (ClientConfig); a connection is made for one   *)
(* URI, through the proxy (ProxyConnect) or not, and upgraded to TLS by    *)
(* OxiHttpsConnector (oxihttp-client/src/connector.rs).                    *)
(***************************************************************************)
EXTENDS ClientConfig

CONSTANTS MaxHead, MaxHeaders, MaxDomain, MaxData   \* see ProxyConnect

ASSUME ProxyAssumption == {MaxHead, MaxHeaders, MaxDomain, MaxData} \subseteq Nat

VARIABLES
  conn,     \* what the connection depends on, once there is one
  stage,    \* "none", "inner" connector, "tls" handshake, "done"
  stream,   \* MaybeHttpsStream: "http", "https", or the error
  proto,    \* what ALPN selected
  conf, pc, want, head, result, message, inbox, link, data   \* see ProxyConnect

connVars == <<conn, stage, stream, proto>>
tunnelVars == <<conf, pc, want, head, result, message, inbox, link, data>>
vars == <<configVars, connVars, tunnelVars>>

Proxy == INSTANCE ProxyConnect WITH asked <- message

-----------------------------------------------------------------------------

None == "None"

\* Schemes the connector is called with; it is the TLS connector that refuses all
\* but two of them.
Schemes(kind) == {"http", "https"} \cup (IF kind \in TlsKinds THEN {"ftp"} ELSE {})

Finished(outcome, alpn) ==
  stage' = "done" /\ stream' = outcome /\ proto' = alpn /\ UNCHANGED conn

\* The pool asks for a connection.  The model follows this one, and forgets the
\* client that makes it.
Connect ==
  /\ IsClient /\ stage = "none"
  /\ \E scheme \in Schemes(client.kind), host \in {"name", "[ip]"}, issuer \in Issuers :
       conn' = [kind |-> client.kind, scheme |-> scheme, host |-> host,
                alpn |-> client.conf["alpn"],
                timeout |-> client.conf["connect_timeout"] # Unset,
                trusts |-> issuer \in Verifying(client.conf),
                allowed |-> Disputed \/ issuer \in MayTrust]
  /\ stage' = "called"
  /\ asked' = [s \in Settings |-> <<>>] /\ overrides' = <<>> /\ client' = NoClient
  /\ UNCHANGED <<stream, proto, tunnelVars>>

\* The proxy connectors start their handshake with the proxy.
ToProxy ==
  /\ stage = "called" /\ conn.kind \in ProxyKinds /\ conn.scheme # "ftp"
  /\ stage' = "inner"
  /\ Proxy!Start(IF conn.kind \in {"proxy", "proxy_https"} THEN "connect" ELSE "socks5",
                 conn.timeout)
  /\ UNCHANGED <<configVars, conn, stream, proto>>

Unsupported ==
  /\ stage = "called" /\ conn.scheme = "ftp"
  /\ Finished("unsupported", None)
  /\ UNCHANGED <<configVars, tunnelVars>>

\* Mutant: the connector upgrades what it dialled itself.
Upgrades_Direct(c) == c.scheme = "https" /\ c.kind = "https"

\* OxiHttpsConnector::call.
Upgrades(c) == c.scheme = "https" /\ c.kind \in TlsKinds

\* The inner connector's stream is there.  The host is parsed as a server name
\* after that; uri.host() keeps the brackets of an IPv6 address, which it may not
\* have.
Opened ==
  IF ~Upgrades(conn) THEN Finished("http", None)
  ELSE IF conn.host = "[ip]" THEN Finished("tls", None)
  ELSE stage' = "tls" /\ UNCHANGED <<conn, stream, proto>>

\* hyper's HttpConnector, with BoxResolver as its resolver or not: names that do
\* not resolve, connections that are refused or take too long.
Direct ==
  /\ stage = "called" /\ conn.kind \notin ProxyKinds /\ conn.scheme # "ftp"
  /\ \/ Opened
     \/ conn.host = "name" /\ Finished("dns", None)
     \/ Finished("io", None)
     \/ conn.timeout /\ Finished("timeout", None)
  /\ UNCHANGED <<configVars, tunnelVars>>

Tunnel == Proxy!Next /\ UNCHANGED <<configVars, connVars>>

Tunnelled ==
  /\ stage = "inner" /\ pc = "done"
  /\ IF result = "ok" THEN Opened ELSE Finished(result, None)
  /\ UNCHANGED <<configVars, tunnelVars>>

\* tls.connect: the server picks a protocol both sides name, if both name any.
Handshake ==
  /\ stage = "tls"
  /\ \E offered \in SUBSET {"h2", "http/1.1"} :
       LET both == conn.alpn \cap offered
       IN  IF ~conn.trusts \/ (both = {} /\ conn.alpn # {} /\ offered # {})
             THEN Finished("tls", None)
           ELSE IF both = {} THEN Finished("https", None)
           ELSE \E p \in both : Finished("https", p)
  /\ UNCHANGED <<configVars, tunnelVars>>

\* MaybeHttpsStream::connected.
NegotiatedH2 == stream = "https" /\ proto = "h2"

-----------------------------------------------------------------------------

Init ==
  /\ ConfigInit
  /\ conn = <<>> /\ stage = "none" /\ stream = "pending" /\ proto = None
  /\ Proxy!Init

Configure == stage = "none" /\ ConfigNext /\ UNCHANGED <<connVars, tunnelVars>>

Next ==
  \/ Configure \/ Connect \/ Unsupported \/ Direct \/ ToProxy \/ Tunnel \/ Tunnelled
  \/ Handshake

Spec == Init /\ [][Next]_vars

\* The connector's future is polled, and a TCP connection is made or fails.  The
\* proxy and the server answer what they are asked, or go away: nothing in their
\* handshakes times out.
FairSpec ==
  /\ Spec
  /\ WF_vars(Unsupported \/ Direct \/ ToProxy \/ Tunnelled \/ Handshake)
  /\ WF_vars(Proxy!Client /\ UNCHANGED <<configVars, connVars>>)
  /\ WF_vars(Proxy!ProxyAnswer /\ UNCHANGED <<configVars, connVars>>)

-----------------------------------------------------------------------------
(* Properties                                                               *)

\* The stream handed over starts where the tunnel does: the handshake has read
\* all of the proxy's answer and not a byte of what follows, even if both came
\* together (the byte-wise read of CONNECT, the draining of BND.ADDR and BND.PORT).
TunnelInSync == Proxy!TunnelInSync

\* Whatever way a TLS client was built and derived, an https request leaves it only
\* over TLS, with a server the caller's calls allow (those whose meaning is not
\* disputed), through the proxy's open tunnel if there is one; and it is HTTP/2 only if
\* both sides have named it.
SecuredAsAsked ==
  stream \in {"http", "https"} =>
    /\ (conn.scheme = "https" /\ conn.kind \in TlsKinds) => stream = "https" /\ conn.allowed
    /\ conn.kind \in ProxyKinds => result = "ok"
    /\ NegotiatedH2 => "h2" \in conn.alpn

\* A connection is made or refused, with a proxy that leaves in the middle of the
\* handshake too.
HandshakeEnds == (stage # "none") ~> (stage = "done")
=============================================================================
