---------------------------- MODULE ProxyConnect ----------------------------
(***************************************************************************)
(* The handshake of the two proxy connectors with their proxy              *)
(* (oxihttp-client/src/proxy.rs): HTTP CONNECT, read byte by byte up to    *)
(* the blank line, and SOCKS5, read message by message with read_exact.    *)
(* Once it has succeeded, the stream is handed over as it stands: whatever *)
(* the proxy sent beyond the handshake belongs to the tunnel.              *)
(***************************************************************************)
EXTENDS Naturals, Sequences, SequencesExt

CONSTANTS
  MaxHead,     \* the cap on a CONNECT response, in tokens
  MaxHeaders,  \* bound: header lines the proxy sends
  MaxDomain,   \* bound: length of a domain in a SOCKS5 reply
  MaxData      \* bound: tunnel bytes the proxy sends unasked

VARIABLES
  conf,    \* the connector: [kind, auth, timeout]; honest: the proxy conforms
  pc,      \* "idle", what the connector awaits, "done"
  want,    \* SOCKS5: bytes of BND.ADDR still to be read
  head,    \* CONNECT: response_buf
  result,  \* "pending", "ok" or the error
  asked,   \* the message of the connector the proxy has not answered
  inbox,   \* what the proxy sent and the connector has not read
  link,    \* the proxy's side of the connection: "up", "closed"
  data     \* history: tunnel bytes the proxy has sent

clientVars == <<conf, pc, want, head, result>>
proxyVars == <<asked, inbox, link, data>>
vars == <<clientVars, proxyVars>>

None == "None"
CRLF == "CRLF"
Data == "data"

NO_AUTH == 0
USER_PASS == 2
NO_METHOD == 255

-----------------------------------------------------------------------------
(* The connector                                                            *)

\* Mutant: a read that finds the stream at its end is tried again.
AtEof_Ignored(n) == FALSE

AtEof(n) == link = "closed" /\ Len(inbox) < n

Take(n) == inbox' = SubSeq(inbox, n + 1, Len(inbox))

Fail(error) ==
  /\ pc' = "done" /\ result' = error
  /\ UNCHANGED <<conf, want, head>>

\* write_all, and what is awaited next.
Ask(message, next) ==
  /\ pc' = next
  /\ asked' = message
  /\ UNCHANGED <<conf, want, head, result>>

Await(next) == pc' = next /\ UNCHANGED <<conf, want, head, result, asked>>

\* The connection to the proxy is refused, or takes longer than connect_timeout.
DialFails ==
  /\ pc = "dial"
  /\ \/ Fail("io")
     \/ conf.timeout /\ Fail("timeout")
  /\ UNCHANGED proxyVars

Dial ==
  /\ pc = "dial"
  /\ IF conf.kind = "connect" THEN Ask("CONNECT", "head")
                              ELSE Ask("greeting", "method")
  /\ UNCHANGED <<inbox, link, data>>

Ended(h) ==
  Len(h) >= 2 /\ SubSeq(h, Len(h) - 1, Len(h)) = <<CRLF, CRLF>>

\* One read of one byte; after the blank line the status decides.
ReadHead ==
  /\ pc = "head" /\ inbox # <<>>
  /\ Take(1)
  /\ LET h == Append(head, Head(inbox))
     IN  IF Ended(h)
           THEN /\ pc' = "done"
                /\ result' = IF h[1] = "200" THEN "ok" ELSE "rejected"
                /\ UNCHANGED <<conf, want, head>>
         ELSE IF Len(h) > MaxHead THEN Fail("too_large")
         ELSE head' = h /\ UNCHANGED <<conf, pc, want, result>>
  /\ UNCHANGED <<asked, link, data>>

\* read_exact(n): all n bytes are there.
Got(state, n) == pc = state /\ Len(inbox) >= n /\ Take(n) /\ UNCHANGED <<link, data>>

\* What is asked once the method is settled.
Request == Ask("request", "reply")

\* Any method other than the two known ones goes on without authentication.
ReadMethod ==
  /\ Got("method", 2)
  /\ CASE inbox[1] # 5 -> Fail("version") /\ UNCHANGED asked
       [] inbox[1] = 5 /\ inbox[2] = NO_METHOD -> Fail("rejected") /\ UNCHANGED asked
       [] inbox[1] = 5 /\ inbox[2] = USER_PASS ->
            IF conf.auth THEN Ask("auth", "auth") ELSE Fail("auth") /\ UNCHANGED asked
       [] OTHER -> Request

ReadAuth ==
  /\ Got("auth", 2)
  /\ IF inbox[2] = 0 THEN Request ELSE Fail("auth") /\ UNCHANGED asked

\* The reply's first four bytes; what follows depends on ATYP.
ReadReply ==
  /\ Got("reply", 4)
  /\ CASE inbox[2] # 0 -> Fail("rejected") /\ UNCHANGED asked
       [] inbox[2] = 0 /\ inbox[4] = 3 -> Await("length")
       [] inbox[2] = 0 /\ inbox[4] \in {1, 4} ->
            /\ pc' = "address"
            /\ want' = IF inbox[4] = 1 THEN 4 ELSE 16
            /\ UNCHANGED <<conf, head, result, asked>>
       [] OTHER -> Fail("atyp") /\ UNCHANGED asked

ReadLength ==
  /\ Got("length", 1)
  /\ pc' = "address" /\ want' = inbox[1]
  /\ UNCHANGED <<conf, head, result, asked>>

ReadAddress == Got("address", want) /\ Await("port")

\* Mutant: the port is taken for part of the address.
PortLength_None == 0

PortLength == 2

ReadPort ==
  /\ Got("port", PortLength)
  /\ pc' = "done" /\ result' = "ok"
  /\ UNCHANGED <<conf, want, head, asked>>

\* The bytes awaited in each state.
Needed ==
  CASE pc = "head" -> 1 [] pc \in {"method", "auth"} -> 2 [] pc = "reply" -> 4
    [] pc = "length" -> 1 [] pc = "address" -> want [] pc = "port" -> PortLength
    [] OTHER -> 0

Eof == pc \notin {"idle", "dial", "done"} /\ AtEof(Needed) /\ Fail("io") /\ UNCHANGED proxyVars

Client ==
  \/ DialFails \/ Dial \/ Eof \/ ReadHead
  \/ ReadMethod \/ ReadAuth \/ ReadReply \/ ReadLength \/ ReadAddress \/ ReadPort

-----------------------------------------------------------------------------
(* The proxy                                                                *)

Fill(n) == [i \in 1..n |-> 0]

\* A status line, n header lines and the blank one.
HttpAnswer(line, n) ==
  [i \in 1..2 * n + 3 |->
     IF i = 1 THEN line ELSE IF i % 2 = 0 \/ i = 2 * n + 3 THEN CRLF ELSE "header"]

HttpAnswers == {HttpAnswer(line, n) : line \in {"200", "407"}, n \in 0..MaxHeaders}

Methods ==
  IF conf.honest THEN {NO_AUTH, NO_METHOD} \cup (IF conf.auth THEN {USER_PASS} ELSE {})
                 ELSE {NO_AUTH, 1, USER_PASS, NO_METHOD}

Versions == IF conf.honest THEN {5} ELSE {4, 5}

Addresses ==
  {<<1>> \o Fill(4), <<4>> \o Fill(16)}
    \cup {<<3, n>> \o Fill(n) : n \in 0..MaxDomain}
    \cup (IF conf.honest THEN {} ELSE {<<9>>})

MethodAnswers == {<<v, m>> : v \in Versions, m \in Methods}

AuthAnswers == {<<1, status>> : status \in {0, 1}}

Reply(rep, address) == <<5, rep, 0>> \o address \o <<0, 0>>

Replies == {Reply(rep, a) : rep \in {0, 1}, a \in Addresses}

\* What the proxy may say to a message.
Answers(message) ==
  CASE message = "CONNECT" -> HttpAnswers
    [] message = "greeting" -> MethodAnswers
    [] message = "auth" -> AuthAnswers
    [] OTHER -> Replies

\* Has the proxy opened the tunnel with this answer?
Opens(message, a) ==
  \/ message = "CONNECT" /\ a[1] = "200"
  \/ message = "request" /\ a[2] = 0

\* The answer, with the first bytes of the tunnel behind it if the target speaks
\* first.
ProxyAnswer ==
  /\ asked # None /\ link = "up"
  /\ \E a \in Answers(asked), n \in 0..MaxData :
       /\ n > 0 => Opens(asked, a)
       /\ inbox' = inbox \o a \o [i \in 1..n |-> Data]
       /\ data' = n
  /\ asked' = None
  /\ UNCHANGED <<clientVars, link>>

\* The proxy goes away, in the middle of an answer or before it.
ProxyLeaves ==
  /\ link = "up"
  /\ link' = "closed"
  /\ \/ inbox' = inbox
     \/ /\ asked # None
        /\ \E a \in Answers(asked) : \E n \in 1..Len(a) - 1 :
             inbox' = inbox \o SubSeq(a, 1, n)
  /\ asked' = None
  /\ UNCHANGED <<clientVars, data>>

-----------------------------------------------------------------------------

Init ==
  /\ conf = <<>> /\ pc = "idle" /\ want = 0 /\ head = <<>> /\ result = "pending"
  /\ asked = None /\ inbox = <<>> /\ link = "none" /\ data = 0

\* The connector is called: one of the two, with the credentials of its proxy's URI
\* or without, and with a connect timeout or without.
Start(kind, timeout) ==
  /\ pc = "idle" /\ pc' = "dial" /\ link' = "up"
  /\ \E auth, honest \in BOOLEAN :
       conf' = [kind |-> kind, auth |-> auth, timeout |-> timeout, honest |-> honest]
  /\ UNCHANGED <<want, head, result, asked, inbox, data>>

Next == Client \/ ProxyAnswer \/ ProxyLeaves

-----------------------------------------------------------------------------
(* Properties                                                               *)

\* The stream handed over starts where the tunnel does: the handshake has read
\* all of the proxy's answer and not a byte of what follows, even if both came
\* together (the byte-wise read of CONNECT, the draining of BND.ADDR and BND.PORT).
TunnelInSync ==
  (pc = "done" /\ conf.honest /\ result = "ok") => inbox = [i \in 1..data |-> Data]
=============================================================================
