----------------------------- MODULE WebSocket -----------------------------
(***************************************************************************)
(* One server-side WebSocket connection: WebSocket<S> and its frame reader *)
(* (oxihttp-server/src/ws.rs, ws_frame.rs), the application that owns the  *)
(* handle, and the peer at the other end of the stream.                    *)
(*                                                                         *)
(* recv(), send() and close() take the handle by exclusive reference, so   *)
(* the application is one sequential process; `pc' is the call it is in.   *)
(* A frame is read, decoded and acted on in one step: nothing but the peer *)
(* can move between the read and the reply, and what the peer can do there *)
(* (drop the link) is the choice WriteOk makes.  A payload is a short      *)
(* sequence over Byte; Utf8 is the set of payloads String::from_utf8       *)
(* accepts.                                                                *)
(***************************************************************************)
EXTENDS Integers, Sequences, FiniteSets

CONSTANTS
  Byte,                   \* the payload alphabet
  Utf8,                   \* the byte sequences that are valid UTF-8
  Payloads,               \* the frame payloads the peer uses
  AppPayloads,            \* the payloads the application uses
  Limits,                 \* the values set_max_message_size is called with
  DefaultLimit,           \* DEFAULT_MAX_MESSAGE_SIZE
  MIN_FRAME_PAYLOAD_CAP,  \* the largest legal control-frame payload (125)
  Conforming,             \* does the peer obey RFC 6455?
  MaxFrames,              \* bound: frames the peer sends, its Close echo aside
  MaxInFlight,            \* bound: frames on the wire towards the server
  MaxSends                \* bound: frames the application writes with send()

ASSUME WebSocketAssumption ==
  /\ Utf8 \subseteq Seq(Byte)
  /\ Payloads \subseteq Seq(Byte) /\ AppPayloads \subseteq Seq(Byte)
  /\ Limits \subseteq Nat
  /\ DefaultLimit \in Limits
  /\ MIN_FRAME_PAYLOAD_CAP \in Nat
  /\ Conforming \in BOOLEAN
  /\ MaxFrames \in Nat /\ MaxInFlight \in Nat /\ MaxSends \in Nat

VARIABLES
  inbound,           \* frames in flight to the server
  link,              \* "up", or "down" once the peer has dropped the stream
  peer,              \* the peer's own fragmentation state and frame count
  sent,              \* history: the messages the peer has completed
  frag_buf,          \* WebSocket::frag_buf
  frag_opcode,       \* WebSocket::frag_opcode
  closed,            \* WebSocket::closed
  close_sent,        \* WebSocket::close_sent
  max_message_size,  \* WebSocket::max_message_size
  pc,                \* the call the application is in
  result,            \* what the last recv() returned
  received,          \* history: every Ok(Some(msg)) recv() returned
  out                \* history: the frames written to the stream

peerVars == <<link, peer, sent>>
fragVars == <<frag_buf, frag_opcode>>
callVars == <<pc, result, received>>
vars == <<inbound, peerVars, fragVars, closed, close_sent, max_message_size,
          callVars, out>>

-----------------------------------------------------------------------------
(* Frames and messages                                                      *)

None == "None"                                  \* Option::None

DataOpcode == {"Text", "Binary"}
ControlOpcode == {"Close", "Ping", "Pong"}
Opcode == DataOpcode \cup ControlOpcode \cup {"Continuation"}

\* `wellformed' is FALSE for a header read_frame rejects on sight: a reserved
\* bit, no mask, or an unknown opcode.
Frame == [wellformed : BOOLEAN, fin : BOOLEAN, opcode : Opcode,
          payload : Seq(Byte)]
Message == [kind : DataOpcode \cup ControlOpcode, data : Seq(Byte)]
Outgoing == [opcode : DataOpcode \cup ControlOpcode, payload : Seq(Byte),
             by : {"recv", "app"}]

Msg(kind, data) == [kind |-> kind, data |-> data]

\* What recv() returns: Ok(Some(msg)), Ok(None), or an error of some class.
Errors == {"malformed", "too_large", "utf8", "orphan", "sequence", "io"}
Some(msg)  == [tag |-> "Some", msgs |-> <<msg>>]
Err(class) == [tag |-> class,  msgs |-> <<>>]

\* Mutant: the frame cap is the message budget, without its floor.
FrameCap_NoFloor == max_message_size

\* The wire-level cap never falls below the size of a legal control frame.
FrameCap == IF max_message_size < MIN_FRAME_PAYLOAD_CAP
              THEN MIN_FRAME_PAYLOAD_CAP ELSE max_message_size

\* The verdict of read_frame on the next frame of the stream.
ReadFrame(f) ==
  CASE ~f.wellformed -> "malformed"
    [] f.opcode \in ControlOpcode
         /\ (~f.fin \/ Len(f.payload) > MIN_FRAME_PAYLOAD_CAP) -> "malformed"
    [] Len(f.payload) > FrameCap -> "too_large"
    [] OTHER -> None

\* Mutant: the fragments already buffered are not counted.
OverLimit_FrameOnly(incoming) == incoming > max_message_size

\* check_size_limit: would `incoming' more bytes overrun the message budget?
OverLimit(incoming) == Len(frag_buf) + incoming > max_message_size

\* Mutant: text is not validated.
MakeDataMessage_Unchecked(opcode, data) == Some(Msg(opcode, data))

\* make_data_message: what a complete data payload is returned as.
MakeDataMessage(opcode, data) ==
  IF opcode = "Text" /\ data \notin Utf8
    THEN Err("utf8") ELSE Some(Msg(opcode, data))

\* parse_close_frame: a payload shorter than a status code is Close(None).
ParseCloseFrame(payload) ==
  Msg("Close", IF Len(payload) < 2 THEN <<>> ELSE payload)

-----------------------------------------------------------------------------
(* The peer                                                                 *)

LegalFrame(f) ==
  /\ f.wellformed /\ ~peer.closed
  /\ f.opcode \in ControlOpcode =>
       f.fin /\ Len(f.payload) <= MIN_FRAME_PAYLOAD_CAP
  /\ f.opcode \in DataOpcode => peer.opcode = None
  /\ f.opcode = "Continuation" => peer.opcode # None
  /\ (f.fin /\ f.opcode = "Text") => f.payload \in Utf8
  /\ (f.fin /\ f.opcode = "Continuation" /\ peer.opcode = "Text")
       => peer.buf \o f.payload \in Utf8

\* The peer, one frame later.
Peered(opcode, buf, shut) ==
  [opcode |-> opcode, buf |-> buf, closed |-> shut, count |-> peer.count + 1]

\* The conforming peer's own account of the frame: the message it continues or
\* completes.
Account(f) ==
  \/ /\ ~Conforming
     /\ peer' = Peered(peer.opcode, peer.buf, peer.closed)
     /\ UNCHANGED sent
  \/ /\ Conforming /\ f.opcode \in ControlOpcode
     /\ sent' = Append(sent, IF f.opcode = "Close"
                               THEN ParseCloseFrame(f.payload)
                               ELSE Msg(f.opcode, f.payload))
     /\ peer' = Peered(peer.opcode, peer.buf, peer.closed \/ f.opcode = "Close")
  \/ /\ Conforming /\ f.opcode \in DataOpcode /\ f.fin
     /\ sent' = Append(sent, Msg(f.opcode, f.payload))
     /\ peer' = Peered(peer.opcode, peer.buf, peer.closed)
  \/ /\ Conforming /\ f.opcode \in DataOpcode /\ ~f.fin
     /\ peer' = Peered(f.opcode, f.payload, peer.closed)
     /\ UNCHANGED sent
  \/ /\ Conforming /\ f.opcode = "Continuation" /\ f.fin
     /\ sent' = Append(sent, Msg(peer.opcode, peer.buf \o f.payload))
     /\ peer' = Peered(None, <<>>, peer.closed)
  \/ /\ Conforming /\ f.opcode = "Continuation" /\ ~f.fin
     /\ peer' = Peered(peer.opcode, peer.buf \o f.payload, peer.closed)
     /\ UNCHANGED sent

\* The frames a peer can put on the wire; one stands for all that read_frame
\* rejects on their first two bytes.
WireFrame ==
  [wellformed : {TRUE}, fin : BOOLEAN, opcode : Opcode, payload : Payloads]
    \cup {[wellformed |-> FALSE, fin |-> TRUE, opcode |-> "Text",
           payload |-> <<>>]}

handleVars == <<fragVars, closed, close_sent, max_message_size, callVars, out>>

\* The peer puts a frame on the wire: any frame at all, or, for a conforming
\* peer, one RFC 6455 allows next.
PeerSend(f) ==
  /\ link = "up"
  /\ peer.count < MaxFrames
  /\ Len(inbound) < MaxInFlight
  /\ Conforming => LegalFrame(f)
  /\ inbound' = Append(inbound, f)
  /\ Account(f)
  /\ UNCHANGED <<link, handleVars>>

\* A conforming peer answers a Close it has been sent.
PeerEchoClose ==
  /\ Conforming
  /\ link = "up" /\ ~peer.closed
  /\ \E i \in DOMAIN out : out[i].opcode = "Close"
  /\ LET f == [wellformed |-> TRUE, fin |-> TRUE, opcode |-> "Close",
               payload |-> <<>>]
     IN  inbound' = Append(inbound, f) /\ Account(f)
  /\ UNCHANGED <<link, handleVars>>

\* The stream breaks; any suffix of what is in flight is lost with it.
PeerDrop ==
  /\ link = "up"
  /\ link' = "down"
  /\ \E n \in 0..Len(inbound) : inbound' = SubSeq(inbound, 1, n)
  /\ UNCHANGED <<peer, sent, handleVars>>

-----------------------------------------------------------------------------
(* recv()                                                                   *)

\* write_frame fails only on a broken stream, and need not notice at once.
WriteOk == IF link = "up" THEN {TRUE} ELSE BOOLEAN

\* Mutant: the drain loop only ends on a Close.
Return_DrainsOnError(res) ==
  /\ result' = res.tag
  /\ received' = received \o res.msgs
  /\ pc' = CASE pc = "recv" -> "idle"
             [] res.tag = "Some" /\ res.msgs[1].kind = "Close" -> "done"
             [] OTHER -> "close"

\* recv() returns: to the application, or to the drain loop of close(), which
\* goes round again on any message but a Close and ends on anything else.
Return(res) ==
  /\ result' = res.tag
  /\ received' = received \o res.msgs
  /\ pc' = CASE pc = "recv" -> "idle"
             [] pc = "close" /\ res.tag = "Some" /\ res.msgs[1].kind # "Close"
                  -> "close"
             [] OTHER -> "done"

Reply(opcode, payload) ==
  out' = Append(out, [opcode |-> opcode, payload |-> payload, by |-> "recv"])

\* Mutant: recv() does not look at `closed' first.
MayRead_Always == TRUE

\* A closed handle is never read from again.
MayRead == ~closed

\* The application calls recv(): Ok(None) at once on a closed handle.
CallRecv ==
  /\ pc = "idle"
  /\ IF MayRead THEN pc' = "recv" /\ UNCHANGED result
                ELSE result' = None /\ UNCHANGED pc
  /\ UNCHANGED <<inbound, peerVars, fragVars, closed, close_sent,
                 max_message_size, received, out>>

\* recv(), or the drain of close(), takes the next frame off the stream.
Incoming ==
  /\ pc \in {"recv", "close"}
  /\ inbound' = Tail(inbound)
  /\ UNCHANGED <<peerVars, close_sent, max_message_size>>

\* End of stream: read_exact fails, and recv() closes the handle.
RecvEof ==
  /\ pc \in {"recv", "close"}
  /\ inbound = <<>> /\ link = "down"
  /\ closed' = TRUE
  /\ Return(Err("io"))
  /\ UNCHANGED <<inbound, peerVars, fragVars, close_sent, max_message_size,
                 out>>

\* read_frame rejects the frame: recv() closes the handle.
RecvBadFrame(f) ==
  /\ Incoming
  /\ ReadFrame(f) # None
  /\ closed' = TRUE
  /\ Return(Err(ReadFrame(f)))
  /\ UNCHANGED <<fragVars, out>>

\* Mutant: a Pong that could not be written is not an error.
PingResult_Always(ok, f) == Some(Msg("Ping", f.payload))

PingResult(ok, f) == IF ok THEN Some(Msg("Ping", f.payload)) ELSE Err("io")

RecvPing(f) ==
  /\ Incoming
  /\ ReadFrame(f) = None /\ f.opcode = "Ping"
  /\ \E ok \in WriteOk :
       /\ IF ok THEN Reply("Pong", f.payload) ELSE UNCHANGED out
       /\ Return(PingResult(ok, f))
  /\ UNCHANGED <<fragVars, closed>>

RecvPong(f) ==
  /\ Incoming
  /\ ReadFrame(f) = None /\ f.opcode = "Pong"
  /\ Return(Some(Msg("Pong", f.payload)))
  /\ UNCHANGED <<fragVars, closed, out>>

\* Mutant: the Close is echoed even when the application sent one first.
EchoDue_Always == TRUE

EchoDue == ~close_sent

\* The echo does not set close_sent, and a failed echo leaves the handle open.
RecvClose(f) ==
  /\ Incoming
  /\ ReadFrame(f) = None /\ f.opcode = "Close"
  /\ \/ /\ EchoDue
        /\ FALSE \in WriteOk
        /\ Return(Err("io"))
        /\ UNCHANGED <<out, closed>>
     \/ /\ IF EchoDue THEN Reply("Close", f.payload) ELSE UNCHANGED out
        /\ closed' = TRUE
        /\ Return(Some(ParseCloseFrame(f.payload)))
  /\ UNCHANGED fragVars

\* The frames the three data arms of the match take.
DataArm(f) ==
  /\ Incoming
  /\ ReadFrame(f) = None
  /\ f.opcode = "Continuation" \/ (f.opcode \in DataOpcode /\ frag_buf = <<>>)
  /\ UNCHANGED out

\* Over budget: check_size_limit closes the handle and drops the partial
\* message.
RecvOverLimit(f) ==
  /\ DataArm(f) /\ OverLimit(Len(f.payload))
  /\ closed' = TRUE
  /\ frag_buf' = <<>>
  /\ frag_opcode' = None
  /\ Return(Err("too_large"))

RecvWhole(f) ==
  /\ DataArm(f) /\ ~OverLimit(Len(f.payload))
  /\ f.opcode \in DataOpcode /\ f.fin
  /\ Return(MakeDataMessage(f.opcode, f.payload))
  /\ UNCHANGED <<fragVars, closed>>

RecvFirstFragment(f) ==
  /\ DataArm(f) /\ ~OverLimit(Len(f.payload))
  /\ f.opcode \in DataOpcode /\ ~f.fin
  /\ frag_opcode' = f.opcode
  /\ frag_buf' = f.payload
  /\ UNCHANGED <<closed, callVars>>

\* Mutant: every fragment, not only the first, records its opcode.
BufferFragment_RecordsOpcode(f) ==
  frag_buf' = frag_buf \o f.payload /\ frag_opcode' = f.opcode

BufferFragment(f) ==
  frag_buf' = frag_buf \o f.payload /\ UNCHANGED frag_opcode

\* A continuation that is not the last is buffered, whether or not a first
\* fragment came before it.
RecvMiddle(f) ==
  /\ DataArm(f) /\ ~OverLimit(Len(f.payload))
  /\ f.opcode = "Continuation" /\ ~f.fin
  /\ BufferFragment(f)
  /\ UNCHANGED <<closed, callVars>>

\* A last fragment without a first: the error leaves the payload buffered and
\* the handle open.
RecvOrphan(f) ==
  /\ DataArm(f) /\ ~OverLimit(Len(f.payload))
  /\ f.opcode = "Continuation" /\ f.fin /\ frag_opcode = None
  /\ BufferFragment(f)
  /\ Return(Err("orphan"))
  /\ UNCHANGED closed

\* Mutant: the buffer is copied out and not taken.
TakeFragments_KeepsBuffer(f) ==
  frag_buf' = frag_buf \o f.payload /\ frag_opcode' = None

\* Mutant: the opcode is read and not taken.
TakeFragments_KeepsOpcode(f) == frag_buf' = <<>> /\ UNCHANGED frag_opcode

TakeFragments(f) == frag_buf' = <<>> /\ frag_opcode' = None

\* Mutant: the message is handed over before the last payload is appended.
Reassembled_DropsTail(f) == frag_buf

Reassembled(f) == frag_buf \o f.payload

RecvFinal(f) ==
  /\ DataArm(f) /\ ~OverLimit(Len(f.payload))
  /\ f.opcode = "Continuation" /\ f.fin /\ frag_opcode # None
  /\ TakeFragments(f)
  /\ Return(MakeDataMessage(frag_opcode, Reassembled(f)))
  /\ UNCHANGED closed

\* A Text or Binary frame while a fragmented message is buffered.
RecvUnexpected(f) ==
  /\ Incoming
  /\ ReadFrame(f) = None /\ f.opcode \in DataOpcode
  /\ frag_buf # <<>>
  /\ Return(Err("sequence"))
  /\ UNCHANGED <<fragVars, closed, out>>

RecvFrame(f) ==
  \/ RecvBadFrame(f)
  \/ RecvPing(f)
  \/ RecvPong(f)
  \/ RecvClose(f)
  \/ RecvOverLimit(f)
  \/ RecvWhole(f)
  \/ RecvFirstFragment(f)
  \/ RecvMiddle(f)
  \/ RecvOrphan(f)
  \/ RecvFinal(f)
  \/ RecvUnexpected(f)

-----------------------------------------------------------------------------
(* The other calls of the application                                       *)

\* send(): nothing stops it after a Close; a Close sets both flags before the
\* write.
Send(kind, payload) ==
  /\ pc = "idle"
  /\ Cardinality({i \in DOMAIN out : out[i].by = "app"}) < MaxSends
  /\ \E ok \in WriteOk :
       out' = IF ok THEN Append(out, [opcode |-> kind, payload |-> payload,
                                      by |-> "app"])
                    ELSE out
  /\ close_sent' = (close_sent \/ kind = "Close")
  /\ closed' = (closed \/ kind = "Close")
  /\ UNCHANGED <<inbound, peerVars, fragVars, max_message_size, callVars>>

SetMaxMessageSize(n) ==
  /\ pc = "idle"
  /\ max_message_size' = n
  /\ UNCHANGED <<inbound, peerVars, fragVars, closed, close_sent, callVars,
                 out>>

\* close(): write the Close, then drain.  The drain is recv() again, which
\* returns Ok(None) at once on a handle that is already closed.
CallClose(payload) ==
  /\ pc = "idle"
  /\ close_sent' = TRUE
  /\ \E ok \in WriteOk :
       IF ok
         THEN /\ out' = Append(out, [opcode |-> "Close", payload |-> payload,
                                     by |-> "app"])
              /\ pc' = IF closed THEN "done" ELSE "close"
         ELSE /\ pc' = "done"
              /\ UNCHANGED out
  /\ UNCHANGED <<inbound, peerVars, fragVars, closed, max_message_size, result,
                 received>>

-----------------------------------------------------------------------------

Init ==
  /\ inbound = <<>>
  /\ link = "up"
  /\ peer = [opcode |-> None, buf |-> <<>>, closed |-> FALSE, count |-> 0]
  /\ sent = <<>>
  /\ frag_buf = <<>>
  /\ frag_opcode = None
  /\ closed = FALSE
  /\ close_sent = FALSE
  /\ max_message_size = DefaultLimit
  /\ pc = "idle"
  /\ result = None
  /\ received = <<>>
  /\ out = <<>>

Peer ==
  \/ \E f \in WireFrame : PeerSend(f)
  \/ PeerEchoClose
  \/ PeerDrop

Recv ==
  \/ CallRecv
  \/ RecvEof
  \/ inbound # <<>> /\ RecvFrame(Head(inbound))

App ==
  \/ \E kind \in DataOpcode \cup ControlOpcode, p \in AppPayloads : Send(kind, p)
  \/ \E n \in Limits : SetMaxMessageSize(n)
  \/ \E p \in AppPayloads : CallClose(p)

Next == Peer \/ Recv \/ App

Spec == Init /\ [][Next]_vars
\* tokio polls the task that owns the handle until its read is served, and a
\* conforming peer answers a Close.  Nothing makes the application call recv().
ReadStep == RecvEof \/ (inbound # <<>> /\ RecvFrame(Head(inbound)))
CloseFairness == WF_vars(ReadStep) /\ WF_vars(PeerEchoClose)
CloseSpec == Spec /\ CloseFairness

\* An application that reads in a loop, as the repository's examples do.
ReaderSpec == CloseSpec /\ WF_vars(CallRecv)
-----------------------------------------------------------------------------
(* Properties                                                               *)

\* Every variable keeps its type (the fields of struct WebSocket).
TypeOK ==
  /\ inbound \in Seq(Frame)
  /\ link \in {"up", "down"}
  /\ peer \in [opcode : DataOpcode \cup {None}, buf : Seq(Byte),
               closed : BOOLEAN, count : Nat]
  /\ sent \in Seq(Message)
  /\ frag_buf \in Seq(Byte)
  /\ frag_opcode \in DataOpcode \cup {None}
  /\ closed \in BOOLEAN
  /\ close_sent \in BOOLEAN
  /\ max_message_size \in Limits
  /\ pc \in {"idle", "recv", "close", "done"}
  /\ result \in Errors \cup {"Some", None}
  /\ received \in Seq(Message)
  /\ out \in Seq(Outgoing)

\* No text message recv() returns is invalid UTF-8, however its bytes were
\* split into frames (make_data_message runs on the reassembled payload).
TextIsUtf8 ==
  \A i \in DOMAIN received :
    received[i].kind = "Text" => received[i].data \in Utf8

\* recv() never puts a second Close on the wire, whoever sent the first: its
\* echo is guarded by close_sent, and the echo itself only by closed.
RecvNeverSecondClose ==
  \A i, j \in DOMAIN out :
    (i < j /\ out[i].opcode = "Close" /\ out[j].opcode = "Close")
      => out[j].by = "app"

\* The elements of s that are in T, in order: SelectSeq, by recursion on a prefix.
Chosen(s, T) ==
  LET chosen[n \in 0..Len(s)] ==
        IF n = 0 THEN <<>>
        ELSE IF s[n] \in T THEN Append(chosen[n - 1], s[n]) ELSE chosen[n - 1]
  IN  chosen[Len(s)]

PingMessage == [kind : {"Ping"}, data : Seq(Byte)]
AutoPong == [opcode : {"Pong"}, payload : Seq(Byte), by : {"recv"}]

\* The Pings recv() returned and the Pongs it wrote correspond one to one, in
\* order and with the same payload, the Pings read by close() included.
PongsAnswerPings ==
  LET pings == Chosen(received, PingMessage)
      pongs == Chosen(out, AutoPong)
  IN  /\ Len(pings) = Len(pongs)
      /\ \A i \in DOMAIN pings : pings[i].data = pongs[i].payload

\* The budget of max_message_size, in force when the step is taken: neither the
\* reassembly buffer nor a data message recv() returns ever grows past it.
WithinBudget ==
  [][/\ Len(frag_buf') > Len(frag_buf) => Len(frag_buf') <= max_message_size
     /\ (received' # received /\ received'[Len(received')].kind \in DataOpcode)
          => Len(received'[Len(received')].data) <= max_message_size]_vars

\* Once the handle is closed it stays closed and recv() is inert: it reads
\* nothing, returns no message and writes no reply.
ClosedIsFinal ==
  [][closed => /\ closed'
               /\ UNCHANGED <<received, fragVars>>
               /\ (out' # out => out'[Len(out')].by = "app")]_vars

\* A legal Ping or Pong never ends the connection, however small the message
\* budget is (the floor of MIN_FRAME_PAYLOAD_CAP under the frame cap).
ControlFramesReadable ==
  [][(/\ inbound # <<>> /\ inbound' = Tail(inbound) /\ link' = link
      /\ Head(inbound).wellformed /\ Head(inbound).fin
      /\ Head(inbound).opcode \in {"Ping", "Pong"}
      /\ Len(Head(inbound).payload) <= MIN_FRAME_PAYLOAD_CAP)
       => closed' = closed]_vars

\* A conforming peer is never rejected for anything but the size of a message
\* or the loss of the stream.
NoFalseRejection ==
  Conforming => result \in {"Some", None, "too_large", "io"}

\* With nothing in flight, the reassembly state is the one the conforming peer
\* believes it is in: no fragment is lost, kept too long or taken for another.
ReassemblyInSync ==
  (Conforming /\ link = "up" /\ inbound = <<>> /\ ~closed)
    => frag_buf = peer.buf /\ frag_opcode = peer.opcode

\* close() returns, provided the peer answers the Close or drops the stream.
CloseTerminates == (pc = "close") ~> (pc = "done")

DataMessage == [kind : DataOpcode, data : Seq(Byte)]

\* What the fragments, the interleaved control frames and the size checks
\* amount to: a channel that delivers the peer's data messages in order.
Channel == INSTANCE MessageChannel WITH
  posted    <- Chosen(sent, DataMessage),
  delivered <- Chosen(received, DataMessage),
  open      <- ~closed /\ pc # "done"

DeliversInOrder == Channel!FairSpec
=============================================================================
