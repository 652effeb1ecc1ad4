-------------------------- MODULE WebSocketProofs --------------------------
(***************************************************************************)
(* What WebSocket guarantees for every alphabet, limit and number of       *)
(* frames.                                                                 *)
(***************************************************************************)
EXTENDS WebSocket, WellFoundedInduction, TLAPS

\* The values recv() returns.
Result == [tag : Errors \cup {"Some"}, msgs : Seq(Message)]

\* An error is a result without a message.
LEMMA ErrType ==
  ASSUME NEW class \in Errors
  PROVE  Err(class) \in Result
BY DEF Err, Result

\* A message makes a result.
LEMMA SomeType ==
  ASSUME NEW msg \in Message
  PROVE  Some(msg) \in Result
BY DEF Some, Result

\* recv() returning a result keeps the variables it sets within their types.
LEMMA ReturnType ==
  ASSUME NEW res \in Result, received \in Seq(Message), Return(res)
  PROVE  /\ pc' \in {"idle", "recv", "close", "done"}
         /\ result' \in Errors \cup {"Some", None}
         /\ received' \in Seq(Message)
BY DEF Return, Result

\* make_data_message returns a message or an error.
LEMMA MakeDataMessageType ==
  ASSUME NEW opcode \in DataOpcode, NEW data \in Seq(Byte)
  PROVE  MakeDataMessage(opcode, data) \in Result
<1>1. Err("utf8") \in Result
  BY ErrType DEF Errors
<1>2. Msg(opcode, data) \in Message
  BY DEF Msg, Message
<1>3. Some(Msg(opcode, data)) \in Result
  BY <1>2, SomeType
<1>. QED  BY <1>1, <1>3 DEF MakeDataMessage

\* parse_close_frame returns a message.
LEMMA ParseCloseFrameType ==
  ASSUME NEW payload \in Seq(Byte)
  PROVE  ParseCloseFrame(payload) \in Message
BY DEF ParseCloseFrame, Msg, Message, ControlOpcode

\* The frames a peer writes are frames.
LEMMA WireFrameType ==
  ASSUME NEW f \in WireFrame
  PROVE  f \in Frame
<1>1. CASE f \in [wellformed : {TRUE}, fin : BOOLEAN, opcode : Opcode,
                  payload : Payloads]
  <2>1. f.payload \in Seq(Byte)
    BY <1>1, WebSocketAssumption
  <2>2. f = [wellformed |-> f.wellformed, fin |-> f.fin, opcode |-> f.opcode,
             payload |-> f.payload]
    BY <1>1
  <2>. QED  BY <1>1, <2>1, <2>2 DEF Frame
<1>2. CASE f = [wellformed |-> FALSE, fin |-> TRUE, opcode |-> "Text",
                payload |-> <<>>]
  BY <1>2 DEF Frame, Opcode, DataOpcode
<1>. QED  BY <1>1, <1>2 DEF WireFrame

PeerState == [opcode : DataOpcode \cup {None}, buf : Seq(Byte),
              closed : BOOLEAN, count : Nat]

\* The peer's own account of a frame it may send keeps its type.
LEMMA AccountType ==
  ASSUME peer \in PeerState, sent \in Seq(Message), NEW f \in Frame, Account(f),
         Conforming /\ f.opcode = "Continuation" => peer.opcode # None
  PROVE  peer' \in PeerState /\ sent' \in Seq(Message)
<1>a. f.payload \in Seq(Byte) /\ f.opcode \in Opcode
  BY DEF Frame
<1>b. ASSUME NEW opcode \in DataOpcode \cup {None}, NEW buf \in Seq(Byte),
             NEW shut \in BOOLEAN
      PROVE  Peered(opcode, buf, shut) \in PeerState
  BY DEF Peered, PeerState
<1>c. /\ peer.opcode \in DataOpcode \cup {None} /\ peer.buf \in Seq(Byte)
      /\ peer.closed \in BOOLEAN
  BY DEF PeerState
<1>1. CASE /\ ~Conforming
           /\ peer' = Peered(peer.opcode, peer.buf, peer.closed)
           /\ UNCHANGED sent
  BY <1>1, <1>b, <1>c
<1>2. CASE /\ Conforming /\ f.opcode \in ControlOpcode
           /\ sent' = Append(sent, IF f.opcode = "Close"
                                     THEN ParseCloseFrame(f.payload)
                                     ELSE Msg(f.opcode, f.payload))
           /\ peer' = Peered(peer.opcode, peer.buf,
                             peer.closed \/ f.opcode = "Close")
  <2>1. /\ ParseCloseFrame(f.payload) \in Message
        /\ Msg(f.opcode, f.payload) \in Message
    BY <1>a, <1>2, ParseCloseFrameType DEF Msg, Message
  <2>2. sent' \in Seq(Message)
    BY <1>2, <2>1
  <2>3. (peer.closed \/ f.opcode = "Close") \in BOOLEAN
    OBVIOUS
  <2>4. peer' \in PeerState
    BY <1>2, <1>b, <1>c, <2>3
  <2>. QED  BY <2>2, <2>4
<1>3. CASE /\ Conforming /\ f.opcode \in DataOpcode /\ f.fin
           /\ sent' = Append(sent, Msg(f.opcode, f.payload))
           /\ peer' = Peered(peer.opcode, peer.buf, peer.closed)
  <2>1. Msg(f.opcode, f.payload) \in Message
    BY <1>a, <1>3 DEF Msg, Message
  <2>2. sent' \in Seq(Message)
    BY <1>3, <2>1
  <2>3. peer' \in PeerState
    BY <1>3, <1>b, <1>c
  <2>. QED  BY <2>2, <2>3
<1>4. CASE /\ Conforming /\ f.opcode \in DataOpcode /\ ~f.fin
           /\ peer' = Peered(f.opcode, f.payload, peer.closed)
           /\ UNCHANGED sent
  BY <1>a, <1>b, <1>c, <1>4
<1>5. CASE /\ Conforming /\ f.opcode = "Continuation" /\ f.fin
           /\ sent' = Append(sent, Msg(peer.opcode, peer.buf \o f.payload))
           /\ peer' = Peered(None, <<>>, peer.closed)
  <2>1. Msg(peer.opcode, peer.buf \o f.payload) \in Message
    BY <1>a, <1>c, <1>5 DEF Msg, Message
  <2>2. <<>> \in Seq(Byte)
    OBVIOUS
  <2>3. sent' \in Seq(Message)
    BY <1>5, <2>1
  <2>4. peer' \in PeerState
    BY <1>5, <1>b, <1>c, <2>2
  <2>. QED  BY <2>3, <2>4
<1>6. CASE /\ Conforming /\ f.opcode = "Continuation" /\ ~f.fin
           /\ peer' = Peered(peer.opcode, peer.buf \o f.payload, peer.closed)
           /\ UNCHANGED sent
  <2>1. peer.buf \o f.payload \in Seq(Byte)
    BY <1>a, <1>c
  <2>. QED  BY <1>6, <1>b, <1>c, <2>1
<1>. QED  BY <1>1, <1>2, <1>3, <1>4, <1>5, <1>6 DEF Account

-----------------------------------------------------------------------------

\* What recv() does with a frame keeps every variable within its type.
LEMMA RecvFrameType ==
  ASSUME TypeOK, inbound # <<>>, NEW f \in Frame, RecvFrame(f)
  PROVE  TypeOK'
<1>a. /\ f.payload \in Seq(Byte) /\ f.opcode \in Opcode
      /\ f.wellformed \in BOOLEAN /\ f.fin \in BOOLEAN
  BY DEF Frame
<1>b. Tail(inbound) \in Seq(Frame)
  BY DEF TypeOK
<1>c. /\ frag_buf \in Seq(Byte) /\ frag_buf \o f.payload \in Seq(Byte)
      /\ <<>> \in Seq(Byte)
  BY <1>a DEF TypeOK
<1>d. ASSUME NEW opcode \in {"Close", "Pong"}, Reply(opcode, f.payload)
      PROVE  out' \in Seq(Outgoing)
  <2>1. [opcode |-> opcode, payload |-> f.payload, by |-> "recv"] \in Outgoing
    BY <1>a DEF Outgoing, ControlOpcode
  <2>. QED  BY <1>d, <2>1 DEF Reply, TypeOK
<1>e. received \in Seq(Message)
  BY DEF TypeOK
<1>f. Err("io") \in Result /\ Err("orphan") \in Result
      /\ Err("sequence") \in Result /\ Err("too_large") \in Result
  BY ErrType DEF Errors
<1>1. CASE RecvBadFrame(f)
  <2>1. ReadFrame(f) \in Errors
    BY <1>1 DEF RecvBadFrame, ReadFrame, Errors, None
  <2>2. Err(ReadFrame(f)) \in Result
    BY <2>1, ErrType
  <2>. QED  BY <1>1, <1>b, <1>e, <2>2, ReturnType
            DEF TypeOK, RecvBadFrame, Incoming, peerVars, fragVars
<1>2. CASE RecvPing(f)
  <2>1. PICK ok \in WriteOk :
          /\ IF ok THEN Reply("Pong", f.payload) ELSE UNCHANGED out
          /\ Return(PingResult(ok, f))
    BY <1>2 DEF RecvPing
  <2>2. Msg("Ping", f.payload) \in Message
    BY <1>a DEF Msg, Message, ControlOpcode
  <2>3. PingResult(ok, f) \in Result
    BY <1>f, <2>2, SomeType DEF PingResult
  <2>4. out' \in Seq(Outgoing)
    BY <1>d, <2>1 DEF TypeOK
  <2>. QED  BY <1>2, <1>b, <1>e, <2>1, <2>3, <2>4, ReturnType
            DEF TypeOK, RecvPing, Incoming, peerVars, fragVars
<1>3. CASE RecvPong(f)
  <2>1. Msg("Pong", f.payload) \in Message
    BY <1>a DEF Msg, Message, ControlOpcode
  <2>2. Some(Msg("Pong", f.payload)) \in Result
    BY <2>1, SomeType
  <2>. QED  BY <1>3, <1>b, <1>e, <2>2, ReturnType
            DEF TypeOK, RecvPong, Incoming, peerVars, fragVars
<1>4. CASE RecvClose(f)
  <2>1. ParseCloseFrame(f.payload) \in Message
    BY <1>a, ParseCloseFrameType
  <2>2. Some(ParseCloseFrame(f.payload)) \in Result
    BY <2>1, SomeType
  <2>3. /\ pc' \in {"idle", "recv", "close", "done"}
        /\ result' \in Errors \cup {"Some", None}
        /\ received' \in Seq(Message)
    BY <1>4, <1>e, <1>f, <2>2, ReturnType DEF RecvClose
  <2>4. out' \in Seq(Outgoing)
    BY <1>4, <1>d DEF RecvClose, TypeOK
  <2>. QED  BY <1>4, <1>b, <2>3, <2>4
            DEF TypeOK, RecvClose, Incoming, peerVars, fragVars
<1>5. CASE RecvOverLimit(f)
  BY <1>5, <1>b, <1>c, <1>e, <1>f, ReturnType
     DEF TypeOK, RecvOverLimit, DataArm, Incoming, peerVars
<1>6. CASE RecvWhole(f)
  <2>1. MakeDataMessage(f.opcode, f.payload) \in Result
    BY <1>6, <1>a, MakeDataMessageType DEF RecvWhole
  <2>. QED  BY <1>6, <1>b, <1>e, <2>1, ReturnType
            DEF TypeOK, RecvWhole, DataArm, Incoming, peerVars, fragVars
<1>7. CASE RecvFirstFragment(f)
  BY <1>7, <1>a, <1>b
     DEF TypeOK, RecvFirstFragment, DataArm, Incoming, peerVars, callVars
<1>8. CASE RecvMiddle(f)
  BY <1>8, <1>b, <1>c DEF TypeOK, RecvMiddle, BufferFragment, DataArm, Incoming,
                          peerVars, callVars
<1>9. CASE RecvOrphan(f)
  BY <1>9, <1>b, <1>c, <1>e, <1>f, ReturnType
     DEF TypeOK, RecvOrphan, BufferFragment, DataArm, Incoming, peerVars
<1>10. CASE RecvFinal(f)
  <2>1. MakeDataMessage(frag_opcode, Reassembled(f)) \in Result
    BY <1>10, <1>c, MakeDataMessageType DEF RecvFinal, Reassembled, TypeOK
  <2>. QED  BY <1>10, <1>b, <1>c, <1>e, <2>1, ReturnType
            DEF TypeOK, RecvFinal, TakeFragments, DataArm, Incoming, peerVars
<1>11. CASE RecvUnexpected(f)
  BY <1>11, <1>b, <1>e, <1>f, ReturnType
     DEF TypeOK, RecvUnexpected, Incoming, peerVars, fragVars
<1>. QED  BY <1>1, <1>2, <1>3, <1>4, <1>5, <1>6, <1>7, <1>8, <1>9, <1>10, <1>11
          DEF RecvFrame

\* The peer's frame, whatever it is, keeps every variable within its type.
LEMMA PeerType ==
  ASSUME TypeOK, Peer
  PROVE  TypeOK'
<1>a. peer \in PeerState /\ sent \in Seq(Message)
  BY DEF TypeOK, PeerState
<1>1. CASE \E f \in WireFrame : PeerSend(f)
  <2>1. PICK f \in WireFrame : PeerSend(f)
    BY <1>1
  <2>2. f \in Frame
    BY WireFrameType
  <2>3. Conforming /\ f.opcode = "Continuation" => peer.opcode # None
    BY <2>1 DEF PeerSend, LegalFrame
  <2>4. Account(f)
    BY <2>1 DEF PeerSend
  <2>5. peer' \in PeerState /\ sent' \in Seq(Message)
    BY <1>a, <2>2, <2>3, <2>4, AccountType
  <2>6. inbound' \in Seq(Frame)
    BY <2>1, <2>2 DEF PeerSend, TypeOK
  <2>. QED  BY <2>1, <2>5, <2>6
            DEF TypeOK, PeerSend, PeerState, handleVars, fragVars, callVars
<1>2. CASE PeerEchoClose
  <2> DEFINE f == [wellformed |-> TRUE, fin |-> TRUE, opcode |-> "Close",
                   payload |-> <<>>]
  <2>1. inbound' = Append(inbound, f) /\ Account(f)
    BY <1>2 DEF PeerEchoClose
  <2>2. f \in Frame /\ f.opcode # "Continuation"
    BY DEF Frame, Opcode, ControlOpcode
  <2>3. inbound' \in Seq(Frame)
    BY <2>1, <2>2 DEF TypeOK
  <2>4. Account(f) /\ f \in Frame /\ f.opcode # "Continuation"
    BY <2>1, <2>2
  <2> HIDE DEF f
  <2>5. peer' \in PeerState /\ sent' \in Seq(Message)
    BY <1>a, <2>4, AccountType
  <2>. QED  BY <1>2, <2>3, <2>5
            DEF TypeOK, PeerEchoClose, PeerState, handleVars, fragVars, callVars
<1>3. CASE PeerDrop
  <2>1. PICK n \in 0..Len(inbound) : inbound' = SubSeq(inbound, 1, n)
    BY <1>3 DEF PeerDrop
  <2>2. inbound' \in Seq(Frame)
    BY <2>1 DEF TypeOK
  <2>. QED  BY <1>3, <2>2 DEF TypeOK, PeerDrop, handleVars, fragVars, callVars
<1>. QED  BY <1>1, <1>2, <1>3 DEF Peer

\* The application's other calls keep every variable within its type.
LEMMA AppType ==
  ASSUME TypeOK, App
  PROVE  TypeOK'
<1>a. AppPayloads \subseteq Seq(Byte)
  BY WebSocketAssumption
<1>b. ASSUME NEW kind \in DataOpcode \cup ControlOpcode, NEW p \in AppPayloads
      PROVE  [opcode |-> kind, payload |-> p, by |-> "app"] \in Outgoing
  BY <1>a DEF Outgoing
<1>1. CASE \E kind \in DataOpcode \cup ControlOpcode, p \in AppPayloads :
             Send(kind, p)
  <2>1. PICK kind \in DataOpcode \cup ControlOpcode, p \in AppPayloads :
          Send(kind, p)
    BY <1>1
  <2>2. out' \in Seq(Outgoing)
    BY <1>b, <2>1 DEF Send, TypeOK
  <2>3. closed' \in BOOLEAN /\ close_sent' \in BOOLEAN
    BY <2>1 DEF Send
  <2>. QED  BY <2>1, <2>2, <2>3
            DEF TypeOK, Send, peerVars, fragVars, callVars
<1>2. CASE \E n \in Limits : SetMaxMessageSize(n)
  BY <1>2 DEF TypeOK, SetMaxMessageSize, peerVars, fragVars, callVars
<1>3. CASE \E p \in AppPayloads : CallClose(p)
  <2>1. PICK p \in AppPayloads : CallClose(p)
    BY <1>3
  <2>2. [opcode |-> "Close", payload |-> p, by |-> "app"] \in Outgoing
    BY <1>b DEF ControlOpcode
  <2> DEFINE o == [opcode |-> "Close", payload |-> p, by |-> "app"]
  <2>5. out' = out \/ out' = Append(out, o)
    BY <2>1 DEF CallClose
  <2>6. o \in Outgoing /\ out \in Seq(Outgoing)
    BY <2>2 DEF TypeOK
  <2> HIDE DEF o
  <2>3. out' \in Seq(Outgoing)
    BY <2>5, <2>6
  <2>4. pc' \in {"idle", "recv", "close", "done"}
    BY <2>1 DEF CallClose
  <2>. QED  BY <2>1, <2>3, <2>4 DEF TypeOK, CallClose, peerVars, fragVars
<1>. QED  BY <1>1, <1>2, <1>3 DEF App

\* Starting a recv(), and the end of the stream, keep the types.
LEMMA RecvType ==
  ASSUME TypeOK, Recv
  PROVE  TypeOK'
<1>1. CASE CallRecv
  BY <1>1 DEF TypeOK, CallRecv, peerVars, fragVars
<1>2. CASE RecvEof
  <2>1. Err("io") \in Result /\ received \in Seq(Message)
    BY ErrType DEF Errors, TypeOK
  <2>. QED  BY <1>2, <2>1, ReturnType DEF TypeOK, RecvEof, peerVars, fragVars
<1>3. CASE inbound # <<>> /\ RecvFrame(Head(inbound))
  <2>1. Head(inbound) \in Frame
    BY <1>3 DEF TypeOK
  <2>. QED  BY <1>3, <2>1, RecvFrameType
<1>. QED  BY <1>1, <1>2, <1>3 DEF Recv

\* The initial state is well typed: a fresh handle on an idle stream.
LEMMA InitType ==
  ASSUME Init
  PROVE  TypeOK
<1>1. peer \in [opcode : DataOpcode \cup {None}, buf : Seq(Byte),
                closed : BOOLEAN, count : Nat]
  BY DEF Init
<1>2. /\ inbound \in Seq(Frame) /\ sent \in Seq(Message)
      /\ frag_buf \in Seq(Byte) /\ received \in Seq(Message)
      /\ out \in Seq(Outgoing)
  BY DEF Init
<1>3. max_message_size \in Limits
  BY WebSocketAssumption DEF Init
<1>4. /\ link \in {"up", "down"} /\ pc \in {"idle", "recv", "close", "done"}
      /\ frag_opcode \in DataOpcode \cup {None}
      /\ result \in Errors \cup {"Some", None}
      /\ closed \in BOOLEAN /\ close_sent \in BOOLEAN
  BY DEF Init
<1>. QED  BY <1>1, <1>2, <1>3, <1>4 DEF TypeOK

\* The handle's fields, the wire and the histories keep their types, whatever
\* the peer sends and the application calls (struct WebSocket, ws.rs).
THEOREM TypeCorrect == Spec => []TypeOK
<1>1. Init => TypeOK
  BY InitType
<1>2. ASSUME TypeOK, [Next]_vars
      PROVE  TypeOK'
  <2>1. CASE Next
    BY <1>2, <2>1, PeerType, RecvType, AppType DEF Next
  <2>2. CASE UNCHANGED vars
    BY <1>2, <2>2 DEF TypeOK, vars, peerVars, fragVars, callVars
  <2>. QED  BY <1>2, <2>1, <2>2
<1>. QED  BY <1>1, <1>2, PTL DEF Spec

-----------------------------------------------------------------------------
(* One Close                                                                *)

\* recv() and the drain of close() only run on an open handle.
HandleOpen == pc \in {"recv", "close"} => ~closed

\* A Close on the wire is remembered by one of the two flags: close_sent after
\* send() and close(), closed after the echo.
CloseAccounted ==
  (\E i \in DOMAIN out : out[i].opcode = "Close") => close_sent \/ closed

CloseInv == TypeOK /\ HandleOpen /\ CloseAccounted /\ RecvNeverSecondClose

\* recv() returns to the application, and the drain ends on whatever is not a
\* message other than a Close.
LEMMA ReturnPc ==
  ASSUME NEW res, Return(res), pc \in {"recv", "close"}
  PROVE  /\ pc = "recv" => pc' = "idle"
         /\ (res.tag # "Some" \/ res.msgs[1].kind = "Close")
              => pc' \in {"idle", "done"}
BY DEF Return

\* An error never keeps the drain going.
LEMMA ErrEnds ==
  ASSUME NEW class \in Errors, Return(Err(class)), pc \in {"recv", "close"}
  PROVE  pc' \in {"idle", "done"}
<1>1. Err(class).tag # "Some"
  BY DEF Err, Errors
<1>. QED  BY <1>1, ReturnPc

\* What a frame can do to the stream and to the flags: nothing, a Pong, or the
\* echo of a Close, which closes the handle.
LEMMA RecvFrameOut ==
  ASSUME TypeOK, NEW f \in Frame, RecvFrame(f)
  PROVE  /\ pc \in {"recv", "close"}
         /\ close_sent' = close_sent
         /\ closed => closed'
         /\ \/ out' = out
            \/ /\ out' = Append(out, [opcode |-> "Pong", payload |-> f.payload,
                                      by |-> "recv"])
            \/ /\ out' = Append(out, [opcode |-> "Close", payload |-> f.payload,
                                      by |-> "recv"])
               /\ ~close_sent /\ closed'
<1>1. CASE RecvBadFrame(f)
  BY <1>1 DEF RecvBadFrame, Incoming
<1>2. CASE RecvPing(f)
  BY <1>2 DEF RecvPing, Incoming, Reply
<1>3. CASE RecvPong(f)
  BY <1>3 DEF RecvPong, Incoming
<1>4. CASE RecvClose(f)
  <2>1. pc \in {"recv", "close"} /\ close_sent' = close_sent
    BY <1>4 DEF RecvClose, Incoming
  <2>2. CASE UNCHANGED <<out, closed>>
    BY <2>1, <2>2
  <2>3. CASE /\ IF EchoDue THEN Reply("Close", f.payload) ELSE UNCHANGED out
             /\ closed' = TRUE
    BY <2>1, <2>3 DEF Reply, EchoDue
  <2>. QED  BY <1>4, <2>2, <2>3 DEF RecvClose
<1>5. CASE RecvOverLimit(f)
  BY <1>5 DEF RecvOverLimit, DataArm, Incoming
<1>6. CASE RecvWhole(f)
  BY <1>6 DEF RecvWhole, DataArm, Incoming
<1>7. CASE RecvFirstFragment(f)
  BY <1>7 DEF RecvFirstFragment, DataArm, Incoming
<1>8. CASE RecvMiddle(f)
  BY <1>8 DEF RecvMiddle, DataArm, Incoming
<1>9. CASE RecvOrphan(f)
  BY <1>9 DEF RecvOrphan, DataArm, Incoming
<1>10. CASE RecvFinal(f)
  BY <1>10 DEF RecvFinal, DataArm, Incoming
<1>11. CASE RecvUnexpected(f)
  BY <1>11 DEF RecvUnexpected, Incoming
<1>. QED  BY <1>1, <1>2, <1>3, <1>4, <1>5, <1>6, <1>7, <1>8, <1>9, <1>10, <1>11
          DEF RecvFrame

\* A frame that closes the handle also ends the call it was read by.
LEMMA RecvFrameHandle ==
  ASSUME TypeOK, HandleOpen, NEW f \in Frame, RecvFrame(f)
  PROVE  HandleOpen'
<1>1. CASE RecvBadFrame(f)
  <2>1. ReadFrame(f) \in Errors
    BY <1>1 DEF RecvBadFrame, ReadFrame, Errors, None
  <2>. QED  BY <1>1, <2>1, ErrEnds DEF RecvBadFrame, Incoming, HandleOpen
<1>2. CASE RecvClose(f)
  <2>1. CASE Return(Err("io"))
    BY <1>2, <2>1, ErrEnds DEF RecvClose, Incoming, HandleOpen, Errors
  <2>2. CASE Return(Some(ParseCloseFrame(f.payload)))
    <3>1. Some(ParseCloseFrame(f.payload)).msgs[1].kind = "Close"
      BY DEF Some, ParseCloseFrame, Msg
    <3>. QED  BY <1>2, <2>2, <3>1, ReturnPc DEF RecvClose, Incoming, HandleOpen
  <2>. QED  BY <1>2, <2>1, <2>2 DEF RecvClose
<1>3. CASE RecvOverLimit(f)
  BY <1>3, ErrEnds DEF RecvOverLimit, DataArm, Incoming, HandleOpen, Errors
<1>4. CASE UNCHANGED closed
  <2>1. pc \in {"recv", "close"}
    BY RecvFrameOut
  <2>. QED  BY <1>4, <2>1 DEF HandleOpen
<1>. QED  BY <1>1, <1>2, <1>3, <1>4
          DEF RecvFrame, RecvPing, RecvPong, RecvWhole, RecvFirstFragment,
              RecvMiddle, RecvOrphan, RecvFinal, RecvUnexpected

\* Appending a frame keeps the two facts about Close frames, if the frame is no
\* Close of recv()'s or the first Close, and a Close is accounted for.
LEMMA AppendOut ==
  ASSUME TypeOK, CloseAccounted, RecvNeverSecondClose,
         NEW o \in Outgoing, out' = Append(out, o),
         o.opcode = "Close" /\ o.by = "recv"
           => ~(\E i \in DOMAIN out : out[i].opcode = "Close"),
         o.opcode = "Close" => close_sent' \/ closed',
         close_sent => close_sent', closed => closed'
  PROVE  CloseAccounted' /\ RecvNeverSecondClose'
<1>1. /\ DOMAIN out = 1..Len(out) /\ DOMAIN out' = 1..Len(out) + 1
      /\ \A i \in 1..Len(out) : out'[i] = out[i]
      /\ out'[Len(out) + 1] = o
      /\ Len(out) \in Nat
  BY DEF TypeOK
<1>2. CloseAccounted'
  <2>1. CASE \E i \in DOMAIN out : out[i].opcode = "Close"
    BY <2>1 DEF CloseAccounted
  <2>2. CASE ~(\E i \in DOMAIN out : out[i].opcode = "Close")
    <3>1. (\E i \in DOMAIN out' : out'[i].opcode = "Close") => o.opcode = "Close"
      BY <1>1, <2>2
    <3>. QED  BY <3>1 DEF CloseAccounted
  <2>. QED  BY <2>1, <2>2
<1>3. RecvNeverSecondClose'
  <2>1. SUFFICES ASSUME NEW i \in DOMAIN out', NEW j \in DOMAIN out', i < j,
                        out'[i].opcode = "Close", out'[j].opcode = "Close"
                 PROVE  out'[j].by = "app"
    BY DEF RecvNeverSecondClose
  <2>2. i \in DOMAIN out /\ out[i].opcode = "Close"
    BY <1>1, <2>1
  <2>3. CASE j \in DOMAIN out
    BY <1>1, <2>1, <2>2, <2>3 DEF RecvNeverSecondClose
  <2>4. CASE j = Len(out) + 1
    BY <1>1, <2>1, <2>2, <2>4 DEF Outgoing
  <2>. QED  BY <1>1, <2>1, <2>3, <2>4
<1>. QED  BY <1>2, <1>3

\* Every step keeps the facts about Close frames.
LEMMA CloseStep ==
  ASSUME CloseInv, Next
  PROVE  CloseInv'
<1>a. TypeOK'
  BY PeerType, RecvType, AppType DEF CloseInv, Next
<1>b. TypeOK /\ HandleOpen /\ CloseAccounted /\ RecvNeverSecondClose
  BY DEF CloseInv
<1>c. ASSUME UNCHANGED <<out, closed, close_sent>>
      PROVE  CloseAccounted' /\ RecvNeverSecondClose'
  BY <1>b, <1>c DEF CloseAccounted, RecvNeverSecondClose
<1>1. CASE Peer
  <2>1. UNCHANGED handleVars
    BY <1>1 DEF Peer, PeerSend, PeerEchoClose, PeerDrop
  <2>2. UNCHANGED <<out, closed, close_sent, pc>>
    BY <2>1 DEF handleVars, callVars
  <2>3. HandleOpen'
    BY <1>b, <2>2 DEF HandleOpen
  <2>. QED  BY <1>a, <1>c, <2>2, <2>3 DEF CloseInv
<1>2. CASE CallRecv
  <2>1. UNCHANGED <<out, closed, close_sent>>
    BY <1>2 DEF CallRecv
  <2>2. HandleOpen'
    BY <1>b, <1>2 DEF CallRecv, MayRead, HandleOpen
  <2>. QED  BY <1>a, <1>c, <2>1, <2>2 DEF CloseInv
<1>3. CASE RecvEof
  <2>1. UNCHANGED <<out, close_sent>> /\ closed'
    BY <1>3 DEF RecvEof
  <2>2. HandleOpen'
    BY <1>3, ErrEnds DEF RecvEof, Errors, HandleOpen
  <2>3. CloseAccounted' /\ RecvNeverSecondClose'
    BY <1>b, <2>1 DEF CloseAccounted, RecvNeverSecondClose
  <2>. QED  BY <1>a, <2>2, <2>3 DEF CloseInv
<1>4. CASE inbound # <<>> /\ RecvFrame(Head(inbound))
  <2> DEFINE f == Head(inbound)
             pong == [opcode |-> "Pong", payload |-> f.payload, by |-> "recv"]
             echo == [opcode |-> "Close", payload |-> f.payload, by |-> "recv"]
  <2>1. f \in Frame /\ RecvFrame(f)
    BY <1>b, <1>4 DEF TypeOK
  <2>2. f.payload \in Seq(Byte)
    BY <2>1 DEF Frame
  <2>3. pong \in Outgoing /\ echo \in Outgoing
    BY <2>2 DEF Outgoing, ControlOpcode
  <2>4. pong.opcode # "Close" /\ echo.opcode = "Close"
    OBVIOUS
  <2>5. /\ pc \in {"recv", "close"}
        /\ close_sent' = close_sent
        /\ closed => closed'
        /\ \/ out' = out
           \/ out' = Append(out, pong)
           \/ out' = Append(out, echo) /\ ~close_sent /\ closed'
    BY <1>b, <2>1, RecvFrameOut
  <2>6. HandleOpen'
    BY <1>b, <2>1, RecvFrameHandle
  <2> HIDE DEF f, pong, echo
  <2>7. CloseAccounted' /\ RecvNeverSecondClose'
    <3>1. CASE out' = out
      BY <1>b, <2>5, <3>1 DEF CloseAccounted, RecvNeverSecondClose
    <3>2. CASE out' = Append(out, pong)
      BY <1>b, <2>3, <2>4, <2>5, <3>2, AppendOut
    <3>3. CASE out' = Append(out, echo) /\ ~close_sent /\ closed'
      <4>1. ~(\E i \in DOMAIN out : out[i].opcode = "Close")
        BY <1>b, <2>5, <3>3 DEF HandleOpen, CloseAccounted
      <4>. QED  BY <1>b, <2>3, <2>5, <3>3, <4>1, AppendOut
    <3>. QED  BY <2>5, <3>1, <3>2, <3>3
  <2>. QED  BY <1>a, <2>6, <2>7 DEF CloseInv
<1>5. CASE \E kind \in DataOpcode \cup ControlOpcode, p \in AppPayloads :
             Send(kind, p)
  <2>1. PICK kind \in DataOpcode \cup ControlOpcode, p \in AppPayloads :
          Send(kind, p)
    BY <1>5
  <2> DEFINE o == [opcode |-> kind, payload |-> p, by |-> "app"]
  <2>2. o \in Outgoing /\ o.by # "recv" /\ o.opcode = kind
    BY WebSocketAssumption DEF Outgoing
  <2>3. out' = out \/ out' = Append(out, o)
    BY <2>1 DEF Send
  <2>4. /\ close_sent' = (close_sent \/ kind = "Close")
        /\ closed' = (closed \/ kind = "Close")
    BY <2>1 DEF Send
  <2>5. HandleOpen'
    BY <2>1 DEF Send, callVars, HandleOpen
  <2> HIDE DEF o
  <2>6. CloseAccounted' /\ RecvNeverSecondClose'
    <3>1. CASE out' = out
      BY <1>b, <2>4, <3>1 DEF CloseAccounted, RecvNeverSecondClose
    <3>2. CASE out' = Append(out, o)
      BY <1>b, <2>2, <2>4, <3>2, AppendOut
    <3>. QED  BY <2>3, <3>1, <3>2
  <2>. QED  BY <1>a, <2>5, <2>6 DEF CloseInv
<1>6. CASE \E n \in Limits : SetMaxMessageSize(n)
  <2>1. UNCHANGED <<out, closed, close_sent>> /\ pc' = pc
    BY <1>6 DEF SetMaxMessageSize, callVars
  <2>2. HandleOpen'
    BY <1>b, <2>1 DEF HandleOpen
  <2>. QED  BY <1>a, <1>c, <2>1, <2>2 DEF CloseInv
<1>7. CASE \E p \in AppPayloads : CallClose(p)
  <2>1. PICK p \in AppPayloads : CallClose(p)
    BY <1>7
  <2> DEFINE o == [opcode |-> "Close", payload |-> p, by |-> "app"]
  <2>2. o \in Outgoing /\ o.by # "recv"
    BY WebSocketAssumption DEF Outgoing, ControlOpcode
  <2>3. out' = out \/ out' = Append(out, o)
    BY <2>1 DEF CallClose
  <2>4. close_sent' = TRUE /\ closed' = closed
    BY <2>1 DEF CallClose
  <2>5. HandleOpen'
    BY <2>1 DEF CallClose, HandleOpen
  <2> HIDE DEF o
  <2>6. CloseAccounted' /\ RecvNeverSecondClose'
    <3>1. CASE out' = out
      BY <1>b, <2>4, <3>1 DEF CloseAccounted, RecvNeverSecondClose
    <3>2. CASE out' = Append(out, o)
      BY <1>b, <2>2, <2>4, <3>2, AppendOut
    <3>. QED  BY <2>3, <3>1, <3>2
  <2>. QED  BY <1>a, <2>5, <2>6 DEF CloseInv
<1>. QED  BY <1>1, <1>2, <1>3, <1>4, <1>5, <1>6, <1>7 DEF Next, Recv, App

\* The invariant of the three facts about Close frames.
LEMMA CloseInvariant == Spec => []CloseInv
<1>1. Init => CloseInv
  <2>1. Init => TypeOK
    BY InitType
  <2>2. Init => HandleOpen /\ CloseAccounted /\ RecvNeverSecondClose
    BY DEF Init, HandleOpen, CloseAccounted, RecvNeverSecondClose
  <2>. QED  BY <2>1, <2>2 DEF CloseInv
<1>2. ASSUME CloseInv, UNCHANGED vars
      PROVE  CloseInv'
  BY <1>2 DEF CloseInv, TypeOK, HandleOpen, CloseAccounted,
              RecvNeverSecondClose, vars, peerVars, fragVars, callVars
<1>. QED  BY <1>1, <1>2, CloseStep, PTL DEF Spec

\* However the peer's Close, the application's send() and close(), a failed
\* write and a dropped stream interleave, recv() never writes a second Close
\* (the close_sent guard of the echo, ws.rs).
THEOREM OneClose == Spec => []RecvNeverSecondClose
<1>1. CloseInv => RecvNeverSecondClose
  BY DEF CloseInv
<1>. QED  BY <1>1, CloseInvariant, PTL

\* recv() is inert once the handle is closed (the early return on `closed' at
\* the head of recv(), which the drain of close() relies on too).
THEOREM ClosedForGood == Spec => ClosedIsFinal
<1> DEFINE Inert == closed => /\ closed'
                              /\ UNCHANGED <<received, fragVars>>
                              /\ (out' # out => out'[Len(out')].by = "app")
<1>1. ASSUME CloseInv, Next, closed
      PROVE  /\ closed'
             /\ UNCHANGED <<received, fragVars>>
             /\ (out' # out => out'[Len(out')].by = "app")
  <2>1. pc \notin {"recv", "close"} /\ out \in Seq(Outgoing)
    BY <1>1 DEF CloseInv, HandleOpen, TypeOK
  <2>a. ASSUME NEW o \in Outgoing, out' = Append(out, o), o.by = "app"
        PROVE  out'[Len(out')].by = "app"
    <3>1. out'[Len(out')] = o
      BY <2>1, <2>a
    <3>. QED  BY <2>a, <3>1
  <2>2. CASE Peer
    <3>1. UNCHANGED handleVars
      BY <2>2 DEF Peer, PeerSend, PeerEchoClose, PeerDrop
    <3>. QED  BY <1>1, <3>1 DEF handleVars, fragVars, callVars
  <2>3. CASE Recv
    <3>1. ~RecvEof
      BY <2>1 DEF RecvEof
    <3>2. ~(inbound # <<>> /\ RecvFrame(Head(inbound)))
      <4>1. inbound # <<>> => Head(inbound) \in Frame
        BY <1>1 DEF CloseInv, TypeOK
      <4>. QED  BY <1>1, <2>1, <4>1, RecvFrameOut DEF CloseInv
    <3>. QED  BY <1>1, <2>3, <3>1, <3>2 DEF Recv, CallRecv, fragVars
  <2>4. CASE \E kind \in DataOpcode \cup ControlOpcode, p \in AppPayloads :
               Send(kind, p)
    <3>1. PICK kind \in DataOpcode \cup ControlOpcode, p \in AppPayloads :
            Send(kind, p)
      BY <2>4
    <3> DEFINE o == [opcode |-> kind, payload |-> p, by |-> "app"]
    <3>2. o \in Outgoing /\ o.by = "app"
      BY WebSocketAssumption DEF Outgoing
    <3>3. out' = out \/ out' = Append(out, o)
      BY <3>1 DEF Send
    <3>4. closed' /\ UNCHANGED <<received, fragVars>>
      BY <1>1, <3>1 DEF Send, callVars
    <3> HIDE DEF o
    <3>. QED  BY <2>a, <3>2, <3>3, <3>4
  <2>5. CASE \E n \in Limits : SetMaxMessageSize(n)
    BY <1>1, <2>5 DEF SetMaxMessageSize, callVars
  <2>6. CASE \E p \in AppPayloads : CallClose(p)
    <3>1. PICK p \in AppPayloads : CallClose(p)
      BY <2>6
    <3> DEFINE o == [opcode |-> "Close", payload |-> p, by |-> "app"]
    <3>2. o \in Outgoing /\ o.by = "app"
      BY WebSocketAssumption DEF Outgoing, ControlOpcode
    <3>3. out' = out \/ out' = Append(out, o)
      BY <3>1 DEF CallClose
    <3>4. closed' /\ UNCHANGED <<received, fragVars>>
      BY <1>1, <3>1 DEF CallClose
    <3> HIDE DEF o
    <3>. QED  BY <2>a, <3>2, <3>3, <3>4
  <2>. QED  BY <1>1, <2>2, <2>3, <2>4, <2>5, <2>6 DEF Next, App
<1>2. ASSUME CloseInv, [Next]_vars
      PROVE  [Inert]_vars
  <2>1. CASE Next
    BY <1>2, <2>1, <1>1
  <2>2. CASE UNCHANGED vars
    BY <2>2
  <2>. QED  BY <1>2, <2>1, <2>2
<1>. QED  BY <1>2, CloseInvariant, PTL DEF Spec, ClosedIsFinal

-----------------------------------------------------------------------------
(* Size and encoding                                                        *)

\* What recv() may return in a state: a text is valid UTF-8, and a data message
\* is within the budget.
Returnable(m) ==
  /\ m.kind = "Text" => m.data \in Utf8
  /\ m.kind \in DataOpcode => Len(m.data) <= max_message_size

\* The result hands over at most one message, and a returnable one.
Sound(res) ==
  res.msgs = <<>> \/ \E m \in Message : res.msgs = <<m>> /\ Returnable(m)

\* An error hands over nothing.
LEMMA ErrSound ==
  ASSUME NEW class
  PROVE  Sound(Err(class))
BY DEF Sound, Err

\* A control message is returnable.
LEMMA ControlSound ==
  ASSUME NEW m \in Message, m.kind \in ControlOpcode
  PROVE  Sound(Some(m))
BY DEF Sound, Some, Returnable, ControlOpcode, DataOpcode

\* make_data_message of a payload within the budget is sound.
LEMMA DataSound ==
  ASSUME NEW opcode \in DataOpcode, NEW data \in Seq(Byte),
         Len(data) <= max_message_size
  PROVE  Sound(MakeDataMessage(opcode, data))
<1>1. CASE opcode = "Text" /\ data \notin Utf8
  BY <1>1, ErrSound DEF MakeDataMessage
<1>2. CASE ~(opcode = "Text" /\ data \notin Utf8)
  <2> DEFINE m == Msg(opcode, data)
  <2>1. m \in Message /\ Returnable(m)
    BY <1>2 DEF Msg, Message, Returnable
  <2>2. MakeDataMessage(opcode, data) = Some(m)
    BY <1>2 DEF MakeDataMessage
  <2> HIDE DEF m
  <2>. QED  BY <2>1, <2>2 DEF Sound, Some
<1>. QED  BY <1>1, <1>2

\* The history grows by what the result hands over.
LEMMA ReturnReceived ==
  ASSUME received \in Seq(Message), NEW res, Sound(res), Return(res)
  PROVE  \/ received' = received
         \/ \E m \in Message : received' = Append(received, m) /\ Returnable(m)
<1>1. received' = received \o res.msgs
  BY DEF Return
<1>2. CASE res.msgs = <<>>
  BY <1>1, <1>2
<1>3. CASE \E m \in Message : res.msgs = <<m>> /\ Returnable(m)
  <2>1. PICK m \in Message : res.msgs = <<m>> /\ Returnable(m)
    BY <1>3
  <2>2. received' = Append(received, m)
    BY <1>1, <2>1
  <2>. QED  BY <2>1, <2>2
<1>. QED  BY <1>2, <1>3 DEF Sound

Received == \/ received' = received
            \/ \E m \in Message : received' = Append(received, m) /\ Returnable(m)

\* What a frame can add: at most one returnable message to the history, and to
\* the reassembly buffer no more than the budget allows.
LEMMA RecvFrameData ==
  ASSUME TypeOK, NEW f \in Frame, RecvFrame(f)
  PROVE  /\ Received
         /\ Len(frag_buf') > Len(frag_buf) => Len(frag_buf') <= max_message_size
<1>a. f.payload \in Seq(Byte) /\ received \in Seq(Message)
  BY DEF Frame, TypeOK
<1>b. /\ frag_buf \in Seq(Byte) /\ frag_buf \o f.payload \in Seq(Byte)
      /\ Len(frag_buf \o f.payload) = Len(frag_buf) + Len(f.payload)
      /\ Len(frag_buf) \in Nat /\ Len(f.payload) \in Nat
      /\ max_message_size \in Nat
  BY <1>a, WebSocketAssumption DEF TypeOK
<1>c. ASSUME ~OverLimit(Len(f.payload))
      PROVE  Len(frag_buf \o f.payload) <= max_message_size
  BY <1>b, <1>c DEF OverLimit
<1>d. ASSUME UNCHANGED frag_buf
      PROVE  ~(Len(frag_buf') > Len(frag_buf))
  BY <1>b, <1>d
<1>e. ASSUME NEW res, Sound(res), Return(res)
      PROVE  Received
  BY <1>a, <1>e, ReturnReceived DEF Received
<1>1. CASE RecvBadFrame(f)
  BY <1>1, <1>d, <1>e, ErrSound DEF RecvBadFrame, fragVars
<1>2. CASE RecvPing(f)
  <2>1. Msg("Ping", f.payload) \in Message /\ Msg("Ping", f.payload).kind = "Ping"
    BY <1>a DEF Msg, Message, ControlOpcode
  <2>2. Sound(Some(Msg("Ping", f.payload))) /\ Sound(Err("io"))
    BY <2>1, ControlSound, ErrSound DEF ControlOpcode
  <2>3. PICK ok \in WriteOk : Return(PingResult(ok, f))
    BY <1>2 DEF RecvPing
  <2>4. Sound(PingResult(ok, f))
    BY <2>2 DEF PingResult
  <2>. QED  BY <1>2, <1>d, <1>e, <2>3, <2>4 DEF RecvPing, fragVars
<1>3. CASE RecvPong(f)
  <2>1. Msg("Pong", f.payload) \in Message /\ Msg("Pong", f.payload).kind = "Pong"
    BY <1>a DEF Msg, Message, ControlOpcode
  <2>2. Sound(Some(Msg("Pong", f.payload)))
    BY <2>1, ControlSound DEF ControlOpcode
  <2>. QED  BY <1>3, <1>d, <1>e, <2>2 DEF RecvPong, fragVars
<1>4. CASE RecvClose(f)
  <2> DEFINE m == ParseCloseFrame(f.payload)
  <2>1. m \in Message /\ m.kind = "Close"
    BY <1>a, ParseCloseFrameType DEF ParseCloseFrame, Msg
  <2>2. Sound(Some(m)) /\ Sound(Err("io"))
    BY <2>1, ControlSound, ErrSound DEF ControlOpcode
  <2>3. Return(Err("io")) \/ Return(Some(m))
    BY <1>4 DEF RecvClose
  <2>. QED  BY <1>4, <1>d, <1>e, <2>2, <2>3 DEF RecvClose, fragVars
<1>5. CASE RecvOverLimit(f)
  <2>1. Len(frag_buf') = 0
    BY <1>5 DEF RecvOverLimit
  <2>. QED  BY <1>5, <1>b, <1>e, <2>1, ErrSound DEF RecvOverLimit
<1>6. CASE RecvWhole(f)
  <2>1. f.opcode \in DataOpcode /\ frag_buf = <<>>
    BY <1>6 DEF RecvWhole, DataArm, DataOpcode
  <2>2. Len(f.payload) <= max_message_size
    BY <1>6, <1>b, <2>1 DEF RecvWhole, OverLimit
  <2>3. Sound(MakeDataMessage(f.opcode, f.payload))
    BY <1>a, <2>1, <2>2, DataSound
  <2>. QED  BY <1>6, <1>d, <1>e, <2>3 DEF RecvWhole, fragVars
<1>7. CASE RecvFirstFragment(f)
  <2>1. frag_buf = <<>> /\ frag_buf' = f.payload
    BY <1>7 DEF RecvFirstFragment, DataArm, DataOpcode
  <2>2. Len(f.payload) <= max_message_size
    BY <1>7, <1>b, <2>1 DEF RecvFirstFragment, OverLimit
  <2>. QED  BY <1>7, <2>1, <2>2 DEF RecvFirstFragment, callVars, Received
<1>8. CASE RecvMiddle(f)
  BY <1>8, <1>c DEF RecvMiddle, BufferFragment, callVars, Received
<1>9. CASE RecvOrphan(f)
  BY <1>9, <1>c, <1>e, ErrSound DEF RecvOrphan, BufferFragment
<1>10. CASE RecvFinal(f)
  <2>1. frag_opcode \in DataOpcode /\ Len(frag_buf') = 0
    BY <1>10 DEF RecvFinal, TakeFragments, TypeOK
  <2>2. Sound(MakeDataMessage(frag_opcode, Reassembled(f)))
    BY <1>10, <1>b, <1>c, <2>1, DataSound DEF RecvFinal, Reassembled
  <2>. QED  BY <1>10, <1>b, <1>e, <2>1, <2>2 DEF RecvFinal
<1>11. CASE RecvUnexpected(f)
  BY <1>11, <1>d, <1>e, ErrSound DEF RecvUnexpected, fragVars
<1>. QED  BY <1>1, <1>2, <1>3, <1>4, <1>5, <1>6, <1>7, <1>8, <1>9, <1>10, <1>11
          DEF RecvFrame

\* The same of every step: only recv() touches the history and the buffer.
LEMMA DataStep ==
  ASSUME TypeOK, Next
  PROVE  /\ Received
         /\ Len(frag_buf') > Len(frag_buf) => Len(frag_buf') <= max_message_size
<1>a. ASSUME UNCHANGED frag_buf
      PROVE  ~(Len(frag_buf') > Len(frag_buf))
  <2>1. Len(frag_buf) \in Nat
    BY DEF TypeOK
  <2>. QED  BY <1>a, <2>1
<1>1. CASE Peer
  <2>1. UNCHANGED handleVars
    BY <1>1 DEF Peer, PeerSend, PeerEchoClose, PeerDrop
  <2>. QED  BY <1>a, <2>1 DEF handleVars, fragVars, callVars, Received
<1>2. CASE CallRecv
  BY <1>2, <1>a DEF CallRecv, fragVars, Received
<1>3. CASE RecvEof
  <2>1. received \in Seq(Message)
    BY DEF TypeOK
  <2>. QED  BY <1>3, <1>a, <2>1, ErrSound, ReturnReceived
            DEF RecvEof, fragVars, Received
<1>4. CASE inbound # <<>> /\ RecvFrame(Head(inbound))
  <2>1. Head(inbound) \in Frame
    BY <1>4 DEF TypeOK
  <2>. QED  BY <1>4, <2>1, RecvFrameData
<1>5. CASE App
  <2>1. UNCHANGED <<received, frag_buf>>
    BY <1>5 DEF App, Send, SetMaxMessageSize, CallClose, fragVars, callVars
  <2>. QED  BY <1>a, <2>1 DEF Received
<1>. QED  BY <1>1, <1>2, <1>3, <1>4, <1>5 DEF Next, Recv

\* However a text is split into frames and its fragments are interleaved with
\* control frames, recv() returns no text that is not UTF-8 (make_data_message).
THEOREM TextValid == Spec => []TextIsUtf8
<1>1. Init => TextIsUtf8
  BY DEF Init, TextIsUtf8
<1>2. ASSUME TypeOK, TextIsUtf8, [Next]_vars
      PROVE  TextIsUtf8'
  <2>1. CASE received' = received
    BY <1>2, <2>1 DEF TextIsUtf8
  <2>2. CASE \E m \in Message : received' = Append(received, m) /\ Returnable(m)
    <3>1. PICK m \in Message : received' = Append(received, m) /\ Returnable(m)
      BY <2>2
    <3>2. /\ DOMAIN received = 1..Len(received) /\ Len(received) \in Nat
          /\ DOMAIN received' = 1..Len(received) + 1
          /\ \A i \in 1..Len(received) : received'[i] = received[i]
          /\ received'[Len(received) + 1] = m
      BY <1>2, <3>1 DEF TypeOK
    <3>3. SUFFICES ASSUME NEW i \in DOMAIN received', received'[i].kind = "Text"
                   PROVE  received'[i].data \in Utf8
      BY DEF TextIsUtf8
    <3>4. CASE i \in 1..Len(received)
      BY <1>2, <3>2, <3>3, <3>4 DEF TextIsUtf8
    <3>5. CASE i = Len(received) + 1
      BY <3>1, <3>2, <3>3, <3>5 DEF Returnable
    <3>. QED  BY <3>2, <3>3, <3>4, <3>5
  <2>3. CASE UNCHANGED vars
    BY <1>2, <2>3 DEF TextIsUtf8, vars, callVars
  <2>. QED  BY <1>2, <2>1, <2>2, <2>3, DataStep DEF Received
<1>. QED  BY <1>1, <1>2, TypeCorrect, PTL DEF Spec

\* Neither the reassembly buffer nor a data message grows past the budget in
\* force when the frame arrives, set_max_message_size called in between or not
\* (check_size_limit).
THEOREM Budget == Spec => WithinBudget
<1> DEFINE Step ==
      /\ Len(frag_buf') > Len(frag_buf) => Len(frag_buf') <= max_message_size
      /\ (received' # received /\ received'[Len(received')].kind \in DataOpcode)
           => Len(received'[Len(received')].data) <= max_message_size
<1>1. ASSUME TypeOK, Next
      PROVE  Step
  <2>1. CASE received' = received
    BY <1>1, <2>1, DataStep
  <2>2. CASE \E m \in Message : received' = Append(received, m) /\ Returnable(m)
    <3>1. PICK m \in Message : received' = Append(received, m) /\ Returnable(m)
      BY <2>2
    <3>2. received'[Len(received')] = m
      BY <1>1, <3>1 DEF TypeOK
    <3>. QED  BY <1>1, <3>1, <3>2, DataStep DEF Returnable
  <2>. QED  BY <1>1, <2>1, <2>2, DataStep DEF Received
<1>2. ASSUME TypeOK, [Next]_vars
      PROVE  [Step]_vars
  <2>1. CASE Next
    BY <1>2, <2>1, <1>1
  <2>2. CASE UNCHANGED vars
    BY <2>2
  <2>. QED  BY <1>2, <2>1, <2>2
<1>. QED  BY <1>2, TypeCorrect, PTL DEF Spec, WithinBudget

-----------------------------------------------------------------------------
(* Recursion on a sequence                                                  *)

\* Induction over the naturals, for a set: its complement has no least element.
LEMMA Induction ==
  ASSUME NEW T, 0 \in T, \A n \in Nat : n \in T => n + 1 \in T
  PROVE  \A n \in Nat : n \in T
<1> DEFINE less == {ss \in Nat \X Nat : ss[1] < ss[2]}
           left == {n \in Nat : n \notin T}
<1> SUFFICES ASSUME left # {} PROVE FALSE
  OBVIOUS
<1>1. IsWellFoundedOn(less, Nat)
  BY NatLessThanWellFounded DEF OpToRel
<1>2. left \subseteq Nat
  OBVIOUS
<1>3. PICK x \in left : \A y \in left : <<y, x>> \notin less
  <2> HIDE DEF left, less
  <2>. QED  BY <1>1, <1>2, WFMin
<1>4. x \in Nat /\ x # 0
  OBVIOUS
<1>5. x - 1 \notin left
  <2>1. <<x - 1, x>> \in less
    BY <1>4
  <2>. QED  BY <1>3, <2>1
<1>. QED  BY <1>4, <1>5

\* What Chosen's recursive function is at n, given itself.
Choice(s, T, g, n) ==
  IF n = 0 THEN <<>> ELSE IF s[n] \in T THEN Append(g[n - 1], s[n]) ELSE g[n - 1]

Kept(s, T, g, N) == g = [n \in 0..N |-> Choice(s, T, g, n)]

\* Such a function at a point.
LEMMA KeptAt ==
  ASSUME NEW s, NEW T, NEW N, NEW g, Kept(s, T, g, N), NEW n \in 0..N
  PROVE  g[n] = Choice(s, T, g, n)
BY DEF Kept

\* There is one for every sequence, by induction on its length.
LEMMA KeptExists ==
  ASSUME NEW s, NEW T, NEW N \in Nat
  PROVE  \E g : Kept(s, T, g, N)
<1> DEFINE U == {n \in Nat : \E g : Kept(s, T, g, n)}
<1>1. 0 \in U
  <2> DEFINE g == [n \in 0..0 |-> <<>>]
  <2>1. g = [n \in 0..0 |-> Choice(s, T, g, n)]
    BY DEF Choice
  <2> HIDE DEF g
  <2>. QED  BY <2>1 DEF Kept
<1>2. ASSUME NEW n \in Nat, n \in U PROVE n + 1 \in U
  <2>1. PICK g : Kept(s, T, g, n)
    BY <1>2
  <2> DEFINE h == [k \in 0..(n + 1) |-> Choice(s, T, g, k)]
  <2>2. \A k \in 0..(n + 1) : h[k] = Choice(s, T, g, k)
    OBVIOUS
  <2>3. \A k \in 0..n : g[k] = Choice(s, T, g, k)
    BY <2>1 DEF Kept
  <2>4. \A k \in 0..n : h[k] = g[k]
    BY <2>2, <2>3
  <2> HIDE DEF h
  <2>5. \A k \in 0..(n + 1) : Choice(s, T, h, k) = Choice(s, T, g, k)
    BY <2>4 DEF Choice
  <2>6. h = [k \in 0..(n + 1) |-> Choice(s, T, h, k)]
    BY <2>5 DEF h
  <2>. QED  BY <2>6 DEF Kept
<1>3. N \in U
  <2> HIDE DEF U
  <2>. QED  BY <1>1, <1>2, Induction
<1>. QED  BY <1>3

\* Two of them agree as long as their sequences do.
LEMMA KeptUnique ==
  ASSUME NEW s, NEW t, NEW T, NEW N \in Nat, NEW M \in Nat, N <= M,
         \A i \in 1..N : s[i] = t[i],
         NEW g, Kept(s, T, g, N), NEW h, Kept(t, T, h, M)
  PROVE  \A n \in 0..N : g[n] = h[n]
<1> DEFINE U == {n \in Nat : n <= N => g[n] = h[n]}
<1>a. /\ \A n \in 0..N : g[n] = Choice(s, T, g, n)
      /\ \A n \in 0..N : h[n] = Choice(t, T, h, n)
  <2>1. \A n \in 0..N : n \in 0..M
    OBVIOUS
  <2>. QED  BY <2>1, KeptAt
<1>1. 0 \in U
  <2>1. 0 \in 0..N
    OBVIOUS
  <2>2. g[0] = Choice(s, T, g, 0) /\ h[0] = Choice(t, T, h, 0)
    BY <1>a, <2>1
  <2>. QED  BY <2>2 DEF Choice
<1>2. ASSUME NEW n \in Nat, n \in U PROVE n + 1 \in U
  BY <1>a, <1>2 DEF Choice
<1>3. \A n \in Nat : n \in U
  <2> HIDE DEF U
  <2>. QED  BY <1>1, <1>2, Induction
<1>. QED  BY <1>3

\* So Chosen is the value of one of them.
LEMMA ChosenIs ==
  ASSUME NEW S, NEW s \in Seq(S), NEW T
  PROVE  \E g : Kept(s, T, g, Len(s)) /\ Chosen(s, T) = g[Len(s)]
<1> DEFINE g == CHOOSE g : g = [n \in 0..Len(s) |-> IF n = 0 THEN <<>>
        ELSE IF s[n] \in T THEN Append(g[n - 1], s[n]) ELSE g[n - 1]]
<1>1. Len(s) \in Nat
  OBVIOUS
<1>2. \E k : k = [n \in 0..Len(s) |-> IF n = 0 THEN <<>>
        ELSE IF s[n] \in T THEN Append(k[n - 1], s[n]) ELSE k[n - 1]]
  <2>1. PICK k : Kept(s, T, k, Len(s))
    BY <1>1, KeptExists
  <2>. QED  BY <2>1 DEF Kept, Choice
<1>3. Kept(s, T, g, Len(s))
  BY <1>2 DEF Kept, Choice
<1>4. Chosen(s, T) = g[Len(s)]
  BY DEF Chosen
<1>. QED  BY <1>3, <1>4

\* Nothing is chosen from nothing.
LEMMA ChosenEmpty == ASSUME NEW T PROVE Chosen(<<>>, T) = <<>>
<1>0. <<>> \in Seq({}) /\ Len(<<>>) = 0
  OBVIOUS
<1>1. PICK g : Kept(<<>>, T, g, Len(<<>>)) /\ Chosen(<<>>, T) = g[Len(<<>>)]
  BY <1>0, ChosenIs
<1>. QED  BY <1>0, <1>1 DEF Kept, Choice

\* One element more is one element more, if it is in the set.
LEMMA ChosenAppend ==
  ASSUME NEW S, NEW s \in Seq(S), NEW m \in S, NEW T
  PROVE  Chosen(Append(s, m), T)
           = IF m \in T THEN Append(Chosen(s, T), m) ELSE Chosen(s, T)
<1> DEFINE t == Append(s, m)
<1>0. t \in Seq(S) /\ Len(t) = Len(s) + 1 /\ Len(s) \in Nat /\ t[Len(s) + 1] = m
      /\ \A i \in 1..Len(s) : s[i] = t[i]
  OBVIOUS
<1> HIDE DEF t
<1>1. PICK g : Kept(s, T, g, Len(s)) /\ Chosen(s, T) = g[Len(s)]
  BY ChosenIs
<1>2. PICK h : Kept(t, T, h, Len(t)) /\ Chosen(t, T) = h[Len(t)]
  BY <1>0, ChosenIs
<1>3. g[Len(s)] = h[Len(s)]
  <2>1. Len(s) \in Nat /\ Len(t) \in Nat /\ Len(s) <= Len(t)
    BY <1>0
  <2>2. \A n \in 0..Len(s) : g[n] = h[n]
    BY <2>1, <1>0, <1>1, <1>2, KeptUnique
  <2>. QED  BY <2>1, <2>2
<1>4. h[Len(s) + 1] = Choice(t, T, h, Len(s) + 1)
  BY <1>0, <1>2 DEF Kept
<1>5. h[Len(s) + 1] = IF m \in T THEN Append(h[Len(s)], m) ELSE h[Len(s)]
  BY <1>0, <1>4 DEF Choice
<1>. QED  BY <1>0, <1>1, <1>2, <1>3, <1>5 DEF t

\* What is chosen is from the sequence and in the set.
LEMMA ChosenType ==
  ASSUME NEW S, NEW s \in Seq(S), NEW T
  PROVE  Chosen(s, T) \in Seq(S \cap T)
<1>1. PICK g : Kept(s, T, g, Len(s)) /\ Chosen(s, T) = g[Len(s)]
  BY ChosenIs
<1>a. \A n \in 0..Len(s) : g[n] = Choice(s, T, g, n)
  BY <1>1, KeptAt
<1> DEFINE U == {n \in Nat : n <= Len(s) => g[n] \in Seq(S \cap T)}
<1>b. Len(s) \in Nat
  OBVIOUS
<1>2. 0 \in U
  <2>1. g[0] = <<>> /\ <<>> \in Seq(S \cap T)
    BY <1>a, <1>b DEF Choice
  <2>. QED  BY <2>1
<1>3. ASSUME NEW n \in Nat, n \in U PROVE n + 1 \in U
  <2> SUFFICES ASSUME n + 1 <= Len(s) PROVE g[n + 1] \in Seq(S \cap T)
    OBVIOUS
  <2>1. g[n] \in Seq(S \cap T) /\ s[n + 1] \in S
    BY <1>3, <1>b
  <2>2. g[n + 1] = IF s[n + 1] \in T THEN Append(g[n], s[n + 1]) ELSE g[n]
    <3>1. n + 1 \in 0..Len(s) /\ n + 1 # 0 /\ (n + 1) - 1 = n
      BY <1>b
    <3>. QED  BY <1>a, <3>1 DEF Choice
  <2>. QED  BY <2>1, <2>2
<1>4. \A n \in Nat : n \in U
  <2> HIDE DEF U
  <2>. QED  BY <1>2, <1>3, Induction
<1>. QED  BY <1>1, <1>4, <1>b

-----------------------------------------------------------------------------
(* Pings and Pongs                                                          *)

\* An error returned leaves the history of messages as it is.
LEMMA ReturnErr ==
  ASSUME received \in Seq(Message), NEW class, Return(Err(class))
  PROVE  received' = received
BY DEF Return, Err

\* A message returned is added to it.
LEMMA ReturnSome ==
  ASSUME received \in Seq(Message), NEW m \in Message, Return(Some(m))
  PROVE  received' = Append(received, m)
BY DEF Return, Some

\* The result of make_data_message adds its message or nothing.
LEMMA ReturnMade ==
  ASSUME received \in Seq(Message), NEW opcode \in DataOpcode, NEW data \in Seq(Byte),
         Return(MakeDataMessage(opcode, data))
  PROVE  \/ received' = received
         \/ received' = Append(received, Msg(opcode, data))
<1>1. Msg(opcode, data) \in Message
  BY DEF Msg, Message
<1>. QED  BY <1>1, ReturnErr, ReturnSome DEF MakeDataMessage

\* A step returns no Ping; writes nothing, or no Pong of recv()'s; or it returns a Ping
\* and writes its Pong.
PlainIn == \/ received' = received
           \/ \E m \in Message : m.kind # "Ping" /\ received' = Append(received, m)

PlainOut == \/ out' = out
            \/ \E o \in Outgoing :
                 ~(o.opcode = "Pong" /\ o.by = "recv") /\ out' = Append(out, o)

Answered == \E p \in Seq(Byte) :
  /\ received' = Append(received, Msg("Ping", p))
  /\ out' = Append(out, [opcode |-> "Pong", payload |-> p, by |-> "recv"])

\* A frame is a Ping that is answered, or neither a Ping nor a Pong comes of it: a
\* Ping whose Pong cannot be written is not returned.
LEMMA RecvFrameAnswer ==
  ASSUME TypeOK, NEW f \in Frame, RecvFrame(f)
  PROVE  (PlainIn /\ PlainOut) \/ Answered
<1>a. /\ f.payload \in Seq(Byte) /\ f.opcode \in Opcode /\ received \in Seq(Message)
      /\ frag_buf \o f.payload \in Seq(Byte)
  BY DEF Frame, TypeOK
<1>b. ASSUME NEW class, Return(Err(class))
      PROVE  PlainIn
  BY <1>a, <1>b, ReturnErr DEF PlainIn
<1>c. ASSUME NEW m \in Message, m.kind # "Ping", Return(Some(m))
      PROVE  PlainIn
  BY <1>a, <1>c, ReturnSome DEF PlainIn
<1>d. ASSUME NEW opcode \in DataOpcode, NEW data \in Seq(Byte),
             Return(MakeDataMessage(opcode, data))
      PROVE  PlainIn
  <2>1. Msg(opcode, data) \in Message /\ Msg(opcode, data).kind # "Ping"
    BY DEF Msg, Message, DataOpcode
  <2>. QED  BY <1>a, <1>d, <2>1, ReturnMade DEF PlainIn
<1>e. UNCHANGED out => PlainOut
  BY DEF PlainOut
<1>f. UNCHANGED received => PlainIn
  BY DEF PlainIn
<1>1. CASE RecvBadFrame(f)
  BY <1>1, <1>b, <1>e DEF RecvBadFrame
<1>2. CASE RecvPing(f)
  <2>1. PICK ok \in WriteOk :
          /\ IF ok THEN Reply("Pong", f.payload) ELSE UNCHANGED out
          /\ Return(PingResult(ok, f))
    BY <1>2 DEF RecvPing
  <2>2. CASE ok
    <3>1. Msg("Ping", f.payload) \in Message
      BY <1>a DEF Msg, Message, ControlOpcode
    <3>2. received' = Append(received, Msg("Ping", f.payload))
      BY <1>a, <2>1, <2>2, <3>1, ReturnSome DEF PingResult
    <3>. QED  BY <1>a, <2>1, <2>2, <3>2 DEF Answered, Reply
  <2>3. CASE ~ok
    BY <1>b, <1>e, <2>1, <2>3 DEF PingResult
  <2>. QED  BY <2>2, <2>3
<1>3. CASE RecvPong(f)
  <2>1. Msg("Pong", f.payload) \in Message /\ Msg("Pong", f.payload).kind # "Ping"
    BY <1>a DEF Msg, Message, ControlOpcode
  <2>. QED  BY <1>3, <1>c, <1>e, <2>1 DEF RecvPong
<1>4. CASE RecvClose(f)
  <2>1. ParseCloseFrame(f.payload) \in Message /\ ParseCloseFrame(f.payload).kind # "Ping"
    BY <1>a, ParseCloseFrameType DEF ParseCloseFrame, Msg
  <2>2. PlainIn
    BY <1>4, <1>b, <1>c, <2>1 DEF RecvClose
  <2> DEFINE o == [opcode |-> "Close", payload |-> f.payload, by |-> "recv"]
  <2>3. o \in Outgoing /\ o.opcode # "Pong"
    BY <1>a DEF Outgoing, ControlOpcode
  <2>4. out' = out \/ out' = Append(out, o)
    BY <1>4 DEF RecvClose, Reply
  <2> HIDE DEF o
  <2>5. PlainOut
    BY <2>3, <2>4 DEF PlainOut
  <2>. QED  BY <2>2, <2>5
<1>5. CASE RecvOverLimit(f)
  BY <1>5, <1>b, <1>e DEF RecvOverLimit, DataArm
<1>6. CASE RecvWhole(f)
  BY <1>6, <1>a, <1>d, <1>e DEF RecvWhole, DataArm
<1>7. CASE RecvFirstFragment(f)
  BY <1>7, <1>e, <1>f DEF RecvFirstFragment, DataArm, callVars
<1>8. CASE RecvMiddle(f)
  BY <1>8, <1>e, <1>f DEF RecvMiddle, DataArm, callVars
<1>9. CASE RecvOrphan(f)
  BY <1>9, <1>b, <1>e DEF RecvOrphan, DataArm
<1>10. CASE RecvFinal(f)
  <2>1. frag_opcode \in DataOpcode
    BY <1>10 DEF RecvFinal, TypeOK
  <2>. QED  BY <1>10, <1>a, <1>d, <1>e, <2>1 DEF RecvFinal, DataArm, Reassembled
<1>11. CASE RecvUnexpected(f)
  BY <1>11, <1>b, <1>e DEF RecvUnexpected
<1>. QED  BY <1>1, <1>2, <1>3, <1>4, <1>5, <1>6, <1>7, <1>8, <1>9, <1>10, <1>11
          DEF RecvFrame

\* The same of every step; a Pong the application sends is its own.
LEMMA AnswerStep ==
  ASSUME TypeOK, Next
  PROVE  (PlainIn /\ PlainOut) \/ Answered
<1>e. UNCHANGED out => PlainOut
  BY DEF PlainOut
<1>f. UNCHANGED received => PlainIn
  BY DEF PlainIn
<1>1. CASE Peer
  <2>1. UNCHANGED handleVars
    BY <1>1 DEF Peer, PeerSend, PeerEchoClose, PeerDrop
  <2>. QED  BY <1>e, <1>f, <2>1 DEF handleVars, callVars
<1>2. CASE CallRecv
  BY <1>2, <1>e, <1>f DEF CallRecv
<1>3. CASE RecvEof
  <2>1. received' = received
    BY <1>3, ReturnErr DEF RecvEof, TypeOK
  <2>. QED  BY <1>3, <1>e, <1>f, <2>1 DEF RecvEof
<1>4. CASE inbound # <<>> /\ RecvFrame(Head(inbound))
  <2>1. Head(inbound) \in Frame
    BY <1>4 DEF TypeOK
  <2>. QED  BY <1>4, <2>1, RecvFrameAnswer
<1>5. CASE App
  <2>1. UNCHANGED received
    BY <1>5 DEF App, Send, SetMaxMessageSize, CallClose, callVars
  <2>a. AppPayloads \subseteq Seq(Byte)
    BY WebSocketAssumption
  <2>b. ASSUME NEW kind \in DataOpcode \cup ControlOpcode, NEW p \in AppPayloads,
               out' = out \/ out' = Append(out, [opcode |-> kind, payload |-> p, by |-> "app"])
        PROVE  PlainOut
    <3> DEFINE o == [opcode |-> kind, payload |-> p, by |-> "app"]
    <3>1. o \in Outgoing /\ o.by # "recv"
      BY <2>a DEF Outgoing
    <3>2. out' = out \/ out' = Append(out, o)
      BY <2>b
    <3> HIDE DEF o
    <3>. QED  BY <3>1, <3>2 DEF PlainOut
  <2>2. PlainOut
    <3>1. CASE \E kind \in DataOpcode \cup ControlOpcode, p \in AppPayloads : Send(kind, p)
      BY <3>1, <2>b DEF Send
    <3>2. CASE \E n \in Limits : SetMaxMessageSize(n)
      BY <3>2, <1>e DEF SetMaxMessageSize
    <3>3. CASE \E p \in AppPayloads : CallClose(p)
      BY <3>3, <2>b DEF CallClose, ControlOpcode
    <3>. QED  BY <1>5, <3>1, <3>2, <3>3 DEF App
  <2>. QED  BY <1>f, <2>1, <2>2
<1>. QED  BY <1>1, <1>2, <1>3, <1>4, <1>5 DEF Next, Recv

\* What is neither Ping nor Pong leaves the two lists as they are.
LEMMA PlainChosen ==
  ASSUME TypeOK
  PROVE  /\ PlainIn => Chosen(received', PingMessage) = Chosen(received, PingMessage)
         /\ PlainOut => Chosen(out', AutoPong) = Chosen(out, AutoPong)
<1>1. ASSUME NEW m \in Message, m.kind # "Ping", received' = Append(received, m)
      PROVE  Chosen(received', PingMessage) = Chosen(received, PingMessage)
  <2>1. m \notin PingMessage /\ received \in Seq(Message)
    BY <1>1 DEF PingMessage, TypeOK
  <2>. QED  BY <1>1, <2>1, ChosenAppend
<1>2. ASSUME NEW o \in Outgoing, ~(o.opcode = "Pong" /\ o.by = "recv"),
             out' = Append(out, o)
      PROVE  Chosen(out', AutoPong) = Chosen(out, AutoPong)
  <2>1. o \notin AutoPong /\ out \in Seq(Outgoing)
    BY <1>2 DEF AutoPong, TypeOK
  <2>. QED  BY <1>2, <2>1, ChosenAppend
<1>. QED  BY <1>1, <1>2 DEF PlainIn, PlainOut

\* Every Ping recv() returns, the drain of close() included, was answered with a Pong of
\* its payload, in the order they came, and no Pong is written without one.
THEOREM PingsAnswered == Spec => []PongsAnswerPings
<1>1. Init => PongsAnswerPings
  BY ChosenEmpty DEF Init, PongsAnswerPings
<1>2. ASSUME TypeOK, PongsAnswerPings, [Next]_vars
      PROVE  PongsAnswerPings'
  <2> DEFINE pings == Chosen(received, PingMessage)
             pongs == Chosen(out, AutoPong)
  <2>a. pings \in Seq(Message \cap PingMessage) /\ pongs \in Seq(Outgoing \cap AutoPong)
    BY <1>2, ChosenType DEF TypeOK
  <2>b. /\ Len(pings) = Len(pongs)
        /\ \A i \in 1..Len(pings) : pings[i].data = pongs[i].payload
    BY <1>2, <2>a DEF PongsAnswerPings
  <2>1. CASE Answered
    <3>1. PICK p \in Seq(Byte) :
            /\ received' = Append(received, Msg("Ping", p))
            /\ out' = Append(out, [opcode |-> "Pong", payload |-> p, by |-> "recv"])
      BY <2>1 DEF Answered
    <3> DEFINE m == Msg("Ping", p)
               o == [opcode |-> "Pong", payload |-> p, by |-> "recv"]
    <3>2. /\ m \in Message /\ m \in PingMessage /\ m.data = p
          /\ o \in Outgoing /\ o \in AutoPong /\ o.payload = p
      BY DEF Msg, Message, PingMessage, Outgoing, AutoPong, ControlOpcode
    <3>3. received' = Append(received, m) /\ out' = Append(out, o)
      BY <3>1
    <3> HIDE DEF m, o
    <3>4. pings' = Append(pings, m) /\ pongs' = Append(pongs, o)
      BY <1>2, <3>2, <3>3, ChosenAppend DEF TypeOK
    <3> HIDE DEF pings, pongs
    <3>5. /\ Len(pings') = Len(pongs')
          /\ \A i \in DOMAIN pings' : pings'[i].data = pongs'[i].payload
      BY <2>a, <2>b, <3>2, <3>4
    <3>. QED  BY <3>5 DEF PongsAnswerPings, pings, pongs
  <2>2. CASE PlainIn /\ PlainOut
    <3>1. pings' = pings /\ pongs' = pongs
      BY <1>2, <2>2, PlainChosen
    <3>. QED  BY <1>2, <3>1 DEF PongsAnswerPings
  <2>3. CASE UNCHANGED vars
    BY <1>2, <2>3 DEF PongsAnswerPings, vars, callVars
  <2>. QED  BY <1>2, <2>1, <2>2, <2>3, AnswerStep
<1>. QED  BY <1>1, <1>2, TypeCorrect, PTL DEF Spec

\* A legal Ping or Pong closes no handle, whatever budget set_max_message_size was
\* given: the cap read_frame applies has a floor (FrameCap).
THEOREM ControlReadable == Spec => ControlFramesReadable
<1> DEFINE Legal ==
      /\ inbound # <<>> /\ inbound' = Tail(inbound) /\ link' = link
      /\ Head(inbound).wellformed /\ Head(inbound).fin
      /\ Head(inbound).opcode \in {"Ping", "Pong"}
      /\ Len(Head(inbound).payload) <= MIN_FRAME_PAYLOAD_CAP
<1>1. ASSUME TypeOK, Next, Legal
      PROVE  closed' = closed
  <2> DEFINE f == Head(inbound)
  <2>a. inbound \in Seq(Frame) /\ f \in Frame /\ f.payload \in Seq(Byte)
    <3>1. inbound \in Seq(Frame) /\ f \in Frame
      BY <1>1 DEF TypeOK
    <3>. QED  BY <3>1 DEF Frame
  <2>b. inbound' # inbound
    <3>1. Len(Tail(inbound)) # Len(inbound)
      BY <1>1, <2>a
    <3>. QED  BY <1>1, <3>1
  <2>c. ASSUME NEW e PROVE inbound' # Append(inbound, e)
    <3>1. Tail(inbound) # Append(inbound, e)
      BY <1>1, <2>a
    <3>. QED  BY <1>1, <3>1
  <2>1. CASE Peer
    BY <1>1, <2>1, <2>c DEF Peer, PeerSend, PeerEchoClose, PeerDrop, handleVars
  <2>2. CASE CallRecv \/ App
    BY <2>2, <2>b DEF CallRecv, App, Send, SetMaxMessageSize, CallClose
  <2>3. CASE RecvEof
    BY <1>1, <2>3 DEF RecvEof
  <2>4. CASE RecvFrame(f)
    <3>1. Len(f.payload) \in Nat /\ max_message_size \in Nat /\ MIN_FRAME_PAYLOAD_CAP \in Nat
      BY <1>1, <2>a, WebSocketAssumption DEF TypeOK
    <3>2. ~(Len(f.payload) > FrameCap)
      BY <1>1, <3>1 DEF FrameCap
    <3>3. ~(Len(f.payload) > MIN_FRAME_PAYLOAD_CAP)
      BY <1>1, <3>1
    <3>4. ReadFrame(f) = None
      BY <1>1, <3>2, <3>3 DEF ReadFrame
    <3>5. f.opcode \notin {"Close", "Continuation", "Text", "Binary"}
      BY <1>1
    <3> HIDE DEF f
    <3>. QED  BY <2>4, <3>4, <3>5
             DEF RecvFrame, RecvBadFrame, RecvPing, RecvPong, RecvClose, RecvOverLimit,
                 RecvWhole, RecvFirstFragment, RecvMiddle, RecvOrphan, RecvFinal,
                 RecvUnexpected,
                 DataArm, DataOpcode
  <2>. QED  BY <1>1, <2>1, <2>2, <2>3, <2>4 DEF Next, Recv
<1>2. ASSUME TypeOK, [Next]_vars
      PROVE  [Legal => closed' = closed]_vars
  <2>1. CASE Next
    BY <1>2, <2>1, <1>1
  <2>2. CASE UNCHANGED vars
    BY <2>2
  <2>. QED  BY <1>2, <2>1, <2>2
<1>. QED  BY <1>2, TypeCorrect, PTL DEF Spec, ControlFramesReadable

-----------------------------------------------------------------------------
(* Reassembly: with a conforming peer, reading what is in flight frame by   *)
(* frame would take the handle's reassembly state to the one the peer       *)
(* believes it is in.  The invariant is the sequence of the states between. *)

Fragments == [opcode : DataOpcode \cup {None}, buf : Seq(Byte), msgs : Seq(DataMessage)]

\* The reassembly state of the handle, and the one the peer believes it is in once
\* it has read everything.
Seen == [opcode |-> frag_opcode, buf |-> frag_buf, msgs |-> Chosen(received, DataMessage)]
Meant == [opcode |-> peer.opcode, buf |-> peer.buf, msgs |-> Chosen(sent, DataMessage)]

\* What a conforming peer may send in a state, and the state after it.
Allowed(st, f) ==
  /\ f.wellformed
  /\ f.opcode \in ControlOpcode => f.fin /\ Len(f.payload) <= MIN_FRAME_PAYLOAD_CAP
  /\ f.opcode \in DataOpcode => st.opcode = None
  /\ f.opcode = "Continuation" => st.opcode # None
  /\ (f.fin /\ f.opcode = "Text") => f.payload \in Utf8
  /\ (f.fin /\ f.opcode = "Continuation" /\ st.opcode = "Text") => st.buf \o f.payload \in Utf8

\* The state after a frame.
State(opcode, buf, msgs) == [opcode |-> opcode, buf |-> buf, msgs |-> msgs]

Becomes(st, f, after) ==
  \/ f.opcode \in ControlOpcode /\ after = st
  \/ /\ f.opcode \in DataOpcode /\ f.fin
     /\ after = State(st.opcode, st.buf, Append(st.msgs, Msg(f.opcode, f.payload)))
  \/ /\ f.opcode \in DataOpcode /\ ~f.fin
     /\ after = State(f.opcode, f.payload, st.msgs)
  \/ /\ f.opcode = "Continuation" /\ f.fin
     /\ after = State(None, <<>>, Append(st.msgs, Msg(st.opcode, st.buf \o f.payload)))
  \/ /\ f.opcode = "Continuation" /\ ~f.fin
     /\ after = State(st.opcode, st.buf \o f.payload, st.msgs)

\* The messages so far; no bytes are buffered without an opcode.
Prefix(a, b) == Len(a) <= Len(b) /\ \A i \in 1..Len(a) : a[i] = b[i]

Idle(st) == st.opcode = None => st.buf = <<>>

\* The states the reader goes through as it reads what is in flight.
Reads(h) ==
  /\ h \in Seq(Fragments) /\ Len(h) = Len(inbound) + 1
  /\ h[1] = Seen
  /\ \A i \in 1..Len(inbound) : Allowed(h[i], inbound[i]) /\ Becomes(h[i], inbound[i], h[i + 1])
  /\ \A i \in 1..Len(h) : Idle(h[i]) /\ Prefix(h[i].msgs, Meant.msgs)
  /\ link = "up" => h[Len(h)] = Meant

InSync == (Conforming /\ ~closed) => \E h : Reads(h)

\* The handle's state has its type.
LEMMA SeenType == TypeOK => Seen \in Fragments
<1> SUFFICES ASSUME TypeOK PROVE Seen \in Fragments
  OBVIOUS
<1>1. Chosen(received, DataMessage) \in Seq(Message \cap DataMessage)
  BY ChosenType DEF TypeOK
<1>2. Chosen(received, DataMessage) \in Seq(DataMessage)
  BY <1>1
<1>. QED  BY <1>2 DEF Seen, Fragments, TypeOK

\* The peer's too.
LEMMA MeantType == TypeOK => Meant \in Fragments
<1> SUFFICES ASSUME TypeOK PROVE Meant \in Fragments
  OBVIOUS
<1>1. Chosen(sent, DataMessage) \in Seq(Message \cap DataMessage)
  BY ChosenType DEF TypeOK
<1>2. Chosen(sent, DataMessage) \in Seq(DataMessage)
  BY <1>1
<1>. QED  BY <1>2 DEF Meant, Fragments, TypeOK

\* Messages and the data messages among them.
LEMMA DataChosen ==
  ASSUME NEW s \in Seq(Message), NEW m \in Message
  PROVE  /\ m.kind \in DataOpcode
              => Chosen(Append(s, m), DataMessage) = Append(Chosen(s, DataMessage), m)
         /\ m.kind \in ControlOpcode
              => Chosen(Append(s, m), DataMessage) = Chosen(s, DataMessage)
<1>1. m.kind \in DataOpcode <=> m \in DataMessage
  BY DEF Message, DataMessage
<1>2. m.kind \in ControlOpcode => m.kind \notin DataOpcode
  BY DEF ControlOpcode, DataOpcode
<1>. QED  BY <1>1, <1>2, ChosenAppend

\* An allowed frame keeps the type, clears the buffer with the opcode, and takes no
\* message back.
LEMMA BecomesType ==
  ASSUME NEW st \in Fragments, NEW f \in Frame, NEW after,
         Allowed(st, f), Becomes(st, f, after), Idle(st)
  PROVE  after \in Fragments /\ Idle(after) /\ Prefix(st.msgs, after.msgs)
<1>a. /\ f.payload \in Seq(Byte) /\ f.opcode \in Opcode /\ f.fin \in BOOLEAN
      /\ st.opcode \in DataOpcode \cup {None} /\ st.buf \in Seq(Byte)
      /\ st.msgs \in Seq(DataMessage) /\ st.buf \o f.payload \in Seq(Byte)
  BY DEF Frame, Fragments
<1>b. ASSUME NEW opcode \in DataOpcode \cup {None}, NEW buf \in Seq(Byte),
             NEW msgs \in Seq(DataMessage)
      PROVE  /\ State(opcode, buf, msgs) \in Fragments
             /\ State(opcode, buf, msgs).msgs = msgs
             /\ opcode # None \/ buf = <<>> => Idle(State(opcode, buf, msgs))
  BY DEF State, Fragments, Idle
<1>c. Prefix(st.msgs, st.msgs)
  BY <1>a DEF Prefix
<1>d. ASSUME NEW m \in DataMessage
      PROVE  Append(st.msgs, m) \in Seq(DataMessage) /\ Prefix(st.msgs, Append(st.msgs, m))
  BY <1>a DEF Prefix
<1>e. ASSUME NEW opcode \in DataOpcode, NEW data \in Seq(Byte)
      PROVE  Msg(opcode, data) \in DataMessage
  BY DEF Msg, DataMessage
<1>f. None \notin DataOpcode
  BY DEF None, DataOpcode
<1>1. CASE f.opcode \in ControlOpcode /\ after = st
  BY <1>1, <1>c
<1>2. CASE /\ f.opcode \in DataOpcode /\ f.fin
           /\ after = State(st.opcode, st.buf, Append(st.msgs, Msg(f.opcode, f.payload)))
  <2>1. Append(st.msgs, Msg(f.opcode, f.payload)) \in Seq(DataMessage)
        /\ Prefix(st.msgs, Append(st.msgs, Msg(f.opcode, f.payload)))
    BY <1>2, <1>a, <1>d, <1>e
  <2>2. st.opcode # None \/ st.buf = <<>>
    BY DEF Idle
  <2>. QED  BY <1>2, <1>a, <1>b, <2>1, <2>2
<1>3. CASE /\ f.opcode \in DataOpcode /\ ~f.fin
           /\ after = State(f.opcode, f.payload, st.msgs)
  BY <1>3, <1>a, <1>b, <1>c, <1>f
<1>4. CASE /\ f.opcode = "Continuation" /\ f.fin
           /\ after = State(None, <<>>, Append(st.msgs, Msg(st.opcode, st.buf \o f.payload)))
  <2>0. st.opcode \in DataOpcode
    BY <1>4, <1>a DEF Allowed
  <2>1. Append(st.msgs, Msg(st.opcode, st.buf \o f.payload)) \in Seq(DataMessage)
        /\ Prefix(st.msgs, Append(st.msgs, Msg(st.opcode, st.buf \o f.payload)))
    BY <2>0, <1>a, <1>d, <1>e
  <2>2. <<>> \in Seq(Byte)
    OBVIOUS
  <2>. QED  BY <1>4, <1>b, <2>1, <2>2
<1>5. CASE /\ f.opcode = "Continuation" /\ ~f.fin
           /\ after = State(st.opcode, st.buf \o f.payload, st.msgs)
  <2>0. st.opcode # None
    BY <1>5 DEF Allowed
  <2>. QED  BY <1>5, <1>a, <1>b, <1>c, <2>0
<1>. QED  BY <1>1, <1>2, <1>3, <1>4, <1>5 DEF Becomes

\* The conforming peer's account of a frame.
LEMMA AccountSync ==
  ASSUME TypeOK, Conforming, NEW f \in Frame, LegalFrame(f), Account(f)
  PROVE  Allowed(Meant, f) /\ Becomes(Meant, f, Meant')
<1>a. /\ f.payload \in Seq(Byte) /\ f.opcode \in Opcode /\ sent \in Seq(Message)
      /\ peer.opcode \in DataOpcode \cup {None} /\ peer.buf \in Seq(Byte)
  BY DEF Frame, TypeOK
<1>b. Allowed(Meant, f)
  BY DEF LegalFrame, Allowed, Meant
<1>c. ASSUME NEW opcode, NEW buf, NEW shut, peer' = Peered(opcode, buf, shut)
      PROVE  Meant' = State(opcode, buf, Chosen(sent', DataMessage))
  BY <1>c DEF Meant, State, Peered
<1>d. Meant = State(peer.opcode, peer.buf, Chosen(sent, DataMessage))
  BY DEF Meant, State
<1>e. /\ Meant.opcode = peer.opcode /\ Meant.buf = peer.buf
      /\ Meant.msgs = Chosen(sent, DataMessage)
  BY DEF Meant
<1>2. CASE /\ f.opcode \in ControlOpcode
           /\ sent' = Append(sent, IF f.opcode = "Close"
                                     THEN ParseCloseFrame(f.payload)
                                     ELSE Msg(f.opcode, f.payload))
           /\ peer' = Peered(peer.opcode, peer.buf, peer.closed \/ f.opcode = "Close")
  <2> DEFINE m == IF f.opcode = "Close" THEN ParseCloseFrame(f.payload)
                                        ELSE Msg(f.opcode, f.payload)
  <2>1. m \in Message /\ m.kind \in ControlOpcode
    <3>1. ParseCloseFrame(f.payload) \in Message
          /\ ParseCloseFrame(f.payload).kind \in ControlOpcode
      BY <1>a, ParseCloseFrameType DEF ParseCloseFrame, Msg, ControlOpcode
    <3>2. /\ Msg(f.opcode, f.payload) \in Message
          /\ Msg(f.opcode, f.payload).kind \in ControlOpcode
      BY <1>2, <1>a DEF Msg, Message
    <3>. QED  BY <3>1, <3>2
  <2>2. sent' = Append(sent, m)
    BY <1>2
  <2> HIDE DEF m
  <2>3. Chosen(sent', DataMessage) = Chosen(sent, DataMessage)
    BY <1>a, <2>1, <2>2, DataChosen
  <2>4. Meant' = Meant
    BY <1>2, <1>c, <1>d, <2>3
  <2>. QED  BY <1>2, <1>b, <2>4 DEF Becomes
<1>3. CASE /\ f.opcode \in DataOpcode /\ f.fin
           /\ sent' = Append(sent, Msg(f.opcode, f.payload))
           /\ peer' = Peered(peer.opcode, peer.buf, peer.closed)
  <2>1. Msg(f.opcode, f.payload) \in Message /\ Msg(f.opcode, f.payload).kind = f.opcode
    BY <1>a, <1>3 DEF Msg, Message
  <2>2. Chosen(sent', DataMessage) = Append(Meant.msgs, Msg(f.opcode, f.payload))
    BY <1>3, <1>a, <1>e, <2>1, DataChosen
  <2>. QED  BY <1>3, <1>b, <1>c, <1>e, <2>2 DEF Becomes
<1>4. CASE /\ f.opcode \in DataOpcode /\ ~f.fin
           /\ peer' = Peered(f.opcode, f.payload, peer.closed)
           /\ UNCHANGED sent
  BY <1>4, <1>b, <1>c, <1>e DEF Becomes
<1>5. CASE /\ f.opcode = "Continuation" /\ f.fin
           /\ sent' = Append(sent, Msg(peer.opcode, peer.buf \o f.payload))
           /\ peer' = Peered(None, <<>>, peer.closed)
  <2>0. peer.opcode \in DataOpcode /\ peer.buf \o f.payload \in Seq(Byte)
    BY <1>5, <1>a DEF LegalFrame
  <2>1. /\ Msg(peer.opcode, peer.buf \o f.payload) \in Message
        /\ Msg(peer.opcode, peer.buf \o f.payload).kind \in DataOpcode
    BY <2>0 DEF Msg, Message
  <2>2. Chosen(sent', DataMessage) = Append(Meant.msgs, Msg(peer.opcode, peer.buf \o f.payload))
    BY <1>5, <1>a, <1>e, <2>1, DataChosen
  <2>. QED  BY <1>5, <1>b, <1>c, <1>e, <2>2 DEF Becomes
<1>6. CASE /\ f.opcode = "Continuation" /\ ~f.fin
           /\ peer' = Peered(peer.opcode, peer.buf \o f.payload, peer.closed)
           /\ UNCHANGED sent
  BY <1>6, <1>b, <1>c, <1>e DEF Becomes
<1>. QED  BY <1>2, <1>3, <1>4, <1>5, <1>6 DEF Account

\* recv() on a frame a conforming peer may send: the handle goes where the peer
\* meant it to, or closes; and only size and the loss of the stream are errors.
LEMMA RecvSync ==
  ASSUME TypeOK, NEW f \in Frame, RecvFrame(f), Allowed(Seen, f), Idle(Seen)
  PROVE  /\ closed' \/ Becomes(Seen, f, Seen')
         /\ result' \in {result, "Some", "too_large", "io"}
<1>a. /\ f.payload \in Seq(Byte) /\ f.opcode \in Opcode /\ received \in Seq(Message)
      /\ frag_opcode \in DataOpcode \cup {None} /\ frag_buf \in Seq(Byte)
      /\ frag_buf \o f.payload \in Seq(Byte)
  BY DEF Frame, TypeOK
<1>b. /\ f.wellformed
      /\ f.opcode \in ControlOpcode => f.fin /\ Len(f.payload) <= MIN_FRAME_PAYLOAD_CAP
      /\ f.opcode \in DataOpcode => frag_opcode = None /\ frag_buf = <<>>
      /\ f.opcode = "Continuation" => frag_opcode # None
      /\ (f.fin /\ f.opcode = "Text") => f.payload \in Utf8
      /\ (f.fin /\ f.opcode = "Continuation" /\ frag_opcode = "Text")
           => frag_buf \o f.payload \in Utf8
  BY DEF Allowed, Seen, Idle
<1>c. Seen' = State(frag_opcode', frag_buf', Chosen(received', DataMessage))
  BY DEF Seen, State
<1>d. /\ Seen = State(frag_opcode, frag_buf, Chosen(received, DataMessage))
      /\ Seen.opcode = frag_opcode /\ Seen.buf = frag_buf
      /\ Seen.msgs = Chosen(received, DataMessage)
  BY DEF Seen, State
<1>e. ASSUME NEW class, Return(Err(class))
      PROVE  result' = class /\ received' = received
  BY <1>a, <1>e, ReturnErr DEF Return, Err
<1>f. ASSUME NEW m \in Message, Return(Some(m))
      PROVE  /\ result' = "Some" 
             /\ m.kind \in ControlOpcode => Chosen(received', DataMessage) = Seen.msgs
             /\ m.kind \in DataOpcode => Chosen(received', DataMessage) = Append(Seen.msgs, m)
  <2>1. received' = Append(received, m)
    BY <1>a, <1>f, ReturnSome
  <2>2. result' = "Some"
    BY <1>f DEF Return, Some
  <2>. QED  BY <1>a, <1>d, <2>1, <2>2, DataChosen
<1>g. ASSUME f.opcode \in ControlOpcode, UNCHANGED fragVars,
             Chosen(received', DataMessage) = Seen.msgs
      PROVE  Becomes(Seen, f, Seen')
  BY <1>c, <1>d, <1>g DEF Becomes, fragVars
<1>1. CASE RecvBadFrame(f)
  <2>1. Len(f.payload) \in Nat /\ MIN_FRAME_PAYLOAD_CAP \in Nat
    BY <1>a, WebSocketAssumption
  <2>2. ReadFrame(f) = "too_large"
    BY <1>1, <1>b, <2>1 DEF RecvBadFrame, ReadFrame
  <2>. QED  BY <1>1, <1>e, <2>2 DEF RecvBadFrame
<1>2. CASE RecvPing(f)
  <2>1. PICK ok \in WriteOk : Return(PingResult(ok, f))
    BY <1>2 DEF RecvPing
  <2>2. f.opcode \in ControlOpcode /\ UNCHANGED fragVars
    BY <1>2 DEF RecvPing, ControlOpcode
  <2>3. Msg("Ping", f.payload) \in Message /\ Msg("Ping", f.payload).kind \in ControlOpcode
    BY <1>a DEF Msg, Message, ControlOpcode
  <2>4. /\ result' \in {"Some", "io"}
        /\ Chosen(received', DataMessage) = Seen.msgs
    BY <1>d, <1>e, <1>f, <2>1, <2>3 DEF PingResult
  <2>. QED  BY <1>g, <2>2, <2>4
<1>3. CASE RecvPong(f)
  <2>1. f.opcode \in ControlOpcode /\ UNCHANGED fragVars /\ Return(Some(Msg("Pong", f.payload)))
    BY <1>3 DEF RecvPong, ControlOpcode
  <2>2. Msg("Pong", f.payload) \in Message /\ Msg("Pong", f.payload).kind \in ControlOpcode
    BY <1>a DEF Msg, Message, ControlOpcode
  <2>. QED  BY <1>f, <1>g, <2>1, <2>2
<1>4. CASE RecvClose(f)
  <2>1. f.opcode \in ControlOpcode /\ UNCHANGED fragVars
    BY <1>4 DEF RecvClose, ControlOpcode
  <2>2. /\ ParseCloseFrame(f.payload) \in Message
        /\ ParseCloseFrame(f.payload).kind \in ControlOpcode
    BY <1>a, ParseCloseFrameType DEF ParseCloseFrame, Msg, ControlOpcode
  <2>3. Return(Err("io")) \/ Return(Some(ParseCloseFrame(f.payload)))
    BY <1>4 DEF RecvClose
  <2>4. /\ result' \in {"Some", "io"}
        /\ Chosen(received', DataMessage) = Seen.msgs
    BY <1>d, <1>e, <1>f, <2>2, <2>3
  <2>. QED  BY <1>g, <2>1, <2>4
<1>5. CASE RecvOverLimit(f)
  BY <1>5, <1>e DEF RecvOverLimit
<1>6. CASE RecvWhole(f)
  <2>1. f.opcode \in DataOpcode /\ f.fin /\ UNCHANGED fragVars
        /\ Return(MakeDataMessage(f.opcode, f.payload))
    BY <1>6 DEF RecvWhole
  <2>2. MakeDataMessage(f.opcode, f.payload) = Some(Msg(f.opcode, f.payload))
    BY <1>b, <2>1 DEF MakeDataMessage
  <2>3. Msg(f.opcode, f.payload) \in Message /\ Msg(f.opcode, f.payload).kind \in DataOpcode
    BY <1>a, <2>1 DEF Msg, Message
  <2>4. /\ result' = "Some"
        /\ Chosen(received', DataMessage) = Append(Seen.msgs, Msg(f.opcode, f.payload))
    BY <1>f, <2>1, <2>2, <2>3
  <2>5. Seen' = State(Seen.opcode, Seen.buf, Append(Seen.msgs, Msg(f.opcode, f.payload)))
    BY <1>c, <1>d, <2>1, <2>4 DEF fragVars
  <2>. QED  BY <2>1, <2>4, <2>5 DEF Becomes
<1>7. CASE RecvFirstFragment(f)
  <2>1. f.opcode \in DataOpcode /\ ~f.fin /\ frag_opcode' = f.opcode /\ frag_buf' = f.payload
        /\ UNCHANGED <<result, received>>
    BY <1>7 DEF RecvFirstFragment, callVars
  <2>. QED  BY <1>c, <1>d, <2>1 DEF Becomes
<1>8. CASE RecvMiddle(f)
  <2>1. /\ f.opcode = "Continuation" /\ ~f.fin
        /\ frag_opcode' = frag_opcode /\ frag_buf' = frag_buf \o f.payload
        /\ UNCHANGED <<result, received>>
    BY <1>8 DEF RecvMiddle, BufferFragment, callVars
  <2>. QED  BY <1>c, <1>d, <2>1 DEF Becomes
<1>9. CASE RecvOrphan(f)
  BY <1>9, <1>b DEF RecvOrphan
<1>10. CASE RecvFinal(f)
  <2>1. /\ f.opcode = "Continuation" /\ f.fin /\ frag_opcode \in DataOpcode
        /\ frag_opcode' = None /\ frag_buf' = <<>>
        /\ Return(MakeDataMessage(frag_opcode, frag_buf \o f.payload))
    BY <1>10, <1>a DEF RecvFinal, TakeFragments, Reassembled
  <2> DEFINE m == Msg(frag_opcode, frag_buf \o f.payload)
  <2>2. MakeDataMessage(frag_opcode, frag_buf \o f.payload) = Some(m)
    BY <1>b, <2>1 DEF MakeDataMessage
  <2>3. m \in Message /\ m.kind \in DataOpcode
    BY <1>a, <2>1 DEF Msg, Message
  <2>4. /\ result' = "Some"
        /\ Chosen(received', DataMessage) = Append(Seen.msgs, m)
    <3> HIDE DEF m
    <3>. QED  BY <1>f, <2>1, <2>2, <2>3
  <2>5. Seen' = State(None, <<>>, Append(Seen.msgs, Msg(Seen.opcode, Seen.buf \o f.payload)))
    BY <1>c, <1>d, <2>1, <2>4
  <2>. QED  BY <2>1, <2>4, <2>5 DEF Becomes
<1>11. CASE RecvUnexpected(f)
  BY <1>11, <1>b DEF RecvUnexpected
<1>. QED  BY <1>1, <1>2, <1>3, <1>4, <1>5, <1>6, <1>7, <1>8, <1>9, <1>10, <1>11
          DEF RecvFrame

\* There is one state after a frame.
LEMMA BecomesUnique ==
  ASSUME NEW st, NEW f, NEW a, NEW b, Becomes(st, f, a), Becomes(st, f, b)
  PROVE  a = b
BY DEF Becomes, DataOpcode, ControlOpcode

\* A beginning of a beginning is one.
LEMMA PrefixTrans ==
  ASSUME NEW a \in Seq(DataMessage), NEW b \in Seq(DataMessage), NEW c \in Seq(DataMessage),
         Prefix(a, b), Prefix(b, c)
  PROVE  Prefix(a, c)
BY DEF Prefix

\* One more frame on the wire, one more state to go through.
LEMMA SendSync ==
  ASSUME TypeOK, Conforming, NEW f \in Frame, LegalFrame(f), Account(f),
         inbound' = Append(inbound, f), link = "up", UNCHANGED <<link, fragVars, received>>,
         NEW h, Reads(h)
  PROVE  \E k : Reads(k)'
<1>a. Allowed(Meant, f) /\ Becomes(Meant, f, Meant')
  BY AccountSync
<1>b. /\ h \in Seq(Fragments) /\ Len(h) = Len(inbound) + 1 /\ h[1] = Seen
      /\ \A i \in 1..Len(inbound) : Allowed(h[i], inbound[i])
                                    /\ Becomes(h[i], inbound[i], h[i + 1])
      /\ \A i \in 1..Len(h) : Idle(h[i]) /\ Prefix(h[i].msgs, Meant.msgs)
      /\ h[Len(h)] = Meant
      /\ inbound \in Seq(Frame) /\ Len(inbound) \in Nat /\ Meant \in Fragments
  BY MeantType DEF Reads, TypeOK
<1>c. Meant' \in Fragments /\ Idle(Meant') /\ Prefix(Meant.msgs, Meant'.msgs)
  <2>1. Idle(Meant)
    BY <1>b
  <2>. QED  BY <1>a, <1>b, <2>1, BecomesType
<1>0. PICK m : m = Meant'
  OBVIOUS
<1> DEFINE k == Append(h, m)
<1>1. /\ k \in Seq(Fragments) /\ Len(k) = Len(h) + 1 /\ Len(h) \in Nat
      /\ \A i \in 1..Len(h) : k[i] = h[i]
      /\ k[Len(h) + 1] = Meant'
  BY <1>0, <1>b, <1>c
<1>2. /\ Len(inbound') = Len(inbound) + 1
      /\ \A i \in 1..Len(inbound) : inbound'[i] = inbound[i]
      /\ inbound'[Len(inbound) + 1] = f
  BY <1>b
<1> HIDE DEF k
<1>3. Seen' = Seen
  BY DEF Seen, fragVars
<1>4. k[1] = Seen'
  BY <1>1, <1>b, <1>3
<1>5. \A i \in 1..Len(inbound') :
        Allowed(k[i], inbound'[i]) /\ Becomes(k[i], inbound'[i], k[i + 1])
  <2> SUFFICES ASSUME NEW i \in 1..Len(inbound')
               PROVE  Allowed(k[i], inbound'[i]) /\ Becomes(k[i], inbound'[i], k[i + 1])
    OBVIOUS
  <2>1. CASE i \in 1..Len(inbound)
    <3>1. k[i] = h[i] /\ k[i + 1] = h[i + 1] /\ inbound'[i] = inbound[i]
      BY <2>1, <1>b, <1>1, <1>2
    <3>. QED  BY <3>1, <2>1, <1>b
  <2>2. CASE i = Len(inbound) + 1
    <3>1. k[i] = Meant /\ k[i + 1] = Meant' /\ inbound'[i] = f
      BY <2>2, <1>b, <1>1, <1>2
    <3>. QED  BY <3>1, <1>a
  <2>. QED  BY <1>2, <1>b, <2>1, <2>2
<1>6. \A i \in 1..Len(k) : Idle(k[i]) /\ Prefix(k[i].msgs, Meant'.msgs)
  <2> SUFFICES ASSUME NEW i \in 1..Len(k)
               PROVE  Idle(k[i]) /\ Prefix(k[i].msgs, Meant'.msgs)
    OBVIOUS
  <2>1. CASE i \in 1..Len(h)
    <3>1. k[i] = h[i] /\ h[i] \in Fragments
      BY <2>1, <1>b, <1>1
    <3>2. /\ h[i].msgs \in Seq(DataMessage) /\ Meant.msgs \in Seq(DataMessage)
          /\ Meant'.msgs \in Seq(DataMessage)
      BY <3>1, <1>b, <1>c DEF Fragments
    <3>. QED  BY <2>1, <3>1, <3>2, <1>b, <1>c, PrefixTrans
  <2>2. CASE i = Len(h) + 1
    <3>1. Meant'.msgs \in Seq(DataMessage)
      BY <1>c DEF Fragments
    <3>2. Prefix(Meant'.msgs, Meant'.msgs)
      BY <3>1 DEF Prefix
    <3>. QED  BY <2>2, <1>1, <1>c, <3>2
  <2>. QED  BY <1>1, <2>1, <2>2
<1>7. k[Len(k)] = Meant' /\ Len(k) = Len(inbound') + 1
  BY <1>1, <1>2, <1>b
<1>8. Reads(k)'
  BY <1>1, <1>4, <1>5, <1>6, <1>7 DEF Reads
<1>. QED  BY <1>8

\* One frame less.
LEMMA ReadSync ==
  ASSUME TypeOK, NEW h, Reads(h), inbound # <<>>, RecvFrame(Head(inbound)), ~closed'
  PROVE  Reads(Tail(h))'
<1> DEFINE f == Head(inbound)
<1>b. /\ h \in Seq(Fragments) /\ Len(h) = Len(inbound) + 1 /\ h[1] = Seen
      /\ \A i \in 1..Len(inbound) : Allowed(h[i], inbound[i])
                                    /\ Becomes(h[i], inbound[i], h[i + 1])
      /\ \A i \in 1..Len(h) : Idle(h[i]) /\ Prefix(h[i].msgs, Meant.msgs)
      /\ link = "up" => h[Len(h)] = Meant
      /\ inbound \in Seq(Frame) /\ Len(inbound) \in Nat /\ Len(inbound) > 0
  BY DEF Reads, TypeOK
<1>1. f = inbound[1] /\ f \in Frame
  BY <1>b
<1>2. Allowed(Seen, f) /\ Idle(Seen) /\ Becomes(Seen, f, h[2])
  <2>1. 1 \in 1..Len(inbound) /\ 1 \in 1..Len(h)
    BY <1>b
  <2>. QED  BY <1>b, <1>1, <2>1
<1>3. Seen' = h[2]
  <2>1. Becomes(Seen, f, Seen')
    BY <1>1, <1>2, RecvSync
  <2>. QED  BY <1>2, <2>1, BecomesUnique
<1>4. inbound' = Tail(inbound) /\ UNCHANGED <<link, peer, sent>>
  <2> HIDE DEF f
  <2>1. RecvFrame(f)
    BY DEF f
  <2>. QED  BY <2>1
           DEF RecvFrame, RecvBadFrame, RecvPing, RecvPong, RecvClose, RecvOverLimit,
               RecvWhole, RecvFirstFragment, RecvMiddle, RecvOrphan, RecvFinal, RecvUnexpected,
               DataArm, Incoming, peerVars
<1>5. Meant' = Meant
  BY <1>4 DEF Meant
<1> DEFINE k == Tail(h)
<1>6. /\ k \in Seq(Fragments) /\ Len(k) = Len(inbound) /\ \A i \in 1..Len(k) : k[i] = h[i + 1]
      /\ Len(inbound') = Len(inbound) - 1
      /\ \A i \in 1..Len(inbound') : inbound'[i] = inbound[i + 1]
  BY <1>b, <1>4
<1> HIDE DEF k
<1>7. k[1] = Seen'
  BY <1>b, <1>3, <1>6
<1>8. \A i \in 1..Len(inbound') :
        Allowed(k[i], inbound'[i]) /\ Becomes(k[i], inbound'[i], k[i + 1])
  <2> SUFFICES ASSUME NEW i \in 1..Len(inbound')
               PROVE  Allowed(k[i], inbound'[i]) /\ Becomes(k[i], inbound'[i], k[i + 1])
    OBVIOUS
  <2>1. /\ k[i] = h[i + 1] /\ k[i + 1] = h[(i + 1) + 1] /\ inbound'[i] = inbound[i + 1]
        /\ i + 1 \in 1..Len(inbound)
    BY <1>b, <1>6
  <2>. QED  BY <1>b, <2>1
<1>9. \A i \in 1..Len(k) : Idle(k[i]) /\ Prefix(k[i].msgs, Meant'.msgs)
  BY <1>b, <1>5, <1>6
<1>10. link' = "up" => k[Len(k)] = Meant'
  BY <1>b, <1>4, <1>5, <1>6
<1>11. Len(k) = Len(inbound') + 1
  BY <1>b, <1>6
<1>. QED  BY <1>6, <1>7, <1>8, <1>9, <1>10, <1>11 DEF Reads, k

\* The stream breaks: what is lost is not read.
LEMMA DropSync ==
  ASSUME TypeOK, NEW h, Reads(h), PeerDrop
  PROVE  \E k : Reads(k)'
<1>b. /\ h \in Seq(Fragments) /\ Len(h) = Len(inbound) + 1 /\ h[1] = Seen
      /\ \A i \in 1..Len(inbound) : Allowed(h[i], inbound[i])
                                    /\ Becomes(h[i], inbound[i], h[i + 1])
      /\ \A i \in 1..Len(h) : Idle(h[i]) /\ Prefix(h[i].msgs, Meant.msgs)
      /\ inbound \in Seq(Frame) /\ Len(inbound) \in Nat
  BY DEF Reads, TypeOK
<1>1. PICK n \in 0..Len(inbound) : inbound' = SubSeq(inbound, 1, n)
  BY DEF PeerDrop
<1>2. link' = "down" /\ UNCHANGED <<peer, sent, fragVars, received>>
  BY DEF PeerDrop, handleVars, callVars
<1>3. Seen' = Seen /\ Meant' = Meant
  BY <1>2 DEF Seen, Meant, fragVars
<1> DEFINE k == SubSeq(h, 1, n + 1)
<1>4. /\ k \in Seq(Fragments) /\ Len(k) = n + 1 /\ \A i \in 1..n + 1 : k[i] = h[i]
      /\ Len(inbound') = n /\ \A i \in 1..n : inbound'[i] = inbound[i]
  BY <1>b, <1>1
<1> HIDE DEF k
<1>5. k[1] = Seen' /\ Len(k) = Len(inbound') + 1
  BY <1>b, <1>3, <1>4
<1>6. \A i \in 1..Len(inbound') :
        Allowed(k[i], inbound'[i]) /\ Becomes(k[i], inbound'[i], k[i + 1])
  <2> SUFFICES ASSUME NEW i \in 1..Len(inbound')
               PROVE  Allowed(k[i], inbound'[i]) /\ Becomes(k[i], inbound'[i], k[i + 1])
    OBVIOUS
  <2>1. /\ k[i] = h[i] /\ k[i + 1] = h[i + 1] /\ inbound'[i] = inbound[i]
        /\ i \in 1..Len(inbound)
    BY <1>b, <1>1, <1>4
  <2>. QED  BY <1>b, <2>1
<1>7. \A i \in 1..Len(k) : Idle(k[i]) /\ Prefix(k[i].msgs, Meant'.msgs)
  <2>1. \A i \in 1..Len(k) : i \in 1..Len(h) /\ k[i] = h[i]
    BY <1>b, <1>1, <1>4
  <2>. QED  BY <1>b, <1>3, <2>1
<1>8. Reads(k)'
  BY <1>2, <1>4, <1>5, <1>6, <1>7 DEF Reads
<1>. QED  BY <1>8

\* Nothing that InSync is about changes.
LEMMA SameSync ==
  ASSUME NEW h, Reads(h), UNCHANGED <<inbound, link, peer, sent, fragVars, received>>
  PROVE  Reads(h)'
<1>1. Seen' = Seen /\ Meant' = Meant
  BY DEF Seen, Meant, fragVars
<1>. QED  BY <1>1 DEF Reads

\* The inductive invariant.
SyncInv == TypeOK /\ HandleOpen /\ InSync /\ NoFalseRejection

\* At first there is one state, the idle one.
LEMMA InitSync ==
  ASSUME Init
  PROVE  SyncInv
<1>1. TypeOK
  BY InitType
<1>2. Seen = State(None, <<>>, <<>>) /\ Meant = State(None, <<>>, <<>>)
  BY ChosenEmpty DEF Init, Seen, Meant, State
<1> DEFINE h == <<Seen>>
<1>3. h \in Seq(Fragments) /\ Len(h) = 1 /\ h[1] = Seen
  BY <1>1, SeenType
<1> HIDE DEF h
<1>4. Idle(Seen) /\ Prefix(Seen.msgs, Meant.msgs)
  BY <1>2 DEF Idle, Prefix, State
<1>5. Reads(h)
  BY <1>2, <1>3, <1>4 DEF Reads, Init
<1>. QED  BY <1>1, <1>5 DEF SyncInv, HandleOpen, InSync, NoFalseRejection, Init

\* The history and the reassembly state are recv()'s alone.
LEMMA AppSync ==
  ASSUME App \/ CallRecv
  PROVE  UNCHANGED <<inbound, link, peer, sent, fragVars, received>>
BY DEF App, Send, SetMaxMessageSize, CallClose, CallRecv, peerVars, callVars

\* Every step keeps it: the peer appends a state, recv() removes one or closes.
LEMMA SyncStep ==
  ASSUME SyncInv, Next
  PROVE  InSync' /\ NoFalseRejection'
<1>a. TypeOK /\ HandleOpen /\ InSync /\ NoFalseRejection
  BY DEF SyncInv
<1>b. ASSUME Conforming, ~closed
      PROVE  \E h : Reads(h)
  BY <1>a, <1>b DEF InSync
<1>1. CASE \E f \in WireFrame : PeerSend(f)
  <2>1. PICK f \in WireFrame : PeerSend(f)
    BY <1>1
  <2>2. f \in Frame
    BY WireFrameType
  <2>3. /\ inbound' = Append(inbound, f) /\ Account(f) /\ link = "up"
        /\ Conforming => LegalFrame(f)
        /\ UNCHANGED <<link, fragVars, closed, result, received>>
    BY <2>1 DEF PeerSend, handleVars, callVars
  <2>4. ASSUME Conforming, ~closed
        PROVE  \E k : Reads(k)'
    <3>1. PICK h : Reads(h)
      BY <1>b, <2>4
    <3>. QED  BY <1>a, <2>2, <2>3, <2>4, <3>1, SendSync
  <2>. QED  BY <1>a, <2>3, <2>4 DEF InSync, NoFalseRejection
<1>2. CASE PeerEchoClose
  <2> DEFINE f == [wellformed |-> TRUE, fin |-> TRUE, opcode |-> "Close", payload |-> <<>>]
  <2>1. f \in Frame /\ LegalFrame(f)
    <3>1. Len(f.payload) <= MIN_FRAME_PAYLOAD_CAP
      BY WebSocketAssumption
    <3>. QED  BY <1>2, <3>1
             DEF PeerEchoClose, LegalFrame, Frame, Opcode, ControlOpcode, DataOpcode
  <2>2. inbound' = Append(inbound, f) /\ Account(f)
    BY <1>2 DEF PeerEchoClose
  <2>3. link = "up" /\ UNCHANGED <<link, fragVars, closed, result, received>>
    BY <1>2 DEF PeerEchoClose, handleVars, callVars
  <2> HIDE DEF f
  <2>4. ASSUME Conforming, ~closed
        PROVE  \E k : Reads(k)'
    <3>1. PICK h : Reads(h)
      BY <1>b, <2>4
    <3>. QED  BY <1>a, <2>1, <2>2, <2>3, <2>4, <3>1, SendSync
  <2>. QED  BY <1>a, <2>3, <2>4 DEF InSync, NoFalseRejection
<1>3. CASE PeerDrop
  <2>1. UNCHANGED <<closed, result>>
    BY <1>3 DEF PeerDrop, handleVars, callVars
  <2>. QED  BY <1>3, <1>a, <1>b, <2>1, DropSync DEF InSync, NoFalseRejection
<1>4. CASE App \/ CallRecv
  <2>1. UNCHANGED <<inbound, link, peer, sent, fragVars, received>>
    BY <1>4, AppSync
  <2>2. closed => closed'
    BY <1>4 DEF App, Send, SetMaxMessageSize, CallClose, CallRecv
  <2>3. result' \in {result, None}
    BY <1>4 DEF App, Send, SetMaxMessageSize, CallClose, CallRecv, callVars
  <2>. QED  BY <1>a, <1>b, <2>1, <2>2, <2>3, SameSync DEF InSync, NoFalseRejection
<1>5. CASE RecvEof
  <2>1. closed' /\ result' = "io"
    BY <1>5 DEF RecvEof, Return, Err
  <2>. QED  BY <2>1 DEF InSync, NoFalseRejection
<1>6. CASE inbound # <<>> /\ RecvFrame(Head(inbound))
  <2> DEFINE f == Head(inbound)
  <2>1. f \in Frame /\ RecvFrame(f)
    BY <1>6, <1>a DEF TypeOK
  <2>2. ~closed
    <3> HIDE DEF f
    <3>1. pc \in {"recv", "close"}
      BY <1>a, <2>1, RecvFrameOut
    <3>. QED  BY <1>a, <3>1 DEF HandleOpen
  <2>3. ASSUME Conforming, NEW h, Reads(h)
        PROVE  result' \in {result, "Some", "too_large", "io"}
    <3>1. Allowed(Seen, f) /\ Idle(Seen)
      <4>1. f = inbound[1] /\ 1 \in 1..Len(inbound) /\ 1 \in 1..Len(h) /\ h[1] = Seen
        BY <1>6, <1>a, <2>3 DEF Reads, TypeOK
      <4> HIDE DEF f
      <4>. QED  BY <2>3, <4>1 DEF Reads
    <3> HIDE DEF f
    <3>. QED  BY <1>a, <2>1, <3>1, RecvSync
  <2>4. ASSUME Conforming, ~closed'
        PROVE  \E k : Reads(k)'
    <3>1. PICK h : Reads(h)
      BY <1>b, <2>2, <2>4
    <3>2. Reads(Tail(h))'
      BY <1>6, <1>a, <2>4, <3>1, ReadSync
    <3>. QED  BY <3>2
  <2>. QED  BY <1>a, <1>b, <2>2, <2>3, <2>4 DEF InSync, NoFalseRejection
<1>. QED  BY <1>1, <1>2, <1>3, <1>4, <1>5, <1>6 DEF Next, Peer, Recv

\* The invariant holds.
LEMMA SyncInvariant == Spec => []SyncInv
<1>1. Init => SyncInv
  BY InitSync
<1>2. ASSUME SyncInv, CloseInv', [Next]_vars
      PROVE  SyncInv'
  <2>1. TypeOK' /\ HandleOpen'
    BY <1>2 DEF CloseInv
  <2>2. CASE Next
    BY <1>2, <2>1, <2>2, SyncStep DEF SyncInv
  <2>3. CASE UNCHANGED vars
    <3>1. UNCHANGED <<inbound, link, peer, sent, fragVars, received, closed, result>>
      BY <2>3 DEF vars, peerVars, callVars
    <3>2. InSync' /\ NoFalseRejection'
      BY <1>2, <3>1, SameSync DEF SyncInv, InSync, NoFalseRejection
    <3>. QED  BY <2>1, <3>2 DEF SyncInv
  <2>. QED  BY <1>2, <2>2, <2>3
<1>. QED  BY <1>1, <1>2, CloseInvariant, PTL DEF Spec

\* Nothing a conforming peer sends is taken for a malformed frame, an orphan or out of
\* sequence, and none of its texts for invalid, whatever it fragments and interleaves.
THEOREM ConformingPeerHeard == Spec => []NoFalseRejection
<1>1. SyncInv => NoFalseRejection
  BY DEF SyncInv
<1>. QED  BY <1>1, SyncInvariant, PTL

\* With nothing in flight on an open handle, frag_buf and frag_opcode are what the peer
\* left there: no fragment is lost, kept too long or taken for another.
THEOREM Reassembly == Spec => []ReassemblyInSync
<1>1. ASSUME SyncInv
      PROVE  ReassemblyInSync
  <2> SUFFICES ASSUME Conforming, link = "up", inbound = <<>>, ~closed
               PROVE  frag_buf = peer.buf /\ frag_opcode = peer.opcode
    BY DEF ReassemblyInSync
  <2>1. PICK h : Reads(h)
    BY <1>1 DEF SyncInv, InSync
  <2>2. Seen = Meant
    BY <2>1 DEF Reads
  <2>. QED  BY <2>2 DEF Seen, Meant
<1>. QED  BY <1>1, SyncInvariant, PTL

-----------------------------------------------------------------------------
(* The channel                                                              *)

\* The channel's variables (see Channel in WebSocket).
Posted == Chosen(sent, DataMessage)
Delivered == Chosen(received, DataMessage)
Open == ~closed /\ pc # "done"

\* A data message is returned on a handle that stays open.
LEMMA DeliveredOpen ==
  ASSUME TypeOK, NEW f \in Frame, RecvFrame(f), Delivered' # Delivered
  PROVE  closed' = closed /\ pc' # "done"
<1>a. /\ f.payload \in Seq(Byte) /\ f.opcode \in Opcode /\ received \in Seq(Message)
      /\ frag_opcode \in DataOpcode \cup {None} /\ frag_buf \in Seq(Byte)
      /\ frag_buf \o f.payload \in Seq(Byte)
  BY DEF Frame, TypeOK
<1>b. ASSUME NEW class, Return(Err(class))
      PROVE  FALSE
  BY <1>a, <1>b, ReturnErr DEF Delivered
<1>c. ASSUME NEW m \in Message, m.kind \in ControlOpcode, Return(Some(m))
      PROVE  FALSE
  BY <1>a, <1>c, ReturnSome, DataChosen DEF Delivered
<1>d. ASSUME NEW opcode \in DataOpcode, NEW data \in Seq(Byte),
             pc \in {"recv", "close"}, Return(MakeDataMessage(opcode, data))
      PROVE  pc' # "done"
  <2>1. MakeDataMessage(opcode, data) = Some(Msg(opcode, data))
    BY <1>b, <1>d DEF MakeDataMessage
  <2>2. /\ Some(Msg(opcode, data)).tag = "Some"
        /\ Some(Msg(opcode, data)).msgs[1].kind # "Close"
    BY DEF Some, Msg, DataOpcode
  <2>. QED  BY <1>d, <2>1, <2>2 DEF Return
<1>e. received' # received
  BY DEF Delivered
<1>1. CASE RecvPing(f)
  <2>1. PICK ok \in WriteOk : Return(PingResult(ok, f))
    BY <1>1 DEF RecvPing
  <2>2. Msg("Ping", f.payload) \in Message /\ Msg("Ping", f.payload).kind \in ControlOpcode
    BY <1>a DEF Msg, Message, ControlOpcode
  <2>. QED  BY <1>b, <1>c, <2>1, <2>2 DEF PingResult
<1>2. CASE RecvPong(f)
  <2>1. Msg("Pong", f.payload) \in Message /\ Msg("Pong", f.payload).kind \in ControlOpcode
    BY <1>a DEF Msg, Message, ControlOpcode
  <2>. QED  BY <1>2, <1>c, <2>1 DEF RecvPong
<1>3. CASE RecvClose(f)
  <2>1. /\ ParseCloseFrame(f.payload) \in Message
        /\ ParseCloseFrame(f.payload).kind \in ControlOpcode
    BY <1>a, ParseCloseFrameType DEF ParseCloseFrame, Msg, ControlOpcode
  <2>. QED  BY <1>3, <1>b, <1>c, <2>1 DEF RecvClose
<1>4. CASE RecvWhole(f)
  BY <1>4, <1>a, <1>d DEF RecvWhole, DataArm, Incoming
<1>5. CASE RecvFinal(f)
  BY <1>5, <1>a, <1>d DEF RecvFinal, DataArm, Incoming, Reassembled
<1>6. CASE RecvBadFrame(f) \/ RecvOverLimit(f) \/ RecvOrphan(f) \/ RecvUnexpected(f)
  BY <1>6, <1>b DEF RecvBadFrame, RecvOverLimit, RecvOrphan, RecvUnexpected
<1>7. CASE RecvFirstFragment(f) \/ RecvMiddle(f)
  BY <1>7, <1>e DEF RecvFirstFragment, RecvMiddle, callVars
<1>. QED  BY <1>1, <1>2, <1>3, <1>4, <1>5, <1>6, <1>7 DEF RecvFrame

\* What Becomes does to the messages: nothing, or one more.
\* A frame completes one data message or none.
LEMMA BecomesMsgs ==
  ASSUME NEW st \in Fragments, NEW f \in Frame, NEW after, Allowed(st, f), Becomes(st, f, after)
  PROVE  \/ after.msgs = st.msgs
         \/ \E m \in DataMessage : after.msgs = Append(st.msgs, m)
<1>a. /\ f.payload \in Seq(Byte) /\ st.opcode \in DataOpcode \cup {None} /\ st.buf \in Seq(Byte)
      /\ st.buf \o f.payload \in Seq(Byte)
  BY DEF Frame, Fragments
<1>e. ASSUME NEW opcode \in DataOpcode, NEW data \in Seq(Byte)
      PROVE  Msg(opcode, data) \in DataMessage
  BY DEF Msg, DataMessage
<1>f. f.opcode = "Continuation" => st.opcode \in DataOpcode
  BY <1>a DEF Allowed
<1>g. ASSUME NEW opcode, NEW buf, NEW msgs
      PROVE  State(opcode, buf, msgs).msgs = msgs
  BY DEF State
<1>1. CASE after = st
  BY <1>1
<1>2. CASE f.opcode \in DataOpcode
           /\ after = State(st.opcode, st.buf, Append(st.msgs, Msg(f.opcode, f.payload)))
  <2>1. Msg(f.opcode, f.payload) \in DataMessage
    BY <1>2, <1>a, <1>e
  <2>2. after.msgs = Append(st.msgs, Msg(f.opcode, f.payload))
    BY <1>2 DEF State
  <2>. QED  BY <2>1, <2>2
<1>3. CASE f.opcode = "Continuation"
           /\ after = State(None, <<>>, Append(st.msgs, Msg(st.opcode, st.buf \o f.payload)))
  <2>1. Msg(st.opcode, st.buf \o f.payload) \in DataMessage
    BY <1>3, <1>a, <1>e, <1>f
  <2>2. after.msgs = Append(st.msgs, Msg(st.opcode, st.buf \o f.payload))
    BY <1>3 DEF State
  <2>. QED  BY <2>1, <2>2
<1>4. CASE \/ after = State(f.opcode, f.payload, st.msgs)
           \/ after = State(st.opcode, st.buf \o f.payload, st.msgs)
  BY <1>4, <1>g
<1>. QED  BY <1>1, <1>2, <1>3, <1>4 DEF Becomes

\* Every step is a step of the channel or none: a frame that completes a message at the
\* peer posts it, one that completes it here delivers it, and a handle that closes or
\* is consumed by close() shuts it.
LEMMA ChannelStep ==
  ASSUME Conforming, SyncInv, Next
  PROVE  [Channel!Next]_(Channel!channelVars)
<1>a. TypeOK /\ HandleOpen /\ InSync
  BY DEF SyncInv
<1>b. /\ Posted \in Seq(DataMessage) /\ Delivered \in Seq(DataMessage)
      /\ Meant.msgs = Posted /\ Seen.msgs = Delivered
      /\ Meant \in Fragments /\ Seen \in Fragments
  BY <1>a, MeantType, SeenType DEF Fragments, Meant, Seen, Posted, Delivered
<1>s. ASSUME UNCHANGED <<Posted, Delivered, Open>>
      PROVE  UNCHANGED Channel!channelVars
  BY <1>s DEF Channel!channelVars, Posted, Delivered, Open
<1>t. ASSUME UNCHANGED <<Posted, Delivered>>, Open, ~Open'
      PROVE  Channel!Shut
  BY <1>t DEF Channel!Shut, Posted, Delivered, Open
<1>c. ASSUME UNCHANGED <<Posted, Delivered>>, Open' => Open
      PROVE  [Channel!Next]_(Channel!channelVars)
  <2>1. CASE Open /\ ~Open'
    BY <1>c, <1>t, <2>1 DEF Channel!Next
  <2>2. CASE Open' = Open
    BY <1>c, <1>s, <2>2
  <2>3. Open \in BOOLEAN /\ Open' \in BOOLEAN
    BY DEF Open
  <2>. QED  BY <1>c, <2>1, <2>2, <2>3
<1>d. ASSUME NEW f \in Frame, LegalFrame(f), Account(f),
             UNCHANGED <<received, closed, pc>>
      PROVE  [Channel!Next]_(Channel!channelVars)
  <2>1. Allowed(Meant, f) /\ Becomes(Meant, f, Meant')
    BY <1>a, <1>d, AccountSync
  <2>2. Meant'.msgs = Posted' /\ UNCHANGED <<Delivered, Open>>
    BY <1>d DEF Meant, Posted, Delivered, Open
  <2>3. CASE Posted' = Posted
    BY <1>s, <2>2, <2>3
  <2>4. CASE \E m \in DataMessage : Posted' = Append(Posted, m)
    <3>1. Len(Posted') = Len(Posted) + 1 /\ SubSeq(Posted', 1, Len(Posted)) = Posted
      <4> HIDE DEF Posted
      <4>. QED  BY <1>b, <2>4
    <3>2. Channel!Post
      BY <2>2, <3>1 DEF Channel!Post, Posted, Delivered, Open
    <3>. QED  BY <3>2 DEF Channel!Next
  <2>. QED  BY <1>b, <2>1, <2>2, <2>3, <2>4, BecomesMsgs
<1>1. CASE \E f \in WireFrame : PeerSend(f)
  <2>1. PICK f \in WireFrame : PeerSend(f)
    BY <1>1
  <2>. QED  BY <2>1, <1>d, WireFrameType DEF PeerSend, handleVars, callVars
<1>2. CASE PeerEchoClose
  <2> DEFINE f == [wellformed |-> TRUE, fin |-> TRUE, opcode |-> "Close", payload |-> <<>>]
  <2>1. f \in Frame /\ LegalFrame(f)
    <3>1. Len(f.payload) <= MIN_FRAME_PAYLOAD_CAP
      BY WebSocketAssumption
    <3>. QED  BY <1>2, <3>1
             DEF PeerEchoClose, LegalFrame, Frame, Opcode, ControlOpcode, DataOpcode
  <2>2. Account(f) /\ UNCHANGED <<received, closed, pc>>
    BY <1>2 DEF PeerEchoClose, handleVars, callVars
  <2> HIDE DEF f
  <2>. QED  BY <1>d, <2>1, <2>2
<1>3. CASE PeerDrop
  <2>1. UNCHANGED <<Posted, Delivered, Open>>
    BY <1>3 DEF PeerDrop, handleVars, callVars, Posted, Delivered, Open
  <2>. QED  BY <1>s, <2>1
<1>4. CASE App \/ CallRecv
  <2>1. UNCHANGED <<sent, received>>
    BY <1>4, AppSync
  <2>2. Open' => Open
    BY <1>4 DEF Open, App, Send, SetMaxMessageSize, CallClose, CallRecv
  <2>. QED  BY <1>c, <2>1, <2>2 DEF Posted, Delivered
<1>5. CASE RecvEof
  <2>1. received' = received /\ sent' = sent /\ closed'
    BY <1>5, <1>a, ReturnErr DEF RecvEof, TypeOK, peerVars
  <2>. QED  BY <1>c, <2>1 DEF Posted, Delivered, Open
<1>6. CASE inbound # <<>> /\ RecvFrame(Head(inbound))
  <2> DEFINE f == Head(inbound)
  <2>1. f \in Frame /\ RecvFrame(f)
    BY <1>6, <1>a DEF TypeOK
  <2>2. f = inbound[1] /\ 1 \in 1..Len(inbound)
    BY <1>6, <1>a DEF TypeOK
  <2> HIDE DEF f
  <2>3. pc \in {"recv", "close"} /\ ~closed /\ Open
    <3>1. pc \in {"recv", "close"}
      BY <1>a, <2>1, RecvFrameOut
    <3>. QED  BY <1>a, <3>1 DEF HandleOpen, Open
  <2>4. UNCHANGED sent /\ UNCHANGED Posted
    BY <2>1 DEF RecvFrame, RecvBadFrame, RecvPing, RecvPong, RecvClose, RecvOverLimit,
                RecvWhole, RecvFirstFragment, RecvMiddle, RecvOrphan, RecvFinal, RecvUnexpected,
                DataArm, Incoming, peerVars, Posted
  <2>5. CASE Delivered' = Delivered
    BY <1>c, <2>3, <2>4, <2>5
  <2>6. CASE Delivered' # Delivered
    <3>1. closed' = closed /\ pc' # "done"
      BY <1>a, <2>1, <2>6, DeliveredOpen
    <3>2. UNCHANGED Open
      BY <2>3, <3>1 DEF Open
    <3>3. PICK h : Reads(h)
      BY <1>a, <2>3 DEF InSync
    <3>4. /\ Allowed(Seen, f) /\ Idle(Seen) /\ Becomes(Seen, f, h[2]) /\ h[2] \in Fragments
          /\ Prefix(h[2].msgs, Meant.msgs)
      <4>1. /\ h[1] = Seen /\ 1 \in 1..Len(h) /\ 2 \in 1..Len(h) /\ h \in Seq(Fragments)
            /\ 1 + 1 = 2
        BY <1>a, <2>2, <3>3 DEF Reads, TypeOK
      <4>. QED  BY <2>2, <3>3, <4>1 DEF Reads
    <3>5. Becomes(Seen, f, Seen')
      BY <1>a, <2>1, <2>3, <3>1, <3>4, RecvSync
    <3>6. Seen' = h[2] /\ Seen'.msgs = Delivered'
      BY <3>4, <3>5, BecomesUnique DEF Seen, Delivered
    <3>7. PICK m \in DataMessage : Delivered' = Append(Delivered, m)
      BY <1>b, <2>1, <2>6, <3>4, <3>5, <3>6, BecomesMsgs
    <3>8. Prefix(Append(Delivered, m), Posted)
      BY <1>b, <3>4, <3>6, <3>7
    <3>9. Len(Delivered) < Len(Posted) /\ m = Posted[Len(Delivered) + 1]
      <4> HIDE DEF Posted, Delivered
      <4>. QED  BY <1>b, <3>8 DEF Prefix
    <3>10. Channel!Deliver
      BY <2>3, <2>4, <3>2, <3>7, <3>9 DEF Channel!Deliver, Posted, Delivered, Open
    <3>. QED  BY <3>10 DEF Channel!Next
  <2>. QED  BY <2>5, <2>6
<1>. QED  BY <1>1, <1>2, <1>3, <1>4, <1>5, <1>6 DEF Next, Peer, Recv

\* With a conforming peer recv() hands over the peer's data messages complete, once and
\* in order, and none once the handle is closed: the connection implements the channel
\* (the safety part of DeliversInOrder; that every message arrives is TLC's to check).
THEOREM ChannelSafety ==
  ASSUME Conforming
  PROVE  Spec => Channel!Spec
<1>1. Init => Channel!Init
  BY ChosenEmpty DEF Init, Channel!Init
<1>2. ASSUME SyncInv, [Next]_vars
      PROVE  [Channel!Next]_(Channel!channelVars)
  <2>1. CASE Next
    BY <1>2, <2>1, ChannelStep
  <2>2. CASE UNCHANGED vars
    BY <2>2 DEF vars, peerVars, callVars, Channel!channelVars
  <2>. QED  BY <1>2, <2>1, <2>2
<1>. QED  BY <1>1, <1>2, SyncInvariant, PTL DEF Spec, Channel!Spec
=============================================================================
