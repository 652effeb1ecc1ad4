---------------------------- MODULE MCWebSocket ----------------------------
(* Instances of WebSocket for TLC.  "a" is a one-byte character, "h" and "t" *)
(* the two halves of a two-byte one.                                         *)
EXTENDS WebSocket, SequencesExt

MCByte == {"a", "h", "t"}

\* Every "h" is followed by a "t", and every "t" preceded by an "h".
IsUtf8(s) ==
  /\ \A i \in DOMAIN s : s[i] = "h" => i < Len(s) /\ s[i + 1] = "t"
  /\ \A i \in DOMAIN s : s[i] = "t" => i > 1 /\ s[i - 1] = "h"

MCUtf8 == {s \in BoundedSeq(MCByte, 6) : IsUtf8(s)}

\* Empty, and half a character.
SplitPayloads == {<<>>, <<"h">>, <<"t">>}
\* Empty; within the smaller frame cap but not the smaller budget; beyond both,
\* and no text.
SizedPayloads == {<<>>, <<"h", "t">>, <<"h", "t", "h">>}

MCAppPayloads == {<<"a">>}
=============================================================================
