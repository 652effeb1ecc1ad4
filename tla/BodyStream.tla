----------------------------- MODULE BodyStream -----------------------------
(***************************************************************************)
(* A streaming body and the connection that polls it (Body::stream and     *)
(* PinnedBody of oxihttp-core/src/body.rs): chunks are yielded until the   *)
(* stream ends or fails, or until the peer goes away and hyper drops it.   *)
(***************************************************************************)
EXTENDS Integers, Sequences, FiniteSets, SequencesExt, FiniteSetsExt

VARIABLES
  body,   \* "none" yet, "open", "ended", "failed", "dropped"
  got     \* history: what the stream has yielded, in order

bodyVars == <<body, got>>

BodyInit == body = "none" /\ got = <<>>

Created == body = "none" /\ body' = "open" /\ UNCHANGED got
Yield(chunks) == got' = got \o chunks /\ UNCHANGED body
End == body' = "ended" /\ UNCHANGED got
Fail == body' = "failed" /\ UNCHANGED got

\* The peer disconnects.
Disconnect == body = "open" /\ body' = "dropped" /\ UNCHANGED got
=============================================================================
