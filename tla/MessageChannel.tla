--------------------------- MODULE MessageChannel ---------------------------
(***************************************************************************)
(* What a message-oriented connection promises its reader: the messages    *)
(* posted at the other end arrive complete, unaltered, once and in order,  *)
(* until the channel is shut; and while it is open every posted message    *)
(* arrives.                                                                *)
(***************************************************************************)
EXTENDS Naturals, Sequences

VARIABLES
  posted,     \* the messages the other end has completed
  delivered,  \* the messages handed to the reader
  open        \* FALSE once the reader can receive no more

channelVars == <<posted, delivered, open>>

Init == posted = <<>> /\ delivered = <<>> /\ open = TRUE

Post ==
  /\ Len(posted') = Len(posted) + 1
  /\ SubSeq(posted', 1, Len(posted)) = posted
  /\ UNCHANGED <<delivered, open>>

Deliver ==
  /\ open
  /\ Len(delivered) < Len(posted)
  /\ delivered' = Append(delivered, posted[Len(delivered) + 1])
  /\ UNCHANGED <<posted, open>>

Shut ==
  /\ open
  /\ open' = FALSE
  /\ UNCHANGED <<posted, delivered>>

Next == Post \/ Deliver \/ Shut

Spec == Init /\ [][Next]_channelVars
FairSpec == Spec /\ WF_channelVars(Deliver)
=============================================================================
