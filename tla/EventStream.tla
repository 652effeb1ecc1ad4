---------------------------- MODULE EventStream ----------------------------
(***************************************************************************)
(* Server-sent events (oxihttp-server/src/sse.rs): a handler's task sends  *)
(* events into a bounded channel, the response's body takes them out.      *)
(* With a heartbeat a spawned task stands between them and merges the      *)
(* events with a timer into a second channel.                              *)
(*                                                                         *)
(* An event is its number.  Heartbeats fill the second channel and reach   *)
(* the client; got does not list them.                                     *)
(***************************************************************************)
EXTENDS BodyStream

CONSTANTS
  Buffer,     \* capacity of the event channel
  Merged,     \* capacity of the second channel, 32 in the code
  MaxEvents   \* bound: events sent

ASSUME EventAssumption == {Buffer, Merged, MaxEvents} \subseteq Nat \ {0}

VARIABLES
  heartbeat,  \* with_heartbeat was called
  sender,     \* SseSender: "held", "dropped"
  channel,    \* its channel
  rx,         \* the channel's receiver: "open", "dropped"
  task,       \* the merge task: "none", "select", "send", "ended"
  hand,       \* what it is about to send on
  merged,     \* the second channel
  accepted    \* history: events whose send() returned Ok

eventVars == <<heartbeat, sender, channel, rx, task, hand, merged, accepted>>

Beat == 0

EventInit ==
  /\ heartbeat \in BOOLEAN
  /\ sender = "held" /\ channel = <<>> /\ rx = "open"
  /\ task = "none" /\ hand = Beat /\ merged = <<>> /\ accepted = 0

\* into_response: the stream over the channel, behind the task if there is one.
IntoResponse ==
  /\ Created
  /\ task' = IF heartbeat THEN "select" ELSE "none"
  /\ UNCHANGED <<heartbeat, sender, channel, rx, hand, merged, accepted>>

\* send() waits for room, try_send() does not wait; without a receiver both
\* return an error and change nothing.
Send ==
  /\ sender = "held" /\ rx = "open"
  /\ accepted < MaxEvents /\ Len(channel) < Buffer
  /\ channel' = Append(channel, accepted + 1)
  /\ accepted' = accepted + 1
  /\ UNCHANGED <<bodyVars, heartbeat, sender, rx, task, hand, merged>>

DropSender ==
  /\ sender = "held"
  /\ sender' = "dropped"
  /\ UNCHANGED <<bodyVars, heartbeat, channel, rx, task, hand, merged, accepted>>

\* recv() of a channel whose senders are gone still returns what is in it.
Drained(c, open) == c = <<>> /\ ~open

\* Mutant: the stream ends when the sender is dropped.
NoMoreEvents_OnDrop == sender = "dropped"

NoMoreEvents == Drained(channel, sender = "held")

\* One poll of the body without a heartbeat.
PollEvents ==
  /\ body = "open" /\ ~heartbeat
  /\ \/ /\ ~NoMoreEvents /\ channel # <<>>
        /\ Yield(<<Head(channel)>>)
        /\ channel' = Tail(channel)
     \/ NoMoreEvents /\ End /\ UNCHANGED channel
  /\ UNCHANGED <<heartbeat, sender, rx, task, hand, merged, accepted>>

\* With one: events and beats come in the order the task merged them.
PollMerged ==
  /\ body = "open" /\ heartbeat
  /\ \/ /\ merged # <<>>
        /\ Yield(IF Head(merged) = Beat THEN <<>> ELSE <<Head(merged)>>)
        /\ merged' = Tail(merged)
     \/ Drained(merged, task # "ended") /\ End /\ UNCHANGED merged
  /\ UNCHANGED <<heartbeat, sender, channel, rx, task, hand, accepted>>

\* select!: the event branch.
TakeEvent ==
  /\ task = "select" /\ ~NoMoreEvents /\ channel # <<>>
  /\ hand' = Head(channel)
  /\ channel' = Tail(channel)
  /\ task' = "send"
  /\ UNCHANGED <<bodyVars, heartbeat, sender, rx, merged, accepted>>

\* The task's end drops its half of both channels.
TaskEnds ==
  /\ task' = "ended"
  /\ rx' = "dropped"
  /\ UNCHANGED <<bodyVars, heartbeat, sender, channel, hand, merged, accepted>>

\* Mutant: the merge goes on as long as either of its streams does.
Breaks_Never == FALSE

\* The end of the events breaks the loop, though the heartbeats have none.
Breaks == NoMoreEvents

EventsEnd == task = "select" /\ Breaks /\ TaskEnds

\* Mutant: the timer runs only while the body is polled.
BeatDue_Polled == body = "open"

BeatDue == TRUE

\* select!: the heartbeat branch.
TakeBeat ==
  /\ task = "select" /\ BeatDue
  /\ hand' = Beat
  /\ task' = "send"
  /\ UNCHANGED <<bodyVars, heartbeat, sender, channel, rx, merged, accepted>>

\* merged_tx.send(): it waits for room, and fails once the body is dropped.
SendMerged ==
  /\ task = "send" /\ body = "open" /\ Len(merged) < Merged
  /\ merged' = Append(merged, hand)
  /\ task' = "select"
  /\ UNCHANGED <<bodyVars, heartbeat, sender, channel, rx, hand, accepted>>

SendMergedFails == task = "send" /\ body # "open" /\ TaskEnds

\* The client leaves; without a heartbeat the body holds the receiver.
LoseClient ==
  /\ Disconnect
  /\ rx' = IF heartbeat THEN rx ELSE "dropped"
  /\ UNCHANGED <<heartbeat, sender, channel, task, hand, merged, accepted>>

EventNext ==
  \/ IntoResponse \/ Send \/ DropSender \/ PollEvents \/ PollMerged
  \/ TakeEvent \/ EventsEnd \/ TakeBeat \/ SendMerged \/ SendMergedFails
  \/ LoseClient
=============================================================================
