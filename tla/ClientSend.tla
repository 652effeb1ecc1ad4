----------------------------- MODULE ClientSend -----------------------------
(***************************************************************************)
(* One request of the client (oxihttp-client/src/lib.rs, retry.rs,         *)
(* redirect.rs): its last setters (RequestBuild) and its send(), which is  *)
(* a retry loop around the redirect loop of send_inner, with a body that   *)
(* may be sent once only and a network that answers with anything, late or *)
(* never.                                                                  *)
(*                                                                         *)
(* An origin is what same_origin() tells apart: a scheme and a host.       *)
(* Statuses stand for their class: 503 for every retryable one, 303 for    *)
(* 301 to 303, 307 for 307 and 308.                                        *)
(***************************************************************************)
EXTENDS RequestBuild

CONSTANTS
  Origin,    \* origins a redirect may name
  Home,      \* the origin of the first request
  Requests   \* [request, calls]: a request, and the setters still to be called

ASSUME ClientAssumption ==
  /\ Home \in Origin
  /\ Requests \subseteq [request : RequestType, calls : Nat]
  /\ \A r \in Requests : /\ TypeFits(Content(r.request), r.request.content_type)
                         /\ r.request.content_type \in {"none", "own"}

VARIABLES
  req,       \* the RequestBuilder
  calls,     \* bound: the setters that may still be called
  pc,        \* "build", "attempt", "hop", "wait", "backoff", "done"
  attempt,   \* the retry loop's variable
  hop,       \* send_inner's locals: [method, origin, auth, redirects]
  body,      \* OutgoingBody: "reusable", "oneshot", "taken", "empty"
  slot,      \* does stream_body_slot still hold the stream?
  net,       \* the exchange under way: [state, status, location]
  result,    \* what send() returned
  wanted,    \* history: the body that was set last
  earlier,   \* history: the bodies set before it
  hooks,     \* history: calls of before_request and after_response
  streamed,  \* history: how many times the stream was put on the wire
  trail,     \* history: what the redirects of this attempt have done
  log        \* history: the requests put on the wire

buildVars == <<req, calls, wanted, earlier>>
loopVars == <<attempt, hop, body, slot>>
ghostVars == <<hooks, streamed, trail, log>>
vars == <<buildVars, pc, loopVars, net, result, ghostVars>>

None == "None"
Pending == "Pending"
Missing == "Missing"         \* no Location header, or none that parses
Relative == "Relative"       \* a Location with no scheme, from its first slash
Idle == [state |-> "idle", status |-> None, location |-> Missing]

Redirects == {"303", "307"}
Status == {"200", "503"} \cup Redirects
Failure == {"Hyper", "Timeout", "Body", "Redirect"}

NotStrayed == [strayed |-> FALSE, dropped |-> FALSE]

-----------------------------------------------------------------------------
(* The request is built                                                     *)

Set ==
  /\ pc = "build" /\ calls > 0
  /\ calls' = calls - 1
  /\ \/ req' \in HeadSet(req) /\ UNCHANGED <<wanted, earlier>>
     \/ /\ \E set \in BodySet(req) : req' = set[1] /\ wanted' = set[2]
        /\ earlier' = earlier \cup {wanted}
  /\ UNCHANGED <<pc, loopVars, net, result, hooks, streamed, trail, log>>

-----------------------------------------------------------------------------
(* The retry loop                                                           *)

\* A body that can be sent once only is tried once only.
MaxAttempts ==
  IF req.stream \/ ~req.retry THEN 1 ELSE req.max_retries + 1

\* Mutant: one attempt too many.
MoreAttempts_OffByOne == attempt < MaxAttempts

MoreAttempts == attempt < MaxAttempts - 1

\* before_request is called once, before the first attempt.
Start ==
  /\ pc = "build"
  /\ pc' = "attempt"
  /\ calls' = 0
  /\ slot' = req.stream
  /\ hooks' = [hooks EXCEPT !.before = @ + 1]
  /\ UNCHANGED <<req, wanted, earlier, attempt, hop, body, net, result, streamed, trail, log>>

\* Every attempt starts again from the original request.
BeginAttempt ==
  /\ pc = "attempt"
  /\ pc' = "hop"
  /\ hop' = [method |-> req.method, origin |-> Home, auth |-> req.auth,
             redirects |-> 0]
  /\ body' = CASE ~req.stream -> "reusable"
               [] slot -> "oneshot"
               [] OTHER -> "taken"
  /\ slot' = FALSE
  /\ trail' = NotStrayed
  /\ net' = Idle
  /\ UNCHANGED <<buildVars, attempt, result, hooks, streamed, log>>

Finish(outcome) ==
  /\ pc' = "done"
  /\ result' = outcome
  /\ UNCHANGED attempt

Again ==
  /\ pc' = "backoff"
  /\ attempt' = attempt + 1
  /\ UNCHANGED result

\* Mutant: after_response sees every response.
AfterResponse_Every(retried) == hooks' = [hooks EXCEPT !.after = @ + 1]

\* after_response is called for the response send() returns.
AfterResponse(retried) ==
  IF retried THEN UNCHANGED hooks ELSE hooks' = [hooks EXCEPT !.after = @ + 1]

\* send_inner has returned Ok.
AttemptOk(status) ==
  LET retried == req.retry /\ MoreAttempts /\ status = "503"
  IN  /\ AfterResponse(retried)
      /\ IF retried THEN Again ELSE Finish(status)

Retryable(error) ==
  \/ error = "Hyper" /\ req.retry_on_connection_error
  \/ error = "Timeout" /\ req.retry_on_timeout

\* send_inner has returned an error, or has been dropped by the timeout.
AttemptErr(error) ==
  /\ IF req.retry /\ Retryable(error) /\ MoreAttempts
       THEN Again ELSE Finish(error)
  /\ net' = Idle
  /\ UNCHANGED <<buildVars, hop, body, slot, ghostVars>>

\* backoff_delay has passed.
Backoff ==
  /\ pc = "backoff"
  /\ pc' = "attempt"
  /\ UNCHANGED <<buildVars, loopVars, net, result, ghostVars>>

\* Mutant: the timer is armed for every hop anew.
TimerRunning_PerHop == pc = "wait" /\ net.state = "sent"

TimerRunning == pc \in {"hop", "wait"}

\* The per-request timeout covers one attempt, its redirects included.
TimedOut ==
  /\ req.timeout /\ TimerRunning
  /\ AttemptErr("Timeout")

-----------------------------------------------------------------------------
(* The redirect loop                                                        *)

\* Mutant: the stream stays in its slot.
Taken_NotEmptied == body

\* take_for_hop: what is left once this hop's body is taken.
Taken == IF body = "oneshot" THEN "taken" ELSE body

Wire ==
  [method |-> hop.method, origin |-> hop.origin, auth |-> hop.auth,
   body |-> IF body = "empty" THEN "none" ELSE Content(req),
   content_type |-> req.content_type, strayed |-> trail.strayed,
   dropped |-> trail.dropped, attempt |-> attempt]

\* One turn of the loop up to client.request(): the request goes out.
SendHop ==
  /\ pc = "hop" /\ body # "taken"
  /\ pc' = "wait"
  /\ body' = Taken
  /\ net' = [Idle EXCEPT !.state = "sent"]
  /\ streamed' = IF body = "oneshot" THEN streamed + 1 ELSE streamed
  /\ log' = log \cup {Wire}
  /\ UNCHANGED <<buildVars, attempt, hop, slot, result, hooks, trail>>

\* A one-shot body was sent before: a typed error, and nothing on the wire.
BodyGone ==
  /\ pc = "hop" /\ body = "taken"
  /\ AttemptErr("Body")

\* The connection failed, before the server saw the request or after.
HopFailed ==
  /\ pc = "wait" /\ net.state = "failed"
  /\ AttemptErr("Hyper")

Answered(statuses) ==
  pc = "wait" /\ net.state = "answered" /\ net.status \in statuses

\* Any other status, and every one under RedirectPolicy::None, ends the loop.
HopDone ==
  /\ Answered(IF req.max_redirects = 0 THEN Status ELSE Status \ Redirects)
  /\ AttemptOk(net.status)
  /\ net' = Idle
  /\ UNCHANGED <<buildVars, hop, body, slot, streamed, trail, log>>

\* Mutant: one redirect too many.
HopsSpent_OffByOne ==
  req.max_redirects # Unlimited /\ hop.redirects > req.max_redirects

HopsSpent ==
  req.max_redirects # Unlimited /\ hop.redirects >= req.max_redirects

RedirectRefused ==
  /\ Answered(Redirects) /\ req.max_redirects # 0
  /\ HopsSpent \/ net.location = Missing
  /\ AttemptErr("Redirect")

\* redirect_method and should_preserve_body.
NewMethod(status) ==
  IF status = "307" \/ hop.method = "HEAD" THEN hop.method ELSE "GET"

\* Mutant: the body stays when the method has become GET.
NewBody_Kept(status) == body

NewBody(status) == IF status = "307" THEN body ELSE "empty"

\* resolve_redirect_uri.
Target == IF net.location = Relative THEN hop.origin ELSE net.location

SameOrigin(target) == target = Home

\* Mutant: credentials are decided on hop by hop.
NewAuth_PerHop(target) == SameOrigin(target)

\* Authorization and Cookie are removed for good on leaving the first origin.
NewAuth(target) == hop.auth /\ SameOrigin(target)

\* The counter is of no use, and not kept, when redirects are unlimited.
RedirectFollowed ==
  /\ Answered(Redirects) /\ req.max_redirects # 0
  /\ ~HopsSpent /\ net.location # Missing
  /\ pc' = "hop"
  /\ hop' = [method |-> NewMethod(net.status), origin |-> Target,
             auth |-> NewAuth(Target),
             redirects |-> IF req.max_redirects = Unlimited THEN 0
                                                     ELSE hop.redirects + 1]
  /\ body' = NewBody(net.status)
  /\ trail' = [strayed |-> trail.strayed \/ Target # Home,
               dropped |-> trail.dropped \/ net.status = "303"]
  /\ net' = Idle
  /\ UNCHANGED <<buildVars, attempt, slot, result, hooks, streamed, log>>

-----------------------------------------------------------------------------
(* The network                                                              *)

Reply ==
  /\ net.state = "sent"
  /\ net' \in [state : {"answered"}, status : Status,
               location : Origin \cup {Relative, Missing}]
  /\ net'.status \notin Redirects => net'.location = Missing
  /\ UNCHANGED <<buildVars, pc, loopVars, result, ghostVars>>

Break ==
  /\ net.state = "sent"
  /\ net' = [Idle EXCEPT !.state = "failed"]
  /\ UNCHANGED <<buildVars, pc, loopVars, result, ghostVars>>

-----------------------------------------------------------------------------

Init ==
  /\ \E r \in Requests :
       req = r.request /\ calls = r.calls /\ wanted = Content(r.request)
  /\ earlier = {}
  /\ pc = "build"
  /\ attempt = 0
  /\ hop = [method |-> req.method, origin |-> Home, auth |-> req.auth,
            redirects |-> 0]
  /\ body = "empty"
  /\ slot = FALSE
  /\ net = Idle
  /\ result = Pending
  /\ hooks = [before |-> 0, after |-> 0]
  /\ streamed = 0
  /\ trail = NotStrayed
  /\ log = {}

Client ==
  \/ BeginAttempt \/ Backoff
  \/ SendHop \/ BodyGone
  \/ HopFailed \/ HopDone \/ RedirectRefused \/ RedirectFollowed

Next == Set \/ Start \/ Client \/ TimedOut \/ Reply \/ Break

Spec == Init /\ [][Next]_vars

\* tokio polls the future while it can move, and a timer fires.  The network
\* promises nothing.
FairSpec == Spec /\ WF_vars(Client) /\ WF_vars(TimedOut)

-----------------------------------------------------------------------------
(* Properties                                                               *)

\* Every variable keeps its type; the retry loop does not outrun its limit.
TypeOK ==
  /\ req \in RequestType /\ calls \in Nat
  /\ wanted \in Bytes \cup {"stream"} /\ earlier \subseteq Bytes \cup {"stream"}
  /\ pc \in {"build", "attempt", "hop", "wait", "backoff", "done"}
  /\ attempt \in 0..MaxAttempts - 1
  /\ hop \in [method : Method, origin : Origin, auth : BOOLEAN, redirects : Nat]
  /\ body \in {"reusable", "oneshot", "taken", "empty"}
  /\ slot \in BOOLEAN
  /\ net \in [state : {"idle", "sent", "answered", "failed"},
              status : Status \cup {None}, location : Origin \cup {Relative, Missing}]
  /\ result \in Status \cup Failure \cup {Pending}
  /\ hooks \in [before : Nat, after : Nat]
  /\ streamed \in Nat
  /\ trail \in [strayed : BOOLEAN, dropped : BOOLEAN]
  /\ log \subseteq [method : Method, origin : Origin, auth : BOOLEAN,
                    body : Bytes \cup {"stream"}, content_type : ContentType,
                    strayed : BOOLEAN, dropped : BOOLEAN, attempt : Nat]

\* Authorization is never sent to another origin, nor back to the first one by
\* a chain of redirects that has left it (same_origin, send_inner).
CredentialsStayHome ==
  \A e \in log : e.auth => e.origin = Home /\ ~e.strayed

\* A form was set on a request that had a typed body before, another form included:
\* multipart() and multipart_stream() take its type for one "the caller has already
\* provided" and leave it, which does not fit.
LeftOver == wanted \in {"parts", "stream"} /\ earlier \cap Typing # {}

\* Every request on the wire has the body that was set last, or comes after a 301 to
\* 303 of its own attempt and then has neither method nor body of it: no attempt sends
\* a hollow request or resends a body it should have dropped, a streaming body goes
\* out once at most over all of them (OutgoingBody::OneShot), and no redirect is
\* followed beyond the policy's limit.  Its type is the one that goes with the body or
\* the application's own, but for a form set over another typed body (LeftOver), of
\* whose type nothing is said here.
HopsFaithful ==
  /\ \A e \in log :
       /\ e.body = IF e.dropped THEN "none" ELSE wanted
       /\ ~LeftOver => TypeFits(wanted, e.content_type)
       /\ e.method = IF e.dropped /\ req.method # "HEAD" THEN "GET" ELSE req.method
  /\ streamed <= 1
  /\ req.max_redirects # Unlimited => hop.redirects <= req.max_redirects

\* The hooks are balanced: before_request once ahead of everything sent,
\* after_response once if, and only if, send() returns a response.
HooksBalanced ==
  /\ hooks.before = IF pc = "build" THEN 0 ELSE 1
  /\ hooks.after = IF result \in Status THEN 1 ELSE 0

\* Methods of which a second request does no harm (retry.rs:9, "to retry idempotent
\* requests").
Idempotent == {"GET", "HEAD"}

\* send() does not give up early on an idempotent request: a failure its policy retries
\* is returned only when every attempt was made.  Of a POST, which the documentation
\* leaves out and the loop does not look for, nothing is said here.
GivesUpLast ==
  (req.method \in Idempotent /\ req.retry /\ ~req.stream
     /\ (result = "503" \/ (result \in Failure /\ Retryable(result))))
    => attempt = req.max_retries

\* With a timeout, send() returns: servers that hang, redirect in circles or
\* fail every time included.
SendReturns == (req.timeout /\ pc # "build") ~> (pc = "done")

\* The README has read_timeout as the response read timeout: a hop is not
\* waited for without end when one is set.
ReadTimeoutEnds == (req.read_timeout /\ pc = "wait") ~> (pc # "wait")
=============================================================================
