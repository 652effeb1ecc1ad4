-------------------------- MODULE ClientSendProofs --------------------------
(***************************************************************************)
(* Proofs about ClientSend, for every set of origins and of requests and   *)
(* whatever the network answers: what its requests carry, the hooks, and   *)
(* when it gives up.                                                       *)
(***************************************************************************)
EXTENDS ClientSend, TLAPS

\* While the request is built, nothing of its send() has happened.
NotBegun ==
  pc = "build" =>
    /\ attempt = 0 /\ body = "empty" /\ ~slot /\ net = Idle
    /\ hop.redirects = 0 /\ streamed = 0 /\ log = {}

\* send() has a result when it is done, and not before.
Returning == result = Pending <=> pc # "done"

Base == TypeOK /\ NotBegun /\ Returning

LEMMA InitBase == Init => Base
<1> SUFFICES ASSUME Init PROVE Base
  OBVIOUS
<1>1. PICK r \in Requests :
        req = r.request /\ calls = r.calls /\ wanted = Content(r.request)
  BY DEF Init
<1>2. req \in RequestType /\ calls \in Nat
  BY <1>1, ClientAssumption
<1>3. wanted \in Bytes \cup {"stream"} /\ earlier \subseteq Bytes \cup {"stream"}
  BY <1>1, <1>2 DEF Init, Content, RequestType
<1>4. 0 \in 0..MaxAttempts - 1
  BY <1>2 DEF MaxAttempts, RequestType
<1>5. hop \in [method : Method, origin : Origin, auth : BOOLEAN, redirects : Nat]
  BY <1>2, ClientAssumption DEF Init, RequestType
<1>6. TypeOK
  BY <1>2, <1>3, <1>4, <1>5 DEF Init, TypeOK, Idle, NotStrayed, Pending, None, Missing
<1>. QED  BY <1>6 DEF Init, Base, NotBegun, Returning

\* The setters keep the request's type.
LEMMA SetType ==
  ASSUME req \in RequestType, wanted \in Bytes \cup {"stream"},
         earlier \subseteq Bytes \cup {"stream"}, Set
  PROVE  /\ req' \in RequestType /\ wanted' \in Bytes \cup {"stream"}
         /\ earlier' \subseteq Bytes \cup {"stream"}
<1>0. earlier' \subseteq Bytes \cup {"stream"}
  BY DEF Set
<1>1. CASE req' \in HeadSet(req) /\ UNCHANGED wanted
  BY <1>0, <1>1 DEF RequestType, HeadSet, Header, Authorized, WithTimeout, ContentType
<1>2. CASE \E set \in BodySet(req) : req' = set[1] /\ wanted' = set[2]
  <2>1. PICK set \in BodySet(req) : req' = set[1] /\ wanted' = set[2]
    BY <1>2
  <2>2. Typed(req) \in ContentType
    BY DEF Typed, RequestType, ContentType
  <2>3. Body(req) \in RequestType /\ Json(req) \in RequestType /\ Form(req) \in RequestType
    BY DEF RequestType, Body, Json, Form, WithBytes, Bytes, ContentType
  <2>4. Multipart(req) \in RequestType /\ MultipartStream(req) \in RequestType
    BY <2>2 DEF RequestType, Multipart, MultipartStream, WithBytes, Bytes
  <2>. QED  BY <1>0, <2>1, <2>3, <2>4 DEF BodySet, Bytes
<1>. QED  BY <1>0, <1>1, <1>2 DEF Set

\* A failed attempt ends send() or leads to the next one.
LEMMA FailureBase ==
  ASSUME Base, pc \in {"hop", "wait"}, NEW error \in Failure, AttemptErr(error)
  PROVE  Base'
<1>1. CASE Again
  <2>1. attempt + 1 \in 0..MaxAttempts - 1
    BY <1>1 DEF AttemptErr, Finish, Again, MoreAttempts, MaxAttempts, Base, TypeOK, RequestType
  <2>. QED
    BY <1>1, <2>1 DEF AttemptErr, Again, Base, TypeOK, NotBegun, Returning, buildVars,
       ghostVars, Idle, None, Missing, MaxAttempts
<1>2. CASE Finish(error)
  BY <1>2 DEF AttemptErr, Finish, Base, TypeOK, NotBegun, Returning, buildVars,
     ghostVars, Idle, None, Missing, MaxAttempts, Failure, Pending
<1>. QED  BY <1>1, <1>2 DEF AttemptErr

LEMMA BaseStep == Base /\ [Next]_vars => Base'
<1> SUFFICES ASSUME Base, [Next]_vars PROVE Base'
  OBVIOUS
<1>1. CASE Set
  BY <1>1, SetType DEF Set, Base, TypeOK, NotBegun, Returning, loopVars, MaxAttempts,
     RequestType
<1>2. CASE Start
  BY <1>2 DEF Start, Base, TypeOK, NotBegun, Returning, RequestType, MaxAttempts
<1>3. CASE BeginAttempt
  BY <1>3, ClientAssumption DEF BeginAttempt, Base, TypeOK, NotBegun, Returning,
     buildVars, RequestType, MaxAttempts, NotStrayed, Idle, None, Missing
<1>4. CASE Backoff
  BY <1>4 DEF Backoff, Base, TypeOK, NotBegun, Returning, buildVars, loopVars, ghostVars,
     MaxAttempts
<1>5. CASE SendHop
  <2>1. Wire \in [method : Method, origin : Origin, auth : BOOLEAN,
                  body : Bytes \cup {"stream"}, content_type : ContentType,
                  strayed : BOOLEAN, dropped : BOOLEAN, attempt : Nat]
    BY DEF Wire, Content, Base, TypeOK, RequestType, Bytes, MaxAttempts
  <2>. QED
    BY <1>5, <2>1 DEF SendHop, Taken, Base, TypeOK, NotBegun, Returning, buildVars,
       MaxAttempts, Idle, None, Missing
<1>6. CASE BodyGone
  BY <1>6, FailureBase DEF BodyGone, Failure
<1>7. CASE HopFailed
  BY <1>7, FailureBase DEF HopFailed, Failure
<1>8. CASE HopDone
  <2>1. net.status \in Status /\ pc = "wait"
    BY <1>8 DEF HopDone, Answered, Status
  <2>2. hooks' \in [before : Nat, after : Nat]
    BY <1>8 DEF HopDone, AttemptOk, AfterResponse, Base, TypeOK
  <2>3. CASE Again
    <3>1. attempt + 1 \in 0..MaxAttempts - 1
      BY <1>8, <2>3 DEF HopDone, AttemptOk, Finish, Again, MoreAttempts, MaxAttempts, Base,
         TypeOK, RequestType
    <3>. QED
      BY <1>8, <2>1, <2>2, <2>3, <3>1 DEF HopDone, Again, Base, TypeOK, NotBegun,
         Returning, buildVars, Idle, None, Missing, MaxAttempts
  <2>4. CASE Finish(net.status)
    BY <1>8, <2>1, <2>2, <2>4 DEF HopDone, Finish, Base, TypeOK, NotBegun,
       Returning, buildVars, Idle, None, Missing, MaxAttempts, Pending, Status, Redirects
  <2>. QED  BY <1>8, <2>3, <2>4 DEF HopDone, AttemptOk
<1>9. CASE RedirectRefused
  BY <1>9, FailureBase DEF RedirectRefused, Answered, Failure
<1>10. CASE RedirectFollowed
  <2>1. Target \in Origin
    BY <1>10 DEF RedirectFollowed, Target, Base, TypeOK
  <2>2. hop' \in [method : Method, origin : Origin, auth : BOOLEAN, redirects : Nat]
    BY <1>10, <2>1 DEF RedirectFollowed, NewMethod, NewAuth, SameOrigin, Base, TypeOK, Method
  <2>3. body' \in {"reusable", "oneshot", "taken", "empty"}
    BY <1>10 DEF RedirectFollowed, NewBody, Base, TypeOK
  <2>4. trail' \in [strayed : BOOLEAN, dropped : BOOLEAN]
    BY <1>10 DEF RedirectFollowed, Base, TypeOK
  <2>. QED
    BY <1>10, <2>2, <2>3, <2>4 DEF RedirectFollowed, Answered, Base, TypeOK, NotBegun,
       Returning, buildVars, Idle, None, Missing, MaxAttempts
<1>11. CASE TimedOut
  BY <1>11, FailureBase DEF TimedOut, TimerRunning, Failure
<1>12. CASE Reply
  BY <1>12 DEF Reply, Base, TypeOK, NotBegun, Returning, buildVars, loopVars, ghostVars,
     MaxAttempts, Idle
<1>13. CASE Break
  BY <1>13 DEF Break, Base, TypeOK, NotBegun, Returning, buildVars, loopVars, ghostVars,
     MaxAttempts, Idle, None, Missing
<1>14. CASE UNCHANGED vars
  BY <1>14 DEF vars, Base, TypeOK, NotBegun, Returning, buildVars, loopVars, ghostVars,
     MaxAttempts
<1>. QED
  BY <1>1, <1>2, <1>3, <1>4, <1>5, <1>6, <1>7, <1>8, <1>9, <1>10, <1>11, <1>12, <1>13,
     <1>14 DEF Next, Client

LEMMA BaseInvariant == Spec => []Base
  BY InitBase, BaseStep, PTL DEF Spec

\* Every variable keeps its type, and the retry loop its limit, whatever setters
\* build the request and whatever the network answers.
THEOREM TypeCorrect == Spec => []TypeOK
  BY BaseInvariant, PTL DEF Base

-----------------------------------------------------------------------------
(* Credentials                                                              *)

\* Credentials still at hand have not left the first origin.
AtHome == hop.auth => hop.origin = Home /\ ~trail.strayed

CredInv == AtHome /\ CredentialsStayHome

\* Steps that leave the log and the hop as they are.
LEMMA CredUnmoved ==
  ASSUME CredInv, UNCHANGED <<hop, trail, log>>
  PROVE  CredInv'
  BY DEF CredInv, AtHome, CredentialsStayHome

LEMMA CredStep == Base /\ CredInv /\ [Next]_vars => CredInv'
<1> SUFFICES ASSUME Base, CredInv, [Next]_vars PROVE CredInv'
  OBVIOUS
<1>1. CASE BeginAttempt
  BY <1>1 DEF BeginAttempt, CredInv, AtHome, CredentialsStayHome, NotStrayed
<1>2. CASE SendHop
  <2>1. Wire.auth => Wire.origin = Home /\ ~Wire.strayed
    BY DEF Wire, CredInv, AtHome
  <2>. QED  BY <1>2, <2>1 DEF SendHop, CredInv, AtHome, CredentialsStayHome
<1>3. CASE RedirectFollowed
  BY <1>3 DEF RedirectFollowed, NewAuth, SameOrigin, CredInv, AtHome, CredentialsStayHome
<1>4. CASE ~BeginAttempt /\ ~SendHop /\ ~RedirectFollowed
  <2>1. UNCHANGED <<hop, trail, log>>
    BY <1>4 DEF Next, Client, Set, Start, Backoff, BodyGone, HopFailed, HopDone,
       RedirectRefused, TimedOut, AttemptErr, Reply, Break, loopVars, ghostVars, vars
  <2>. QED  BY <2>1, CredUnmoved
<1>. QED  BY <1>1, <1>2, <1>3, <1>4

\* Authorization never goes to another origin, nor back to the first one by redirects
\* that have left it: for every set of origins, every chain of redirects and every
\* number of attempts.
THEOREM CredentialsKept == Spec => []CredentialsStayHome
<1>1. Init => CredInv
  BY DEF Init, CredInv, AtHome, CredentialsStayHome, NotStrayed
<1>2. CredInv => CredentialsStayHome
  BY DEF CredInv
<1>. QED  BY <1>1, <1>2, CredStep, BaseInvariant, PTL DEF Spec

-----------------------------------------------------------------------------
(* Hooks and attempts                                                       *)

LEMMA ReturnStep ==
  Base /\ HooksBalanced /\ GivesUpLast /\ [Next]_vars => (HooksBalanced /\ GivesUpLast)'
<1> SUFFICES ASSUME Base, HooksBalanced, GivesUpLast, [Next]_vars
             PROVE  (HooksBalanced /\ GivesUpLast)'
  OBVIOUS
<1>1. ASSUME NEW error \in Failure, pc \in {"hop", "wait"}, AttemptErr(error)
      PROVE  (HooksBalanced /\ GivesUpLast)'
  <2>1. result \notin Status /\ result \notin Failure
    BY <1>1 DEF Base, Returning, Pending, Status, Redirects, Failure
  <2>2. CASE Again
    BY <1>1, <2>1, <2>2 DEF AttemptErr, Again, HooksBalanced, GivesUpLast, buildVars,
       ghostVars, Status
  <2>3. CASE Finish(error) /\ ~(req.retry /\ Retryable(error) /\ MoreAttempts)
    <3>1. error \notin Status
      BY DEF Failure, Status, Redirects
    <3>2. HooksBalanced'
      BY <1>1, <2>1, <2>3, <3>1 DEF AttemptErr, Finish, HooksBalanced, ghostVars
    <3>3. GivesUpLast'
      BY <1>1, <2>3, <3>1 DEF AttemptErr, Finish, GivesUpLast, Retryable, MoreAttempts,
         MaxAttempts, buildVars, Base, TypeOK, RequestType, Status
    <3>. QED  BY <3>2, <3>3
  <2>. QED  BY <1>1, <2>2, <2>3 DEF AttemptErr
<1>2. CASE HopDone
  <2>1. result \notin Status /\ net.status \in Status /\ pc = "wait"
    BY <1>2 DEF HopDone, Answered, Base, Returning, Pending, Status, Redirects
  <2> DEFINE retried == req.retry /\ MoreAttempts /\ net.status = "503"
  <2>2. CASE retried
    BY <1>2, <2>1, <2>2 DEF HopDone, AttemptOk, AfterResponse, Again, HooksBalanced,
       GivesUpLast, buildVars, Base, Returning, Pending, Failure
  <2>3. CASE ~retried
    <3>1. hooks' = [hooks EXCEPT !.after = @ + 1] /\ Finish(net.status)
      BY <1>2, <2>3 DEF HopDone, AttemptOk, AfterResponse
    <3>2. HooksBalanced'
      BY <2>1, <3>1 DEF Finish, HooksBalanced, Base, TypeOK
    <3>3. GivesUpLast'
      <4>1. net.status \notin Failure
        BY <2>1 DEF Status, Redirects, Failure
      <4>. QED
        BY <1>2, <2>1, <2>3, <3>1, <4>1 DEF HopDone, Finish, GivesUpLast, MoreAttempts,
           MaxAttempts, buildVars, Base, TypeOK, RequestType
    <3>. QED  BY <3>2, <3>3
  <2>. QED  BY <2>2, <2>3
<1>3. CASE BodyGone
  BY <1>1, <1>3 DEF BodyGone, Failure
<1>4. CASE HopFailed
  BY <1>1, <1>4 DEF HopFailed, Failure
<1>5. CASE RedirectRefused
  BY <1>1, <1>5 DEF RedirectRefused, Answered, Failure
<1>6. CASE TimedOut
  BY <1>1, <1>6 DEF TimedOut, TimerRunning, Failure
<1>7. CASE Set \/ Start
  <2>1. result \notin Status /\ result \notin Failure
    BY <1>7 DEF Set, Start, Base, Returning, Pending, Status, Redirects, Failure
  <2>. QED
    BY <1>7, <2>1 DEF Set, Start, HooksBalanced, GivesUpLast, Base, TypeOK, Status
<1>8. CASE \/ BeginAttempt \/ Backoff \/ SendHop \/ RedirectFollowed \/ Reply \/ Break
           \/ UNCHANGED vars
  <2>1. UNCHANGED <<req, attempt, result, hooks>> /\ (pc = "build" <=> pc' = "build")
    BY <1>8 DEF BeginAttempt, Backoff, SendHop, RedirectFollowed, Answered, Reply, Break,
       buildVars, loopVars, ghostVars, vars
  <2>. QED  BY <2>1 DEF HooksBalanced, GivesUpLast, Retryable
<1>. QED
  BY <1>2, <1>3, <1>4, <1>5, <1>6, <1>7, <1>8 DEF Next, Client

LEMMA ReturnInvariant == Spec => [](HooksBalanced /\ GivesUpLast)
<1>1. Init => HooksBalanced /\ GivesUpLast
  BY DEF Init, HooksBalanced, GivesUpLast, Pending, Status, Redirects, Failure
<1>. QED  BY <1>1, ReturnStep, BaseInvariant, PTL DEF Spec

\* before_request is called once and after_response once for each response that is
\* returned, by whichever of the many exits of both loops.
THEOREM HooksKept == Spec => []HooksBalanced
  BY ReturnInvariant, PTL

\* Of an idempotent request, a failure that the policy retries is returned only after
\* the last attempt, for every number of retries.
THEOREM GivesUpKept == Spec => []GivesUpLast
  BY ReturnInvariant, PTL

-----------------------------------------------------------------------------
(* Bodies                                                                   *)

\* What would be sent is what was set last, under a type that fits but for a form set
\* over another typed body; while there was none the type is the application's, if any.
Fitting ==
  /\ wanted = Content(req)
  /\ ~LeftOver => TypeFits(wanted, req.content_type)
  /\ (earlier \cup {wanted}) \cap Typing = {} => req.content_type \in {"none", "own"}

\* Within an attempt the body is empty exactly after a redirect that drops it, and
\* the method is what this redirect makes of it.
Underway ==
  pc \in {"hop", "wait"} =>
    /\ body = "empty" <=> trail.dropped
    /\ hop.method = IF trail.dropped /\ req.method # "HEAD" THEN "GET" ELSE req.method

WithinLimit == req.max_redirects # Unlimited => hop.redirects <= req.max_redirects

\* The stream is in the slot, in the hop's hands, or gone: it is never in two places,
\* and in none of them once it was sent.
Once ==
  /\ slot => streamed = 0 /\ body # "oneshot"
  /\ body = "oneshot" => streamed = 0
  /\ streamed <= 1

AsWanted(e) ==
  /\ e.body = IF e.dropped THEN "none" ELSE wanted
  /\ ~LeftOver => TypeFits(wanted, e.content_type)
  /\ e.method = IF e.dropped /\ req.method # "HEAD" THEN "GET" ELSE req.method

BodyInv == Fitting /\ Underway /\ WithinLimit /\ Once /\ \A e \in log : AsWanted(e)

LEMMA InitBody == Init => BodyInv
<1> SUFFICES ASSUME Init PROVE BodyInv
  OBVIOUS
<1>1. PICK r \in Requests :
        req = r.request /\ calls = r.calls /\ wanted = Content(r.request)
  BY DEF Init
<1>2. Fitting
  <2>1. r.request.content_type \in {"none", "own"} /\ TypeFits(wanted, req.content_type)
    BY <1>1, ClientAssumption
  <2>. QED  BY <1>1, <2>1 DEF Fitting
<1>3. WithinLimit
  BY <1>1, ClientAssumption DEF Init, WithinLimit, RequestType
<1>. QED  BY <1>2, <1>3 DEF Init, BodyInv, Underway, Once

\* Every setter of a body leaves it to be sent, under a type that fits unless it was set
\* over a typed one, and every other setter leaves the body alone.
LEMMA SetFits ==
  ASSUME req \in RequestType, Fitting, Set
  PROVE  Fitting'
<1> DEFINE untyped == (earlier \cup {wanted}) \cap Typing = {}
<1>0. untyped => req.content_type \in {"none", "own"}
  BY DEF Fitting
<1>1. CASE req' \in HeadSet(req) /\ UNCHANGED <<wanted, earlier>>
  <2>1. /\ Content(req') = Content(req)
        /\ req'.content_type \in {req.content_type, "own"}
    BY <1>1 DEF RequestType, HeadSet, Header, Authorized, WithTimeout, Content
  <2>2. ~LeftOver => TypeFits(wanted, req'.content_type)
    BY <2>1 DEF Fitting, TypeFits
  <2>. QED  BY <1>0, <1>1, <2>1, <2>2 DEF Fitting, LeftOver
<1>2. CASE /\ \E set \in BodySet(req) : req' = set[1] /\ wanted' = set[2]
           /\ earlier' = earlier \cup {wanted}
  <2>1. PICK set \in BodySet(req) : req' = set[1] /\ wanted' = set[2]
    BY <1>2
  <2>2. Typed(req) \in {"parts", "own"} \/ ~untyped
    BY <1>0 DEF Typed
  <2>3. CASE set = <<Body(req), "raw">>
    <3>1. Content(req') = "raw" /\ req'.content_type = req.content_type
      BY <2>1, <2>3 DEF RequestType, Body, WithBytes, Content
    <3>. QED  BY <1>0, <1>2, <2>1, <2>3, <3>1 DEF Fitting, TypeFits
  <2>4. CASE set \in {<<Json(req), "json">>, <<Form(req), "form">>}
    <3>1. /\ Content(req') = wanted' /\ wanted' \in {"json", "form"}
          /\ req'.content_type = wanted'
      <4>1. CASE set = <<Json(req), "json">>
        BY <2>1, <4>1 DEF RequestType, Json, WithBytes, Content
      <4>2. CASE set = <<Form(req), "form">>
        BY <2>1, <4>2 DEF RequestType, Form, WithBytes, Content
      <4>. QED  BY <2>4, <4>1, <4>2
    <3>. QED  BY <3>1 DEF Fitting, TypeFits, Typing
  <2>5. CASE set \in {<<Multipart(req), "parts">>, <<MultipartStream(req), "stream">>}
    <3>1. /\ Content(req') = wanted' /\ wanted' \in {"parts", "stream"}
          /\ req'.content_type = Typed(req)
      <4>1. CASE set = <<Multipart(req), "parts">>
        BY <2>1, <4>1 DEF RequestType, Multipart, WithBytes, Content
      <4>2. CASE set = <<MultipartStream(req), "stream">>
        BY <2>1, <4>2 DEF RequestType, MultipartStream, Content
      <4>. QED  BY <2>5, <4>1, <4>2
    <3>2. LeftOver' <=> ~untyped
      BY <1>2, <3>1 DEF LeftOver
    <3>. QED  BY <2>2, <3>1, <3>2 DEF Fitting, TypeFits, Typing
  <2>. QED  BY <2>1, <2>3, <2>4, <2>5 DEF BodySet
<1>. QED  BY <1>1, <1>2 DEF Set

\* Steps that change neither the request nor what is on the wire.
LEMMA BodyUnmoved ==
  ASSUME BodyInv, UNCHANGED <<req, wanted, earlier, hop, body, slot, streamed, trail, log>>,
         pc' \in {"hop", "wait"} => pc \in {"hop", "wait"}
  PROVE  BodyInv'
  BY DEF BodyInv, Fitting, LeftOver, Underway, WithinLimit, Once, AsWanted

LEMMA BodyStep == Base /\ BodyInv /\ [Next]_vars => BodyInv'
<1> SUFFICES ASSUME Base, BodyInv, [Next]_vars PROVE BodyInv'
  OBVIOUS
<1>1. CASE Set
  <2>1. Fitting'
    BY <1>1, SetFits DEF BodyInv, Base, TypeOK
  <2>2. req' \in RequestType /\ hop.redirects = 0 /\ log = {}
    BY <1>1, SetType DEF Set, Base, TypeOK, NotBegun
  <2>3. WithinLimit'
    BY <1>1, <2>2 DEF Set, WithinLimit, RequestType, loopVars
  <2>. QED
    BY <1>1, <2>1, <2>2, <2>3 DEF Set, BodyInv, Underway, Once, loopVars
<1>2. CASE Start
  BY <1>2 DEF Start, Base, NotBegun, BodyInv, Fitting, LeftOver, Underway, WithinLimit, Once,
     AsWanted
<1>3. CASE BeginAttempt
  <2>1. WithinLimit'
    BY <1>3 DEF BeginAttempt, WithinLimit, Base, TypeOK, RequestType, buildVars
  <2>2. body' # "empty" /\ (body' = "oneshot" => slot)
    BY <1>3 DEF BeginAttempt
  <2>. QED
    BY <1>3, <2>1, <2>2 DEF BeginAttempt, BodyInv, Fitting, LeftOver, Underway, Once, AsWanted,
       NotStrayed, buildVars
<1>4. CASE SendHop
  <2>1. AsWanted(Wire)
    BY <1>4 DEF SendHop, Wire, AsWanted, BodyInv, Fitting, LeftOver, Underway
  <2>2. \A e \in log' : AsWanted(e)'
    BY <1>4, <2>1 DEF SendHop, AsWanted, LeftOver, BodyInv, buildVars
  <2>3. Once'
    BY <1>4 DEF SendHop, Taken, BodyInv, Once, Base, TypeOK
  <2>. QED
    BY <1>4, <2>2, <2>3 DEF SendHop, Taken, BodyInv, Fitting, LeftOver, Underway,
       WithinLimit, buildVars
<1>5. CASE RedirectFollowed
  <2>1. WithinLimit'
    BY <1>5 DEF RedirectFollowed, HopsSpent, WithinLimit, Base, TypeOK, RequestType,
       Unlimited, buildVars
  <2>2. Underway'
    BY <1>5 DEF RedirectFollowed, Answered, Redirects, NewBody, NewMethod, BodyInv, Underway,
       Base, TypeOK, RequestType, Method, buildVars
  <2>3. Once'
    BY <1>5 DEF RedirectFollowed, NewBody, BodyInv, Once
  <2>. QED
    BY <1>5, <2>1, <2>2, <2>3 DEF RedirectFollowed, BodyInv, Fitting, AsWanted,
       LeftOver, buildVars
<1>6. CASE ~Set /\ ~Start /\ ~BeginAttempt /\ ~SendHop /\ ~RedirectFollowed
  <2>1. /\ UNCHANGED <<req, wanted, earlier, hop, body, slot, streamed, trail, log>>
        /\ pc' \in {"hop", "wait"} => pc \in {"hop", "wait"}
    BY <1>6 DEF Next, Client, Backoff, BodyGone, HopFailed, HopDone, RedirectRefused,
       TimedOut, AttemptErr, AttemptOk, Again, Finish, Answered, Reply, Break, buildVars,
       loopVars, ghostVars, vars
  <2>. QED  BY <2>1, BodyUnmoved
<1>. QED  BY <1>1, <1>2, <1>3, <1>4, <1>5, <1>6

\* Every request on the wire has the body that was set last, under a type that fits
\* unless it is a form set over another typed body, or comes after a redirect that
\* drops it; a stream goes out once at most, and no redirect is followed beyond the
\* limit: for every order of setters and every number of attempts and redirects.
THEOREM HopsKept == Spec => []HopsFaithful
<1>1. BodyInv => HopsFaithful
  BY DEF BodyInv, Once, WithinLimit, AsWanted, HopsFaithful
<1>. QED  BY <1>1, InitBody, BodyStep, BaseInvariant, PTL DEF Spec
=============================================================================
