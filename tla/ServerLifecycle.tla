-------------------------- MODULE ServerLifecycle --------------------------
(***************************************************************************)
(* A ServerBuilder, the accept loop it starts, the connection tasks and    *)
(* the future that serve() returns (oxihttp-server/src/lib.rs).            *)
(*                                                                         *)
(* serve() spawns the accept loop as a task and waits for it or for the    *)
(* shutdown signal; the accept loop spawns one task per connection.  A     *)
(* connection's task owns a semaphore permit from the accept to its own    *)
(* end.  Nothing else is shared.  A connection carries one request at a    *)
(* time; what dispatch does with it is the subject of Middleware.          *)
(***************************************************************************)
EXTENDS Integers, FiniteSets

CONSTANTS
  Conn,    \* the connections clients may open
  Limits   \* what with_max_connections may be called with

ASSUME ServerAssumption == IsFiniteSet(Conn) /\ Limits \subseteq Nat

VARIABLES
  config,       \* the ServerBuilder, as far as it matters here
  accept_loop,  \* the listener and its task: "unbound", "bound", "starting",
                \* "running", "panicked", "gone"
  serve,        \* the future of serve(): "uncalled", "pending", "ok", "error",
                \* or "failed" to bind; "dropped" with its task
  signal,       \* has the shutdown future resolved?
  conn,         \* the state of each connection, as its client sees it
  permits,      \* the semaphore's available permits
  held          \* the connections whose task owns a permit

serverVars == <<config, accept_loop, serve, signal>>
vars == <<serverVars, conn, permits, held>>

NoLimit == -1                    \* max_connections is None

\* spawned: is serve() a task of its own, the one of serve_with_addr()?
Config ==
  [max_connections : Limits \cup {NoLimit}, tls : BOOLEAN, timeout : BOOLEAN,
   shutdown : BOOLEAN, spawned : BOOLEAN]

Limited == config.max_connections # NoLimit

\* The permits of the semaphore, if there is one.
MaxConnections == IF Limited THEN config.max_connections ELSE 0

Waiting   == {"new", "queued"}                      \* no task yet
Served    == {"handshake", "open", "handling"}      \* its task runs
Ended     == {"websocket", "closed"}                \* its task is over
ConnState == Waiting \cup Served \cup Ended \cup {"refused"}

In(states) == {c \in Conn : conn[c] \in states}

Goto(c, state) == conn' = [conn EXCEPT ![c] = state]

-----------------------------------------------------------------------------
(* The builder                                                              *)

\* Each setter replaces what was set before.
Set ==
  /\ accept_loop = "unbound"
  /\ \/ \E n \in Limits : config' = [config EXCEPT !.max_connections = n]
     \/ config' = [config EXCEPT !.timeout = TRUE]
     \/ config' = [config EXCEPT !.shutdown = TRUE]
  /\ UNCHANGED <<accept_loop, serve, signal, conn, permits, held>>

\* with_tls and its variants.  With a certificate or a key that cannot be used the
\* builder goes the way of the error.
SetTls ==
  /\ accept_loop = "unbound"
  /\ \/ config' = [config EXCEPT !.tls = TRUE] /\ UNCHANGED accept_loop
     \/ accept_loop' = "gone" /\ UNCHANGED config
  /\ UNCHANGED <<serve, signal, conn, permits, held>>

\* listen() binds the port: the kernel queues connections from here on.
Listen ==
  /\ accept_loop = "unbound"
  /\ accept_loop' \in {"bound", "gone"}
  /\ UNCHANGED <<config, serve, signal, conn, permits, held>>

\* Mutant: a server that was bound first has lost its limit.
Semaphore_NotWhenBound == IF accept_loop = "bound" THEN 0 ELSE MaxConnections

Semaphore == MaxConnections

\* serve() of a builder or of a BoundServer, and serve_with_addr(), once they have
\* the port: the semaphore is made and the accept task spawned.
Run ==
  /\ accept_loop \in {"unbound", "bound"}
  /\ accept_loop' = "starting" /\ serve' = "pending"
  /\ \E own \in BOOLEAN :
       /\ accept_loop = "bound" => ~own
       /\ config' = [config EXCEPT !.spawned = own]
  /\ permits' = Semaphore
  /\ UNCHANGED <<signal, conn, held>>

\* They could not have it.
BindFails ==
  /\ accept_loop = "unbound"
  /\ accept_loop' = "gone" /\ serve' = "failed"
  /\ UNCHANGED <<config, signal, conn, permits, held>>

\* What the accept loop leaves in the backlog when its listener is dropped.
BacklogClosed ==
  conn' = [c \in Conn |-> IF conn[c] = "queued" THEN "closed" ELSE conn[c]]

\* A BoundServer is dropped without having served.
Unserved ==
  /\ accept_loop = "bound"
  /\ accept_loop' = "gone"
  /\ BacklogClosed
  /\ UNCHANGED <<config, serve, signal, permits, held>>

Builder == Set \/ SetTls \/ Listen \/ Run \/ BindFails \/ Unserved

-----------------------------------------------------------------------------
(* Clients and the kernel                                                   *)

Connect(c) ==
  /\ accept_loop \in {"bound", "starting", "running"}
  /\ conn[c] = "new"
  /\ Goto(c, "queued")
  /\ UNCHANGED <<serverVars, permits, held>>

\* A client hangs up, at whatever point its connection is.
Disconnect(c) ==
  /\ conn[c] \in Served \cup {"queued", "websocket"}
  /\ Goto(c, "closed")
  /\ UNCHANGED <<serverVars, permits, held>>

-----------------------------------------------------------------------------
(* The accept loop                                                          *)

\* The layered service is built first: a user's layer may panic there, and
\* the listener goes with the task.
Start ==
  /\ accept_loop = "starting"
  /\ \/ /\ accept_loop' = "running"
        /\ UNCHANGED conn
     \/ /\ accept_loop' = "panicked"
        /\ BacklogClosed
  /\ UNCHANGED <<config, serve, signal, permits, held>>

\* Mutant: the loop waits for a permit.
Turn_WaitsForPermit(c) ==
  accept_loop = "running" /\ conn[c] = "queued" /\ (Limited => permits > 0)

\* accept() returns c.  The loop never waits for anything but the next one.
Turn(c) ==
  accept_loop = "running" /\ conn[c] = "queued"

\* Mutant: a connection is served when no permit could be had.
HasRoom_Ignored == TRUE

\* try_acquire_owned() succeeds.
HasRoom == Limited => permits > 0

\* No await separates the accept, the permit and the spawn of the task.
Accept(c) ==
  /\ Turn(c) /\ HasRoom
  /\ Goto(c, IF config.tls THEN "handshake" ELSE "open")
  /\ IF Limited /\ permits > 0
       THEN permits' = permits - 1 /\ held' = held \cup {c}
       ELSE UNCHANGED <<permits, held>>
  /\ UNCHANGED serverVars

\* No permit: the stream is dropped, which closes it.
Refuse(c) ==
  /\ Turn(c) /\ ~HasRoom
  /\ Goto(c, "refused")
  /\ UNCHANGED <<serverVars, permits, held>>

-----------------------------------------------------------------------------
(* A connection's task                                                      *)

\* acceptor.accept(stream) returns, if the client ever finishes its part.
Handshake(c) ==
  /\ conn[c] = "handshake"
  /\ \E next \in {"open", "closed"} : Goto(c, next)
  /\ UNCHANGED <<serverVars, permits, held>>

Request(c) ==
  /\ conn[c] = "open"
  /\ Goto(c, "handling")
  /\ UNCHANGED <<serverVars, permits, held>>

\* The handler returns: a response after which the connection is kept or
\* closed, or the 101 that hands the stream over to a WebSocket and ends
\* serve_connection_with_upgrades.  A handler that panics takes the task down.
Respond(c) ==
  /\ conn[c] = "handling"
  /\ \E next \in {"open", "closed", "websocket"} : Goto(c, next)
  /\ UNCHANGED <<serverVars, permits, held>>

\* Mutant: requests are only timed out while the server is running.
TimeoutArmed_WhileServing == config.timeout /\ serve = "pending"

TimeoutArmed == config.timeout

\* The handler is dropped and 408 sent; the connection is kept or closed.
Timeout(c) ==
  /\ conn[c] = "handling" /\ TimeoutArmed
  /\ \E next \in {"open", "closed"} : Goto(c, next)
  /\ UNCHANGED <<serverVars, permits, held>>

\* Mutant: an upgraded connection keeps its permit.
TaskOver_NotUpgraded(c) == conn[c] = "closed"

\* serve_connection has returned, the handshake failed, or the task panicked.
TaskOver(c) == conn[c] \in Ended

\* Mutant: every task gives a permit back, having one or not.
Owns_Any(c) == TRUE

Owns(c) == c \in held

\* drop(permit), or the unwinding of the task.
TaskEnd(c) ==
  /\ TaskOver(c) /\ Owns(c)
  /\ permits' = permits + 1
  /\ held' = held \ {c}
  /\ UNCHANGED <<serverVars, conn>>

-----------------------------------------------------------------------------
(* serve()                                                                  *)

Signal ==
  /\ config.shutdown /\ serve = "pending" /\ ~signal
  /\ signal' = TRUE
  /\ UNCHANGED <<config, accept_loop, serve, conn, permits, held>>

\* The select's first arm.  The JoinHandle of the accept task is dropped,
\* which leaves the task running.
ServeShutdown ==
  /\ serve = "pending" /\ signal
  /\ serve' = "ok"
  /\ UNCHANGED <<config, accept_loop, signal, conn, permits, held>>

\* The other arm: the accept loop has no end but a panic.
ServePanicked ==
  /\ serve = "pending" /\ accept_loop = "panicked"
  /\ serve' = "error"
  /\ UNCHANGED <<config, accept_loop, signal, conn, permits, held>>

\* The program may go on without the server or leave main(), which it can do
\* while serve() is a task of its own: then the runtime drops every task where it
\* stands.
Exit ==
  /\ \/ serve \in {"ok", "error"}
     \/ serve = "pending" /\ config.spawned
  /\ accept_loop # "gone"
  /\ accept_loop' = "gone"
  /\ serve' = IF serve = "pending" THEN "dropped" ELSE serve
  /\ conn' = [c \in Conn |-> IF conn[c] \in {"new", "refused"} THEN conn[c]
                                                               ELSE "closed"]
  /\ permits' = permits + Cardinality(held)
  /\ held' = {}
  /\ UNCHANGED <<config, signal>>

-----------------------------------------------------------------------------

Init ==
  /\ config = [max_connections |-> NoLimit, tls |-> FALSE, timeout |-> FALSE,
               shutdown |-> FALSE, spawned |-> FALSE]
  /\ accept_loop = "unbound"
  /\ serve = "uncalled"
  /\ signal = FALSE
  /\ conn = [c \in Conn |-> "new"]
  /\ permits = 0
  /\ held = {}

Client == \E c \in Conn : Connect(c) \/ Disconnect(c) \/ Request(c)

AcceptLoop == Start \/ \E c \in Conn : Accept(c) \/ Refuse(c)

Task(c) == Handshake(c) \/ Respond(c) \/ Timeout(c) \/ TaskEnd(c)

Serving == Signal \/ ServeShutdown \/ ServePanicked

Next == Builder \/ Client \/ AcceptLoop \/ (\E c \in Conn : Task(c)) \/ Serving \/ Exit

Spec == Init /\ [][Next]_vars

\* tokio polls every task that can move, the kernel's backlog is a queue and a
\* timer fires.  Clients, handlers, the signal and the application promise nothing.
Fairness ==
  /\ WF_vars(Start)
  /\ \A c \in Conn : /\ WF_vars(Accept(c) \/ Refuse(c))
                     /\ WF_vars(Timeout(c))
                     /\ WF_vars(TaskEnd(c))
  /\ WF_vars(ServeShutdown \/ ServePanicked)

FairSpec == Spec /\ Fairness

-----------------------------------------------------------------------------
(* Properties                                                               *)

\* Every variable keeps its type; the semaphore never holds more permits than
\* it was made with.
TypeOK ==
  /\ config \in Config
  /\ accept_loop \in {"unbound", "bound", "starting", "running", "panicked", "gone"}
  /\ serve \in {"uncalled", "failed", "pending", "ok", "error", "dropped"}
  /\ signal \in BOOLEAN
  /\ conn \in [Conn -> ConnState]
  /\ permits \in 0..MaxConnections
  /\ held \subseteq Conn

\* Has there been a server?
HasRun == serve \notin {"uncalled", "failed"}

\* No permit is lost or made: each is in the semaphore or in the hands of one
\* connection task (accept_loop's try_acquire_owned and drop(permit)).
PermitsConserved == HasRun => permits + Cardinality(held) = MaxConnections

\* With a limit, no more than MaxConnections connections are in the hands of
\* hyper at once, handshakes included.
ServedBounded == Limited => Cardinality(In(Served)) <= MaxConnections

\* No place is lost or gained for good: once the connections in the hands of hyper stay
\* as many as n, the semaphore is n permits short and no more, whichever ways the others
\* have ended (refused, hang-up, failed handshake, panic, upgrade) and in what order.
\* A client that stalls in its handshake is one of the n, for as long as it likes.
PlacesComeBack ==
  \A n \in 0..Cardinality(Conn) :
    <>[](HasRun /\ Cardinality(In(Served)) = n)
      => <>[](Limited => permits = MaxConnections - n)

\* A connection in the backlog is always taken off it once there is a server,
\* whatever the connections already accepted are waiting for.
AcceptNeverBlocks ==
  \A c \in Conn : (HasRun /\ conn[c] = "queued") ~> (conn[c] # "queued")

\* With a timeout, every request is brought to an end, the ones still in flight
\* when serve() has returned included.
RequestEnds ==
  \A c \in Conn : (config.timeout /\ conn[c] = "handling") ~> (conn[c] # "handling")

\* The README has graceful shutdown "drain active requests": no request is
\* still in a handler when serve() returns on the signal.
DrainsActiveRequests ==
  [][(serve = "pending" /\ serve' = "ok") => In({"handling"}) = {}]_vars
=============================================================================
