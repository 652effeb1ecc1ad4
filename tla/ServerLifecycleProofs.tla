----------------------- MODULE ServerLifecycleProofs -----------------------
(***************************************************************************)
(* What ServerLifecycle guarantees for every number of connections and     *)
(* permits and every configuration.                                        *)
(***************************************************************************)
EXTENDS ServerLifecycle, FiniteSetTheorems, TLAPS

\* The part of the type invariant that does not count permits.
StateType ==
  /\ config \in Config
  /\ accept_loop \in {"unbound", "bound", "starting", "running", "panicked", "gone"}
  /\ serve \in {"uncalled", "failed", "pending", "ok", "error", "dropped"}
  /\ signal \in BOOLEAN
  /\ conn \in [Conn -> ConnState]
  /\ permits \in Nat
  /\ held \subseteq Conn

\* A permit is owned by a connection that has, or had, a task: without this,
\* Accept could give a second permit to its owner and lose one.
HeldStarted == \A c \in held : conn[c] \in Served \cup Ended

\* With a limit, every connection whose task is running owns a permit.
ServedOwn == Limited => \A c \in Conn : conn[c] \in Served => c \in held

\* Before there is a server nothing is accepted and the limit may still change.
NothingYet ==
  ~HasRun => /\ accept_loop \in {"unbound", "bound", "gone"}
             /\ permits = 0 /\ held = {} /\ In(Served) = {}

\* There is none before serve() has taken the listener.
NotBefore == accept_loop \in {"unbound", "bound"} => ~HasRun

PermitInv ==
  /\ StateType /\ NothingYet /\ NotBefore
  /\ PermitsConserved /\ HeldStarted /\ ServedOwn

-----------------------------------------------------------------------------

\* The semaphore has as many permits as the builder says, if any.
LEMMA PermitsType ==
  ASSUME StateType
  PROVE  MaxConnections \in Nat
BY ServerAssumption DEF StateType, Config, MaxConnections, Limited, NoLimit


\* The owners of permits are finitely many.
LEMMA HeldFinite ==
  ASSUME StateType
  PROVE  IsFiniteSet(held) /\ Cardinality(held) \in Nat
<1>1. IsFiniteSet(held)
  BY ServerAssumption, FS_Subset DEF StateType
<1>. QED  BY <1>1, FS_CardinalityType

\* Moving one connection keeps the invariant, if it moves from nowhere into a
\* task or back, and leaves the permits and the server alone.
LEMMA Move ==
  ASSUME PermitInv, NEW c \in Conn, NEW state \in ConnState, Goto(c, state),
         UNCHANGED <<serverVars, permits, held>>,
         conn[c] \in Served \cup Ended => state \in Served \cup Ended,
         state \in Served => conn[c] \in Served
  PROVE  PermitInv'
<1>1. conn \in [Conn -> ConnState] /\ held \subseteq Conn
  BY DEF PermitInv, StateType
<1>2. conn' \in [Conn -> ConnState]
  BY <1>1 DEF Goto
<1>3. conn'[c] = state /\ \A x \in Conn \ {c} : conn'[x] = conn[x]
  BY <1>1 DEF Goto
<1>4. PermitsConserved'
  BY DEF PermitInv, PermitsConserved, serverVars, HasRun, MaxConnections, Limited
<1>5. HeldStarted'
  BY <1>1, <1>3 DEF PermitInv, HeldStarted
<1>6. ServedOwn'
  BY <1>1, <1>3 DEF PermitInv, ServedOwn, serverVars, Limited
<1>7. StateType'
  BY <1>1, <1>2 DEF PermitInv, StateType, serverVars
<1>8. NothingYet' /\ NotBefore'
  <2>1. In(Served) = {} => In(Served)' = {}
    BY <1>3 DEF In
  <2>. QED  BY <2>1 DEF PermitInv, NothingYet, NotBefore, HasRun, serverVars
<1>. QED  BY <1>4, <1>5, <1>6, <1>7, <1>8 DEF PermitInv

\* The clients' steps, and the steps inside a connection's task but its end.
LEMMA TaskMoves ==
  ASSUME PermitInv, NEW c \in Conn,
         \/ Connect(c) \/ Disconnect(c) \/ Request(c) \/ Refuse(c)
         \/ Handshake(c) \/ Respond(c) \/ Timeout(c)
  PROVE  PermitInv'
<1>1. UNCHANGED <<serverVars, permits, held>>
  BY DEF Connect, Disconnect, Request, Refuse, Handshake, Respond, Timeout
<1>2. PICK state \in ConnState :
        /\ Goto(c, state)
        /\ conn[c] \in Served \cup Ended => state \in Served \cup Ended
        /\ state \in Served => conn[c] \in Served
  <2>1. CASE Connect(c)
    BY <2>1 DEF Connect, ConnState, Waiting, Served, Ended
  <2>2. CASE Disconnect(c)
    BY <2>2 DEF Disconnect, ConnState, Served, Ended
  <2>3. CASE Request(c)
    BY <2>3 DEF Request, ConnState, Served, Ended
  <2>4. CASE Refuse(c)
    BY <2>4 DEF Refuse, Turn, ConnState, Served, Ended
  <2>5. CASE Handshake(c)
    BY <2>5 DEF Handshake, ConnState, Served, Ended
  <2>6. CASE Respond(c)
    BY <2>6 DEF Respond, ConnState, Served, Ended
  <2>7. CASE Timeout(c)
    BY <2>7 DEF Timeout, ConnState, Served, Ended
  <2>. QED  BY <2>1, <2>2, <2>3, <2>4, <2>5, <2>6, <2>7
<1>. QED  BY <1>1, <1>2, Move

\* The accepted connection's task takes the permit with it.
LEMMA AcceptKeeps ==
  ASSUME PermitInv, NEW c \in Conn, Accept(c)
  PROVE  PermitInv'
<1>1. /\ conn \in [Conn -> ConnState] /\ held \subseteq Conn /\ permits \in Nat
      /\ MaxConnections \in Nat
  BY PermitsType DEF PermitInv, StateType
<1>2. PICK state \in {"handshake", "open"} : Goto(c, state)
  BY DEF Accept
<1>3. conn' \in [Conn -> ConnState]
  BY <1>1, <1>2 DEF Goto, ConnState, Served
<1>4. conn'[c] = state /\ \A x \in Conn \ {c} : conn'[x] = conn[x]
  BY <1>1, <1>2 DEF Goto
<1>5. conn[c] = "queued" /\ accept_loop = "running"
  BY DEF Accept, Turn
<1>6. c \notin held
  BY <1>5 DEF PermitInv, HeldStarted, Served, Ended
<1>7. IsFiniteSet(held) /\ Cardinality(held) \in Nat
  BY HeldFinite DEF PermitInv
<1>8. UNCHANGED serverVars
  BY DEF Accept
<1>9. HasRun /\ NothingYet' /\ NotBefore'
  BY <1>5, <1>8 DEF PermitInv, NothingYet, NotBefore, HasRun, serverVars
<1>10. UNCHANGED <<MaxConnections, Limited>>
  BY <1>8 DEF serverVars, MaxConnections, Limited
<1>11. CASE Limited /\ permits > 0
  <2>1. permits' = permits - 1 /\ held' = held \cup {c}
    BY <1>11 DEF Accept
  <2>2. Cardinality(held') = Cardinality(held) + 1
    BY <1>6, <1>7, <2>1, FS_AddElement
  <2>3. PermitsConserved'
    BY <1>1, <1>7, <1>9, <1>10, <2>1, <2>2 DEF PermitInv, PermitsConserved
  <2>4. HeldStarted'
    BY <1>1, <1>4, <2>1 DEF PermitInv, HeldStarted, Served
  <2>5. ServedOwn'
    BY <1>1, <1>4, <1>10, <2>1 DEF PermitInv, ServedOwn
  <2>6. permits' \in Nat
    BY <1>1, <1>11, <2>1
  <2>7. StateType'
    BY <1>1, <1>3, <1>8, <2>1, <2>6 DEF PermitInv, StateType, serverVars
  <2>. QED  BY <1>9, <2>3, <2>4, <2>5, <2>7 DEF PermitInv
<1>12. CASE ~(Limited /\ permits > 0)
  <2>1. ~Limited /\ UNCHANGED <<permits, held>>
    BY <1>12 DEF Accept, HasRoom
  <2>2. PermitsConserved'
    BY <1>9, <1>10, <2>1 DEF PermitInv, PermitsConserved
  <2>3. HeldStarted'
    BY <1>1, <1>4, <2>1 DEF PermitInv, HeldStarted, Served
  <2>4. StateType'
    BY <1>3, <1>8, <2>1 DEF PermitInv, StateType, serverVars
  <2>. QED  BY <1>9, <1>10, <2>1, <2>2, <2>3, <2>4 DEF PermitInv, ServedOwn
<1>. QED  BY <1>11, <1>12

\* The permit goes back when the task ends.
LEMMA TaskEndKeeps ==
  ASSUME PermitInv, NEW c \in Conn, TaskEnd(c)
  PROVE  PermitInv'
<1>1. /\ IsFiniteSet(held) /\ Cardinality(held) \in Nat /\ permits \in Nat
      /\ MaxConnections \in Nat
  BY HeldFinite, PermitsType DEF PermitInv, StateType
<1>2. /\ permits' = permits + 1 /\ held' = held \ {c} /\ c \in held
      /\ conn[c] \in Ended /\ UNCHANGED <<serverVars, conn>>
  BY DEF TaskEnd, TaskOver, Owns
<1>3. Cardinality(held') = Cardinality(held) - 1
  BY <1>1, <1>2, FS_RemoveElement
<1>4. UNCHANGED <<MaxConnections, Limited>>
  BY <1>2 DEF serverVars, MaxConnections, Limited
<1>5. HasRun /\ NothingYet' /\ NotBefore'
  BY <1>2 DEF PermitInv, NothingYet, NotBefore, HasRun, serverVars
<1>6. PermitsConserved'
  BY <1>1, <1>2, <1>3, <1>4, <1>5 DEF PermitInv, PermitsConserved
<1>7. HeldStarted'
  BY <1>2 DEF PermitInv, HeldStarted
<1>8. ServedOwn'
  BY <1>2, <1>4 DEF PermitInv, ServedOwn, Served, Ended
<1>9. StateType'
  BY <1>1, <1>2 DEF PermitInv, StateType, serverVars
<1>. QED  BY <1>5, <1>6, <1>7, <1>8, <1>9 DEF PermitInv

\* The listener is dropped: connections end that nobody has accepted.
LEMMA ClosingKeeps ==
  ASSUME PermitInv, BacklogClosed, UNCHANGED <<permits, held>>
  PROVE  /\ conn' \in [Conn -> ConnState]
         /\ HeldStarted' /\ In(Served)' = In(Served)
<1>1. conn' \in [Conn -> ConnState]
  BY DEF BacklogClosed, PermitInv, StateType, ConnState, Ended
<1>2. HeldStarted'
  BY DEF BacklogClosed, PermitInv, StateType, HeldStarted, Ended
<1>3. In(Served)' = In(Served)
  BY DEF BacklogClosed, In, Served
<1>. QED  BY <1>1, <1>2, <1>3

\* The accept loop's start, or its panic, which closes the backlog.
LEMMA StartKeeps ==
  ASSUME PermitInv, Start
  PROVE  PermitInv'
<1>1. /\ accept_loop = "starting" /\ accept_loop' \in {"running", "panicked"}
      /\ UNCHANGED <<config, serve, signal, permits, held>>
  BY DEF Start
<1>2. /\ conn' \in [Conn -> ConnState]
      /\ HeldStarted' /\ In(Served)' = In(Served)
  BY <1>1, ClosingKeeps DEF Start, PermitInv, StateType, HeldStarted, In
<1>3. StateType'
  BY <1>1, <1>2 DEF PermitInv, StateType
<1>4. NothingYet' /\ NotBefore'
  BY <1>1 DEF PermitInv, NothingYet, NotBefore, HasRun
<1>5. PermitsConserved'
  BY <1>1 DEF PermitInv, PermitsConserved, HasRun, MaxConnections, Limited
<1>6. ServedOwn'
  BY <1>1, <1>2 DEF PermitInv, ServedOwn, In, Limited
<1>. QED  BY <1>2, <1>3, <1>4, <1>5, <1>6 DEF PermitInv

\* Nothing the builder does touches a permit before the semaphore is made.
LEMMA BuilderKeeps ==
  ASSUME PermitInv, Builder
  PROVE  PermitInv'
<1>1. /\ ~HasRun /\ permits = 0 /\ held = {} /\ In(Served) = {}
      /\ accept_loop \in {"unbound", "bound"}
      /\ conn \in [Conn -> ConnState] /\ config \in Config /\ signal \in BOOLEAN
  BY DEF Builder, Set, SetTls, Listen, Run, BindFails, Unserved,
         PermitInv, NothingYet, NotBefore, StateType
<1>2. held' = {} /\ signal' \in BOOLEAN
  BY <1>1 DEF Builder, Set, SetTls, Listen, Run, BindFails, Unserved
<1>3. conn' \in [Conn -> ConnState] /\ In(Served)' = {}
  <2>1. CASE Unserved
    BY <1>1, <2>1, ClosingKeeps DEF Unserved
  <2>2. CASE ~Unserved
    BY <1>1, <2>2 DEF Builder, Set, SetTls, Listen, Run, BindFails, In
  <2>. QED  BY <2>1, <2>2
<1>4. config' \in Config
  BY <1>1 DEF Builder, Set, SetTls, Listen, Run, BindFails, Unserved, Config
<1>5. HeldStarted' /\ ServedOwn'
  BY <1>2, <1>3 DEF HeldStarted, ServedOwn, In
<1>6. CASE Run
  <2>1. /\ permits' = MaxConnections /\ accept_loop' = "starting"
        /\ serve' = "pending"
        /\ config'.max_connections = config.max_connections
    BY <1>1, <1>6 DEF Run, Semaphore, Config
  <2>2. UNCHANGED MaxConnections /\ MaxConnections \in Nat
    BY <2>1, PermitsType DEF MaxConnections, Limited, PermitInv
  <2>3. PermitsConserved'
    BY <1>2, <2>1, <2>2, FS_EmptySet DEF PermitsConserved
  <2>4. StateType' /\ NothingYet' /\ NotBefore'
    BY <1>2, <1>3, <1>4, <2>1, <2>2 DEF StateType, NothingYet, NotBefore, HasRun
  <2>. QED  BY <1>5, <2>3, <2>4 DEF PermitInv
<1>7. CASE ~Run
  <2>1. /\ permits' = 0 /\ accept_loop' \in {"unbound", "bound", "gone"}
        /\ serve' = serve \/ (serve' = "failed" /\ accept_loop' = "gone")
    BY <1>1, <1>7 DEF Builder, Set, SetTls, Listen, BindFails, Unserved
  <2>2. ~HasRun'
    BY <1>1, <2>1 DEF HasRun
  <2>3. StateType'
    BY <1>2, <1>3, <1>4, <2>1 DEF PermitInv, StateType
  <2>. QED  BY <1>2, <1>3, <1>5, <2>1, <2>2, <2>3
            DEF PermitInv, NothingYet, NotBefore, PermitsConserved
<1>. QED  BY <1>6, <1>7

\* The runtime drops every task, and with it every permit.
LEMMA ExitKeeps ==
  ASSUME PermitInv, Exit
  PROVE  PermitInv'
<1>1. /\ Cardinality(held) \in Nat /\ permits \in Nat /\ HasRun
      /\ MaxConnections \in Nat
  BY HeldFinite, PermitsType DEF PermitInv, StateType, Exit, HasRun
<1>2. /\ permits' = permits + Cardinality(held) /\ held' = {}
      /\ accept_loop' = "gone" /\ serve' \in {"ok", "error", "dropped"}
      /\ UNCHANGED <<config, signal>>
  BY DEF Exit
<1>3. \A c \in Conn : conn'[c] \notin Served
  BY DEF Exit, Served
<1>4. conn' \in [Conn -> ConnState]
  BY DEF Exit, PermitInv, StateType, ConnState, Waiting, Ended
<1>5. StateType'
  BY <1>1, <1>2, <1>4 DEF PermitInv, StateType
<1>6. PermitsConserved'
  BY <1>1, <1>2, FS_EmptySet DEF PermitInv, PermitsConserved, MaxConnections, Limited
<1>7. NothingYet' /\ NotBefore'
  BY <1>2 DEF NothingYet, NotBefore, HasRun
<1>. QED  BY <1>2, <1>3, <1>5, <1>6, <1>7 DEF PermitInv, HeldStarted, ServedOwn

\* The signal, and the return of serve().
LEMMA ServingKeeps ==
  ASSUME PermitInv, Serving
  PROVE  PermitInv'
<1>1. /\ UNCHANGED <<config, accept_loop, conn, permits, held>>
      /\ signal' \in BOOLEAN
      /\ serve = "pending" /\ serve' \in {"pending", "ok", "error"}
  BY DEF Serving, Signal, ServeShutdown, ServePanicked, PermitInv, StateType
<1>. QED  BY <1>1 DEF PermitInv, StateType, NothingYet, NotBefore, HasRun, In,
                     PermitsConserved, MaxConnections, Limited, HeldStarted, ServedOwn

\* Every step keeps the invariant.
LEMMA PermitStep ==
  ASSUME PermitInv, [Next]_vars
  PROVE  PermitInv'
<1>1. CASE Builder
  BY <1>1, BuilderKeeps
<1>2. CASE Client
  BY <1>2, TaskMoves DEF Client
<1>3. CASE AcceptLoop
  BY <1>3, StartKeeps, AcceptKeeps, TaskMoves DEF AcceptLoop
<1>4. CASE \E c \in Conn : Task(c)
  BY <1>4, TaskMoves, TaskEndKeeps DEF Task
<1>5. CASE Serving
  BY <1>5, ServingKeeps
<1>6. CASE Exit
  BY <1>6, ExitKeeps
<1>7. CASE UNCHANGED vars
  BY <1>7 DEF vars, serverVars, PermitInv, StateType, NothingYet, NotBefore, HasRun,
              In, PermitsConserved, MaxConnections, Limited, HeldStarted, ServedOwn
<1>. QED  BY <1>1, <1>2, <1>3, <1>4, <1>5, <1>6, <1>7 DEF Next

\* The invariant holds from the start.
LEMMA PermitInvariant == Spec => []PermitInv
<1>1. ASSUME Init
      PROVE  PermitInv
  <2>1. ~HasRun /\ PermitsConserved
    BY <1>1 DEF Init, HasRun, PermitsConserved
  <2>2. conn \in [Conn -> ConnState] /\ In(Served) = {}
    BY <1>1 DEF Init, ConnState, Waiting, In, Served
  <2>3. config \in Config
    BY <1>1 DEF Init, Config
  <2>4. StateType
    BY <1>1, <2>2, <2>3 DEF Init, StateType
  <2>5. HeldStarted /\ ServedOwn
    BY <1>1, <2>2 DEF Init, HeldStarted, ServedOwn, In
  <2>6. NothingYet /\ NotBefore
    BY <1>1, <2>1, <2>2 DEF Init, NothingYet, NotBefore
  <2>. QED  BY <2>1, <2>4, <2>5, <2>6 DEF PermitInv
<1>. QED  BY <1>1, PermitStep, PTL DEF Spec

-----------------------------------------------------------------------------

\* However connections are accepted, refused, upgraded, dropped and ended, no
\* permit is lost or handed out twice (try_acquire_owned, drop(permit)).
THEOREM PermitsKept == Spec => []PermitsConserved
<1>1. PermitInv => PermitsConserved
  BY DEF PermitInv
<1>. QED  BY <1>1, PermitInvariant, PTL

\* Every variable keeps its type; in particular the semaphore never holds more
\* permits than it was made with.
THEOREM TypeCorrect == Spec => []TypeOK
<1>1. ASSUME PermitInv
      PROVE  TypeOK
  <2>1. Cardinality(held) \in Nat /\ MaxConnections \in Nat /\ permits \in Nat
    BY <1>1, HeldFinite, PermitsType DEF PermitInv, StateType
  <2>2. permits \in 0..MaxConnections
    BY <1>1, <2>1 DEF PermitInv, PermitsConserved, NothingYet
  <2>. QED  BY <1>1, <2>2 DEF PermitInv, StateType, TypeOK
<1>. QED  BY <1>1, PermitInvariant, PTL

\* With a limit, hyper never serves more connections at once than
\* with_max_connections allows.
THEOREM LimitHolds == Spec => []ServedBounded
<1>1. ASSUME PermitInv
      PROVE  ServedBounded
  <2>1. SUFFICES ASSUME Limited
                 PROVE  Cardinality(In(Served)) <= MaxConnections
    BY DEF ServedBounded
  <2>2. In(Served) \subseteq held
    BY <1>1, <2>1 DEF PermitInv, ServedOwn, In
  <2>3. /\ IsFiniteSet(held) /\ Cardinality(held) \in Nat /\ permits \in Nat
        /\ MaxConnections \in Nat
    BY <1>1, HeldFinite, PermitsType DEF PermitInv, StateType
  <2>4. /\ Cardinality(In(Served)) <= Cardinality(held)
        /\ Cardinality(In(Served)) \in Nat
    BY <2>2, <2>3, FS_Subset, FS_CardinalityType
  <2>5. Cardinality(held) <= MaxConnections
    <3>1. CASE HasRun
      BY <1>1, <2>3, <3>1 DEF PermitInv, PermitsConserved
    <3>2. CASE ~HasRun
      BY <1>1, <2>3, <3>2, FS_EmptySet DEF PermitInv, NothingYet
    <3>. QED  BY <3>1, <3>2
  <2>. QED  BY <2>3, <2>4, <2>5
<1>. QED  BY <1>1, PermitInvariant, PTL
=============================================================================
