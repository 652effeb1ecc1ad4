---------------------------- MODULE RouterProofs ----------------------------
(***************************************************************************)
(* Proofs about Router and Serving, for every tree of routers, every stack *)
(* of layers and every request: the state a handler finds; that the route  *)
(* that is called is the right one (for which Segments and Matched,        *)
(* recursive functions over a path and a pattern, are unfolded and shown by *)
(* induction to do what a pattern says, MatchesFits); that resolve finds   *)
(* what dispatch finds; that the ids of the layers pair; and that the type *)
(* negotiated for an answer is the best one the client accepts.            *)
(***************************************************************************)
EXTENDS Serving, RouterBuilder, TLAPS, WellFoundedInduction, FiniteSetTheorems

\* While the request is on its way, the extensions hold the state of the nearest
\* router behind it; the router it is at replaces that by its own if it has one.
Nearest(x) ==
  \/ Holders = {} /\ x = None
  \/ \E i \in Holders : x = chain[i] /\ \A j \in Holders : j <= i

Typed ==
  /\ tree \in Trees
  /\ chain \in Seq(Router) /\ chain # <<>>
  /\ at = chain[Len(chain)]
  /\ answer.kind \in {"waiting", "route", "not_allowed", "fallback", "error",
                      "405", "404"}

OnTheWay == answer.kind = "waiting" => Me.state \/ Nearest(injected)

Inv == Typed /\ OnTheWay /\ NearestState

\* It holds when a request arrives.
LEMMA InitInv == Init => Inv
  BY RouterAssumption DEF Init, Inv, Typed, OnTheWay, NearestState, Nearest, Holders,
     Me, Says

\* A router that is entered inherits the nearest state, unless it has one.
LEMMA EnterInv ==
  ASSUME Inv, Waiting, NEW sub \in Router, NEW p, Enter(sub, p)
  PROVE  Inv'
<1>1. Typed'
  BY DEF Inv, Typed, Enter
<1>2. NearestState'
  BY DEF Inv, NearestState, Enter, Waiting
<1>3. OnTheWay'
  <2>1. CASE tree[sub].state
    BY <2>1 DEF OnTheWay, Me, Enter
  <2>2. CASE ~tree[sub].state
    <3>1. /\ chain' = Append(chain, sub) /\ Len(chain') = Len(chain) + 1
          /\ \A i \in 1..Len(chain) : chain'[i] = chain[i]
          /\ chain'[Len(chain) + 1] = sub
          /\ DOMAIN chain' = 1..Len(chain) + 1 /\ DOMAIN chain = 1..Len(chain)
      BY DEF Inv, Typed, Enter
    <3>2. Holders' = Holders
      BY <2>2, <3>1 DEF Holders, Enter
    <3>3. CASE Me.state
      <4>1. Len(chain) \in Holders /\ \A j \in Holders : j <= Len(chain)
        BY <3>1, <3>3 DEF Inv, Typed, Holders, Me
      <4>2. injected' = chain[Len(chain)] /\ Len(chain) \in 1..Len(chain)
        BY <2>2, <3>3 DEF Inv, Typed, Enter, Inherited
      <4>3. injected' = chain'[Len(chain)]
        BY <3>1, <4>2
      <4> QED  BY <3>2, <4>1, <4>3 DEF OnTheWay, Nearest
    <3>4. CASE ~Me.state
      <4>1. Nearest(injected)
        BY <3>4 DEF Inv, OnTheWay, Waiting
      <4>2. injected' = injected
        BY <3>4 DEF Enter, Inherited
      <4>3. \A i \in Holders : chain'[i] = chain[i]
        BY <3>1 DEF Holders
      <4> QED  BY <3>2, <4>1, <4>2, <4>3 DEF OnTheWay, Nearest
    <3> QED  BY <3>3, <3>4
  <2> QED  BY <2>1, <2>2
<1> QED  BY <1>1, <1>2, <1>3 DEF Inv

\* A handler is called with the state of its router, or the nearest one behind.
LEMMA HandleInv ==
  ASSUME Inv, Waiting, NEW a, Handle(a),
         a.kind \in {"route", "not_allowed", "fallback"}
  PROVE  Inv'
<1>1. Typed' /\ OnTheWay'
  BY DEF Inv, Typed, OnTheWay, Handle, Answer
<1>2. Holders' = Holders /\ chain' = chain
  BY DEF Handle, Answer, Holders
<1>3. Nearest(injected)'
  <2>1. CASE Me.state
    <3>1. Len(chain) \in Holders /\ \A j \in Holders : j <= Len(chain)
      BY <2>1 DEF Inv, Typed, Holders, Me
    <3>2. injected' = chain[Len(chain)]
      BY <2>1 DEF Inv, Typed, Handle, Injected
    <3> QED  BY <1>2, <3>1, <3>2 DEF Nearest
  <2>2. CASE ~Me.state
    BY <1>2, <2>2 DEF Inv, OnTheWay, Waiting, Handle, Injected, Nearest
  <2> QED  BY <2>1, <2>2
<1> QED  BY <1>1, <1>3 DEF Inv, NearestState, Nearest

\* An answer that calls no handler says nothing about the state.
LEMMA AnswerInv ==
  ASSUME Inv, NEW kind \in {"error", "405", "404"}, Answer(Says(kind))
  PROVE  Inv'
  BY DEF Inv, Typed, OnTheWay, NearestState, Answer, Says

\* Every step of the dispatch keeps it.
LEMMA NextInv == Inv /\ [Next]_vars => Inv'
<1> SUFFICES ASSUME Inv, [Next]_vars PROVE Inv'
  OBVIOUS
<1>a. /\ \A i \in DOMAIN Me.vhosts : Me.vhosts[i].router \in Router
      /\ \A i \in DOMAIN Me.nested : Me.nested[i].router \in Router
  BY RouterAssumption DEF Inv, Typed, Me
<1>1. CASE VirtualHost
  BY <1>a, <1>1, EnterInv DEF VirtualHost
<1>2. CASE Nested
  BY <1>a, <1>2, EnterInv DEF Nested
<1>3. CASE BadSubPath
  BY <1>3, AnswerInv DEF BadSubPath
<1>4. CASE CallRoute
  <2>1. PICK i \in DOMAIN Me.routes :
          Handle([kind |-> "route", route |-> i,
                  params |-> Matched(Me.routes[i].pattern, path).params])
    BY <1>4 DEF CallRoute
  <2>2. Waiting
    BY <1>4 DEF CallRoute, OwnRoutes
  <2> QED  BY <2>1, <2>2, HandleInv
<1>5. CASE MethodNotAllowed
  <2>1. CASE Me.not_allowed
    BY <1>5, <2>1, HandleInv DEF MethodNotAllowed, OwnRoutes, Says
  <2>2. CASE ~Me.not_allowed
    BY <1>5, <2>2, AnswerInv DEF MethodNotAllowed
  <2> QED  BY <2>1, <2>2
<1>6. CASE NotFound
  <2>1. CASE Me.fallback
    BY <1>6, <2>1, HandleInv DEF NotFound, OwnRoutes, Says
  <2>2. CASE ~Me.fallback
    BY <1>6, <2>2, AnswerInv DEF NotFound
  <2> QED  BY <2>1, <2>2
<1>7. CASE UNCHANGED vars
  BY <1>7 DEF vars, Inv, Typed, OnTheWay, NearestState, Nearest, Holders, Me
<1> QED
  BY <1>1, <1>2, <1>3, <1>4, <1>5, <1>6, <1>7 DEF Next

\* A handler finds the state of the nearest router around it that has one, for
\* every tree and every depth (dispatch_inner's injection of state).
THEOREM StateIsNearest == Spec => []NearestState
  BY InitInv, NextInv, PTL DEF Spec, Inv

-----------------------------------------------------------------------------
(* Segments                                                                 *)

\* Induction over the naturals, for a set: its complement has no least element.
LEMMA Induction ==
  ASSUME NEW T, 0 \in T, \A n \in Nat : n \in T => n + 1 \in T
  PROVE  \A n \in Nat : n \in T
<1> DEFINE less == {ss \in Nat \X Nat : ss[1] < ss[2]}
           left == {n \in Nat : n \notin T}
<1> SUFFICES ASSUME left # {} PROVE FALSE
  OBVIOUS
<1>1. IsWellFoundedOn(less, Nat)
  BY NatLessThanWellFounded DEF OpToRel
<1>2. left \subseteq Nat
  OBVIOUS
<1>3. PICK x \in left : \A y \in left : <<y, x>> \notin less
  <2> HIDE DEF left, less
  <2>. QED  BY <1>1, <1>2, WFMin
<1>4. x \in Nat /\ x # 0
  OBVIOUS
<1>5. x - 1 \notin left
  <2>1. <<x - 1, x>> \in less
    BY <1>4
  <2>. QED  BY <1>3, <2>1
<1>. QED  BY <1>4, <1>5

\* What the recursive function of Segments is at n, given itself.
Piece(p, g, n) ==
  IF n = 0 THEN <<>>
  ELSE IF p[n] = Slash THEN g[n - 1]
  ELSE IF n = 1 \/ p[n - 1] = Slash THEN Append(g[n - 1], <<p[n]>>)
  ELSE [g[n - 1] EXCEPT ![Len(g[n - 1])] = Append(@, p[n])]

Split(p, g, N) == g = [n \in 0..N |-> Piece(p, g, n)]

\* There is such a function for every path, by induction on its length.
LEMMA SplitExists ==
  ASSUME NEW p, NEW N \in Nat
  PROVE  \E g : Split(p, g, N)
<1> DEFINE U == {n \in Nat : \E g : Split(p, g, n)}
<1>1. 0 \in U
  <2> DEFINE g == [n \in 0..0 |-> <<>>]
  <2>1. g = [n \in 0..0 |-> Piece(p, g, n)]
    BY DEF Piece
  <2> HIDE DEF g
  <2>. QED  BY <2>1 DEF Split
<1>2. ASSUME NEW n \in Nat, n \in U PROVE n + 1 \in U
  <2>1. PICK g : Split(p, g, n)
    BY <1>2
  <2> DEFINE h == [k \in 0..(n + 1) |-> Piece(p, g, k)]
  <2>2. \A k \in 0..(n + 1) : h[k] = Piece(p, g, k)
    OBVIOUS
  <2>3. \A k \in 0..n : g[k] = Piece(p, g, k)
    BY <2>1 DEF Split
  <2>4. \A k \in 0..n : h[k] = g[k]
    BY <2>2, <2>3
  <2> HIDE DEF h
  <2>5. \A k \in 0..(n + 1) : Piece(p, h, k) = Piece(p, g, k)
    <3> TAKE k \in 0..(n + 1)
    <3>1. k = 0 \/ h[k - 1] = g[k - 1]
      <4>1. k = 0 \/ k - 1 \in 0..n
        OBVIOUS
      <4>. QED  BY <2>4, <4>1
    <3>. QED  BY <3>1, Zenon DEF Piece
  <2>6. h = [k \in 0..(n + 1) |-> Piece(p, h, k)]
    BY <2>5 DEF h
  <2>. QED  BY <2>6 DEF Split
<1>3. N \in U
  <2> HIDE DEF U
  <2>. QED  BY <1>1, <1>2, Induction
<1>. QED  BY <1>3

\* So Segments is the value of one of them.
LEMMA SegmentsIs ==
  ASSUME NEW S, NEW p \in Seq(S)
  PROVE  \E g : Split(p, g, Len(p)) /\ Segments(p) = g[Len(p)]
<1> DEFINE g == CHOOSE g : g = [n \in 0..Len(p) |->
        IF n = 0 THEN <<>>
        ELSE IF p[n] = Slash THEN g[n - 1]
        ELSE IF n = 1 \/ p[n - 1] = Slash THEN Append(g[n - 1], <<p[n]>>)
        ELSE [g[n - 1] EXCEPT ![Len(g[n - 1])] = Append(@, p[n])]]
<1>1. Len(p) \in Nat
  OBVIOUS
<1>2. PICK k : Split(p, k, Len(p))
  BY <1>1, SplitExists
<1>3. Split(p, g, Len(p))
  BY <1>2 DEF Split, Piece
<1>4. Segments(p) = g[Len(p)]
  BY DEF Segments
<1>. QED  BY <1>3, <1>4

\* A name more on the last segment.
LEMMA Longer ==
  ASSUME NEW S, NEW q \in Seq(Seq(S)), NEW x \in S
  PROVE  [q EXCEPT ![Len(q)] = Append(@, x)] \in Seq(Seq(S))
<1>1. CASE q = <<>>
  <2>1. Len(q) \notin DOMAIN q
    BY <1>1
  <2>2. [q EXCEPT ![Len(q)] = Append(@, x)] = q
    BY <2>1
  <2>. QED  BY <2>2
<1>2. CASE q # <<>>
  BY <1>2
<1>. QED  BY <1>1, <1>2

\* The pieces of a path are sequences of its tokens.
LEMMA SegmentsType ==
  ASSUME NEW S, NEW p \in Seq(S)
  PROVE  Segments(p) \in Seq(Seq(S))
<1>1. PICK g : Split(p, g, Len(p)) /\ Segments(p) = g[Len(p)]
  BY SegmentsIs
<1>2. Len(p) \in Nat
  OBVIOUS
<1>3. \A n \in 0..Len(p) : g[n] = Piece(p, g, n)
  BY <1>1 DEF Split
<1> DEFINE U == {n \in Nat : n <= Len(p) => g[n] \in Seq(Seq(S))}
<1>4. 0 \in U
  <2>1. g[0] = Piece(p, g, 0)
    BY <1>2, <1>3
  <2>2. g[0] = <<>>
    BY <2>1, Zenon DEF Piece
  <2>3. g[0] \in Seq(Seq(S))
    <3>1. \A T : <<>> \in Seq(T)
      OBVIOUS
    <3>. QED  BY <2>2, <3>1
  <2>. QED  BY <2>3
<1>5. ASSUME NEW n \in Nat, n \in U PROVE n + 1 \in U
  <2> SUFFICES ASSUME n + 1 <= Len(p) PROVE g[n + 1] \in Seq(Seq(S))
    OBVIOUS
  <2>1. g[n] \in Seq(Seq(S)) /\ p[n + 1] \in S /\ n + 1 # 0 /\ n + 1 - 1 = n
    BY <1>2, <1>5
  <2>2. g[n + 1] = Piece(p, g, n + 1)
    BY <1>2, <1>3
  <2>3. \/ g[n + 1] = g[n]
        \/ g[n + 1] = Append(g[n], <<p[n + 1]>>)
        \/ g[n + 1] = [g[n] EXCEPT ![Len(g[n])] = Append(@, p[n + 1])]
    BY <2>1, <2>2 DEF Piece
  <2>4. Append(g[n], <<p[n + 1]>>) \in Seq(Seq(S))
    BY <2>1
  <2>. QED  BY <2>1, <2>3, <2>4, Longer
<1>6. Len(p) \in U
  <2> HIDE DEF U
  <2>. QED  BY <1>2, <1>4, <1>5, Induction
<1>. QED  BY <1>1, <1>2, <1>6

-----------------------------------------------------------------------------
(* match_pattern                                                            *)

\* A match has its four parts.
Shape(m) ==
  /\ m = [ok |-> m.ok, wild |-> m.wild, rest |-> m.rest, params |-> m.params]
  /\ m.ok \in BOOLEAN /\ m.wild \in BOOLEAN

Start(p) == [ok |-> TRUE, wild |-> FALSE, rest |-> Segments(p), params |-> NoParams]

\* What one turn of the loop does: after a failure or a wildcard, nothing.
LEMMA TurnStays ==
  ASSUME NEW m, NEW seg, Shape(m), ~m.ok \/ m.wild
  PROVE  MatchSegment(m, seg) = m
  BY Zenon DEF MatchSegment

\* On an exhausted path it fails.
LEMMA TurnFails ==
  ASSUME NEW m, NEW seg, Shape(m), m.ok, ~m.wild, m.rest = <<>>
  PROVE  LET t == MatchSegment(m, seg)
         IN  Shape(t) /\ ~t.ok /\ ~t.wild
<1>1. MatchSegment(m, seg) = [m EXCEPT !.ok = FALSE]
  BY Zenon DEF MatchSegment
<1>. QED  BY <1>1 DEF Shape

\* Else it takes a segment, or all of them.
LEMMA TurnTakes ==
  ASSUME NEW m, NEW seg, Shape(m), m.ok, ~m.wild, m.rest # <<>>
  PROVE  LET t == MatchSegment(m, seg)
         IN  /\ Shape(t)
             /\ seg.kind = "literal" =>
                  t.ok = (Head(m.rest) = seg.name) /\ ~t.wild /\ t.rest = Tail(m.rest)
             /\ seg.kind = "param" => t.ok /\ ~t.wild /\ t.rest = Tail(m.rest)
             /\ seg.kind \notin {"literal", "param"} =>
                  t.ok /\ t.wild /\ t.rest = <<>>
<1>1. CASE seg.kind = "literal"
  <2>1. MatchSegment(m, seg)
          = [m EXCEPT !.ok = (Head(m.rest) = seg.name), !.rest = Tail(m.rest)]
    BY <1>1, Zenon DEF MatchSegment
  <2>. QED  BY <1>1, <2>1 DEF Shape
<1>2. CASE seg.kind = "param"
  <2> DEFINE new == seg.name :> <<Head(m.rest)>> @@ m.params
  <2>0. seg.kind # "literal"
    BY <1>2
  <2>1. MatchSegment(m, seg) = [m EXCEPT !.params = new, !.rest = Tail(m.rest)]
    BY <1>2, <2>0, Zenon DEF MatchSegment
  <2> HIDE DEF new
  <2>. QED  BY <1>2, <2>1 DEF Shape
<1>3. CASE seg.kind \notin {"literal", "param"}
  <2> DEFINE new == seg.name :> m.rest @@ m.params
  <2>0. seg.kind # "literal" /\ seg.kind # "param"
    BY <1>3
  <2>1. MatchSegment(m, seg)
          = [m EXCEPT !.params = new, !.rest = <<>>, !.wild = TRUE]
    BY <2>0, Zenon DEF MatchSegment
  <2> HIDE DEF new
  <2>. QED  BY <1>3, <2>1 DEF Shape
<1>. QED  BY <1>1, <1>2, <1>3

\* What the recursive function of Matched is at i, given itself.
Turn(pattern, p, g, i) ==
  IF i = 0 THEN Start(p) ELSE MatchSegment(g[i - 1], pattern[i])

Turns(pattern, p, g, N) == g = [i \in 0..N |-> Turn(pattern, p, g, i)]

\* There is such a function for every pattern.
LEMMA TurnsExists ==
  ASSUME NEW pattern, NEW p, NEW N \in Nat
  PROVE  \E g : Turns(pattern, p, g, N)
<1> DEFINE U == {n \in Nat : \E g : Turns(pattern, p, g, n)}
<1>1. 0 \in U
  <2> DEFINE g == [n \in 0..0 |-> Start(p)]
  <2>1. g = [n \in 0..0 |-> Turn(pattern, p, g, n)]
    BY DEF Turn
  <2> HIDE DEF g
  <2>. QED  BY <2>1 DEF Turns
<1>2. ASSUME NEW n \in Nat, n \in U PROVE n + 1 \in U
  <2>1. PICK g : Turns(pattern, p, g, n)
    BY <1>2
  <2> DEFINE h == [k \in 0..(n + 1) |-> Turn(pattern, p, g, k)]
  <2>2. \A k \in 0..(n + 1) : h[k] = Turn(pattern, p, g, k)
    OBVIOUS
  <2>3. \A k \in 0..n : g[k] = Turn(pattern, p, g, k)
    BY <2>1 DEF Turns
  <2>4. \A k \in 0..n : h[k] = g[k]
    BY <2>2, <2>3
  <2> HIDE DEF h
  <2>5. \A k \in 0..(n + 1) : Turn(pattern, p, h, k) = Turn(pattern, p, g, k)
    <3> TAKE k \in 0..(n + 1)
    <3>1. k = 0 \/ h[k - 1] = g[k - 1]
      <4>1. k = 0 \/ k - 1 \in 0..n
        OBVIOUS
      <4>. QED  BY <2>4, <4>1
    <3>. QED  BY <3>1, Zenon DEF Turn
  <2>6. h = [k \in 0..(n + 1) |-> Turn(pattern, p, h, k)]
    BY <2>5 DEF h
  <2>. QED  BY <2>6 DEF Turns
<1>3. N \in U
  <2> HIDE DEF U
  <2>. QED  BY <1>1, <1>2, Induction
<1>. QED  BY <1>3

\* So Matched is the value of one of them.
LEMMA MatchedIs ==
  ASSUME NEW S, NEW pattern \in Seq(S), NEW p
  PROVE  \E g : Turns(pattern, p, g, Len(pattern)) /\ Matched(pattern, p) = g[Len(pattern)]
<1> DEFINE g == CHOOSE g : g = [i \in 0..Len(pattern) |->
        IF i = 0 THEN [ok |-> TRUE, wild |-> FALSE, rest |-> Segments(p),
                       params |-> NoParams]
        ELSE MatchSegment(g[i - 1], pattern[i])]
<1>1. Len(pattern) \in Nat
  OBVIOUS
<1>2. PICK k : Turns(pattern, p, k, Len(pattern))
  BY <1>1, TurnsExists
<1>3. Turns(pattern, p, g, Len(pattern))
  BY <1>2 DEF Turns, Turn, Start
<1>4. Matched(pattern, p) = g[Len(pattern)]
  BY DEF Matched
<1>. QED  BY <1>3, <1>4

\* The first k segments of the path q are those the pattern asks for.
Literals(pattern, q, k) ==
  \A j \in 1..k : pattern[j].kind = "literal" => q[j] = pattern[j].name

\* Without a wildcard among the first i segments of the pattern, the loop has taken
\* as many of the path.
Taking(pattern, q, m, i) ==
  /\ ~m.wild
  /\ m.ok <=> Len(q) >= i /\ Literals(pattern, q, i)
  /\ m.ok => m.rest = SubSeq(q, i + 1, Len(q))

\* With the first one at w, all there were.
Taken(pattern, q, m, w) ==
  /\ m.ok <=> Len(q) >= w /\ Literals(pattern, q, w - 1)
  /\ m.ok => m.wild /\ m.rest = <<>>

Wilds(pattern, i) == {k \in 1..i : IsWild(pattern[k])}

IsFirstWild(pattern, w) == IsWild(pattern[w]) /\ \A j \in 1..w - 1 : ~IsWild(pattern[j])

After(pattern, q, m, i) ==
  /\ Shape(m)
  /\ Wilds(pattern, i) = {} => Taking(pattern, q, m, i)
  /\ \A w \in 1..i : IsFirstWild(pattern, w) => Taken(pattern, q, m, w)

\* What is left of a path, its head and its tail.
LEMMA Rest ==
  ASSUME NEW S, NEW q \in Seq(S), NEW i \in Nat
  PROVE  LET r == SubSeq(q, i + 1, Len(q))
         IN  /\ r = <<>> <=> Len(q) <= i
             /\ Len(q) > i => Head(r) = q[i + 1] /\ Tail(r) = SubSeq(q, i + 2, Len(q))
<1> DEFINE r == SubSeq(q, i + 1, Len(q))
<1>1. Len(q) \in Nat
  OBVIOUS
<1>2. CASE Len(q) <= i
  <2>1. Len(r) = 0
    BY <1>1, <1>2
  <2>. QED  BY <1>1, <1>2, <2>1
<1>3. CASE Len(q) > i
  <2>1. Len(r) = Len(q) - i /\ r \in Seq(S)
    BY <1>1, <1>3
  <2>2. r # <<>> /\ Head(r) = q[i + 1]
    <3>1. r[1] = q[i + 1]
      BY <1>1, <1>3
    <3> HIDE DEF r
    <3>2. r # <<>>
      <4>1. Len(r) # 0
        BY <1>1, <1>3, <2>1
      <4>. QED  BY <4>1
    <3>. QED  BY <2>1, <3>1, <3>2
  <2>3. Tail(r) = SubSeq(q, i + 2, Len(q))
    <3> DEFINE t == SubSeq(q, i + 2, Len(q))
    <3>1. Len(t) = Len(q) - i - 1 /\ t \in Seq(S)
      BY <1>1, <1>3
    <3>2. Len(Tail(r)) = Len(q) - i - 1 /\ Tail(r) \in Seq(S)
      BY <1>1, <2>1, <2>2
    <3>3. \A k \in 1..Len(t) : t[k] = q[i + 1 + k]
      BY <1>1, <1>3, <3>1
    <3>4. \A k \in 1..Len(r) : r[k] = q[i + k]
      BY <1>1, <1>3, <2>1
    <3>5. \A k \in 1..Len(Tail(r)) : Tail(r)[k] = r[k + 1]
      BY <2>1, <2>2
    <3> HIDE DEF r, t
    <3>6. \A k \in 1..Len(t) : Tail(r)[k] = t[k]
      <4> TAKE k \in 1..Len(t)
      <4>1. k \in 1..Len(Tail(r)) /\ k + 1 \in 1..Len(r)
        BY <1>1, <1>3, <2>1, <3>1, <3>2
      <4>2. Tail(r)[k] = r[k + 1] /\ r[k + 1] = q[i + (k + 1)] /\ t[k] = q[i + 1 + k]
        BY <3>3, <3>4, <3>5, <4>1
      <4>3. i + (k + 1) = i + 1 + k
        BY <3>1, <1>1
      <4>. QED  BY <4>2, <4>3
    <3>7. Tail(r) = t
      BY <3>1, <3>2, <3>6
    <3>. QED  BY <3>7 DEF t
  <2>. QED  BY <1>1, <1>3, <2>2, <2>3
<1>. QED  BY <1>1, <1>2, <1>3

IsPattern(pattern) ==
  pattern \in Seq({seg \in Range(pattern) : seg.kind \in SegmentKind})

\* Where there is a wildcard, there is a first one.
LEMMA FirstOf ==
  ASSUME NEW pattern, NEW n \in Nat, \E k \in 1..n : IsWild(pattern[k])
  PROVE  \E w \in 1..n : IsFirstWild(pattern, w)
<1> DEFINE U == {k \in Nat : k <= n => \/ \E w \in 1..k : IsFirstWild(pattern, w)
                                     \/ \A j \in 1..k : ~IsWild(pattern[j])}
<1>1. 0 \in U
  OBVIOUS
<1>2. ASSUME NEW k \in Nat, k \in U PROVE k + 1 \in U
  <2> SUFFICES ASSUME k + 1 <= n, \A w \in 1..(k + 1) : ~IsFirstWild(pattern, w)
               PROVE  \A j \in 1..(k + 1) : ~IsWild(pattern[j])
    OBVIOUS
  <2>1. \A j \in 1..k : ~IsWild(pattern[j])
    BY <1>2
  <2>2. ~IsFirstWild(pattern, k + 1)
    OBVIOUS
  <2>. QED  BY <2>1, <2>2 DEF IsFirstWild
<1>3. n \in U
  <2> HIDE DEF U
  <2>. QED  BY <1>1, <1>2, Induction
<1>. QED  BY <1>3

\* One more turn of the loop keeps what is said of those before.
LEMMA AfterTurn ==
  ASSUME NEW pattern, IsPattern(pattern), NEW S, NEW q \in Seq(S), NEW i \in Nat,
         i < Len(pattern), NEW m, After(pattern, q, m, i)
  PROVE  After(pattern, q, MatchSegment(m, pattern[i + 1]), i + 1)
<1> DEFINE seg == pattern[i + 1]
           t == MatchSegment(m, seg)
<1>0. Len(pattern) \in Nat /\ seg.kind \in SegmentKind /\ Len(q) \in Nat
  BY DEF IsPattern
<1>1. Shape(m)
  BY DEF After
<1> HIDE DEF seg
<1>2. CASE Wilds(pattern, i) # {}
  <2>1. ASSUME NEW w \in 1..(i + 1), IsFirstWild(pattern, w)
        PROVE  w \in 1..i
    BY <1>2, <2>1 DEF Wilds, IsFirstWild
  <2>2. Wilds(pattern, i + 1) # {}
    BY <1>2 DEF Wilds
  <2>3. PICK w \in 1..i : IsFirstWild(pattern, w)
    BY <1>2, FirstOf DEF Wilds
  <2>4. Taken(pattern, q, m, w)
    BY <2>3 DEF After
  <2>5. ~m.ok \/ m.wild
    BY <2>4 DEF Taken
  <2>6. t = m
    BY <1>1, <2>5, TurnStays
  <2>. QED  BY <2>1, <2>2, <2>6 DEF After, seg
<1>3. CASE Wilds(pattern, i) = {}
  <2>1. Taking(pattern, q, m, i)
    BY <1>3 DEF After
  <2>2. \A w \in 1..(i + 1) : IsFirstWild(pattern, w) => w = i + 1
    BY <1>3 DEF Wilds, IsFirstWild
  <2>3. Literals(pattern, q, i + 1)
          <=> Literals(pattern, q, i) /\ (seg.kind = "literal" => q[i + 1] = seg.name)
    BY DEF Literals, seg
  <2>4. Wilds(pattern, i + 1) = {} => ~IsWild(seg)
    BY DEF Wilds, seg
  <2>5. IsFirstWild(pattern, i + 1) => IsWild(seg)
    BY DEF IsFirstWild, seg
  <2> SUFFICES /\ Shape(t)
               /\ ~IsWild(seg) => Taking(pattern, q, t, i + 1)
               /\ IsWild(seg) => Taken(pattern, q, t, i + 1)
    BY <2>2, <2>4, <2>5 DEF After, seg
  <2>6. CASE ~m.ok
    <3>1. t = m
      BY <1>1, <2>6, TurnStays
    <3>. QED  BY <1>0, <1>1, <2>1, <2>3, <2>6, <3>1 DEF Taking, Taken
  <2>7. CASE m.ok /\ m.rest = <<>>
    <3>1. Len(q) = i
      BY <1>0, <2>1, <2>7, Rest DEF Taking
    <3>2. Shape(t) /\ ~t.ok /\ ~t.wild
      BY <1>1, <2>1, <2>7, TurnFails DEF Taking
    <3>. QED  BY <1>0, <3>1, <3>2 DEF Taking, Taken
  <2>8. CASE m.ok /\ m.rest # <<>>
    <3>1. /\ Len(q) >= i + 1 /\ Literals(pattern, q, i)
          /\ Head(m.rest) = q[i + 1] /\ Tail(m.rest) = SubSeq(q, i + 2, Len(q))
      <4>1. m.rest = SubSeq(q, i + 1, Len(q)) /\ Len(q) >= i /\ Literals(pattern, q, i)
        BY <2>1, <2>8 DEF Taking
      <4>2. Len(q) > i
        BY <1>0, <2>8, <4>1, Rest
      <4>. QED  BY <1>0, <4>1, <4>2, Rest
    <3>2. /\ Shape(t)
          /\ seg.kind = "literal" =>
               t.ok = (q[i + 1] = seg.name) /\ ~t.wild
                 /\ t.rest = SubSeq(q, i + 2, Len(q))
          /\ seg.kind = "param" =>
               t.ok /\ ~t.wild /\ t.rest = SubSeq(q, i + 2, Len(q))
          /\ seg.kind \notin {"literal", "param"} =>
               t.ok /\ t.wild /\ t.rest = <<>>
      BY <1>1, <2>1, <2>8, <3>1, TurnTakes DEF Taking
    <3> HIDE DEF t
    <3>3. i + 1 + 1 = i + 2 /\ i + 1 - 1 = i
      OBVIOUS
    <3>4. CASE seg.kind = "literal"
      BY <2>3, <3>1, <3>2, <3>3, <3>4 DEF Taking, IsWild
    <3>5. CASE seg.kind = "param"
      BY <2>3, <3>1, <3>2, <3>3, <3>5 DEF Taking, IsWild
    <3>6. CASE seg.kind = "wildcard"
      BY <3>1, <3>2, <3>3, <3>6 DEF Taken, IsWild
    <3>. QED  BY <1>0, <3>4, <3>5, <3>6 DEF SegmentKind
  <2>. QED  BY <2>6, <2>7, <2>8
<1>. QED  BY <1>2, <1>3

\* match_pattern does what a pattern says.
LEMMA MatchesFits ==
  ASSUME NEW pattern, IsPattern(pattern), NEW S, NEW p \in Seq(S)
  PROVE  Matches(pattern, p) <=> Fits(pattern, p)
<1> DEFINE q == Segments(p)
           n == Len(pattern)
<1>0. n \in Nat /\ q \in Seq(Seq(S)) /\ Len(q) \in Nat
  BY SegmentsType DEF IsPattern
<1>1. PICK g : Turns(pattern, p, g, n) /\ Matched(pattern, p) = g[n]
  BY MatchedIs DEF IsPattern
<1>2. \A i \in 0..n : g[i] = Turn(pattern, p, g, i)
  BY <1>1 DEF Turns
<1> HIDE DEF q
<1> DEFINE U == {i \in Nat : i <= n => After(pattern, q, g[i], i)}
<1>3. 0 \in U
  <2>1. g[0] = Start(p)
    BY <1>0, <1>2 DEF Turn
  <2>2. Shape(g[0]) /\ g[0].ok /\ ~g[0].wild /\ g[0].rest = q
    BY <2>1 DEF Start, Shape, q
  <2>3. q = SubSeq(q, 0 + 1, Len(q))
    BY <1>0
  <2>4. Literals(pattern, q, 0)
    BY DEF Literals
  <2>5. Taking(pattern, q, g[0], 0)
    BY <1>0, <2>2, <2>3, <2>4 DEF Taking
  <2>6. After(pattern, q, g[0], 0)
    BY <2>2, <2>5 DEF After
  <2>. QED  BY <2>6
<1>4. ASSUME NEW i \in Nat, i \in U PROVE i + 1 \in U
  <2> SUFFICES ASSUME i + 1 <= n PROVE After(pattern, q, g[i + 1], i + 1)
    OBVIOUS
  <2>1. After(pattern, q, g[i], i) /\ i < n
    BY <1>0, <1>4
  <2>2. g[i + 1] = MatchSegment(g[i], pattern[i + 1])
    <3>1. i + 1 \in 0..n /\ i + 1 # 0 /\ i + 1 - 1 = i
      BY <1>0
    <3>. QED  BY <1>2, <3>1 DEF Turn
  <2>. QED  BY <1>0, <2>1, <2>2, AfterTurn
<1>5. After(pattern, q, g[n], n)
  <2>1. n \in U
    <3> HIDE DEF U
    <3>. QED  BY <1>0, <1>3, <1>4, Induction
  <2>. QED  BY <2>1
<1> DEFINE m == g[n]
<1>6. Matches(pattern, p) <=> m.ok /\ m.rest = <<>>
  BY <1>1 DEF Matches
<1> HIDE DEF m
<1>7. CASE Some(pattern, IsWild)
  <2> DEFINE w == First(pattern, IsWild)
  <2>1. w \in 1..n /\ IsFirstWild(pattern, w)
    <3>0. DOMAIN pattern = 1..n
      BY DEF IsPattern
    <3>1. \E k \in 1..n : IsWild(pattern[k])
      BY <1>7, <3>0 DEF Some
    <3>2. \E k \in DOMAIN pattern : IsFirstWild(pattern, k)
      BY <1>0, <3>0, <3>1, FirstOf
    <3>3. w = CHOOSE k \in DOMAIN pattern : IsFirstWild(pattern, k)
      BY Zenon DEF First, IsFirst, IsFirstWild
    <3> HIDE DEF w
    <3>. QED  BY <3>0, <3>2, <3>3
  <2>2. Taken(pattern, q, m, w)
    BY <1>5, <2>1 DEF After, m
  <2> HIDE DEF w
  <2>3. Fits(pattern, p) <=> Len(q) > w - 1 /\ Literals(pattern, q, w - 1)
    BY <1>7 DEF Fits, Literals, q, w
  <2>. QED  BY <1>0, <1>6, <2>1, <2>2, <2>3 DEF Taken
<1>8. CASE ~Some(pattern, IsWild)
  <2>1. Wilds(pattern, n) = {}
    BY <1>0, <1>8 DEF Wilds, Some, IsPattern
  <2>2. Taking(pattern, q, m, n)
    BY <1>5, <2>1 DEF After, m
  <2>3. Fits(pattern, p) <=> Len(q) = n /\ Literals(pattern, q, n)
    BY <1>8 DEF Fits, Literals, q
  <2>. QED  BY <1>0, <1>6, <2>2, <2>3, Rest DEF Taking
<1>. QED  BY <1>7, <1>8

-----------------------------------------------------------------------------
(* The route that is called                                                 *)

\* No prefix that is left ends in a slash.
TrimmedAll(nested) ==
  \A i \in DOMAIN nested :
    nested[i].prefix # <<>> => Last(nested[i].prefix) # Slash

\* Of finitely many numbers that hold there is a greatest.
LEMMA GreatestOf ==
  ASSUME NEW T, NEW n \in Nat, T \subseteq 1..n, T # {}
  PROVE  \E i \in T : \A j \in T : j <= i
<1> DEFINE U == {k \in Nat : (\E i \in T : i <= k) =>
                   \E i \in T : i <= k /\ \A j \in T : j <= k => j <= i}
<1>1. 0 \in U
  OBVIOUS
<1>2. ASSUME NEW k \in Nat, k \in U PROVE k + 1 \in U
  <2>1. CASE k + 1 \in T
    BY <2>1
  <2>2. CASE k + 1 \notin T
    <3>1. \A j \in T : j <= k + 1 <=> j <= k
      BY <2>2
    <3>. QED  BY <1>2, <3>1
  <2>. QED  BY <2>1, <2>2
<1>3. n \in U
  <2> HIDE DEF U
  <2>. QED  BY <1>1, <1>2, Induction
<1>4. \A i \in T : i <= n
  OBVIOUS
<1>5. \E i \in T : i <= n
  BY <1>4
<1>. QED  BY <1>3, <1>4, <1>5

\* trim_end_matches('/').
LEMMA TrimmedEnd ==
  ASSUME NEW S, NEW prefix \in Seq(S)
  PROVE  Trimmed(prefix) # <<>> => Last(Trimmed(prefix)) # Slash
<1> DEFINE names == {i \in DOMAIN prefix : prefix[i] # Slash}
<1>0. Len(prefix) \in Nat /\ DOMAIN prefix = 1..Len(prefix)
  OBVIOUS
<1>1. CASE names = {}
  BY <1>1 DEF Trimmed
<1>2. CASE names # {}
  <2> DEFINE k == CHOOSE i \in names : \A j \in names : j <= i
  <2>1. k \in names
    <3>1. names \subseteq 1..Len(prefix)
      BY <1>0
    <3>2. \E i \in names : \A j \in names : j <= i
      <4> HIDE DEF names
      <4>. QED  BY <1>0, <1>2, <3>1, GreatestOf
    <3> HIDE DEF names
    <3>. QED  BY <3>2
  <2>2. Trimmed(prefix) = SubSeq(prefix, 1, k)
    BY <1>2 DEF Trimmed
  <2>3. k \in 1..Len(prefix) /\ prefix[k] # Slash
    BY <1>0, <2>1
  <2> HIDE DEF k
  <2>4. Len(SubSeq(prefix, 1, k)) = k /\ SubSeq(prefix, 1, k)[k] = prefix[k]
    BY <1>0, <2>3
  <2>. QED  BY <2>2, <2>3, <2>4 DEF Last
<1>. QED  BY <1>1, <1>2

\* Router::nest, with any prefix, makes no other trees than those RoutesRight is about.
LEMMA NestTrims ==
  ASSUME NEW S, NEW prefix \in Seq(S), NEW sub, NEW N, NEW r,
         r.nested \in Seq(N), "nested" \in DOMAIN r, TrimmedAll(r.nested)
  PROVE  TrimmedAll(Nest(r, prefix, sub).nested)
<1> DEFINE new == [prefix |-> Trimmed(prefix), router |-> sub]
<1>1. Nest(r, prefix, sub).nested = Append(r.nested, new)
  BY DEF Nest
<1>2. new.prefix # <<>> => Last(new.prefix) # Slash
  BY TrimmedEnd
<1>3. \A i \in DOMAIN Append(r.nested, new) :
        \/ i \in DOMAIN r.nested /\ Append(r.nested, new)[i] = r.nested[i]
        \/ Append(r.nested, new)[i] = new
  <2> HIDE DEF new
  <2>. QED  OBVIOUS
<1> HIDE DEF new
<1>. QED  BY <1>1, <1>2, <1>3 DEF TrimmedAll

\* RightRoute says nothing while the request is on its way.
RouteInv == tree \in Trees /\ at \in Router /\ path \in Seq(Token) /\ RightRoute

\* It holds when a request arrives.
LEMMA RouteInit == Init => RouteInv
<1> SUFFICES ASSUME Init PROVE RouteInv
  OBVIOUS
<1>1. answer.kind = "waiting"
  BY DEF Init, Says
<1>2. RightRoute
  BY <1>1 DEF RightRoute
<1>. QED  BY <1>2, RouterAssumption DEF Init, RouteInv

\* The rest of a path is a path.
LEMMA SubPathType ==
  ASSUME NEW p \in Seq(Token), NEW prefix, IsPrefix(prefix, p), Len(prefix) \in Nat
  PROVE  SubPath(p, prefix) \in Seq(Token)
<1>1. Slash \in Token
  BY DEF Token
<1>. QED  BY <1>1 DEF SubPath

\* The routes of the router the request is at are patterns.
LEMMA MyPatterns ==
  ASSUME RouteInv
  PROVE  \A i \in DOMAIN Me.routes :
           PathFits(Me.routes[i]) <=> Fits(Me.routes[i].pattern, path)
<1> SUFFICES ASSUME NEW i \in DOMAIN Me.routes
             PROVE  PathFits(Me.routes[i]) <=> Fits(Me.routes[i].pattern, path)
  OBVIOUS
<1>1. IsPattern(Me.routes[i].pattern)
  BY RouterAssumption DEF RouteInv, Me, IsPattern
<1>. QED  BY <1>1, MatchesFits DEF RouteInv, PathFits

\* What RightRoute says of an answer.
Right(i) == Fits(Me.routes[i].pattern, path) /\ Me.routes[i].method = req.method

\* The scan's test of a route is the pattern's meaning and the method.
LEMMA RightFits ==
  ASSUME RouteInv
  PROVE  \A i \in DOMAIN Me.routes : RouteFits(Me.routes[i]) <=> Right(i)
  BY MyPatterns DEF RouteFits, Right

\* Only the answer changes: what is right stays so.
LEMMA AnswerRoute ==
  ASSUME RouteInv, NEW a, Answer(a),
         a.kind = "route" =>
           /\ a.route \in DOMAIN Me.routes
           /\ Right(a.route) /\ \A i \in 1..a.route - 1 : ~Right(i),
         a.kind \in {"not_allowed", "405"} =>
           /\ \E i \in DOMAIN Me.routes : Fits(Me.routes[i].pattern, path)
           /\ \A i \in DOMAIN Me.routes : ~Right(i),
         a.kind \in {"fallback", "404"} =>
           \A i \in DOMAIN Me.routes : ~Fits(Me.routes[i].pattern, path),
         a.kind = "error" =>
           \E n \in Range(Me.nested) :
             PrefixFits(n) /\ n.prefix # <<>> /\ Last(n.prefix) # Slash
  PROVE  RouteInv'
<1>1. UNCHANGED <<tree, at, path, req>> /\ answer' = a
  BY DEF Answer
<1>2. RightRoute'
  BY <1>1 DEF RightRoute, Right, Me, PrefixFits
<1>. QED  BY <1>1, <1>2 DEF RouteInv

\* A router that is entered sees a path.
LEMMA EnterRoute ==
  ASSUME RouteInv, Waiting, NEW sub \in Router, NEW p \in Seq(Token), Enter(sub, p)
  PROVE  RouteInv'
<1>1. RightRoute'
  BY DEF Enter, Waiting, RightRoute
<1>. QED  BY <1>1 DEF RouteInv, Enter

\* Every step of the dispatch keeps it.
LEMMA RouteNext ==
  ASSUME \A t \in Trees, r \in Router : TrimmedAll(t[r].nested), RouteInv, [Next]_vars
  PROVE  RouteInv'
<1>a. /\ \A i \in DOMAIN Me.vhosts : Me.vhosts[i].router \in Router
      /\ \A i \in DOMAIN Me.nested :
           /\ Me.nested[i].router \in Router
           /\ Len(Me.nested[i].prefix) \in Nat
  BY RouterAssumption DEF RouteInv, Me
<1>b. Me.routes \in Seq(Range(Me.routes))
  BY RouterAssumption DEF RouteInv, Me
<1>1. CASE VirtualHost
  BY <1>a, <1>1, EnterRoute DEF VirtualHost, RouteInv
<1>2. CASE Nested
  <2>1. PICK i \in DOMAIN Me.nested :
          /\ IsPrefix(Me.nested[i].prefix, path)
          /\ Enter(Me.nested[i].router, SubPath(path, Me.nested[i].prefix))
    BY <1>2 DEF Nested, IsFirst, PrefixFits
  <2>2. SubPath(path, Me.nested[i].prefix) \in Seq(Token)
    BY <1>a, <2>1, SubPathType DEF RouteInv
  <2>. QED  BY <1>2, <1>a, <2>1, <2>2, EnterRoute DEF Nested
<1>3. CASE BadSubPath
  <2>1. PICK i \in DOMAIN Me.nested :
          PrefixFits(Me.nested[i]) /\ Me.nested[i].prefix # <<>>
    BY <1>3 DEF BadSubPath, IsFirst
  <2>2. Last(Me.nested[i].prefix) # Slash
    BY <2>1 DEF TrimmedAll, Me, RouteInv
  <2>3. Me.nested[i] \in Range(Me.nested)
    BY DEF Range
  <2>. QED  BY <1>3, <2>1, <2>2, <2>3, AnswerRoute DEF BadSubPath, Says
<1>4. CASE CallRoute
  <2>1. PICK i \in DOMAIN Me.routes :
          /\ RouteFits(Me.routes[i])
          /\ \A j \in 1..i - 1 : ~RouteFits(Me.routes[j])
          /\ Handle([kind |-> "route", route |-> i,
                     params |-> Matched(Me.routes[i].pattern, path).params])
    BY <1>4 DEF CallRoute, IsFirst
  <2>2. \A j \in 1..i - 1 : j \in DOMAIN Me.routes
    BY <1>b
  <2>3. Right(i) /\ \A j \in 1..i - 1 : ~Right(j)
    BY <2>1, <2>2, RightFits
  <2>. QED  BY <2>1, <2>3, AnswerRoute DEF Handle
<1>5. CASE MethodNotAllowed
  <2>1. \A i \in DOMAIN Me.routes : ~Right(i)
    BY <1>5, RightFits DEF MethodNotAllowed, Some
  <2>2. \E i \in DOMAIN Me.routes : Fits(Me.routes[i].pattern, path)
    BY <1>5, MyPatterns DEF MethodNotAllowed, Some
  <2>3. Answer(Says("not_allowed")) \/ Answer(Says("405"))
    BY <1>5 DEF MethodNotAllowed, Handle
  <2>. QED  BY <2>1, <2>2, <2>3, AnswerRoute DEF Says
<1>6. CASE NotFound
  <2>1. \A i \in DOMAIN Me.routes : ~Fits(Me.routes[i].pattern, path)
    BY <1>6, MyPatterns DEF NotFound, Some
  <2>2. Answer(Says("fallback")) \/ Answer(Says("404"))
    BY <1>6 DEF NotFound, Handle
  <2>. QED  BY <2>1, <2>2, AnswerRoute DEF Says
<1>7. CASE UNCHANGED vars
  BY <1>7 DEF vars, RouteInv, RightRoute, Me, PrefixFits
<1>. QED  BY <1>1, <1>2, <1>3, <1>4, <1>5, <1>6, <1>7 DEF Next

\* The route that is called is the first of those that fit, 405 and 404 mean that none
\* does, and a path fails for no slash a prefix was written with: for every tree whose
\* prefixes went through Router::nest (NestTrims), every pattern and path (dispatch_
\* inner and match_pattern).
THEOREM RoutesRight ==
  ASSUME \A t \in Trees, r \in Router : TrimmedAll(t[r].nested)
  PROVE  Spec => []RightRoute
<1>1. Init => RouteInv
  BY RouteInit
<1>2. RouteInv /\ [Next]_vars => RouteInv'
  BY RouteNext
<1>3. RouteInv => RightRoute
  BY DEF RouteInv
<1>. QED  BY <1>1, <1>2, <1>3, PTL DEF Spec

-----------------------------------------------------------------------------
(* Router::resolve                                                          *)

\* The first of the numbers that hold is the one that is chosen.
LEMMA FirstIs ==
  ASSUME NEW T, T \subseteq Nat \ {0}, NEW i \in T, \A j \in 1..i - 1 : j \notin T
  PROVE  (CHOOSE k \in T : \A j \in 1..k - 1 : j \notin T) = i
<1> DEFINE k == CHOOSE k \in T : \A j \in 1..k - 1 : j \notin T
<1>1. k \in T /\ \A j \in 1..k - 1 : j \notin T
  OBVIOUS
<1>2. k \in Nat \ {0} /\ i \in Nat \ {0}
  BY <1>1
<1>3. ~(k < i) /\ ~(i < k)
  <2> HIDE DEF k
  <2>. QED  BY <1>1, <1>2
<1>. QED
  <2> HIDE DEF k
  <2>. QED  BY <1>2, <1>3

\* There is one, if any hold.
LEMMA FirstExists ==
  ASSUME NEW T, T \subseteq Nat \ {0}, T # {}
  PROVE  \E i \in T : \A j \in 1..i - 1 : j \notin T
<1> DEFINE U == {n \in Nat : \A m \in T : m <= n =>
                   \E i \in T : \A j \in 1..i - 1 : j \notin T}
<1>1. 0 \in U
  OBVIOUS
<1>2. ASSUME NEW n \in Nat, n \in U PROVE n + 1 \in U
  <2> SUFFICES ASSUME NEW m \in T, m <= n + 1
               PROVE  \E i \in T : \A j \in 1..i - 1 : j \notin T
    OBVIOUS
  <2>1. CASE \E k \in T : k <= n
    BY <1>2, <2>1
  <2>2. CASE ~\E k \in T : k <= n
    <3>1. m \in Nat /\ m = n + 1
      BY <2>2
    <3>2. \A j \in 1..m - 1 : j \notin T
      BY <2>2, <3>1
    <3>. QED  BY <3>2
  <2>. QED  BY <2>1, <2>2
<1>3. PICK m \in T : m \in Nat
  OBVIOUS
<1>4. m \in U
  <2> HIDE DEF U
  <2>. QED  BY <1>1, <1>2, <1>3, Induction
<1>. QED  BY <1>3, <1>4

\* The nested routers of s whose prefix begins p, and the first of them.
Under(t, s, p) == {i \in DOMAIN t[s].nested : IsPrefix(t[s].nested[i].prefix, p)}

FirstUnder(t, s, p) == CHOOSE i \in Under(t, s, p) : \A j \in 1..i - 1 : j \notin Under(t, s, p)

\* The routes of s that fit p, and those of the method too.
Fitting(t, s, p) == {i \in DOMAIN t[s].routes : Matches(t[s].routes[i].pattern, p)}

Righting(t, s, m, p) == {i \in Fitting(t, s, p) : t[s].routes[i].method = m}

FirstRight(t, s, m, p) ==
  CHOOSE i \in Righting(t, s, m, p) : \A j \in 1..i - 1 : j \notin Righting(t, s, m, p)

\* What s makes of p by its own routes.
Own(t, s, m, p) ==
  IF Righting(t, s, m, p) # {}
    THEN [some |-> TRUE,
          params |-> Matched(t[s].routes[FirstRight(t, s, m, p)].pattern, p).params]
  ELSE [some |-> Fitting(t, s, p) # {}, params |-> NoParams]

Sub(t, s, p) == t[s].nested[FirstUnder(t, s, p)]

LEMMA ListsAre ==
  ASSUME NEW t \in Trees, NEW s \in Router
  PROVE  /\ DOMAIN t[s].nested = 1..Len(t[s].nested) /\ Len(t[s].nested) \in Nat
         /\ DOMAIN t[s].routes = 1..Len(t[s].routes) /\ Len(t[s].routes) \in Nat
<1>1. t[s].nested \in Seq(Range(t[s].nested))
  BY RouterAssumption
<1>2. t[s].routes \in Seq(Range(t[s].routes))
  BY RouterAssumption
<1>. QED  BY <1>1, <1>2

\* The scans of resolve stop where those of these sets do.
LEMMA FirstUnderIs ==
  ASSUME NEW t \in Trees, NEW s \in Router, NEW p
  PROVE  (CHOOSE i \in DOMAIN t[s].nested :
            /\ IsPrefix(t[s].nested[i].prefix, p)
            /\ \A j \in 1..i - 1 : ~IsPrefix(t[s].nested[j].prefix, p))
         = FirstUnder(t, s, p)
<1> DEFINE A(i) == /\ i \in DOMAIN t[s].nested
                   /\ IsPrefix(t[s].nested[i].prefix, p)
                   /\ \A j \in 1..i - 1 : ~IsPrefix(t[s].nested[j].prefix, p)
           B(i) == i \in Under(t, s, p) /\ \A j \in 1..i - 1 : j \notin Under(t, s, p)
<1>1. ASSUME NEW i PROVE A(i) <=> B(i)
  <2>1. i \in DOMAIN t[s].nested => \A j \in 1..i - 1 : j \in DOMAIN t[s].nested
    BY ListsAre
  <2>. QED  BY <2>1 DEF Under
<1>2. (CHOOSE i : A(i)) = (CHOOSE i : B(i))
  <2> HIDE DEF A, B
  <2>. QED  BY <1>1
<1>3. (CHOOSE i : A(i)) =
        (CHOOSE i \in DOMAIN t[s].nested :
            /\ IsPrefix(t[s].nested[i].prefix, p)
            /\ \A j \in 1..i - 1 : ~IsPrefix(t[s].nested[j].prefix, p))
  OBVIOUS
<1>4. (CHOOSE i : B(i)) = FirstUnder(t, s, p)
  BY DEF FirstUnder
<1>. QED  BY <1>2, <1>3, <1>4

LEMMA FirstRightIs ==
  ASSUME NEW t \in Trees, NEW s \in Router, NEW m, NEW p
  PROVE  (CHOOSE i \in DOMAIN t[s].routes :
            /\ Matches(t[s].routes[i].pattern, p) /\ t[s].routes[i].method = m
            /\ \A j \in 1..i - 1 : ~(Matches(t[s].routes[j].pattern, p)
                                     /\ t[s].routes[j].method = m))
         = FirstRight(t, s, m, p)
<1> DEFINE C(i) == /\ Matches(t[s].routes[i].pattern, p) /\ t[s].routes[i].method = m
                   /\ \A j \in 1..i - 1 : ~(Matches(t[s].routes[j].pattern, p)
                                            /\ t[s].routes[j].method = m)
           A(i) == i \in DOMAIN t[s].routes /\ C(i)
           B(i) == /\ i \in Righting(t, s, m, p)
                   /\ \A j \in 1..i - 1 : j \notin Righting(t, s, m, p)
<1>1. ASSUME NEW i PROVE A(i) <=> B(i)
  <2>1. i \in DOMAIN t[s].routes => \A j \in 1..i - 1 : j \in DOMAIN t[s].routes
    BY ListsAre
  <2>. QED  BY <2>1 DEF Righting, Fitting
<1>2. (CHOOSE i : A(i)) = (CHOOSE i : B(i))
  <2> HIDE DEF A, B
  <2>. QED  BY <1>1
<1>3. (CHOOSE i : A(i)) = (CHOOSE i \in DOMAIN t[s].routes : C(i))
  OBVIOUS
<1>4. (CHOOSE i : B(i)) = FirstRight(t, s, m, p)
  BY DEF FirstRight
<1>. QED  BY <1>2, <1>3, <1>4

\* What the scans of a router come to.
LEMMA ResolutionIs ==
  ASSUME NEW t \in Trees, NEW s \in Router, NEW m, NEW p, NEW g
  PROVE  Resolution(t, g, s, m, p) =
           IF Under(t, s, p) # {} THEN g[Sub(t, s, p).router][SubPathOf(p, Sub(t, s, p).prefix)]
           ELSE Own(t, s, m, p)
<1> DEFINE me == t[s]
           under(n) == IsPrefix(n.prefix, p)
           fits(route) == Matches(route.pattern, p)
           right(route) == fits(route) /\ route.method = m
           n == me.nested[First(me.nested, under)]
           route == me.routes[First(me.routes, right)]
           own == IF Some(me.routes, right)
                    THEN [some |-> TRUE, params |-> Matched(route.pattern, p).params]
                  ELSE [some |-> Some(me.routes, fits), params |-> NoParams]
<1>1. Resolution(t, g, s, m, p) =
        IF Some(me.nested, under) THEN g[n.router][SubPathOf(p, n.prefix)] ELSE own
  BY DEF Resolution
<1>2. Some(me.nested, under) <=> Under(t, s, p) # {}
  BY DEF Some, Under
<1>3. First(me.nested, under) = FirstUnder(t, s, p)
  BY FirstUnderIs DEF First, IsFirst
<1>4. Some(me.routes, right) <=> Righting(t, s, m, p) # {}
  BY DEF Some, Righting, Fitting
<1>5. First(me.routes, right) = FirstRight(t, s, m, p)
  BY FirstRightIs DEF First, IsFirst
<1>6. own = Own(t, s, m, p)
  <2>1. CASE Righting(t, s, m, p) # {}
    <3>1. own = [some |-> TRUE, params |-> Matched(route.pattern, p).params]
      BY <1>4, <2>1
    <3>. QED  BY <1>5, <2>1, <3>1 DEF Own
  <2>2. CASE Righting(t, s, m, p) = {}
    <3>1. own = [some |-> Some(me.routes, fits), params |-> NoParams]
      BY <1>4, <2>2
    <3>2. Some(me.routes, fits) = (Fitting(t, s, p) # {})
      BY DEF Some, Fitting
    <3>. QED  BY <2>2, <3>1, <3>2 DEF Own
  <2>. QED  BY <2>1, <2>2
<1>7. n = Sub(t, s, p)
  BY <1>3 DEF Sub
<1>. QED  BY <1>1, <1>2, <1>6, <1>7

\* What the recursive function of Resolve is, given itself.
Answers(t, g, m, R) == g = [s \in R |-> [q \in Seq(Token) |-> Resolution(t, g, s, m, q)]]

\* What is below a router has an answer before it: so the function exists.
LEMMA AnswersExist ==
  ASSUME NEW t \in Trees, NEW m
  PROVE  \E g : Answers(t, g, m, Router)
<1>1. PICK level \in [Router -> 0..Cardinality(Router)] :
        \A r \in Router : \A n \in Range(t[r].nested) : level[n.router] < level[r]
  BY NestingAssumption
<1>2. Cardinality(Router) \in Nat
  BY NestingAssumption, FS_CardinalityType
<1>3. \A r \in Router : level[r] \in Nat /\ level[r] < Cardinality(Router) + 1
  BY <1>1, <1>2
<1> DEFINE Low(N) == {r \in Router : level[r] < N}
           U == {N \in Nat : \E g : Answers(t, g, m, Low(N))}
<1>4. ASSUME NEW N, NEW g, NEW h, NEW s \in Router, NEW q, NEW M \in Nat, level[s] < M + 1,
             \A r \in Low(M) : g[r] = h[r]
      PROVE  Resolution(t, g, s, m, q) = Resolution(t, h, s, m, q)
  <2>1. CASE Under(t, s, q) = {}
    BY <2>1, ResolutionIs
  <2>2. CASE Under(t, s, q) # {}
    <3>1. FirstUnder(t, s, q) \in DOMAIN t[s].nested
      <4>1. Under(t, s, q) \subseteq Nat \ {0}
        BY ListsAre DEF Under
      <4>2. \E i \in Under(t, s, q) : \A j \in 1..i - 1 : j \notin Under(t, s, q)
        BY <2>2, <4>1, FirstExists
      <4>3. FirstUnder(t, s, q) \in Under(t, s, q)
        BY <4>2 DEF FirstUnder
      <4>. QED  BY <4>3 DEF Under
    <3>2. Sub(t, s, q) \in Range(t[s].nested) /\ Sub(t, s, q).router \in Router
      BY <3>1, RouterAssumption DEF Sub, Range
    <3>3. level[Sub(t, s, q).router] < level[s]
      BY <1>1, <3>2
    <3>4. Sub(t, s, q).router \in Low(M)
      BY <1>3, <1>4, <3>2, <3>3
    <3>. QED  BY <1>4, <2>2, <3>4, ResolutionIs
  <2>. QED  BY <2>1, <2>2
<1>5. 0 \in U
  <2> DEFINE g == [s \in Low(0) |-> [q \in Seq(Token) |-> NoParams]]
  <2>1. Low(0) = {}
    BY <1>3
  <2>2. g = [s \in Low(0) |-> [q \in Seq(Token) |-> Resolution(t, g, s, m, q)]]
    BY <2>1
  <2>3. Answers(t, g, m, Low(0))
    <3> HIDE DEF g, Low
    <3>. QED  BY <2>2 DEF Answers
  <2>. QED  BY <2>3
<1>6. ASSUME NEW N \in Nat, N \in U PROVE N + 1 \in U
  <2>1. PICK g : Answers(t, g, m, Low(N))
    BY <1>6
  <2> DEFINE h == [s \in Low(N + 1) |-> [q \in Seq(Token) |-> Resolution(t, g, s, m, q)]]
  <2>2. \A r \in Low(N) : r \in Low(N + 1)
    BY <1>3
  <2>3. \A r \in Low(N) : g[r] = h[r]
    <3> HIDE DEF Low
    <3>. QED  BY <2>1, <2>2 DEF Answers
  <2>4. \A s \in Low(N + 1) : \A q : Resolution(t, g, s, m, q) = Resolution(t, h, s, m, q)
    <3> TAKE s \in Low(N + 1)
    <3> TAKE q
    <3>1. s \in Router /\ level[s] < N + 1
      OBVIOUS
    <3> HIDE DEF Low, h
    <3>. QED  BY <1>4, <2>3, <3>1
  <2>5. h = [s \in Low(N + 1) |-> [q \in Seq(Token) |-> Resolution(t, h, s, m, q)]]
    BY <2>4
  <2>6. Answers(t, h, m, Low(N + 1))
    <3> HIDE DEF h, Low
    <3>. QED  BY <2>5 DEF Answers
  <2> HIDE DEF h, Low
  <2>. QED  BY <2>6
<1>7. Cardinality(Router) + 1 \in U
  <2> HIDE DEF U
  <2>. QED  BY <1>2, <1>5, <1>6, Induction
<1>8. Low(Cardinality(Router) + 1) = Router
  BY <1>3
<1>. QED  BY <1>7, <1>8

\* So resolve does at each router what its scans come to.
LEMMA ResolveIs ==
  ASSUME NEW t \in Trees, NEW s \in Router, NEW m, NEW p \in Seq(Token)
  PROVE  Resolve(t, s, m, p) =
           IF Under(t, s, p) # {}
             THEN Resolve(t, Sub(t, s, p).router, m, SubPath(p, Sub(t, s, p).prefix))
           ELSE Own(t, s, m, p)
<1> DEFINE g == CHOOSE g : g = [r \in Router |->
                  [q \in Seq(Token) |-> Resolution(t, g, r, m, q)]]
<1>1. PICK k : Answers(t, k, m, Router)
  BY AnswersExist
<1>2. Answers(t, g, m, Router)
  BY <1>1 DEF Answers
<1>3. \A r, q : Resolve(t, r, m, q) = g[r][q]
  BY DEF Resolve
<1>4. g[s][p] = Resolution(t, g, s, m, p)
  <2> HIDE DEF g
  <2>. QED  BY <1>2 DEF Answers
<1> HIDE DEF g
<1>. QED  BY <1>3, <1>4, ResolutionIs DEF SubPathOf

\* While the request is on its way, resolve finds at the router it is at, with the
\* path that one sees, what it finds at the root.
NoHosts == \A r \in Router : ~Some(tree[r].vhosts, HostFits)

Found == Resolve(tree, Root, req.method, req.path)

Resolving ==
  /\ tree \in Trees /\ at \in Router /\ path \in Seq(Token)
  /\ Waiting /\ NoHosts => Found = Resolve(tree, at, req.method, path)

ResolveInv == Resolving /\ AgreesWithDispatch

LEMMA ResolveInit == Init => ResolveInv
<1> SUFFICES ASSUME Init PROVE ResolveInv
  OBVIOUS
<1>1. answer.kind = "waiting"
  BY DEF Init, Says
<1>2. Resolving
  BY RouterAssumption DEF Init, Resolving, Found
<1>3. AgreesWithDispatch
  BY <1>1 DEF AgreesWithDispatch
<1>. QED  BY <1>2, <1>3 DEF ResolveInv

\* Once there is an answer nothing changes, and before it nothing is said.
LEMMA NothingFound ==
  ASSUME answer'.kind \in {"waiting", "error"} PROVE AgreesWithDispatch'
  BY DEF AgreesWithDispatch

\* Where the routes of its own decide, resolve finds what they decide.
LEMMA OwnFound ==
  ASSUME ResolveInv, OwnRoutes, NoHosts
  PROVE  Found = Own(tree, at, req.method, path)
<1>1. Under(tree, at, path) = {}
  BY DEF OwnRoutes, Some, PrefixFits, Under, Me
<1>. QED  BY <1>1, ResolveIs DEF ResolveInv, Resolving, OwnRoutes

LEMMA OwnAnswer ==
  ASSUME ResolveInv, OwnRoutes, NEW a, Answer(a), a.kind \notin {"waiting", "error"},
         LET own == Own(tree, at, req.method, path)
         IN  (own.some <=> a.kind \notin {"404", "fallback"}) /\ own.params = a.params
  PROVE  ResolveInv'
<1>1. tree' = tree /\ req' = req /\ at' = at /\ path' = path /\ answer' = a
  BY DEF Answer
<1>2. Resolving'
  BY <1>1 DEF ResolveInv, Resolving, Waiting
<1>3. ASSUME NoHosts PROVE Found = Own(tree, at, req.method, path)
  BY <1>3, OwnFound
<1>4. NoHosts' <=> NoHosts
  BY <1>1 DEF NoHosts, Some, HostFits
<1>5. Found' = Found
  BY <1>1 DEF Found
<1>6. AgreesWithDispatch'
  BY <1>1, <1>3, <1>4, <1>5 DEF AgreesWithDispatch, NoHosts, Found
<1>. QED  BY <1>2, <1>6 DEF ResolveInv

\* Entering a nested router, both take the same path to it.
LEMMA EnterFound ==
  ASSUME ResolveInv, Waiting, NEW sub \in Router, NEW p \in Seq(Token), Enter(sub, p),
         NoHosts => Found = Resolve(tree, sub, req.method, p)
  PROVE  ResolveInv'
<1>1. UNCHANGED <<tree, req, answer>> /\ at' = sub /\ path' = p
  BY DEF Enter
<1>2. NoHosts' <=> NoHosts
  BY <1>1 DEF NoHosts, Some, HostFits
<1>3. Resolving'
  BY <1>1, <1>2 DEF ResolveInv, Resolving, Waiting, Found
<1>4. AgreesWithDispatch'
  BY <1>1 DEF Waiting, AgreesWithDispatch
<1>. QED  BY <1>3, <1>4 DEF ResolveInv

LEMMA ResolveNext == ResolveInv /\ [Next]_vars => ResolveInv'
<1> SUFFICES ASSUME ResolveInv, [Next]_vars PROVE ResolveInv'
  OBVIOUS
<1>a. /\ \A i \in DOMAIN Me.vhosts : Me.vhosts[i].router \in Router
      /\ \A i \in DOMAIN Me.nested :
           Me.nested[i].router \in Router /\ Len(Me.nested[i].prefix) \in Nat
  BY RouterAssumption DEF ResolveInv, Resolving, Me
<1>b. tree \in Trees /\ at \in Router /\ path \in Seq(Token)
  BY DEF ResolveInv, Resolving
<1>1. CASE VirtualHost
  <2>1. PICK i \in DOMAIN Me.vhosts :
          HostFits(Me.vhosts[i]) /\ Enter(Me.vhosts[i].router, path)
    BY <1>1 DEF VirtualHost, IsFirst
  <2>2. ~NoHosts
    BY <1>b, <2>1 DEF NoHosts, Some, Me
  <2>. QED  BY <1>1, <1>a, <1>b, <2>1, <2>2, EnterFound DEF VirtualHost
<1>2. CASE Nested
  <2>1. PICK i \in DOMAIN Me.nested :
          /\ PrefixFits(Me.nested[i]) /\ \A j \in 1..i - 1 : ~PrefixFits(Me.nested[j])
          /\ Enter(Me.nested[i].router, SubPath(path, Me.nested[i].prefix))
    BY <1>2 DEF Nested, IsFirst
  <2>2. SubPath(path, Me.nested[i].prefix) \in Seq(Token)
    BY <1>a, <1>b, <2>1, SubPathType DEF PrefixFits
  <2>3. ASSUME NoHosts
        PROVE  Found = Resolve(tree, Me.nested[i].router, req.method,
                               SubPath(path, Me.nested[i].prefix))
    <3>1. i \in Under(tree, at, path) /\ \A j \in 1..i - 1 : j \notin Under(tree, at, path)
      BY <2>1 DEF Under, PrefixFits, Me
    <3>2. Under(tree, at, path) \subseteq Nat \ {0}
      BY <1>b, ListsAre DEF Under
    <3>3. FirstUnder(tree, at, path) = i
      BY <3>1, <3>2, FirstIs DEF FirstUnder
    <3>4. Sub(tree, at, path) = Me.nested[i]
      BY <3>3 DEF Sub, Me
    <3>5. Found = Resolve(tree, at, req.method, path)
      BY <1>2, <2>3 DEF ResolveInv, Resolving, Nested
    <3>. QED  BY <1>b, <3>1, <3>4, <3>5, ResolveIs
  <2>. QED  BY <1>2, <1>a, <2>1, <2>2, <2>3, EnterFound DEF Nested
<1>3. CASE BadSubPath
  <2>1. answer' = Says("error") /\ UNCHANGED <<tree, at, path>>
    BY <1>3 DEF BadSubPath, Answer
  <2>2. AgreesWithDispatch' /\ Resolving'
    BY <1>b, <2>1, NothingFound DEF Says, Resolving, Waiting
  <2>. QED  BY <2>2 DEF ResolveInv
<1>4. CASE CallRoute
  <2>1. PICK i \in DOMAIN Me.routes :
          /\ RouteFits(Me.routes[i]) /\ \A j \in 1..i - 1 : ~RouteFits(Me.routes[j])
          /\ Handle([kind |-> "route", route |-> i,
                     params |-> Matched(Me.routes[i].pattern, path).params])
    BY <1>4 DEF CallRoute, IsFirst
  <2> DEFINE T == Righting(tree, at, req.method, path)
             a == [kind |-> "route", route |-> i,
                   params |-> Matched(Me.routes[i].pattern, path).params]
  <2>2. i \in T /\ \A j \in 1..i - 1 : j \notin T
    BY <2>1 DEF Righting, Fitting, RouteFits, PathFits, Me
  <2>3. T \subseteq Nat \ {0}
    BY <1>b, ListsAre DEF Righting, Fitting
  <2>4. FirstRight(tree, at, req.method, path) = i
    <3> HIDE DEF T
    <3>1. (CHOOSE k \in T : \A j \in 1..k - 1 : j \notin T) = i
      BY <2>2, <2>3, FirstIs
    <3>. QED  BY <3>1 DEF FirstRight, T
  <2>5. Own(tree, at, req.method, path) = [some |-> TRUE, params |-> a.params]
    BY <2>2, <2>4 DEF Own, Me
  <2>6. Answer(a) /\ OwnRoutes
    BY <1>4, <2>1 DEF CallRoute, Handle
  <2>. QED  BY <2>5, <2>6, OwnAnswer
<1>5. CASE MethodNotAllowed
  <2>1. Own(tree, at, req.method, path) = [some |-> TRUE, params |-> NoParams]
    <3>1. Righting(tree, at, req.method, path) = {} /\ Fitting(tree, at, path) # {}
      BY <1>5 DEF MethodNotAllowed, Some, RouteFits, PathFits, Righting, Fitting, Me
    <3>. QED  BY <3>1 DEF Own
  <2>2. (Answer(Says("not_allowed")) \/ Answer(Says("405"))) /\ OwnRoutes
    BY <1>5 DEF MethodNotAllowed, Handle
  <2>. QED  BY <2>1, <2>2, OwnAnswer DEF Says
<1>6. CASE NotFound
  <2>1. Own(tree, at, req.method, path) = [some |-> FALSE, params |-> NoParams]
    <3>1. Righting(tree, at, req.method, path) = {} /\ Fitting(tree, at, path) = {}
      BY <1>6 DEF NotFound, Some, PathFits, Righting, Fitting, Me
    <3>. QED  BY <3>1 DEF Own
  <2>2. (Answer(Says("fallback")) \/ Answer(Says("404"))) /\ OwnRoutes
    BY <1>6 DEF NotFound, Handle
  <2>. QED  BY <2>1, <2>2, OwnAnswer DEF Says
<1>7. CASE UNCHANGED vars
  BY <1>7 DEF vars, ResolveInv, Resolving, AgreesWithDispatch, NoHosts, Waiting, Found,
     Some, HostFits
<1>. QED  BY <1>1, <1>2, <1>3, <1>4, <1>5, <1>6, <1>7 DEF Next

\* What benchmarks and introspection are told is what a request would get, for every
\* tree, method and path, where no virtual host takes the request (Router::resolve).
THEOREM ResolveAgrees == Spec => []AgreesWithDispatch
<1>1. ResolveInv => AgreesWithDispatch
  BY DEF ResolveInv
<1>. QED  BY <1>1, ResolveInit, ResolveNext, PTL DEF Spec

-----------------------------------------------------------------------------
(* The layers                                                               *)

\* The last n layers of a list.
Tails(list, n) == [i \in 1..n |-> list[Len(list) - n + i]]

LEMMA LayerOnTop ==
  ASSUME NEW S, NEW list \in Seq(S), NEW n \in 1..Len(list)
  PROVE  layer_boxed(Tails(list, n - 1), Reverse(list)[n]) = Tails(list, n)
<1>1. Len(list) \in Nat /\ n \in Nat /\ n - 1 \in Nat
  OBVIOUS
<1>2. Reverse(list)[n] = list[Len(list) - n + 1]
  BY <1>1 DEF Reverse
<1>3. Tails(list, n - 1) \in Seq(S) /\ Len(Tails(list, n - 1)) = n - 1
  <2>1. \A i \in 1..n - 1 : list[Len(list) - (n - 1) + i] \in S
    BY <1>1
  <2>. QED  BY <1>1, <2>1 DEF Tails
<1>4. list[Len(list) - n + 1] \in S
  BY <1>1
<1> DEFINE e == list[Len(list) - n + 1]
           s == Tails(list, n - 1)
<1>5. Len(<<e>> \o s) = n /\ <<e>> \o s \in Seq(S)
  <2> HIDE DEF s
  <2>. QED  BY <1>1, <1>3, <1>4 DEF s
<1>6. \A i \in 1..n : (<<e>> \o s)[i] = IF i = 1 THEN e ELSE s[i - 1]
  <2> HIDE DEF s
  <2>. QED  BY <1>1, <1>3, <1>4 DEF s
<1>7. \A i \in 1..n : (<<e>> \o s)[i] = list[Len(list) - n + i]
  <2> TAKE i \in 1..n
  <2>1. i = 1 \/ i - 1 \in 1..n - 1
    BY <1>1
  <2>2. i # 1 => s[i - 1] = list[Len(list) - (n - 1) + (i - 1)]
    BY <2>1 DEF Tails
  <2>3. Len(list) - (n - 1) + (i - 1) = Len(list) - n + i
    BY <1>1
  <2> HIDE DEF s
  <2>. QED  BY <1>6, <2>1, <2>2, <2>3
<1>8. <<e>> \o s = Tails(list, n)
  <2> DEFINE z == <<e>> \o s
  <2>1. z \in Seq(S) /\ Len(z) = n /\ \A i \in 1..n : z[i] = list[Len(list) - n + i]
    BY <1>5, <1>7
  <2> HIDE DEF z
  <2>2. z = [i \in 1..n |-> z[i]]
    BY <2>1
  <2>. QED  BY <2>1, <2>2 DEF Tails, z
<1>. QED  BY <1>2, <1>8 DEF layer_boxed

\* The layers stand around the router in the order of the with_layer calls.
LEMMA LayeredIs ==
  ASSUME NEW S, NEW list \in Seq(S)
  PROVE  build_layered_service(list) = list
<1> DEFINE l == Reverse(list)
           P(g) == g = [n \in 0..Len(l) |->
                          IF n = 0 THEN <<>> ELSE layer_boxed(g[n - 1], l[n])]
           g == CHOOSE g : P(g)
           k == [n \in 0..Len(list) |-> Tails(list, n)]
<1>1. Len(l) = Len(list) /\ Len(list) \in Nat
  BY DEF Reverse
<1>2. Tails(list, 0) = <<>>
  BY DEF Tails
<1>3. P(k)
  <2>1. \A n \in 0..Len(list) :
          Tails(list, n) = IF n = 0 THEN <<>> ELSE layer_boxed(k[n - 1], l[n])
    <3> TAKE n \in 0..Len(list)
    <3>1. n = 0 \/ (n \in 1..Len(list) /\ n - 1 \in 0..Len(list))
      BY <1>1
    <3>2. n # 0 => k[n - 1] = Tails(list, n - 1)
      BY <3>1
    <3> HIDE DEF k
    <3>. QED  BY <1>2, <3>1, <3>2, LayerOnTop
  <2>. QED  BY <1>1, <2>1
<1>4. P(g)
  <2> HIDE DEF P, k
  <2>. QED  BY <1>3
<1>5. \A n \in 0..Len(list) :
        g[n] = IF n = 0 THEN <<>> ELSE layer_boxed(g[n - 1], l[n])
  <2> HIDE DEF g
  <2>. QED  BY <1>1, <1>4
<1> DEFINE U == {n \in Nat : n <= Len(list) => g[n] = Tails(list, n)}
<1> HIDE DEF g, l
<1>6. 0 \in U
  BY <1>1, <1>2, <1>5
<1>7. ASSUME NEW n \in Nat, n \in U PROVE n + 1 \in U
  <2> SUFFICES ASSUME n + 1 <= Len(list) PROVE g[n + 1] = Tails(list, n + 1)
    OBVIOUS
  <2>1. n + 1 \in 1..Len(list) /\ n + 1 # 0 /\ n + 1 - 1 = n /\ n + 1 \in 0..Len(list)
    BY <1>1
  <2>2. g[n + 1] = layer_boxed(Tails(list, n), l[n + 1])
    BY <1>5, <1>7, <2>1
  <2>. QED  BY <2>1, <2>2, LayerOnTop DEF l
<1>8. Len(list) \in U
  <2> HIDE DEF U
  <2>. QED  BY <1>1, <1>6, <1>7, Induction
<1>9. Tails(list, Len(list)) = list
  BY <1>1 DEF Tails
<1>10. build_layered_service(list) = g[Len(l)]
  BY DEF build_layered_service, Around, g, l
<1>. QED  BY <1>1, <1>8, <1>9, <1>10

-----------------------------------------------------------------------------
(* Request ids                                                              *)

\* A request on its way in has been given an id by every RequestIdLayer it is inside
\* of, each greater than the one before, and carries the last.
Entered(k) ==
  /\ \A i \in IdLayers : ids[i] # NoId <=> i <= k
  /\ \A i, j \in IdLayers : i < j /\ j <= k => ids[i] < ids[j]
  /\ \A i \in IdLayers : ids[i] < counter
  /\ \A i \in IdLayers :
       i <= k /\ (\A j \in IdLayers : j <= k => j <= i) => header = ids[i]

\* On its way out the answer carries the id of the outermost layer it has left.
Left(k) == {i \in IdLayers : depth < i /\ i <= k}

Carries(k) ==
  IF reply.kind = "ok" /\ Left(k) # {}
    THEN \E i \in Left(k) : reply.id = ids[i] /\ \A j \in Left(k) : i <= j
    ELSE reply.id = NoId

Stack ==
  /\ layers \in Seq({"id", "log", "user"}) /\ stack = layers
  /\ depth \in 0..Len(layers) /\ counter \in Nat \ {0}
  /\ ids \in [DOMAIN layers -> Nat]
  /\ ran \in BOOLEAN
  /\ reply = [kind |-> reply.kind, id |-> reply.id, type |-> reply.type]
  /\ phase \in {"in", "out", "done"}

Journey(k) ==
  /\ depth <= k /\ Entered(k)
  /\ phase = "in" => /\ depth = k /\ ~ran
                     /\ answer.kind # "waiting" => k = Len(layers)
  /\ ran => k = Len(layers)
  /\ phase = "out" => reply.kind \in {"ok", "error"} /\ Carries(k)

IdsInv == Stack /\ (\E k \in 0..Len(layers) : Journey(k)) /\ IdsPair

LEMMA LayersAre ==
  ASSUME Stack
  PROVE  /\ DOMAIN layers = 1..Len(layers) /\ Len(layers) \in Nat
         /\ IdLayers \subseteq 1..Len(layers)
         /\ \A i \in IdLayers : ids[i] \in Nat
<1>1. DOMAIN layers = 1..Len(layers) /\ Len(layers) \in Nat
  BY DEF Stack
<1>. QED  BY <1>1 DEF Stack, IdLayers

LEMMA InitIds == ServeInit => IdsInv
<1> SUFFICES ASSUME ServeInit PROVE IdsInv
  OBVIOUS
<1>1. layers \in Seq({"id", "log", "user"})
  BY ServingAssumption DEF ServeInit
<1>2. stack = layers
  BY <1>1, LayeredIs DEF ServeInit
<1>3. Stack
  <2>1. reply = [kind |-> "none", id |-> 0, type |-> 0]
    BY DEF ServeInit, Reply, NoId
  <2>2. reply = [kind |-> reply.kind, id |-> reply.id, type |-> reply.type]
    BY <2>1
  <2>3. Len(layers) \in Nat
    BY <1>1
  <2>4. depth = 0 /\ counter = 1 /\ ran = FALSE /\ phase = "in"
    BY DEF ServeInit
  <2>5. ids \in [DOMAIN layers -> Nat]
    BY DEF ServeInit, NoId
  <2>6. depth \in 0..Len(layers) /\ counter \in Nat \ {0}
    BY <2>3, <2>4
  <2>7. ran \in BOOLEAN /\ phase \in {"in", "out", "done"}
    BY <2>4
  <2>. QED  BY <1>1, <1>2, <2>2, <2>5, <2>6, <2>7, Zenon DEF Stack
<1>4. Entered(0)
  BY <1>3, LayersAre DEF ServeInit, Entered, NoId, IdLayers
<1>5. Journey(0)
  BY <1>4 DEF ServeInit, Init, Says, Journey
<1>6. IdsPair
  BY DEF ServeInit, IdsPair
<1>7. 0 \in 0..Len(layers)
  BY <1>3, LayersAre
<1>. QED  BY <1>3, <1>5, <1>6, <1>7 DEF IdsInv

\* A RequestIdLayer draws a greater number than all before it.
LEMMA EnterIdInv ==
  ASSUME IdsInv, EnterRequestId
  PROVE  IdsInv'
<1>1. phase = "in" /\ depth < Len(layers) /\ layers[depth + 1] = "id" /\ ~ran
      /\ answer.kind = "waiting" /\ Journey(depth)
  BY DEF EnterRequestId, Arriving, Facing, IdsInv, Stack, Journey
<1>2. UNCHANGED <<answer, layers, stack, phase, ran, reply>>
  BY DEF EnterRequestId, vars
<1>3. depth' = depth + 1 /\ counter' = counter + 1 /\ header' = counter
  BY DEF EnterRequestId, Into
<1>4. ids' = [ids EXCEPT ![depth + 1] = counter] /\ Stack
  BY DEF EnterRequestId, IdsInv
<1>5. Stack'
  <2>1. depth' \in 0..Len(layers) /\ depth + 1 \in 1..Len(layers)
    BY <1>1, <1>3, <1>4 DEF Stack
  <2>2. ids' \in [DOMAIN layers -> Nat]
    BY <1>4 DEF Stack
  <2>3. counter' \in Nat \ {0}
    BY <1>3, <1>4 DEF Stack
  <2>. QED  BY <1>2, <1>4, <2>1, <2>2, <2>3 DEF Stack
<1>6. IdLayers' = IdLayers
  BY <1>2 DEF IdLayers
<1>7. /\ \A i \in IdLayers : ids'[i] = IF i = depth + 1 THEN counter ELSE ids[i]
      /\ \A i \in IdLayers : i \in Nat /\ ids[i] \in Nat
      /\ counter \in Nat \ {0} /\ depth \in Nat
  BY <1>4, LayersAre DEF Stack, IdLayers
<1>e. PICK e : e = depth + 1
  OBVIOUS
<1>8. e \in IdLayers
  BY <1>1, <1>4, <1>7, <1>e, LayersAre DEF IdLayers
<1>9. Entered(e)'
  <2>0. Entered(depth)
    BY <1>1 DEF Journey
  <2>1. \A i \in IdLayers : ids'[i] # NoId <=> i <= e
    BY <1>7, <1>e, <2>0 DEF Entered, NoId
  <2>2. \A i, j \in IdLayers : i < j /\ j <= e => ids'[i] < ids'[j]
    BY <1>7, <1>e, <2>0 DEF Entered
  <2>3. \A i \in IdLayers : ids'[i] < counter'
    BY <1>3, <1>7, <2>0 DEF Entered
  <2>4. \A i \in IdLayers : i <= e /\ (\A j \in IdLayers : j <= e => j <= i)
                             => header' = ids'[i]
    BY <1>3, <1>7, <1>e, <1>8
  <2>. QED  BY <1>6, <2>1, <2>2, <2>3, <2>4 DEF Entered
<1>10. Journey(e)'
  BY <1>1, <1>2, <1>3, <1>7, <1>e, <1>9 DEF Journey
<1>11. e \in 0..Len(layers)' /\ IdsPair'
  BY <1>1, <1>2, <1>3, <1>5, <1>e DEF Stack, IdsPair
<1>. QED  BY <1>5, <1>10, <1>11 DEF IdsInv

\* A layer that is no RequestIdLayer changes nothing of that.
LEMMA EnterOtherInv ==
  ASSUME IdsInv, EnterOther
  PROVE  IdsInv'
<1>1. /\ phase = "in" /\ depth < Len(layers) /\ layers[depth + 1] # "id" /\ ~ran
      /\ answer.kind = "waiting" /\ Journey(depth) /\ Stack
  BY DEF EnterOther, Arriving, Facing, IdsInv, Stack, Journey
<1>2. UNCHANGED <<answer, layers, stack, phase, ran, reply, header, ids, counter>>
  BY DEF EnterOther, vars
<1>3. depth' = depth + 1 /\ depth \in Nat
  BY <1>1 DEF EnterOther, Into, Stack
<1>4. Stack'
  <2>1. depth' \in 0..Len(layers)
    BY <1>1, <1>3 DEF Stack
  <2>. QED  BY <1>1, <1>2, <2>1 DEF Stack
<1>5. IdLayers' = IdLayers /\ depth + 1 \notin IdLayers
  BY <1>1, <1>2 DEF IdLayers
<1>6. PICK e : e = depth + 1
  OBVIOUS
<1>7. \A i \in IdLayers : i <= e <=> i <= depth
  BY <1>1, <1>3, <1>5, <1>6, LayersAre
<1>8. Entered(e)'
  <2>1. Entered(depth)
    BY <1>1 DEF Journey
  <2>. QED  BY <1>2, <1>5, <1>7, <2>1 DEF Entered
<1>9. Journey(e)'
  BY <1>1, <1>2, <1>3, <1>6, <1>8 DEF Journey
<1>10. e \in 0..Len(layers)' /\ IdsPair'
  BY <1>1, <1>2, <1>3, <1>4, <1>6 DEF Stack, IdsPair
<1>. QED  BY <1>4, <1>9, <1>10 DEF IdsInv

\* On its way back the answer has no id yet.
LEMMA TurnBack ==
  ASSUME IdsInv, phase = "in", phase' = "out",
         UNCHANGED <<layers, stack, depth, header, ids, counter>>,
         NEW kind \in {"ok", "error"}, NEW type, reply' = Reply(kind, type),
         ran' = ran \/ (ran' = TRUE /\ answer.kind # "waiting")
  PROVE  IdsInv'
<1>1. Journey(depth) /\ Stack /\ ~ran
  BY DEF IdsInv, Stack, Journey
<1>2. PICK k : k = depth
  OBVIOUS
<1>3. reply' = [kind |-> kind, id |-> NoId, type |-> type]
  BY DEF Reply
<1>4. reply'.kind = kind /\ reply'.id = NoId /\ reply'.type = type
  BY <1>3
<1>5. Stack'
  <2>1. ran' \in BOOLEAN
    BY <1>1 DEF Stack
  <2>. QED  BY <1>1, <1>3, <1>4, <2>1 DEF Stack
<1>6. IdLayers' = IdLayers
  BY DEF IdLayers
<1>7. Left(k)' = {}
  <2>1. depth \in Nat /\ \A i \in IdLayers : i \in Nat
    BY <1>1, LayersAre DEF Stack
  <2>. QED  BY <1>2, <1>6, <2>1 DEF Left
<1>8. Carries(k)'
  BY <1>4, <1>7 DEF Carries
<1>9. Entered(k)'
  BY <1>1, <1>2, <1>6 DEF Entered, Journey
<1>10. ran' => k = Len(layers)
  BY <1>1, <1>2 DEF Journey
<1>11. Journey(k)'
  <2>1. depth' <= k
    BY <1>1, <1>2 DEF Stack
  <2>. QED  BY <1>4, <1>8, <1>9, <1>10, <2>1 DEF Journey
<1>12. k \in 0..Len(layers)' /\ IdsPair'
  BY <1>1, <1>2 DEF Stack, IdsPair
<1>. QED  BY <1>5, <1>11, <1>12 DEF IdsInv

\* The router's steps and other requests leave the request's ids alone.
LEMMA Elsewhere ==
  ASSUME IdsInv, UNCHANGED <<layers, stack, phase, depth, header, ran, ids, reply>>,
         counter' \in Nat, counter <= counter',
         phase = "in" /\ answer'.kind # "waiting" =>
           answer.kind # "waiting" \/ depth = Len(stack)
  PROVE  IdsInv'
<1>1. PICK k \in 0..Len(layers) : Journey(k)
  BY DEF IdsInv
<1>2. Stack
  BY DEF IdsInv
<1>3. IdLayers' = IdLayers
  BY DEF IdLayers
<1>4. Entered(k)'
  <2>1. \A i \in IdLayers : ids[i] < counter /\ ids[i] \in Nat /\ counter \in Nat
    BY <1>1, <1>2, LayersAre DEF Journey, Entered, Stack
  <2>2. \A i \in IdLayers : ids[i] < counter'
    BY <2>1
  <2>. QED  BY <1>1, <1>3, <2>2 DEF Journey, Entered
<1>5. Carries(k)' <=> Carries(k)
  BY <1>3 DEF Carries, Left
<1>6. Journey(k)'
  BY <1>1, <1>2, <1>4, <1>5 DEF Journey, Stack
<1>7. Stack'
  <2>1. counter' \in Nat \ {0}
    BY <1>2 DEF Stack
  <2>. QED  BY <1>2, <2>1 DEF Stack
<1>8. IdsPair'
  BY <1>3 DEF IdsInv, IdsPair, Innermost, Outermost
<1>. QED  BY <1>1, <1>6, <1>7, <1>8 DEF IdsInv

\* A RequestIdLayer the answer passes writes its own id over those further inside.
LEMMA LeaveInv ==
  ASSUME IdsInv, LeaveLayer
  PROVE  IdsInv'
<1>1. PICK k \in 0..Len(layers) : Journey(k)
  BY DEF IdsInv
<1>2. Stack /\ phase = "out" /\ depth > 0 /\ depth' = depth - 1
      /\ UNCHANGED <<layers, stack, phase, header, ran, ids, counter>>
  BY DEF IdsInv, LeaveLayer
<1>3. depth \in 1..Len(layers) /\ depth <= k /\ depth \in Nat /\ k \in Nat
  BY <1>1, <1>2, LayersAre DEF Stack, Journey
<1>4. reply' = IF layers[depth] = "id" /\ reply.kind = "ok"
                 THEN [reply EXCEPT !.id = ids[depth]] ELSE reply
  BY <1>2 DEF LeaveLayer, Stack, Stamp
<1>5. reply = [kind |-> reply.kind, id |-> reply.id, type |-> reply.type]
  BY <1>2 DEF Stack
<1>6. /\ reply'.kind = reply.kind /\ reply'.type = reply.type
      /\ reply' = [kind |-> reply'.kind, id |-> reply'.id, type |-> reply'.type]
      /\ reply'.id = IF layers[depth] = "id" /\ reply.kind = "ok" THEN ids[depth] ELSE reply.id
  <2>1. CASE layers[depth] = "id" /\ reply.kind = "ok"
    <3>1. reply' = [kind |-> reply.kind, id |-> ids[depth], type |-> reply.type]
      BY <1>4, <1>5, <2>1
    <3>. QED  BY <2>1, <3>1
  <2>2. CASE ~(layers[depth] = "id" /\ reply.kind = "ok")
    <3>1. reply' = reply
      BY <1>4, <2>2
    <3>. QED  BY <1>5, <2>2, <3>1
  <2>. QED  BY <2>1, <2>2
<1>7. Stack'
  <2>1. depth' \in 0..Len(layers)
    BY <1>2, <1>3
  <2>. QED  BY <1>2, <1>6, <2>1 DEF Stack
<1>8. IdLayers' = IdLayers /\ (depth \in IdLayers <=> layers[depth] = "id")
  BY <1>2, <1>3, LayersAre DEF IdLayers
<1>9. Entered(k)'
  BY <1>1, <1>2, <1>8 DEF Entered, Journey
<1>10. \A i \in IdLayers : i \in Nat
  BY <1>2, LayersAre
<1>11. Left(k)' = IF depth \in IdLayers THEN Left(k) \cup {depth} ELSE Left(k)
  BY <1>2, <1>3, <1>8, <1>10 DEF Left
<1>12. \A i \in Left(k) : i \in Nat /\ depth < i
  BY <1>10 DEF Left
<1>13. Carries(k) /\ reply.kind \in {"ok", "error"}
  BY <1>1, <1>2 DEF Journey
<1>14. Carries(k)'
  <2>1. CASE reply.kind # "ok"
    BY <1>6, <1>13, <2>1 DEF Carries
  <2>2. CASE reply.kind = "ok" /\ depth \in IdLayers
    <3>1. depth \in Left(k)' /\ reply'.id = ids'[depth] /\ reply'.kind = "ok"
      BY <1>2, <1>6, <1>8, <1>11, <2>2
    <3>2. \A j \in Left(k)' : depth <= j
      BY <1>3, <1>11, <1>12
    <3>. QED  BY <3>1, <3>2 DEF Carries
  <2>3. CASE reply.kind = "ok" /\ depth \notin IdLayers
    <3>1. Left(k)' = Left(k) /\ reply'.id = reply.id /\ reply'.kind = "ok"
      BY <1>6, <1>8, <1>11, <2>3
    <3>. QED  BY <1>2, <1>13, <2>3, <3>1 DEF Carries
  <2>. QED  BY <2>1, <2>2, <2>3
<1>15. Journey(k)'
  <2>1. depth' <= k
    BY <1>2, <1>3
  <2>. QED  BY <1>1, <1>2, <1>6, <1>9, <1>13, <1>14, <2>1 DEF Journey
<1>16. k \in 0..Len(layers)' /\ IdsPair'
  BY <1>1, <1>2 DEF IdsPair
<1>. QED  BY <1>7, <1>15, <1>16 DEF IdsInv

\* The id of a handler's request is the last one.
LEMMA HandlersId ==
  ASSUME Stack, NEW k \in 0..Len(layers), Journey(k), ran, IdLayers # {}
  PROVE  /\ header = ids[Innermost]
         /\ \A i, j \in IdLayers : i < j => ids[i] < ids[j]
<1>1. k = Len(layers) /\ Entered(k)
  BY DEF Journey
<1>2. IdLayers \subseteq 1..Len(layers) /\ Len(layers) \in Nat
  BY LayersAre
<1>3. Innermost \in IdLayers /\ \A j \in IdLayers : j <= Innermost
  <2>1. \E i \in IdLayers : \A j \in IdLayers : j <= i
    BY <1>2, GreatestOf
  <2>. QED  BY <2>1 DEF Innermost
<1>4. \A i \in IdLayers : i <= k
  BY <1>1, <1>2
<1>. QED  BY <1>1, <1>3, <1>4 DEF Entered

\* The answer that leaves the server has the id of the first.
LEMMA SentInv ==
  ASSUME IdsInv, Sent
  PROVE  IdsInv'
<1>1. PICK k \in 0..Len(layers) : Journey(k)
  BY DEF IdsInv
<1>2. Stack /\ phase = "out" /\ depth = 0 /\ phase' = "done"
      /\ UNCHANGED <<layers, stack, depth, header, ran, ids, counter>>
  BY DEF IdsInv, Sent
<1>3. IdLayers' = IdLayers /\ Innermost' = Innermost /\ Outermost' = Outermost
  BY <1>2 DEF IdLayers, Innermost, Outermost
<1>4. Carries(k) /\ reply.kind \in {"ok", "error"} /\ Entered(k) /\ k \in Nat
  <2>1. Len(layers) \in Nat
    BY <1>2, LayersAre
  <2>2. k \in Nat
    BY <2>1
  <2>. QED  BY <1>1, <1>2, <2>2 DEF Journey
<1>5. reply' = IF reply.kind = "error" THEN [kind |-> "500", id |-> NoId, type |-> 0] ELSE reply
  BY DEF Sent, Reply
<1>6. Stack'
  <2>1. reply' = [kind |-> reply'.kind, id |-> reply'.id, type |-> reply'.type]
    BY <1>2, <1>5 DEF Stack
  <2>. QED  BY <1>2, <2>1 DEF Stack
<1>7. Entered(k)'
  BY <1>2, <1>3, <1>4 DEF Entered
<1>8. Journey(k)'
  BY <1>1, <1>2, <1>7 DEF Journey
<1>9. IdLayers \subseteq 1..Len(layers) /\ Len(layers) \in Nat
  BY <1>2, LayersAre
<1>10. \A i \in IdLayers : i \in Nat /\ i > 0 /\ (ids[i] # NoId <=> i <= k)
  BY <1>4, <1>9 DEF Entered
<1>11. Left(k) = {i \in IdLayers : ids[i] # NoId}
  BY <1>2, <1>10 DEF Left
<1>12. CASE reply.kind = "error"
  <2>1. reply'.kind = "500" /\ reply'.id = NoId
    BY <1>5, <1>12
  <2>. QED
    BY <1>1, <1>2, <1>3, <1>6, <1>8, <2>1, HandlersId DEF IdsInv, IdsPair
<1>13. CASE reply.kind = "ok"
  <2>1. reply' = reply
    BY <1>5, <1>13
  <2>2. IF \E i \in IdLayers : ids[i] # NoId THEN reply.id = ids[Outermost]
                                             ELSE reply.id = NoId
    <3>1. CASE Left(k) = {}
      BY <1>4, <1>11, <3>1 DEF Carries
    <3>2. CASE Left(k) # {}
      <4>1. PICK i \in Left(k) : reply.id = ids[i] /\ \A j \in Left(k) : i <= j
        BY <1>4, <1>13, <3>2 DEF Carries
      <4>2. i \in IdLayers /\ i <= k
        BY <4>1 DEF Left
      <4>3. \A j \in IdLayers : i <= j
        <5> TAKE j \in IdLayers
        <5>1. CASE j <= k
          BY <1>2, <1>10, <4>1, <5>1 DEF Left
        <5>2. CASE ~(j <= k)
          BY <1>4, <1>10, <4>2, <5>2
        <5>. QED  BY <5>1, <5>2
      <4>4. Outermost \in IdLayers /\ \A j \in IdLayers : Outermost <= j
        BY <4>2, <4>3 DEF Outermost
      <4>5. Outermost = i
        BY <1>10, <4>2, <4>3, <4>4
      <4>. QED  BY <1>10, <4>1, <4>2, <4>5
    <3>. QED  BY <3>1, <3>2
  <2>. QED
    BY <1>1, <1>2, <1>3, <1>6, <1>8, <1>13, <2>1, <2>2, HandlersId DEF IdsInv, IdsPair
<1>. QED  BY <1>4, <1>12, <1>13

\* A request that runs into the timeout is answered without an id.
LEMMA TimedOutInv ==
  ASSUME IdsInv, TimedOut
  PROVE  IdsInv'
<1>1. PICK k \in 0..Len(layers) : Journey(k)
  BY DEF IdsInv
<1>2. /\ Stack /\ phase' = "done" /\ reply' = [kind |-> "408", id |-> NoId, type |-> 0]
      /\ UNCHANGED <<layers, stack, depth, header, ran, ids, counter>>
  BY DEF IdsInv, TimedOut, Reply
<1>3. reply'.kind = "408" /\ reply'.id = NoId /\ reply'.type = 0
  BY <1>2
<1>4. IdLayers' = IdLayers /\ Innermost' = Innermost /\ Outermost' = Outermost
  BY <1>2 DEF IdLayers, Innermost, Outermost
<1>5. Stack'
  BY <1>2, <1>3 DEF Stack
<1>6. Entered(k)'
  BY <1>1, <1>2, <1>4 DEF Entered, Journey
<1>7. Journey(k)'
  BY <1>1, <1>2, <1>6 DEF Journey
<1>8. IdsPair'
  BY <1>1, <1>2, <1>3, <1>4, HandlersId DEF IdsPair
<1>. QED  BY <1>1, <1>2, <1>5, <1>7, <1>8 DEF IdsInv

LEMMA NextIds == IdsInv /\ [ServeNext]_servingVars => IdsInv'
<1> SUFFICES ASSUME IdsInv, [ServeNext]_servingVars PROVE IdsInv'
  OBVIOUS
<1>0. counter \in Nat
  BY DEF IdsInv, Stack
<1>1. CASE EnterRequestId
  BY <1>1, EnterIdInv
<1>2. CASE EnterOther
  BY <1>2, EnterOtherInv
<1>3. CASE LayerAnswers
  <2>1. PICK kind \in {"ok", "error"} : reply' = Reply(kind, 0)
    BY <1>3 DEF LayerAnswers
  <2>2. /\ phase = "in" /\ phase' = "out" /\ ran' = ran
        /\ UNCHANGED <<layers, stack, depth, header, ids, counter>>
    BY <1>3 DEF LayerAnswers, Arriving
  <2>. QED  BY <2>1, <2>2, TurnBack
<1>4. CASE Dispatch
  <2>1. /\ UNCHANGED <<layers, stack, phase, depth, header, ran, ids, counter, reply>>
        /\ depth = Len(stack)
    BY <1>4 DEF Dispatch
  <2>. QED  BY <1>0, <2>1, Elsewhere
<1>5. CASE HandlerReturns
  <2>1. PICK kind \in {"ok", "error"} :
          reply' = Reply(kind, IF kind = "ok" THEN negotiate_from_headers(req.accept, Offered)
                                              ELSE 0)
    BY <1>5 DEF HandlerReturns
  <2>2. /\ phase = "in" /\ phase' = "out" /\ ran' = TRUE /\ answer.kind # "waiting"
        /\ UNCHANGED <<layers, stack, depth, header, ids, counter>>
    BY <1>5 DEF HandlerReturns
  <2>. QED  BY <2>1, <2>2, TurnBack
<1>6. CASE RouterReturns
  <2>1. \E kind \in {"ok", "error"} : reply' = Reply(kind, 0)
    BY <1>6 DEF RouterReturns
  <2>2. /\ phase = "in" /\ phase' = "out" /\ ran' = ran
        /\ UNCHANGED <<layers, stack, depth, header, ids, counter>>
    BY <1>6 DEF RouterReturns
  <2>. QED  BY <2>1, <2>2, TurnBack
<1>7. CASE LeaveLayer
  BY <1>7, LeaveInv
<1>8. CASE Sent
  BY <1>8, SentInv
<1>9. CASE TimedOut
  BY <1>9, TimedOutInv
<1>10. CASE OtherRequest
  <2>1. /\ UNCHANGED <<layers, stack, phase, depth, header, ran, ids, reply, answer>>
        /\ counter' = counter + 1
    BY <1>10 DEF OtherRequest, vars
  <2>2. counter' \in Nat /\ counter <= counter'
    BY <1>0, <2>1
  <2>. QED  BY <2>1, <2>2, Elsewhere
<1>11. CASE UNCHANGED servingVars
  <2>1. UNCHANGED <<layers, stack, phase, depth, header, ran, ids, reply, answer, counter>>
    BY <1>11 DEF servingVars, vars, stackVars
  <2>. QED  BY <1>0, <2>1, Elsewhere
<1>. QED
  BY <1>1, <1>2, <1>3, <1>4, <1>5, <1>6, <1>7, <1>8, <1>9, <1>10, <1>11 DEF ServeNext

\* For every list of layers, every number of other requests that draw from the counter
\* meanwhile and every way a request ends, handlers and clients are told the ids that
\* belong to it (RequestIdService::call, build_layered_service).
THEOREM IdsArePaired == ServeSpec => []IdsPair
<1>1. IdsInv => IdsPair
  BY DEF IdsInv
<1>. QED  BY <1>1, InitIds, NextIds, PTL DEF ServeSpec

-----------------------------------------------------------------------------
(* Negotiation                                                              *)

LEMMA ConcatIs ==
  ASSUME NEW S, NEW c \in Seq(S), NEW b \in Seq(S)
  PROVE  /\ c \o b \in Seq(S) /\ Len(c \o b) = Len(c) + Len(b)
         /\ \A k \in 1..Len(c) + Len(b) :
              (c \o b)[k] = IF k <= Len(c) THEN c[k] ELSE b[k - Len(c)]
OBVIOUS

LEMMA InsertIs ==
  ASSUME NEW S, NEW s \in Seq(S), NEW x \in S, NEW p \in 1..(Len(s) + 1)
  PROVE  /\ InsertAt(s, p, x) \in Seq(S) /\ Len(InsertAt(s, p, x)) = Len(s) + 1
         /\ \A k \in 1..(Len(s) + 1) :
              InsertAt(s, p, x)[k] = IF k < p THEN s[k] ELSE IF k = p THEN x ELSE s[k - 1]
<1> DEFINE a == SubSeq(s, 1, p - 1)
           b == SubSeq(s, p, Len(s))
<1>0. Len(s) \in Nat /\ p \in Nat /\ p >= 1 /\ p <= Len(s) + 1
  OBVIOUS
<1>1. a \in Seq(S) /\ Len(a) = p - 1 /\ \A k \in 1..p - 1 : a[k] = s[k]
  BY <1>0
<1>2. /\ b \in Seq(S) /\ Len(b) = Len(s) - p + 1
      /\ \A k \in 1..Len(s) - p + 1 : b[k] = s[p + k - 1]
  BY <1>0
<1>3. InsertAt(s, p, x) = a \o <<x>> \o b
  BY DEF InsertAt
<1> HIDE DEF a, b
<1> DEFINE c == a \o <<x>>
<1>4. c \in Seq(S) /\ Len(c) = p /\ \A k \in 1..p : c[k] = IF k < p THEN s[k] ELSE x
  BY <1>0, <1>1
<1> HIDE DEF c
<1>5. c \o b \in Seq(S) /\ Len(c \o b) = Len(s) + 1
  <2>1. c \o b \in Seq(S) /\ Len(c \o b) = Len(c) + Len(b)
    <3>1. c \in Seq(S) /\ b \in Seq(S)
      BY <1>2, <1>4
    <3>. QED  BY <3>1, ConcatIs
  <2>2. Len(c) = p /\ Len(b) = Len(s) - p + 1
    BY <1>2, <1>4
  <2>3. p + (Len(s) - p + 1) = Len(s) + 1
    BY <1>0
  <2>. QED  BY <2>1, <2>2, <2>3
<1>6. ASSUME NEW k \in 1..(Len(s) + 1)
      PROVE  (c \o b)[k] = IF k < p THEN s[k] ELSE IF k = p THEN x ELSE s[k - 1]
  <2>0. k \in Nat /\ k \in 1..Len(c) + Len(b)
    BY <1>0, <1>2, <1>4
  <2>1. (c \o b)[k] = IF k <= p THEN c[k] ELSE b[k - p]
    BY <1>2, <1>4, <2>0, ConcatIs
  <2>2. k <= p => c[k] = IF k < p THEN s[k] ELSE x
    BY <1>0, <1>4, <2>0
  <2>3. k > p => b[k - p] = s[k - 1]
    <3>1. k > p => k - p \in 1..Len(s) - p + 1 /\ p + (k - p) - 1 = k - 1
      BY <1>0, <2>0
    <3>. QED  BY <1>2, <3>1
  <2>4. k < p \/ k = p \/ k > p
    BY <1>0, <2>0
  <2> HIDE DEF c, b
  <2> DEFINE ck == c[k]
             bk == b[k - p]
             cb == (c \o b)[k]
  <2> HIDE DEF ck, bk, cb
  <2>5. cb = IF k < p THEN s[k] ELSE IF k = p THEN x ELSE s[k - 1]
    <3>1. cb = IF k <= p THEN ck ELSE bk
      BY <2>1 DEF ck, bk, cb
    <3>2. k <= p => ck = IF k < p THEN s[k] ELSE x
      BY <2>2 DEF ck
    <3>3. k > p => bk = s[k - 1]
      BY <2>3 DEF bk
    <3>. QED  BY <1>0, <2>0, <2>4, <3>1, <3>2, <3>3
  <2>. QED  BY <2>5 DEF cb
<1>. QED  BY <1>3, <1>5, <1>6 DEF c

\* Entry i of the header goes before entry j.
Above(h, i, j) ==
  Quality(h[i]) > Quality(h[j]) \/ (Quality(h[i]) = Quality(h[j]) /\ i < j)

\* The list e holds the first n entries of h, each from where s says, best first.
Sorts(h, n, e, s) ==
  /\ e \in Seq(Range(h)) /\ Len(e) = n /\ s \in [1..n -> 1..n]
  /\ \A k \in 1..n : e[k] = h[s[k]]
  /\ \A i \in 1..n : \E k \in 1..n : s[k] = i
  /\ \A k, l \in 1..n : k < l => Above(h, s[k], s[l])

IsHeader(h) == h \in Seq({e \in Range(h) : e.q \in Nat})

LEMMA QualityIs ==
  ASSUME NEW h, IsHeader(h), NEW i \in 1..Len(h)
  PROVE  Quality(h[i]) \in Nat /\ h[i] \in Range(h)
<1>1. h[i] \in {e \in Range(h) : e.q \in Nat}
  BY DEF IsHeader
<1>. QED  BY <1>1 DEF Quality, MaxQuality

\* Where the place is.
LEMMA PlaceIs ==
  ASSUME NEW S, NEW e \in Seq(S), NEW q
  PROVE  LET p == Place(e, q)
         IN  /\ p \in 1..(Len(e) + 1)
             /\ \A k \in 1..p - 1 : ~(Quality(e[k]) < q)
             /\ p <= Len(e) => Quality(e[p]) < q
<1> DEFINE B == {i \in DOMAIN e : Quality(e[i]) < q}
           T == B \cup {Len(e) + 1}
           p == Place(e, q)
<1>0. Len(e) \in Nat /\ DOMAIN e = 1..Len(e)
  OBVIOUS
<1>1. T \subseteq Nat \ {0} /\ T \subseteq 1..(Len(e) + 1) /\ T # {}
  BY <1>0
<1>2. PICK m \in T : \A j \in 1..m - 1 : j \notin T
  <2> HIDE DEF T
  <2>. QED  BY <1>1, FirstExists
<1>3. \A j \in T : m <= j
  BY <1>1, <1>2
<1>4. p \in T /\ \A j \in T : p <= j
  <2>1. p = CHOOSE x \in T : \A y \in T : x <= y
    BY DEF Place, Min
  <2> HIDE DEF T, p
  <2>. QED  BY <1>3, <2>1
<1>5. p \in 1..(Len(e) + 1)
  BY <1>1, <1>4
<1>6. \A k \in 1..p - 1 : ~(Quality(e[k]) < q)
  <2> HIDE DEF p
  <2>. QED  BY <1>0, <1>4, <1>5
<1>7. p <= Len(e) => Quality(e[p]) < q
  <2> HIDE DEF p
  <2>. QED  BY <1>0, <1>4, <1>5
<1>. QED  BY <1>5, <1>6, <1>7

\* An entry that comes after those that are there, and goes below its equals.
LEMMA RankedSorts ==
  ASSUME NEW h, IsHeader(h), NEW n \in Nat, n + 1 <= Len(h), NEW e, NEW s, Sorts(h, n, e, s)
  PROVE  \E t : Sorts(h, n + 1, Ranked(e, h[n + 1]), t)
<1> DEFINE x == h[n + 1]
           p == Place(e, Quality(x))
           z == Ranked(e, x)
           t == [k \in 1..n + 1 |-> IF k < p THEN s[k] ELSE IF k = p THEN n + 1 ELSE s[k - 1]]
<1>0. Len(h) \in Nat /\ n + 1 \in 1..Len(h)
  BY DEF IsHeader
<1>1. x \in Range(h) /\ Quality(x) \in Nat
  BY <1>0, QualityIs
<1>2. e \in Seq(Range(h)) /\ Len(e) = n /\ s \in [1..n -> 1..n]
  BY DEF Sorts
<1>3. /\ p \in 1..n + 1 /\ \A k \in 1..p - 1 : ~(Quality(e[k]) < Quality(x))
      /\ p <= n => Quality(e[p]) < Quality(x)
  BY <1>2, PlaceIs
<1>4. z = InsertAt(e, p, x)
  BY DEF Ranked
<1>5. /\ z \in Seq(Range(h)) /\ Len(z) = n + 1
      /\ \A k \in 1..n + 1 : z[k] = IF k < p THEN e[k] ELSE IF k = p THEN x ELSE e[k - 1]
  <2> HIDE DEF p, x, z
  <2>1. p \in 1..(Len(e) + 1)
    BY <1>2, <1>3
  <2>2. /\ z \in Seq(Range(h)) /\ Len(z) = Len(e) + 1
        /\ \A k \in 1..(Len(e) + 1) :
             z[k] = IF k < p THEN e[k] ELSE IF k = p THEN x ELSE e[k - 1]
    <3>1. x \in Range(h) /\ e \in Seq(Range(h))
      BY <1>1, <1>2
    <3>2. /\ InsertAt(e, p, x) \in Seq(Range(h)) /\ Len(InsertAt(e, p, x)) = Len(e) + 1
          /\ \A k \in 1..(Len(e) + 1) :
               InsertAt(e, p, x)[k] = IF k < p THEN e[k] ELSE IF k = p THEN x ELSE e[k - 1]
      BY <2>1, <3>1, InsertIs
    <3>. QED  BY <1>4, <3>2, Zenon
  <2>. QED  BY <1>2, <2>2
<1> HIDE DEF p, x, z
<1>6. \A k \in 1..n : s[k] \in 1..n /\ s[k] \in 1..Len(h) /\ e[k] = h[s[k]]
  <2> TAKE k \in 1..n
  <2>1. s[k] \in 1..n
    BY <1>2
  <2>2. e[k] = h[s[k]]
    BY DEF Sorts
  <2>. QED  BY <1>0, <2>1, <2>2
<1>7. \A k \in 1..n + 1 : /\ k < p => k \in 1..n
                          /\ k > p => k - 1 \in 1..n
  BY <1>3
<1>8. t \in [1..n + 1 -> 1..n + 1]
  BY <1>3, <1>6, <1>7
<1>t. \A k \in 1..n + 1 : t[k] = IF k < p THEN s[k] ELSE IF k = p THEN n + 1 ELSE s[k - 1]
  OBVIOUS
<1> HIDE DEF t
<1>9. \A k \in 1..n + 1 : z[k] = h[t[k]]
  BY <1>3, <1>5, <1>6, <1>7, <1>t DEF x
<1>10. \A i \in 1..n + 1 : \E k \in 1..n + 1 : t[k] = i
  <2> TAKE i \in 1..n + 1
  <2>1. CASE i = n + 1
    BY <1>3, <1>t, <2>1
  <2>2. CASE i # n + 1
    <3>1. i \in 1..n
      BY <2>2
    <3>2. PICK k \in 1..n : s[k] = i
      BY <3>1 DEF Sorts
    <3>3. k < p => k \in 1..n + 1 /\ t[k] = i
      BY <1>t, <3>2
    <3>4. ~(k < p) => k + 1 \in 1..n + 1 /\ t[k + 1] = i
      BY <1>3, <1>t, <3>2
    <3>. QED  BY <3>3, <3>4
  <2>. QED  BY <2>1, <2>2
<1>11. \A k \in 1..n : Quality(h[s[k]]) \in Nat
  BY <1>6, QualityIs
<1>12. \A k \in 1..n : k < p => Above(h, s[k], n + 1)
  <2> TAKE k \in 1..n
  <2> SUFFICES ASSUME k < p PROVE Above(h, s[k], n + 1)
    OBVIOUS
  <2>1. ~(Quality(h[s[k]]) < Quality(h[n + 1]))
    BY <1>3, <1>6 DEF x
  <2>2. Quality(h[s[k]]) \in Nat /\ Quality(h[n + 1]) \in Nat /\ s[k] < n + 1
    BY <1>1, <1>6, <1>11 DEF x
  <2>. QED  BY <2>1, <2>2 DEF Above
<1>13. \A k \in 1..n : p <= k => Above(h, n + 1, s[k])
  <2> TAKE k \in 1..n
  <2> SUFFICES ASSUME p <= k PROVE Above(h, n + 1, s[k])
    OBVIOUS
  <2>1. p \in 1..n /\ Quality(h[s[p]]) < Quality(h[n + 1])
    BY <1>3, <1>6 DEF x
  <2>2. p = k \/ Above(h, s[p], s[k])
    BY <1>3, <2>1 DEF Sorts
  <2>3. /\ Quality(h[s[k]]) \in Nat /\ Quality(h[s[p]]) \in Nat
        /\ Quality(h[n + 1]) \in Nat
    BY <1>1, <1>11, <2>1 DEF x
  <2>. QED  BY <2>1, <2>2, <2>3 DEF Above
<1>14. \A k, l \in 1..n + 1 : k < l => Above(h, t[k], t[l])
  <2> SUFFICES ASSUME NEW k \in 1..n + 1, NEW l \in 1..n + 1, k < l
               PROVE  Above(h, t[k], t[l])
    OBVIOUS
  <2>0. \A i, j \in 1..n : i < j => Above(h, s[i], s[j])
    BY DEF Sorts
  <2>1. CASE l < p
    BY <1>3, <1>7, <1>t, <2>0, <2>1
  <2>2. CASE l = p
    BY <1>3, <1>7, <1>12, <1>t, <2>2
  <2>3. CASE l > p /\ k < p
    <3>1. t[k] = s[k] /\ t[l] = s[l - 1] /\ k \in 1..n /\ l - 1 \in 1..n /\ k < l - 1
      BY <1>3, <1>7, <1>t, <2>3
    <3>. QED  BY <2>0, <3>1
  <2>4. CASE l > p /\ k = p
    <3>1. t[k] = n + 1 /\ t[l] = s[l - 1] /\ l - 1 \in 1..n /\ p <= l - 1
      BY <1>3, <1>7, <1>t, <2>4
    <3>. QED  BY <1>13, <3>1
  <2>5. CASE l > p /\ k > p
    <3>1. t[k] = s[k - 1] /\ t[l] = s[l - 1] /\ k - 1 \in 1..n /\ l - 1 \in 1..n
          /\ k - 1 < l - 1
      BY <1>3, <1>7, <1>t, <2>5
    <3>. QED  BY <2>0, <3>1
  <2>. QED  BY <1>3, <2>1, <2>2, <2>3, <2>4, <2>5
<1>15. Sorts(h, n + 1, z, t)
  BY <1>5, <1>8, <1>9, <1>10, <1>14 DEF Sorts
<1>. QED  BY <1>15 DEF z, x

\* What the recursive function of parse_accept is at n, given itself.
Entry(h, g, n) == IF n = 0 THEN <<>> ELSE Ranked(g[n - 1], h[n])

Entries(h, g, N) == g = [n \in 0..N |-> Entry(h, g, n)]

LEMMA EntriesExist ==
  ASSUME NEW h, NEW N \in Nat
  PROVE  \E g : Entries(h, g, N)
<1> DEFINE U == {n \in Nat : \E g : Entries(h, g, n)}
<1>1. 0 \in U
  <2> DEFINE g == [n \in 0..0 |-> <<>>]
  <2>1. g = [n \in 0..0 |-> Entry(h, g, n)]
    BY DEF Entry
  <2> HIDE DEF g
  <2>. QED  BY <2>1 DEF Entries
<1>2. ASSUME NEW n \in Nat, n \in U PROVE n + 1 \in U
  <2>1. PICK g : Entries(h, g, n)
    BY <1>2
  <2> DEFINE f == [k \in 0..(n + 1) |-> Entry(h, g, k)]
  <2>2. \A k \in 0..(n + 1) : f[k] = Entry(h, g, k)
    OBVIOUS
  <2>3. \A k \in 0..n : g[k] = Entry(h, g, k)
    BY <2>1 DEF Entries
  <2>4. \A k \in 0..n : f[k] = g[k]
    BY <2>2, <2>3
  <2> HIDE DEF f
  <2>5. \A k \in 0..(n + 1) : Entry(h, f, k) = Entry(h, g, k)
    <3> TAKE k \in 0..(n + 1)
    <3>1. k = 0 \/ f[k - 1] = g[k - 1]
      <4>1. k = 0 \/ k - 1 \in 0..n
        OBVIOUS
      <4>. QED  BY <2>4, <4>1
    <3>. QED  BY <3>1, Zenon DEF Entry
  <2>6. f = [k \in 0..(n + 1) |-> Entry(h, f, k)]
    BY <2>5 DEF f
  <2>. QED  BY <2>6 DEF Entries
<1>3. N \in U
  <2> HIDE DEF U
  <2>. QED  BY <1>1, <1>2, Induction
<1>. QED  BY <1>3

\* The entries of a header, best first, equals in the order they are written in.
LEMMA ParseSorts ==
  ASSUME NEW h, IsHeader(h)
  PROVE  \E s : Sorts(h, Len(h), parse_accept(h), s)
<1> DEFINE P(g) == g = [n \in 0..Len(h) |->
                          IF n = 0 THEN <<>> ELSE Ranked(g[n - 1], h[n])]
           g == CHOOSE g : P(g)
<1>1. Len(h) \in Nat
  BY DEF IsHeader
<1>2. PICK f : Entries(h, f, Len(h))
  BY <1>1, EntriesExist
<1>3. P(f)
  BY <1>2 DEF Entries, Entry
<1>4. P(g)
  <2> HIDE DEF P
  <2>. QED  BY <1>3
<1>5. \A n \in 0..Len(h) : g[n] = Entry(h, g, n)
  <2> HIDE DEF g
  <2>. QED  BY <1>4 DEF Entry
<1>6. parse_accept(h) = g[Len(h)]
  BY DEF parse_accept
<1> HIDE DEF g, P
<1> DEFINE U == {n \in Nat : n <= Len(h) => \E s : Sorts(h, n, g[n], s)}
<1>7. 0 \in U
  <2>1. g[0] = <<>>
    <3>1. g[0] = Entry(h, g, 0)
      BY <1>1, <1>5
    <3>. QED  BY <3>1, Zenon DEF Entry
  <2> DEFINE s == [k \in 1..0 |-> 0]
  <2>2. g[0] \in Seq(Range(h)) /\ Len(g[0]) = 0
    <3>1. \A S : <<>> \in Seq(S)
      OBVIOUS
    <3>. QED  BY <2>1, <3>1
  <2>3. s \in [1..0 -> 1..0]
    OBVIOUS
  <2>4. Sorts(h, 0, g[0], s)
    <3> HIDE DEF s
    <3>. QED  BY <2>2, <2>3 DEF Sorts
  <2>. QED  BY <2>4
<1>8. ASSUME NEW n \in Nat, n \in U PROVE n + 1 \in U
  <2> SUFFICES ASSUME n + 1 <= Len(h) PROVE \E s : Sorts(h, n + 1, g[n + 1], s)
    OBVIOUS
  <2>1. PICK s : Sorts(h, n, g[n], s)
    BY <1>1, <1>8
  <2>2. n + 1 \in 0..Len(h) /\ n + 1 # 0 /\ n + 1 - 1 = n
    BY <1>1
  <2>3. g[n + 1] = Ranked(g[n], h[n + 1])
    BY <1>5, <2>2 DEF Entry
  <2>. QED  BY <2>1, <2>3, RankedSorts
<1>9. Len(h) \in U
  <2> HIDE DEF U
  <2>. QED  BY <1>1, <1>7, <1>8, Induction
<1>. QED  BY <1>1, <1>6, <1>9

\* Does entry e take a type that is offered?
TakesAny(e) == \E k \in DOMAIN Offered : Takes(e, Offered[k])

Best(h, type) ==
  LET I == 1..Len(h)
  IN  IF type = 0 THEN \A i \in I : \A k \in DOMAIN Offered : ~Takes(h[i], Offered[k])
      ELSE \E i \in I :
             /\ Takes(h[i], Offered[type])
             /\ \A k \in 1..type - 1 : ~Takes(h[i], Offered[k])
             /\ \A j \in I : TakesAny(h[j]) =>
                  \/ Quality(h[j]) < Quality(h[i])
                  \/ Quality(h[j]) = Quality(h[i]) /\ i <= j

\* The type that is negotiated is the best there is.
LEMMA NegotiatedBest ==
  ASSUME NEW h, IsHeader(h)
  PROVE  Best(h, negotiate_content_type(h, Offered))
<1> DEFINE entries == parse_accept(h)
           takers == {i \in DOMAIN entries : TakesAny(entries[i])}
           m == CHOOSE i \in takers : \A j \in takers : i <= j
           offers == {k \in DOMAIN Offered : Takes(entries[m], Offered[k])}
           type == negotiate_content_type(h, Offered)
<1>1. type = IF takers = {} THEN 0 ELSE CHOOSE k \in offers : \A l \in offers : k <= l
  BY DEF negotiate_content_type, TakesAny
<1>2. PICK s : Sorts(h, Len(h), entries, s)
  BY ParseSorts
<1>3. /\ entries \in Seq(Range(h)) /\ Len(entries) = Len(h) /\ DOMAIN entries = 1..Len(h)
      /\ Len(h) \in Nat
  <2>1. entries \in Seq(Range(h)) /\ Len(entries) = Len(h)
    BY <1>2 DEF Sorts
  <2>. QED  BY <2>1
<1>4. /\ s \in [1..Len(h) -> 1..Len(h)]
      /\ \A k \in 1..Len(h) : entries[k] = h[s[k]]
      /\ \A i \in 1..Len(h) : \E k \in 1..Len(h) : s[k] = i
      /\ \A k, l \in 1..Len(h) : k < l => Above(h, s[k], s[l])
  BY <1>2 DEF Sorts
<1>5. Offered \in Seq(Range(Offered)) /\ DOMAIN Offered \subseteq Nat \ {0}
  <2>1. Offered \in Seq(Range(Offered))
    BY ServingAssumption
  <2>. QED  BY <2>1
<1> HIDE DEF entries, type
<1>6. CASE takers = {}
  <2>1. type = 0
    BY <1>1, <1>6
  <2>2. \A i \in 1..Len(h) : ~TakesAny(h[i])
    BY <1>3, <1>4, <1>6
  <2>. QED  BY <2>1, <2>2 DEF Best, TakesAny, type
<1>7. CASE takers # {}
  <2>1. takers \subseteq Nat \ {0}
    BY <1>3
  <2>2. m \in takers /\ \A j \in takers : m <= j
    <3> HIDE DEF takers
    <3>1. PICK i \in takers : \A j \in 1..i - 1 : j \notin takers
      BY <1>7, <2>1, FirstExists
    <3>2. \A j \in takers : i <= j
      BY <2>1, <3>1
    <3>. QED  BY <3>1, <3>2
  <2>3. m \in 1..Len(h) /\ TakesAny(entries[m])
    BY <1>3, <2>2
  <2> HIDE DEF m
  <2>4. offers \subseteq Nat \ {0} /\ offers # {}
    BY <1>5, <2>3 DEF TakesAny
  <2>5. type \in offers /\ \A l \in offers : type <= l
    <3>1. type = CHOOSE k \in offers : \A l \in offers : k <= l
      BY <1>1, <1>7
    <3> HIDE DEF offers
    <3>2. PICK i \in offers : \A j \in 1..i - 1 : j \notin offers
      BY <2>4, FirstExists
    <3>3. \A j \in offers : i <= j
      BY <2>4, <3>2
    <3>. QED  BY <3>1, <3>2, <3>3
  <2>6. type \in Nat \ {0} /\ type \in DOMAIN Offered /\ Takes(entries[m], Offered[type])
    BY <2>4, <2>5
  <2>7. \A k \in 1..type - 1 : ~Takes(entries[m], Offered[k])
    <3> TAKE k \in 1..type - 1
    <3>1. k \in DOMAIN Offered
      BY <1>5, <2>6
    <3>2. ~(type <= k)
      BY <2>6
    <3>. QED  BY <2>5, <3>1, <3>2
  <2>8. s[m] \in 1..Len(h) /\ entries[m] = h[s[m]]
    BY <1>4, <2>3
  <2>9. \A j \in 1..Len(h) : TakesAny(h[j]) =>
          \/ Quality(h[j]) < Quality(h[s[m]])
          \/ Quality(h[j]) = Quality(h[s[m]]) /\ s[m] <= j
    <3> SUFFICES ASSUME NEW j \in 1..Len(h), TakesAny(h[j])
                 PROVE  \/ Quality(h[j]) < Quality(h[s[m]])
                        \/ Quality(h[j]) = Quality(h[s[m]]) /\ s[m] <= j
      OBVIOUS
    <3>1. PICK l \in 1..Len(h) : s[l] = j
      BY <1>4
    <3>2. l \in takers
      BY <1>3, <1>4, <3>1
    <3>3. m <= l
      BY <2>2, <3>2
    <3>4. m = l \/ Above(h, s[m], j)
      BY <1>4, <2>3, <3>1, <3>3
    <3>5. Quality(h[j]) \in Nat /\ Quality(h[s[m]]) \in Nat /\ j \in Nat /\ s[m] \in Nat
      BY <1>3, <2>8, QualityIs
    <3>. QED  BY <3>1, <3>4, <3>5 DEF Above
  <2>. QED  BY <2>6, <2>7, <2>8, <2>9 DEF Best, type
<1>. QED  BY <1>6, <1>7

\* Only a handler's answer has a type, the one that was negotiated for its request.
Typing ==
  /\ req \in Requests
  /\ phase = "in" => ~ran
  /\ phase # "in" /\ ran /\ reply.kind = "ok" =>
       reply.type = negotiate_from_headers(req.accept, Offered)

LEMMA InitTyping == ServeInit => Typing
  BY ServingAssumption DEF ServeInit, Typing

LEMMA NextTyping ==
  ASSUME Stack, Typing, [ServeNext]_servingVars
  PROVE  Typing'
<1>0. reply = [kind |-> reply.kind, id |-> reply.id, type |-> reply.type]
  BY DEF Stack
<1>1. ASSUME UNCHANGED <<req, phase, ran, reply>> PROVE Typing'
  BY <1>1 DEF Typing
<1>2. ASSUME EnterRequestId \/ EnterOther \/ OtherRequest \/ UNCHANGED servingVars PROVE Typing'
  BY <1>1, <1>2 DEF EnterRequestId, EnterOther, OtherRequest, servingVars, vars, stackVars
<1>3. CASE LayerAnswers
  BY <1>3 DEF LayerAnswers, Arriving, Typing, vars
<1>4. CASE Dispatch
  <2>1. req' = req
    BY <1>4 DEF Dispatch, Next, VirtualHost, Nested, BadSubPath, CallRoute, MethodNotAllowed,
       NotFound, Enter, Handle, Answer
  <2>. QED  BY <1>1, <1>4, <2>1 DEF Dispatch
<1>5. CASE HandlerReturns
  <2>1. PICK kind \in {"ok", "error"} :
          reply' = Reply(kind, IF kind = "ok" THEN negotiate_from_headers(req.accept, Offered)
                                              ELSE 0)
    BY <1>5 DEF HandlerReturns
  <2>2. reply'.kind = kind /\
        (kind = "ok" => reply'.type = negotiate_from_headers(req.accept, Offered))
    BY <2>1 DEF Reply
  <2>3. req' = req /\ phase' = "out"
    BY <1>5 DEF HandlerReturns, vars
  <2>. QED  BY <2>2, <2>3 DEF Typing
<1>6. CASE RouterReturns
  BY <1>6 DEF RouterReturns, Typing, vars
<1>7. CASE LeaveLayer
  <2>1. reply'.kind = reply.kind /\ reply'.type = reply.type
    <3>1. reply' = reply \/ reply' = [reply EXCEPT !.id = Stamp]
      BY <1>7 DEF LeaveLayer
    <3>. QED  BY <1>0, <3>1
  <2>2. UNCHANGED <<req, phase, ran>>
    BY <1>7 DEF LeaveLayer, vars
  <2>. QED  BY <2>1, <2>2 DEF Typing
<1>8. CASE Sent
  <2>1. reply' = reply \/ reply'.kind = "500"
    BY <1>8 DEF Sent, Reply
  <2>2. UNCHANGED <<req, ran>> /\ phase = "out" /\ phase' = "done"
    BY <1>8 DEF Sent, vars
  <2>. QED  BY <2>1, <2>2 DEF Typing
<1>9. CASE TimedOut
  <2>1. reply'.kind = "408" /\ req' = req /\ phase' = "done"
    BY <1>9 DEF TimedOut, Reply, vars
  <2>. QED  BY <2>1 DEF Typing
<1>. QED
  BY <1>2, <1>3, <1>4, <1>5, <1>6, <1>7, <1>8, <1>9 DEF ServeNext

LEMMA TypedBest == Typing => BestOffer
<1> SUFFICES ASSUME Typing, phase = "done", reply.kind = "ok", ran, req.accept # <<>>
             PROVE  BestOffer
  BY DEF BestOffer
<1> DEFINE h == req.accept[1]
<1>1. reply.type = negotiate_content_type(h, Offered)
  BY DEF Typing, negotiate_from_headers
<1>2. IsHeader(h)
  <2>1. req.accept \in Seq(Range(req.accept)) /\ req \in Requests
    BY ServingAssumption DEF Typing
  <2>2. h \in Range(req.accept)
    BY <2>1
  <2>. QED  BY <2>1, <2>2, ServingAssumption DEF IsHeader
<1>3. Best(h, reply.type)
  BY <1>1, <1>2, NegotiatedBest
<1>4. DOMAIN h = 1..Len(h)
  BY <1>2 DEF IsHeader
<1>5. \A i, k : Accepted(i, k) <=> Takes(h[i], Offered[k])
  BY DEF Accepted
<1>6. \A j : (\E k \in DOMAIN Offered : Accepted(j, k)) <=> TakesAny(h[j])
  BY <1>5 DEF TakesAny
<1> HIDE DEF h
<1>7. CASE reply.type = 0
  BY <1>3, <1>4, <1>5, <1>7 DEF Best, BestOffer, h
<1>8. CASE reply.type # 0
  <2>1. PICK i \in 1..Len(h) :
          /\ Takes(h[i], Offered[reply.type])
          /\ \A k \in 1..reply.type - 1 : ~Takes(h[i], Offered[k])
          /\ \A j \in 1..Len(h) : TakesAny(h[j]) =>
               \/ Quality(h[j]) < Quality(h[i])
               \/ Quality(h[j]) = Quality(h[i]) /\ i <= j
    BY <1>3, <1>8 DEF Best
  <2>2. /\ Accepted(i, reply.type) /\ \A k \in 1..reply.type - 1 : ~Accepted(i, k)
        /\ \A j \in 1..Len(h) : (\E k \in DOMAIN Offered : Accepted(j, k)) =>
             \/ Quality(h[j]) < Quality(h[i])
             \/ Quality(h[j]) = Quality(h[i]) /\ i <= j
    BY <1>5, <1>6, <2>1
  <2>. QED  BY <1>4, <1>8, <2>1, <2>2 DEF BestOffer, h
<1>. QED  BY <1>7, <1>8

\* The type a client gets is the best of those it accepts, for every Accept header and
\* every list of types a handler offers (parse_accept, negotiate_content_type).
THEOREM OffersBest == ServeSpec => []BestOffer
<1>1. IdsInv /\ Typing /\ [ServeNext]_servingVars => Typing'
  BY NextTyping DEF IdsInv
<1>. QED  BY <1>1, InitIds, NextIds, InitTyping, TypedBest, PTL DEF ServeSpec

-----------------------------------------------------------------------------
(* The composition                                                          *)

\* A server does with a request what its router does, and what is proved of the router
\* holds of it: a step of the layers leaves the router alone.
THEOREM ServesAsRouter == ServeSpec => Spec
<1>1. ServeInit => Init
  BY DEF ServeInit
<1>2. [ServeNext]_servingVars => [Next]_vars
  BY DEF ServeNext, servingVars, EnterRequestId, EnterOther, LayerAnswers, Dispatch,
     HandlerReturns, RouterReturns, LeaveLayer, Sent, TimedOut, OtherRequest
<1>. QED  BY <1>1, <1>2, PTL DEF ServeSpec, Spec
=============================================================================
