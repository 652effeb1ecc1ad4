--------------------------- MODULE CookieJarProofs ---------------------------
(***************************************************************************)
(* Proofs about CookieJar: for any sends, URLs, cookies and numbers of     *)
(* them, each step of the jar is a step of the CookieStore or leaves it    *)
(* alone.                                                                  *)
(***************************************************************************)
EXTENDS CookieJar, TLAPS, WellFoundedInduction

-----------------------------------------------------------------------------
(* Recursion                                                                *)

LEMMA Induction ==
  ASSUME NEW T, 0 \in T, \A n \in Nat : n \in T => n + 1 \in T
  PROVE  \A n \in Nat : n \in T
<1> DEFINE less == {ss \in Nat \X Nat : ss[1] < ss[2]}
           rest == {n \in Nat : n \notin T}
<1> SUFFICES ASSUME rest # {} PROVE FALSE
  OBVIOUS
<1>1. IsWellFoundedOn(less, Nat)
  BY NatLessThanWellFounded DEF OpToRel
<1>2. rest \subseteq Nat
  OBVIOUS
<1>3. PICK x \in rest : \A y \in rest : <<y, x>> \notin less
  <2> HIDE DEF rest, less
  <2> QED  BY <1>1, <1>2, WFMin
<1>4. x \in Nat /\ x # 0
  OBVIOUS
<1>5. x - 1 \notin rest
  <2>1. <<x - 1, x>> \in less
    BY <1>4
  <2> QED  BY <1>3, <2>1
<1> QED  BY <1>4, <1>5

\* A step H can be iterated from b: what the recursive functions below have in common.
Iterates(g, H, b, N) == g[0] = b /\ \A n \in 1..N : g[n] = H[<<g[n - 1], n>>]

LEMMA IterationExists ==
  ASSUME NEW X, NEW b \in X, NEW N \in Nat, NEW H,
         \A x \in X, n \in Nat : H[<<x, n>>] \in X
  PROVE  \E g \in [0..N -> X] : Iterates(g, H, b, N)
<1> DEFINE U == {n \in Nat : \E g \in [0..n -> X] : Iterates(g, H, b, n)}
<1>1. 0 \in U
  <2> DEFINE g == [k \in 0..0 |-> b]
  <2>1. g \in [0..0 -> X] /\ g[0] = b /\ 1..0 = {}
    OBVIOUS
  <2> HIDE DEF g
  <2> QED  BY <2>1 DEF Iterates
<1>2. ASSUME NEW n \in Nat, n \in U PROVE n + 1 \in U
  <2>1. PICK g \in [0..n -> X] : Iterates(g, H, b, n)
    BY <1>2
  <2> DEFINE f == [k \in 0..(n + 1) |-> IF k = n + 1 THEN H[<<g[n], n + 1>>] ELSE g[k]]
  <2>2. H[<<g[n], n + 1>>] \in X
    OBVIOUS
  <2>3. f \in [0..(n + 1) -> X]
    BY <2>2
  <2>4. f[n + 1] = H[<<g[n], n + 1>>] /\ \A k \in 0..n : f[k] = g[k]
    OBVIOUS
  <2> HIDE DEF f
  <2>5. f[0] = b
    BY <2>1, <2>4 DEF Iterates
  <2>6. ASSUME NEW k \in 1..(n + 1) PROVE f[k] = H[<<f[k - 1], k>>]
    <3>1. CASE k = n + 1
      BY <2>4, <3>1
    <3>2. CASE k # n + 1
      <4>1. k \in 1..n /\ k \in 0..n /\ k - 1 \in 0..n
        BY <3>2
      <4> QED  BY <2>1, <2>4, <4>1 DEF Iterates
    <3> QED  BY <3>1, <3>2
  <2> QED  BY <2>3, <2>5, <2>6 DEF Iterates
<1>3. N \in U
  <2> HIDE DEF U
  <2> QED  BY <1>1, <1>2, Induction
<1> QED  BY <1>3

-----------------------------------------------------------------------------
(* Sequences                                                                *)

LEMMA FirstExists ==
  ASSUME NEW T, T \subseteq Nat \ {0}, T # {}
  PROVE  \E i \in T : \A j \in 1..i - 1 : j \notin T
<1> DEFINE U == {n \in Nat : \A m \in T : m <= n =>
                   \E i \in T : \A j \in 1..i - 1 : j \notin T}
<1>1. 0 \in U
  OBVIOUS
<1>2. ASSUME NEW n \in Nat, n \in U PROVE n + 1 \in U
  <2> SUFFICES ASSUME NEW m \in T, m <= n + 1
               PROVE  \E i \in T : \A j \in 1..i - 1 : j \notin T
    OBVIOUS
  <2>1. CASE \E k \in T : k <= n
    BY <1>2, <2>1
  <2>2. CASE ~\E k \in T : k <= n
    <3>1. m \in Nat /\ m = n + 1
      BY <2>2
    <3>2. \A j \in 1..m - 1 : j \notin T
      BY <2>2, <3>1
    <3>. QED  BY <3>2
  <2>. QED  BY <2>1, <2>2
<1>3. PICK m \in T : m \in Nat
  OBVIOUS
<1>4. m \in U
  <2> HIDE DEF U
  <2>. QED  BY <1>1, <1>2, <1>3, Induction
<1>. QED  BY <1>3, <1>4

LEMMA ConcatIs ==
  ASSUME NEW S, NEW c \in Seq(S), NEW b \in Seq(S)
  PROVE  /\ c \o b \in Seq(S) /\ Len(c \o b) = Len(c) + Len(b)
         /\ \A k \in 1..Len(c) + Len(b) :
              (c \o b)[k] = IF k <= Len(c) THEN c[k] ELSE b[k - Len(c)]
OBVIOUS

LEMMA InsertIs ==
  ASSUME NEW S, NEW s \in Seq(S), NEW x \in S, NEW p \in 1..(Len(s) + 1)
  PROVE  /\ InsertAt(s, p, x) \in Seq(S) /\ Len(InsertAt(s, p, x)) = Len(s) + 1
         /\ \A k \in 1..(Len(s) + 1) :
              InsertAt(s, p, x)[k] = IF k < p THEN s[k] ELSE IF k = p THEN x ELSE s[k - 1]
<1> DEFINE a == SubSeq(s, 1, p - 1)
           b == SubSeq(s, p, Len(s))
<1>0. Len(s) \in Nat /\ p \in Nat /\ p >= 1 /\ p <= Len(s) + 1
  OBVIOUS
<1>1. a \in Seq(S) /\ Len(a) = p - 1 /\ \A k \in 1..p - 1 : a[k] = s[k]
  BY <1>0
<1>2. /\ b \in Seq(S) /\ Len(b) = Len(s) - p + 1
      /\ \A k \in 1..Len(s) - p + 1 : b[k] = s[p + k - 1]
  BY <1>0
<1>3. InsertAt(s, p, x) = a \o <<x>> \o b
  BY DEF InsertAt
<1> HIDE DEF a, b
<1> DEFINE c == a \o <<x>>
<1>4. c \in Seq(S) /\ Len(c) = p /\ \A k \in 1..p : c[k] = IF k < p THEN s[k] ELSE x
  BY <1>0, <1>1
<1> HIDE DEF c
<1>5. c \o b \in Seq(S) /\ Len(c \o b) = Len(s) + 1
  <2>1. c \o b \in Seq(S) /\ Len(c \o b) = Len(c) + Len(b)
    <3>1. c \in Seq(S) /\ b \in Seq(S)
      BY <1>2, <1>4
    <3>. QED  BY <3>1, ConcatIs
  <2>2. Len(c) = p /\ Len(b) = Len(s) - p + 1
    BY <1>2, <1>4
  <2>3. p + (Len(s) - p + 1) = Len(s) + 1
    BY <1>0
  <2>. QED  BY <2>1, <2>2, <2>3
<1>6. ASSUME NEW k \in 1..(Len(s) + 1)
      PROVE  (c \o b)[k] = IF k < p THEN s[k] ELSE IF k = p THEN x ELSE s[k - 1]
  <2>0. k \in Nat /\ k \in 1..Len(c) + Len(b)
    BY <1>0, <1>2, <1>4
  <2>1. (c \o b)[k] = IF k <= p THEN c[k] ELSE b[k - p]
    BY <1>2, <1>4, <2>0, ConcatIs
  <2>2. k <= p => c[k] = IF k < p THEN s[k] ELSE x
    BY <1>0, <1>4, <2>0
  <2>3. k > p => b[k - p] = s[k - 1]
    <3>1. k > p => k - p \in 1..Len(s) - p + 1 /\ p + (k - p) - 1 = k - 1
      BY <1>0, <2>0
    <3>. QED  BY <1>2, <3>1
  <2>4. k < p \/ k = p \/ k > p
    BY <1>0, <2>0
  <2> HIDE DEF c, b
  <2> DEFINE ck == c[k]
             bk == b[k - p]
             cb == (c \o b)[k]
  <2> HIDE DEF ck, bk, cb
  <2>5. cb = IF k < p THEN s[k] ELSE IF k = p THEN x ELSE s[k - 1]
    <3>1. cb = IF k <= p THEN ck ELSE bk
      BY <2>1 DEF ck, bk, cb
    <3>2. k <= p => ck = IF k < p THEN s[k] ELSE x
      BY <2>2 DEF ck
    <3>3. k > p => bk = s[k - 1]
      BY <2>3 DEF bk
    <3>. QED  BY <1>0, <2>0, <2>4, <3>1, <3>2, <3>3
  <2>. QED  BY <2>5 DEF cb
<1>. QED  BY <1>3, <1>5, <1>6 DEF c

\* What the elements of a sequence are, when one is added or taken away.
LEMMA AppendIs ==
  ASSUME NEW S, NEW s \in Seq(S), NEW x \in S
  PROVE  /\ Append(s, x) \in Seq(S) /\ Len(Append(s, x)) = Len(s) + 1
         /\ \A k \in 1..Len(s) + 1 : Append(s, x)[k] = IF k <= Len(s) THEN s[k] ELSE x
OBVIOUS

LEMMA ToSetIs ==
  ASSUME NEW S, NEW s \in Seq(S)
  PROVE  ToSet(s) = {s[i] : i \in 1..Len(s)} /\ \A x \in ToSet(s) : x \in S
BY DEF ToSet

LEMMA ToSetOfAppend ==
  ASSUME NEW S, NEW s \in Seq(S), NEW x \in S
  PROVE  ToSet(Append(s, x)) = ToSet(s) \cup {x}
<1> DEFINE t == Append(s, x)
<1>1. /\ t \in Seq(S) /\ Len(t) = Len(s) + 1 /\ Len(s) \in Nat
      /\ \A k \in 1..Len(s) + 1 : t[k] = IF k <= Len(s) THEN s[k] ELSE x
  OBVIOUS
<1> HIDE DEF t
<1>2. ToSet(t) = {t[i] : i \in 1..Len(s) + 1}
  BY <1>1 DEF ToSet
<1>3. ToSet(s) = {s[i] : i \in 1..Len(s)}
  BY DEF ToSet
<1>4. \A k \in 1..Len(s) : k \in 1..Len(s) + 1 /\ t[k] = s[k]
  BY <1>1
<1>5. Len(s) + 1 \in 1..Len(s) + 1 /\ t[Len(s) + 1] = x
  BY <1>1
<1>6. \A k \in 1..Len(s) + 1 : k \in 1..Len(s) \/ k = Len(s) + 1
  BY <1>1
<1>7. ToSet(t) = ToSet(s) \cup {x}
  BY <1>2, <1>3, <1>4, <1>5, <1>6, Zenon
<1> QED  BY <1>7 DEF t

LEMMA ToSetOfInsertAt ==
  ASSUME NEW S, NEW s \in Seq(S), NEW x \in S, NEW p \in 1..(Len(s) + 1)
  PROVE  ToSet(InsertAt(s, p, x)) = ToSet(s) \cup {x}
<1> DEFINE t == InsertAt(s, p, x)
<1>1. /\ t \in Seq(S) /\ Len(t) = Len(s) + 1
      /\ \A k \in 1..(Len(s) + 1) : t[k] = IF k < p THEN s[k] ELSE IF k = p THEN x ELSE s[k - 1]
  BY InsertIs
<1>0. Len(s) \in Nat /\ p \in Nat
  OBVIOUS
<1> HIDE DEF t
<1>2. ToSet(t) = {t[i] : i \in 1..Len(s) + 1}
  <2>1. t \in Seq(S) /\ Len(t) = Len(s) + 1
    BY <1>1
  <2>2. ToSet(t) = {t[i] : i \in 1..Len(t)}
    BY <2>1 DEF ToSet
  <2> QED  BY <2>1, <2>2
<1>3. ToSet(s) = {s[i] : i \in 1..Len(s)}
  BY DEF ToSet
<1>4. \A k \in 1..Len(s) : \E l \in 1..Len(s) + 1 : t[l] = s[k]
  <2> TAKE k \in 1..Len(s)
  <2>1. CASE k < p
    BY <1>0, <1>1, <2>1
  <2>2. CASE ~(k < p)
    <3>1. k + 1 \in 1..(Len(s) + 1) /\ ~(k + 1 < p) /\ k + 1 # p /\ k + 1 - 1 = k
      BY <1>0, <2>2
    <3>2. t[k + 1] = s[k]
      BY <1>1, <3>1
    <3> QED  BY <3>1, <3>2
  <2> QED  BY <2>1, <2>2
<1>5. p \in 1..Len(s) + 1 /\ t[p] = x
  BY <1>0, <1>1
<1>6. \A k \in 1..Len(s) + 1 : t[k] = x \/ \E l \in 1..Len(s) : t[k] = s[l]
  <2> TAKE k \in 1..Len(s) + 1
  <2>1. CASE k < p
    <3>1. k \in 1..Len(s)
      BY <1>0, <2>1
    <3> QED  BY <1>1, <2>1, <3>1
  <2>2. CASE k > p
    <3>1. k - 1 \in 1..Len(s) /\ ~(k < p) /\ k # p
      BY <1>0, <2>2
    <3> QED  BY <1>1, <3>1
  <2>3. k < p \/ k > p \/ k = p
    BY <1>0
  <2> QED  BY <1>5, <2>1, <2>2, <2>3
<1>7. ToSet(t) = ToSet(s) \cup {x}
  BY <1>2, <1>3, <1>4, <1>5, <1>6, Zenon
<1> QED  BY <1>7 DEF t

LEMMA RemoveIs ==
  ASSUME NEW S, NEW s \in Seq(S), NEW p \in 1..Len(s)
  PROVE  /\ RemoveAt(s, p) \in Seq(S) /\ Len(RemoveAt(s, p)) = Len(s) - 1
         /\ \A k \in 1..Len(s) - 1 : RemoveAt(s, p)[k] = IF k < p THEN s[k] ELSE s[k + 1]
<1> DEFINE a == SubSeq(s, 1, p - 1)
           b == SubSeq(s, p + 1, Len(s))
<1>0. Len(s) \in Nat /\ p \in Nat /\ p >= 1 /\ p <= Len(s)
  OBVIOUS
<1>1. a \in Seq(S) /\ Len(a) = p - 1 /\ \A k \in 1..p - 1 : a[k] = s[k]
  BY <1>0
<1>2. /\ b \in Seq(S) /\ Len(b) = Len(s) - p
      /\ \A k \in 1..Len(s) - p : b[k] = s[p + k]
  BY <1>0
<1>3. RemoveAt(s, p) = a \o b
  BY DEF RemoveAt
<1> HIDE DEF a, b
<1>4. a \o b \in Seq(S) /\ Len(a \o b) = Len(s) - 1
  <2>1. a \o b \in Seq(S) /\ Len(a \o b) = Len(a) + Len(b)
    BY <1>1, <1>2, ConcatIs
  <2> QED  BY <1>0, <1>1, <1>2, <2>1
<1>5. ASSUME NEW k \in 1..Len(s) - 1
      PROVE  (a \o b)[k] = IF k < p THEN s[k] ELSE s[k + 1]
  <2>0. k \in Nat /\ k \in 1..Len(a) + Len(b)
    BY <1>0, <1>1, <1>2
  <2>1. (a \o b)[k] = IF k <= Len(a) THEN a[k] ELSE b[k - Len(a)]
    BY <1>1, <1>2, <2>0, ConcatIs
  <2>2. CASE k < p
    <3>1. k <= Len(a) /\ k \in 1..p - 1
      BY <1>0, <1>1, <2>0, <2>2
    <3> QED  BY <1>1, <2>1, <2>2, <3>1
  <2>3. CASE ~(k < p)
    <3>1. ~(k <= Len(a)) /\ k - Len(a) \in 1..Len(s) - p /\ p + (k - Len(a)) = k + 1
      BY <1>0, <1>1, <2>0, <2>3
    <3> QED  BY <1>2, <2>1, <2>3, <3>1
  <2> QED  BY <2>2, <2>3
<1> QED  BY <1>3, <1>4, <1>5

-----------------------------------------------------------------------------
(* The jar's operations                                                     *)

\* Cookies as they are stored.
Cookies ==
  [name : STRING, value : Nat, secure : BOOLEAN, domain : Seq(STRING), path : Seq(STRING),
   expires : Int]

\* A list of cookies in the order they were set in.
Rising(s) == \A i, j \in 1..Len(s) : i < j => s[i].value < s[j].value

Below(s, n) == \A c \in ToSet(s) : c.value < n

\* The first n cookies of s that are in T.
Among(s, n, T) == {s[i] : i \in {k \in 1..n : s[k] \in T}}

LEMMA AmongIs ==
  ASSUME NEW s \in Seq(Cookies), NEW T
  PROVE  /\ Among(s, 0, T) = {} /\ Among(s, Len(s), T) = ToSet(s) \cap T
         /\ \A n \in Nat : n + 1 <= Len(s) =>
              Among(s, n + 1, T) =
                IF s[n + 1] \in T THEN Among(s, n, T) \cup {s[n + 1]} ELSE Among(s, n, T)
<1>1. Among(s, 0, T) = {}
  BY DEF Among
<1>2. Among(s, Len(s), T) = ToSet(s) \cap T
  BY DEF Among, ToSet
<1>3. ASSUME NEW n \in Nat, n + 1 <= Len(s)
      PROVE  Among(s, n + 1, T) =
               IF s[n + 1] \in T THEN Among(s, n, T) \cup {s[n + 1]} ELSE Among(s, n, T)
  <2>1. \A k : k \in 1..n + 1 <=> k \in 1..n \/ k = n + 1
    OBVIOUS
  <2> QED  BY <2>1, Zenon DEF Among
<1> QED  BY <1>1, <1>2, <1>3

LEMMA RisingAppend ==
  ASSUME NEW s \in Seq(Cookies), Rising(s), NEW c \in Cookies, Below(s, c.value)
  PROVE  Append(s, c) \in Seq(Cookies) /\ Rising(Append(s, c))
<1> DEFINE t == Append(s, c)
<1>1. /\ t \in Seq(Cookies) /\ Len(t) = Len(s) + 1 /\ Len(s) \in Nat
      /\ \A k \in 1..Len(s) + 1 : t[k] = IF k <= Len(s) THEN s[k] ELSE c
  OBVIOUS
<1> HIDE DEF t
<1>2. \A k \in 1..Len(s) : s[k].value < c.value
  BY DEF Below, ToSet
<1>3. ASSUME NEW i \in 1..Len(t), NEW j \in 1..Len(t), i < j
      PROVE  t[i].value < t[j].value
  <2>1. i \in 1..Len(s) /\ t[i] = s[i]
    BY <1>1, <1>3
  <2>2. CASE j = Len(s) + 1
    <3>1. t[j] = c
      BY <1>1, <2>2
    <3> QED  BY <1>2, <2>1, <3>1
  <2>3. CASE j # Len(s) + 1
    <3>1. j \in 1..Len(s) /\ t[j] = s[j]
      BY <1>1, <2>3
    <3> QED  BY <1>3, <2>1, <3>1 DEF Rising
  <2> QED  BY <2>2, <2>3
<1>4. t \in Seq(Cookies) /\ Rising(t)
  BY <1>1, <1>3 DEF Rising
<1> QED  BY <1>4 DEF t

\* What retain() leaves: those that are to stay, in their order.
LEMMA RetainedIs ==
  ASSUME NEW s \in Seq(Cookies), Rising(s), NEW T
  PROVE  LET r == Retained(s, T)
         IN  r \in Seq(Cookies) /\ Rising(r) /\ ToSet(r) = ToSet(s) \cap T
<1> DEFINE N == Len(s)
           X == Seq(Cookies)
           Step(x, n) == IF s[n] \in T THEN Append(x, s[n]) ELSE x
           H == [z \in X \X Nat |-> IF z[2] \in 1..N THEN Step(z[1], z[2]) ELSE z[1]]
           P(g) == g = [n \in 0..N |-> IF n = 0 THEN <<>>
                                       ELSE IF s[n] \in T THEN Append(g[n - 1], s[n])
                                       ELSE g[n - 1]]
           g == CHOOSE g : P(g)
<1>0. N \in Nat /\ <<>> \in X /\ Rising(<<>>) /\ ToSet(<<>>) = {}
  <2>1. \A S : <<>> \in Seq(S)
    OBVIOUS
  <2>2. Len(<<>>) = 0
    OBVIOUS
  <2> QED  BY <2>1, <2>2 DEF Rising, ToSet
<1>1. \A x \in X, n \in Nat : H[<<x, n>>] = IF n \in 1..N THEN Step(x, n) ELSE x
  <2> HIDE DEF X, N, Step
  <2> QED  OBVIOUS
<1>2. \A x \in X, n \in Nat : H[<<x, n>>] \in X
  <2> SUFFICES ASSUME NEW x \in X, NEW n \in Nat, n \in 1..N PROVE Step(x, n) \in X
    BY <1>1
  <2>1. s[n] \in Cookies
    OBVIOUS
  <2>2. Append(x, s[n]) \in Seq(Cookies)
    BY <2>1
  <2> QED  BY <2>2
<1> HIDE DEF H, X
<1>3. PICK k \in [0..N -> X] : Iterates(k, H, <<>>, N)
  BY <1>0, <1>2, IterationExists
<1>4. \A n \in 0..N : k[n] = IF n = 0 THEN <<>> ELSE Step(k[n - 1], n)
  <2> HIDE DEF Step
  <2> TAKE n \in 0..N
  <2>1. CASE n = 0
    BY <1>3, <2>1 DEF Iterates
  <2>2. CASE n # 0
    <3>1. n \in 1..N /\ n - 1 \in 0..N /\ n \in Nat
      BY <1>0, <2>2
    <3>2. k[n] = H[<<k[n - 1], n>>] /\ k[n - 1] \in X
      BY <1>3, <3>1 DEF Iterates
    <3> QED  BY <1>1, <2>2, <3>1, <3>2
  <2> QED  BY <2>1, <2>2
<1>5. P(k)
  <2>1. k = [n \in 0..N |-> k[n]]
    OBVIOUS
  <2> QED  BY <1>4, <2>1
<1>6. P(g)
  <2> HIDE DEF P
  <2> QED  BY <1>5
<1>7. Retained(s, T) = g[N]
  BY DEF Retained
<1> HIDE DEF g
<1>8. g[0] = <<>> /\ \A n \in 1..N : g[n] = Step(g[n - 1], n)
  <2>1. \A n \in 0..N :
          g[n] = IF n = 0 THEN <<>>
                 ELSE IF s[n] \in T THEN Append(g[n - 1], s[n]) ELSE g[n - 1]
    BY <1>6
  <2>2. 0 \in 0..N /\ \A n \in 1..N : n \in 0..N /\ n # 0
    BY <1>0
  <2>3. g[0] = <<>>
    BY <2>1, <2>2
  <2>4. ASSUME NEW n \in 1..N PROVE g[n] = Step(g[n - 1], n)
    BY <2>1, <2>2, Zenon
  <2> QED  BY <2>3, <2>4
<1> DEFINE U == {n \in Nat : n <= N =>
                   g[n] \in X /\ Rising(g[n]) /\ ToSet(g[n]) = Among(s, n, T)}
<1>9. 0 \in U
  BY <1>0, <1>8, AmongIs
<1>10. ASSUME NEW n \in Nat, n \in U PROVE n + 1 \in U
  <2> SUFFICES ASSUME n + 1 <= N
               PROVE  /\ g[n + 1] \in X /\ Rising(g[n + 1])
                      /\ ToSet(g[n + 1]) = Among(s, n + 1, T)
    OBVIOUS
  <2> DEFINE r == g[n]
             c == s[n + 1]
  <2>1. n + 1 \in 1..N /\ n + 1 - 1 = n
    BY <1>0
  <2>2. r \in Seq(Cookies) /\ Rising(r) /\ ToSet(r) = Among(s, n, T)
    BY <1>0, <1>10 DEF X
  <2>3. g[n + 1] = IF c \in T THEN Append(r, c) ELSE r
    BY <1>8, <2>1
  <2>4. Among(s, n + 1, T) = IF c \in T THEN Among(s, n, T) \cup {c} ELSE Among(s, n, T)
    BY AmongIs
  <2>5. c \in Cookies
    BY <2>1
  <2>6. Below(r, c.value)
    <3> SUFFICES ASSUME NEW d \in Among(s, n, T) PROVE d.value < c.value
      BY <2>2 DEF Below
    <3>1. PICK i \in 1..n : d = s[i]
      BY DEF Among
    <3>2. i \in 1..N /\ i < n + 1
      BY <1>0
    <3> QED  BY <2>1, <3>1, <3>2 DEF Rising
  <2> HIDE DEF r, c
  <2>7. CASE c \in T
    <3>1. Append(r, c) \in Seq(Cookies) /\ Rising(Append(r, c))
      BY <2>2, <2>5, <2>6, RisingAppend
    <3>2. ToSet(Append(r, c)) = ToSet(r) \cup {c}
      BY <2>2, <2>5, ToSetOfAppend
    <3> QED  BY <2>2, <2>3, <2>4, <2>7, <3>1, <3>2 DEF X
  <2>8. CASE c \notin T
    BY <2>2, <2>3, <2>4, <2>8 DEF X
  <2> QED  BY <2>7, <2>8
<1>11. N \in U
  <2> HIDE DEF U
  <2> QED  BY <1>0, <1>9, <1>10, Induction
<1>12. g[N] \in Seq(Cookies) /\ Rising(g[N]) /\ ToSet(g[N]) = Among(s, N, T)
  BY <1>0, <1>11 DEF X
<1> QED  BY <1>7, <1>12, AmongIs

LEMMA InsertForUrlIs ==
  ASSUME NEW s \in Seq(Cookies), Rising(s), NEW c \in Cookies, Below(s, c.value)
  PROVE  LET r == InsertForUrl(s, c)
         IN  /\ r \in Seq(Cookies) /\ Rising(r)
             /\ ToSet(r) = {d \in ToSet(s) : ~SameCookie(c, d)} \cup {c}
<1> DEFINE T == {d \in ToSet(s) : ~SameCookie(c, d)}
           k == Retained(s, T)
<1>1. k \in Seq(Cookies) /\ Rising(k) /\ ToSet(k) = ToSet(s) \cap T
  BY RetainedIs
<1>2. ToSet(s) \cap T = T
  OBVIOUS
<1>3. InsertForUrl(s, c) = Append(k, c)
  BY DEF InsertForUrl
<1> HIDE DEF k
<1>4. Below(k, c.value)
  BY <1>1 DEF Below
<1>5. Append(k, c) \in Seq(Cookies) /\ Rising(Append(k, c))
  BY <1>1, <1>4, RisingAppend
<1>6. ToSet(Append(k, c)) = ToSet(k) \cup {c}
  BY <1>1, ToSetOfAppend
<1>7. ToSet(Append(k, c)) = T \cup {c}
  BY <1>1, <1>2, <1>6
<1> QED  BY <1>3, <1>5, <1>7

\* The cookies of a list that were not in the jar.
New(s) == {c \in ToSet(s) : c.value >= stored}

\* What n cookies of a response make of the jar: each replaces the one it updates,
\* of the jar or of the response, and the last one is there.
Put(s, n) ==
  /\ s \in Seq(Cookies) /\ Rising(s) /\ Below(s, stored + n)
  /\ ToSet(s) = {d \in ToSet(jar) : \A c \in New(s) : ~SameCookie(c, d)} \cup New(s)
  /\ n > 0 => \E c \in New(s) : c.value = stored + n - 1

JarIs == stored \in Nat /\ jar \in Seq(Cookies) /\ Rising(jar) /\ Below(jar, stored)

LEMMA NoneIsPut ==
  ASSUME JarIs
  PROVE  Put(jar, 0)
<1>1. New(jar) = {}
  <2>1. \A c \in ToSet(jar) : c \in Cookies
    BY ToSetIs DEF JarIs
  <2>2. \A c \in ToSet(jar) : c.value \in Nat /\ c.value < stored
    BY <2>1 DEF JarIs, Below, Cookies
  <2> QED  BY <2>2 DEF New, JarIs
<1> QED  BY <1>1 DEF Put, JarIs

LEMMA OneMoreIsPut ==
  ASSUME JarIs, NEW n \in Nat, NEW s, Put(s, n), NEW c \in Cookies, c.value = stored + n
  PROVE  Put(InsertForUrl(s, c), n + 1)
<1> DEFINE r == InsertForUrl(s, c)
<1>0. /\ stored \in Nat /\ s \in Seq(Cookies) /\ Rising(s) /\ Below(s, stored + n)
      /\ ToSet(s) = {d \in ToSet(jar) : \A e \in New(s) : ~SameCookie(e, d)} \cup New(s)
  BY DEF Put, JarIs
<1>1. /\ r \in Seq(Cookies) /\ Rising(r)
      /\ ToSet(r) = {d \in ToSet(s) : ~SameCookie(c, d)} \cup {c}
  BY <1>0, InsertForUrlIs
<1> HIDE DEF r
<1>2. \A d \in ToSet(s) : d.value < stored + n /\ d.value \in Nat
  <2>1. \A d \in ToSet(s) : d \in Cookies
    BY <1>0, ToSetIs
  <2> QED  BY <1>0, <2>1 DEF Below, Cookies
<1>3. Below(r, stored + (n + 1))
  BY <1>0, <1>1, <1>2 DEF Below
<1>4. c \in New(r)
  BY <1>0, <1>1 DEF New
<1>5. New(r) = {d \in New(s) : ~SameCookie(c, d)} \cup {c}
  BY <1>1, <1>4 DEF New
<1>6. ToSet(r) = {d \in ToSet(jar) : \A e \in New(r) : ~SameCookie(e, d)} \cup New(r)
  <2>1. ASSUME NEW d \in ToSet(r)
        PROVE  d \in New(r) \/ (d \in ToSet(jar) /\ \A e \in New(r) : ~SameCookie(e, d))
    <3>1. CASE d \in New(r)
      BY <3>1
    <3>2. CASE d \notin New(r)
      <4>1. d \in ToSet(s) /\ ~SameCookie(c, d) /\ d \notin New(s)
        BY <1>1, <1>5, <3>2
      <4>2. d \in ToSet(jar) /\ \A e \in New(s) : ~SameCookie(e, d)
        BY <1>0, <4>1
      <4> QED  BY <1>5, <4>1, <4>2
    <3> QED  BY <3>1, <3>2
  <2>2. ASSUME NEW d \in ToSet(jar), \A e \in New(r) : ~SameCookie(e, d)
        PROVE  d \in ToSet(r)
    <3>1. ~SameCookie(c, d)
      BY <1>4, <2>2
    <3>2. ASSUME NEW e \in New(s) PROVE ~SameCookie(e, d)
      <4>1. CASE SameCookie(c, e)
        BY <3>1, <4>1 DEF SameCookie
      <4>2. CASE ~SameCookie(c, e)
        BY <1>5, <2>2, <4>2
      <4> QED  BY <4>1, <4>2
    <3>3. d \in ToSet(s)
      BY <1>0, <3>2
    <3> QED  BY <1>1, <3>1, <3>3
  <2>3. \A d \in New(r) : d \in ToSet(r)
    BY DEF New
  <2> QED  BY <2>1, <2>2, <2>3
<1>7. \E e \in New(r) : e.value = stored + (n + 1) - 1
  BY <1>0, <1>4
<1>8. Put(r, n + 1)
  BY <1>1, <1>3, <1>6, <1>7 DEF Put
<1> QED  BY <1>8 DEF r

\* One after the other.
LEMMA InsertAllIs ==
  ASSUME JarIs, NEW s \in Seq(Cookies), \A i \in 1..Len(s) : s[i].value = stored + i - 1
  PROVE  Put(InsertAll(s), Len(s))
<1> DEFINE N == Len(s)
           X == {r \in Seq(Cookies) : Rising(r)}
           V == {z \in X \X Nat : Put(z[1], z[2])}
           H == [z \in V \X Nat |->
                   IF z[2] \in 1..N /\ z[1][2] = z[2] - 1
                     THEN <<InsertForUrl(z[1][1], s[z[2]]), z[2]>> ELSE z[1]]
           P(g) == g = [n \in 0..N |-> IF n = 0 THEN jar ELSE InsertForUrl(g[n - 1], s[n])]
           g == CHOOSE g : P(g)
<1>0. N \in Nat /\ <<jar, 0>> \in V /\ stored \in Nat
  BY NoneIsPut DEF JarIs
<1>1. \A x \in V, n \in Nat :
        H[<<x, n>>] = IF n \in 1..N /\ x[2] = n - 1
                        THEN <<InsertForUrl(x[1], s[n]), n>> ELSE x
  <2> HIDE DEF V, N
  <2> QED  OBVIOUS
<1>2. \A x \in V, n \in Nat : H[<<x, n>>] \in V
  <2> SUFFICES ASSUME NEW x \in V, NEW n \in Nat, n \in 1..N, x[2] = n - 1
               PROVE  <<InsertForUrl(x[1], s[n]), n>> \in V
    BY <1>1
  <2>1. s[n] \in Cookies /\ s[n].value = stored + (n - 1) /\ n - 1 \in Nat
    BY <1>0
  <2>2. Put(x[1], n - 1)
    OBVIOUS
  <2>3. Put(InsertForUrl(x[1], s[n]), n - 1 + 1)
    BY <2>1, <2>2, OneMoreIsPut
  <2>4. n - 1 + 1 = n
    OBVIOUS
  <2>5. Put(InsertForUrl(x[1], s[n]), n)
    BY <2>3, <2>4
  <2>6. InsertForUrl(x[1], s[n]) \in X
    BY <2>5 DEF Put
  <2> QED  BY <2>5, <2>6
<1>v. \A x \in V : x = <<x[1], x[2]>> /\ Put(x[1], x[2])
  OBVIOUS
<1> HIDE DEF H, V
<1>3. PICK k \in [0..N -> V] : Iterates(k, H, <<jar, 0>>, N)
  BY <1>0, <1>2, IterationExists
<1> DEFINE U == {n \in Nat : n <= N => k[n][2] = n}
<1>4. 0 \in U
  BY <1>3 DEF Iterates
<1>5. \A n \in Nat : n \in U => n + 1 \in U
  <2> SUFFICES ASSUME NEW n \in Nat, n \in U, n + 1 <= N PROVE k[n + 1][2] = n + 1
    OBVIOUS
  <2>1. n + 1 \in 1..N /\ n \in 0..N /\ n + 1 - 1 = n /\ k[n][2] = n
    BY <1>0
  <2>2. k[n + 1] = H[<<k[n], n + 1>>] /\ k[n] \in V
    BY <1>3, <2>1 DEF Iterates
  <2>3. k[n + 1] = <<InsertForUrl(k[n][1], s[n + 1]), n + 1>>
    <3> DEFINE x == k[n]
               m == n + 1
    <3>1. /\ x \in V /\ m \in Nat /\ m \in 1..N /\ x[2] = m - 1
          /\ k[m] = H[<<x, m>>]
      BY <2>1, <2>2
    <3> HIDE DEF x, m
    <3>2. k[m] = <<InsertForUrl(x[1], s[m]), m>>
      BY <1>1, <3>1
    <3> QED  BY <3>2 DEF x, m
  <2> QED  BY <2>3
<1>6. \A n \in 0..N : k[n][2] = n
  <2>1. \A n \in Nat : n \in U
    <3> HIDE DEF U
    <3> QED  BY <1>4, <1>5, Induction
  <2> QED  BY <1>0, <2>1
<1> DEFINE f == [n \in 0..N |-> k[n][1]]
<1>7. f[0] = jar
  BY <1>0, <1>3 DEF Iterates
<1>8. ASSUME NEW n \in 1..N PROVE f[n] = InsertForUrl(f[n - 1], s[n])
  <2>1. n \in 0..N /\ n - 1 \in 0..N /\ n \in Nat /\ k[n - 1][2] = n - 1
    BY <1>0, <1>6
  <2>2. k[n] = H[<<k[n - 1], n>>] /\ k[n - 1] \in V
    BY <1>3, <2>1 DEF Iterates
  <2>3. k[n] = <<InsertForUrl(k[n - 1][1], s[n]), n>>
    <3> DEFINE x == k[n - 1]
    <3>1. x \in V /\ n \in Nat /\ n \in 1..N /\ x[2] = n - 1 /\ k[n] = H[<<x, n>>]
      BY <2>1, <2>2
    <3> HIDE DEF x
    <3>2. k[n] = <<InsertForUrl(x[1], s[n]), n>>
      BY <1>1, <3>1
    <3> QED  BY <3>2 DEF x
  <2> QED  BY <2>1, <2>3
<1>9. P(f)
  <2>1. f = [n \in 0..N |-> f[n]]
    OBVIOUS
  <2>2. \A n \in 0..N : f[n] = IF n = 0 THEN jar ELSE InsertForUrl(f[n - 1], s[n])
    <3> HIDE DEF f
    <3>1. \A n \in 0..N : n = 0 \/ n \in 1..N
      BY <1>0
    <3> QED  BY <1>7, <1>8, <3>1
  <2> HIDE DEF f
  <2> QED  BY <2>1, <2>2
<1>10. P(g)
  <2> HIDE DEF P
  <2> QED  BY <1>9
<1>11. InsertAll(s) = g[N]
  BY DEF InsertAll
<1> HIDE DEF g
<1>12. \A n \in 0..N : g[n] = IF n = 0 THEN jar ELSE InsertForUrl(g[n - 1], s[n])
  BY <1>10
<1> DEFINE W == {n \in Nat : n <= N => Put(g[n], n)}
<1>13. 0 \in W
  BY <1>0, <1>12, NoneIsPut
<1>14. \A n \in Nat : n \in W => n + 1 \in W
  <2> SUFFICES ASSUME NEW n \in Nat, n \in W, n + 1 <= N PROVE Put(g[n + 1], n + 1)
    OBVIOUS
  <2>1. /\ n + 1 \in 0..N /\ n + 1 # 0 /\ n + 1 - 1 = n /\ Put(g[n], n) /\ n + 1 \in 1..N
        /\ stored + (n + 1) - 1 = stored + n
    BY <1>0
  <2>2. g[n + 1] = InsertForUrl(g[n], s[n + 1])
    BY <1>12, <2>1
  <2>3. s[n + 1] \in Cookies /\ s[n + 1].value = stored + n
    BY <2>1
  <2> QED  BY <2>1, <2>2, <2>3, OneMoreIsPut
<1>15. N \in W
  <2> HIDE DEF W
  <2> QED  BY <1>0, <1>13, <1>14, Induction
<1> QED  BY <1>0, <1>11, <1>15

-----------------------------------------------------------------------------
(* The request's cookies                                                    *)

Depth(c) == Len(PathOf(c))

LEMMA DepthIs ==
  ASSUME NEW c \in Cookies
  PROVE  Depth(c) \in Nat /\ c.value \in Nat
<1>1. c.path \in Seq(STRING) /\ Len(<<>>) = 0
  BY DEF Cookies
<1> QED  BY <1>1 DEF Depth, PathOf, Cookies

LEMMA MoreSpecificIs ==
  ASSUME NEW c \in Cookies, NEW d \in Cookies
  PROVE  /\ Store!MoreSpecific(c, d)
              <=> Depth(c) > Depth(d) \/ (Depth(c) = Depth(d) /\ c.value < d.value)
         /\ Before(c, d) <=> Depth(c) >= Depth(d)
BY DEF Store!MoreSpecific, Before, Depth

\* Where the place is.
LEMMA PlaceIs ==
  ASSUME NEW S, NEW e \in Seq(S), NEW c
  PROVE  LET p == Place(e, c)
         IN  /\ p \in 1..(Len(e) + 1)
             /\ \A k \in 1..p - 1 : Before(e[k], c)
             /\ p <= Len(e) => ~Before(e[p], c)
<1> DEFINE B == {i \in DOMAIN e : ~Before(e[i], c)}
           T == B \cup {Len(e) + 1}
           p == Place(e, c)
<1>0. Len(e) \in Nat /\ DOMAIN e = 1..Len(e)
  OBVIOUS
<1>1. T \subseteq Nat \ {0} /\ T \subseteq 1..(Len(e) + 1) /\ T # {}
  BY <1>0
<1>2. PICK m \in T : \A j \in 1..m - 1 : j \notin T
  <2> HIDE DEF T
  <2> QED  BY <1>1, FirstExists
<1>3. \A j \in T : m <= j
  BY <1>1, <1>2
<1>4. p \in T /\ \A j \in T : p <= j
  <2>1. p = CHOOSE x \in T : \A y \in T : x <= y
    BY DEF Place, Min
  <2> HIDE DEF T, p
  <2> QED  BY <1>3, <2>1
<1>5. p \in 1..(Len(e) + 1)
  BY <1>1, <1>4
<1>6. \A k \in 1..p - 1 : Before(e[k], c)
  <2> HIDE DEF p
  <2> QED  BY <1>0, <1>4, <1>5
<1>7. p <= Len(e) => ~Before(e[p], c)
  <2> HIDE DEF p
  <2> QED  BY <1>0, <1>4, <1>5
<1> QED  BY <1>5, <1>6, <1>7

\* A cookie that is younger than those that are there goes to its place among them.
LEMMA PlacedIs ==
  ASSUME NEW e \in Seq(Cookies), Store!Ordered(e), NEW c \in Cookies, Below(e, c.value)
  PROVE  LET r == InsertAt(e, Place(e, c), c)
         IN  r \in Seq(Cookies) /\ Store!Ordered(r) /\ ToSet(r) = ToSet(e) \cup {c}
<1> DEFINE p == Place(e, c)
           r == InsertAt(e, p, c)
           N == Len(e)
<1>0. N \in Nat
  OBVIOUS
<1>1. /\ p \in 1..(N + 1) /\ \A k \in 1..p - 1 : Before(e[k], c)
      /\ p <= N => ~Before(e[p], c)
  BY PlaceIs
<1> HIDE DEF p
<1>2. /\ r \in Seq(Cookies) /\ Len(r) = N + 1
      /\ \A k \in 1..(N + 1) : r[k] = IF k < p THEN e[k] ELSE IF k = p THEN c ELSE e[k - 1]
  BY <1>1, InsertIs
<1>3. ToSet(r) = ToSet(e) \cup {c}
  BY <1>1, ToSetOfInsertAt
<1>4. \A k \in 1..N : e[k] \in Cookies /\ e[k].value < c.value
  BY DEF Below, ToSet
<1>5. \A k, l \in 1..N : k < l => Store!MoreSpecific(e[k], e[l])
  BY DEF Store!Ordered
<1> HIDE DEF r, N
\* Those ahead of it.
<1>6. ASSUME NEW k \in 1..N, k < p PROVE Store!MoreSpecific(e[k], c)
  <2>1. Before(e[k], c) /\ e[k] \in Cookies /\ e[k].value < c.value
    BY <1>0, <1>1, <1>4, <1>6
  <2>2. Depth(e[k]) >= Depth(c) /\ Depth(e[k]) \in Nat /\ Depth(c) \in Nat
    BY <2>1, DepthIs, MoreSpecificIs
  <2>3. Depth(e[k]) > Depth(c) \/ Depth(e[k]) = Depth(c)
    BY <2>2
  <2> QED  BY <2>1, <2>3, MoreSpecificIs
\* Those behind it.
<1>7. ASSUME NEW k \in 1..N, p <= k PROVE Store!MoreSpecific(c, e[k])
  <2>1. p \in 1..N /\ ~Before(e[p], c) /\ e[p] \in Cookies /\ e[k] \in Cookies
    BY <1>0, <1>1, <1>4, <1>7
  <2>2. /\ ~(Depth(e[p]) >= Depth(c)) /\ Depth(e[p]) \in Nat /\ Depth(c) \in Nat
        /\ Depth(e[k]) \in Nat
    BY <2>1, DepthIs, MoreSpecificIs
  <2>3. Depth(e[p]) >= Depth(e[k])
    <3>1. CASE k = p
      BY <2>2, <3>1
    <3>2. CASE k # p
      <4>1. p < k
        BY <1>0, <1>1, <1>7, <3>2
      <4>2. Store!MoreSpecific(e[p], e[k])
        BY <1>5, <2>1, <4>1
      <4>3. Depth(e[p]) > Depth(e[k]) \/ Depth(e[p]) = Depth(e[k])
        BY <2>1, <4>2, MoreSpecificIs
      <4> QED  BY <2>2, <4>3
    <3> QED  BY <3>1, <3>2
  <2>4. Depth(c) > Depth(e[k])
    BY <2>2, <2>3
  <2> QED  BY <2>1, <2>4, MoreSpecificIs
<1>8. ASSUME NEW k \in 1..N + 1, NEW l \in 1..N + 1, k < l
      PROVE  Store!MoreSpecific(r[k], r[l])
  <2>0. k \in Nat /\ l \in Nat /\ p \in Nat /\ p >= 1
    BY <1>0, <1>1
  <2>1. CASE l < p
    <3>1. k < p /\ k \in 1..N /\ l \in 1..N
      BY <1>0, <1>1, <1>8, <2>0, <2>1
    <3>2. r[k] = e[k] /\ r[l] = e[l]
      BY <1>2, <2>1, <3>1
    <3> QED  BY <1>5, <1>8, <3>1, <3>2
  <2>2. CASE l = p
    <3>1. k < p /\ k \in 1..N
      BY <1>0, <1>1, <1>8, <2>0, <2>2
    <3>2. r[k] = e[k] /\ r[l] = c
      BY <1>2, <2>0, <2>2, <3>1
    <3> QED  BY <1>6, <3>1, <3>2
  <2>3. CASE l > p
    <3>1. l - 1 \in 1..N /\ p <= l - 1 /\ ~(l < p) /\ l # p
      BY <1>0, <1>1, <2>0, <2>3
    <3>2. r[l] = e[l - 1]
      BY <1>2, <3>1
    <3>3. CASE k < p
      <4>1. k \in 1..N /\ k < l - 1 /\ r[k] = e[k]
        BY <1>0, <1>1, <1>2, <2>0, <3>1, <3>3
      <4> QED  BY <1>5, <3>1, <3>2, <4>1
    <3>4. CASE k = p
      <4>1. r[k] = c
        BY <1>2, <2>0, <3>4
      <4> QED  BY <1>7, <3>1, <3>2, <4>1
    <3>5. CASE k > p
      <4>1. k - 1 \in 1..N /\ k - 1 < l - 1 /\ ~(k < p) /\ k # p
        BY <1>0, <1>1, <1>8, <2>0, <3>5
      <4>2. r[k] = e[k - 1]
        BY <1>2, <4>1
      <4> QED  BY <1>5, <3>1, <3>2, <4>1, <4>2
    <3> QED  BY <2>0, <3>3, <3>4, <3>5
  <2> QED  BY <2>0, <2>1, <2>2, <2>3
<1>9. Store!Ordered(r)
  <2>1. DOMAIN r = 1..N + 1
    BY <1>2
  <2> QED  BY <1>8, <2>1 DEF Store!Ordered
<1>10. r \in Seq(Cookies)
  BY <1>2
<1> QED  BY <1>3, <1>9, <1>10 DEF r, p

\* The cookies a request for url is due.
Due(url) == {c \in Live : Applies(c, url)}

LEMMA DueIs ==
  ASSUME JarIs, now \in Nat, NEW url
  PROVE  \A n \in 1..Len(jar) :
           jar[n] \in Due(url) <=> ~Expired(jar[n]) /\ Applies(jar[n], url)
<1> TAKE n \in 1..Len(jar)
<1>1. jar[n] \in ToSet(jar) /\ jar[n] \in Cookies
  BY DEF JarIs, ToSet
<1>2. jar[n].expires \in Int
  BY <1>1 DEF Cookies
<1>3. jar[n] \in Live <=> ~Expired(jar[n])
  BY <1>1, <1>2 DEF Live, Expired, Never
<1> QED  BY <1>3 DEF Due

\* The cookies of a request are those it is due, the more specific ones first.
LEMMA CookiesForUrlIs ==
  ASSUME JarIs, now \in Nat, NEW url
  PROVE  LET r == CookiesForUrl(url)
         IN  r \in Seq(Cookies) /\ Store!Ordered(r) /\ ToSet(r) = Due(url)
<1> DEFINE N == Len(jar)
           X == {x \in Seq(Cookies) : Store!Ordered(x)}
           T == Due(url)
           Sorted(x, c) == InsertAt(x, Place(x, c), c)
           Step(x, n) == IF ~Expired(jar[n]) /\ Applies(jar[n], url)
                           THEN Sorted(x, jar[n]) ELSE x
           Q(x, n) == x \in Seq(Cookies) /\ Store!Ordered(x) /\ ToSet(x) = Among(jar, n, T)
           V == {z \in X \X Nat : Q(z[1], z[2])}
           H == [z \in V \X Nat |->
                   IF z[2] \in 1..N /\ z[1][2] = z[2] - 1
                     THEN <<Step(z[1][1], z[2]), z[2]>> ELSE z[1]]
           P(g) == g = [n \in 0..N |->
                          IF n = 0 THEN <<>>
                          ELSE IF ~Expired(jar[n]) /\ Applies(jar[n], url)
                               THEN InsertAt(g[n - 1], Place(g[n - 1], jar[n]), jar[n])
                               ELSE g[n - 1]]
           g == CHOOSE g : P(g)
<1>j. N \in Nat /\ jar \in Seq(Cookies) /\ Rising(jar) /\ \A n \in 1..N : jar[n] \in Cookies
  BY DEF JarIs
<1>a. Q(<<>>, 0)
  <2>1. \A S : <<>> \in Seq(S)
    OBVIOUS
  <2>2. Len(<<>>) = 0 /\ DOMAIN <<>> = {}
    OBVIOUS
  <2>3. Among(jar, 0, T) = {}
    BY <1>j, AmongIs
  <2> QED  BY <2>1, <2>2, <2>3 DEF Store!Ordered, ToSet
<1>b. ASSUME NEW n \in Nat, n + 1 <= N, NEW x, Q(x, n)
      PROVE  Q(Step(x, n + 1), n + 1)
  <2> DEFINE c == jar[n + 1]
  <2>1. n + 1 \in 1..N
    BY <1>b, <1>j
  <2>2. Among(jar, n + 1, T) = IF c \in T THEN Among(jar, n, T) \cup {c} ELSE Among(jar, n, T)
    <3>1. jar \in Seq(Cookies) /\ n + 1 <= Len(jar)
      BY <1>b, <1>j
    <3> HIDE DEF T
    <3>2. \A m \in Nat : m + 1 <= Len(jar) =>
            Among(jar, m + 1, T) =
              IF jar[m + 1] \in T THEN Among(jar, m, T) \cup {jar[m + 1]}
                                  ELSE Among(jar, m, T)
      <4>1. jar \in Seq(Cookies)
        BY <3>1
      <4> QED  BY ONLY <4>1, AmongIs
    <3> QED  BY <3>1, <3>2
  <2>3. c \in T <=> ~Expired(c) /\ Applies(c, url)
    BY <2>1, DueIs
  <2>4. c \in Cookies
    BY <1>j, <2>1
  <2>5. Below(x, c.value)
    <3> SUFFICES ASSUME NEW d \in Among(jar, n, T) PROVE d.value < c.value
      BY <1>b DEF Below
    <3>1. PICK i \in 1..n : d = jar[i]
      BY DEF Among
    <3>2. i \in 1..N /\ i < n + 1
      BY <1>b, <1>j
    <3> QED  BY <1>j, <2>1, <3>1, <3>2 DEF Rising
  <2> HIDE DEF c
  <2>6. x \in Seq(Cookies) /\ Store!Ordered(x) /\ ToSet(x) = Among(jar, n, T)
    BY <1>b
  <2>7. CASE c \in T
    <3>1. /\ Sorted(x, c) \in Seq(Cookies) /\ Store!Ordered(Sorted(x, c))
          /\ ToSet(Sorted(x, c)) = ToSet(x) \cup {c}
      BY <2>4, <2>5, <2>6, PlacedIs
    <3>2. Step(x, n + 1) = Sorted(x, c)
      BY <2>3, <2>7 DEF c
    <3>3. Among(jar, n + 1, T) = ToSet(x) \cup {c}
      BY <2>2, <2>6, <2>7
    <3> HIDE DEF Sorted, Step
    <3> QED  BY <3>1, <3>2, <3>3
  <2>8. CASE c \notin T
    <3>1. Step(x, n + 1) = x
      BY <2>3, <2>8 DEF c
    <3> HIDE DEF Step
    <3> QED  BY <2>2, <2>6, <2>8, <3>1
  <2> QED  BY <2>7, <2>8
<1> HIDE DEF Step
<1>0. <<<<>>, 0>> \in V
  BY <1>a
<1>q. \A x, n : Q(x, n) => x \in X
  OBVIOUS
<1>v. \A x \in V : Q(x[1], x[2]) /\ x[2] \in Nat
  OBVIOUS
<1>w. \A x, n : Q(x, n) /\ n \in Nat => <<x, n>> \in V
  BY <1>q
<1>1. \A x \in V, n \in Nat :
        H[<<x, n>>] = IF n \in 1..N /\ x[2] = n - 1 THEN <<Step(x[1], n), n>> ELSE x
  <2> HIDE DEF V, N
  <2> QED  OBVIOUS
<1> HIDE DEF V, Q, H
<1>2. \A x \in V, n \in Nat : H[<<x, n>>] \in V
  <2> SUFFICES ASSUME NEW x \in V, NEW n \in Nat, n \in 1..N, x[2] = n - 1
               PROVE  <<Step(x[1], n), n>> \in V
    BY <1>1
  <2> DEFINE m == n - 1
             y == x[1]
  <2>1. m \in Nat /\ m + 1 <= N /\ n = m + 1
    BY <1>j
  <2>2. Q(y, m)
    BY <1>v
  <2> HIDE DEF m, y
  <2>3. Q(Step(y, m + 1), m + 1)
    BY <1>b, <2>1, <2>2
  <2>4. <<Step(y, n), n>> \in V
    BY <1>w, <2>1, <2>3
  <2> QED  BY <2>4 DEF y
<1>3. PICK k \in [0..N -> V] : Iterates(k, H, <<<<>>, 0>>, N)
  BY <1>0, <1>2, <1>j, IterationExists
<1>c. ASSUME NEW n \in 1..N, k[n - 1][2] = n - 1
      PROVE  k[n] = <<Step(k[n - 1][1], n), n>>
  <2> DEFINE x == k[n - 1]
  <2>1. /\ x \in V /\ n \in Nat /\ x[2] = n - 1 /\ k[n] = H[<<x, n>>]
    BY <1>3, <1>c, <1>j DEF Iterates
  <2> HIDE DEF x
  <2>2. k[n] = <<Step(x[1], n), n>>
    BY <1>1, <2>1
  <2> QED  BY <2>2 DEF x
<1> DEFINE U == {n \in Nat : n <= N => k[n][2] = n}
<1>4. 0 \in U
  BY <1>3 DEF Iterates
<1>5. \A n \in Nat : n \in U => n + 1 \in U
  <2> SUFFICES ASSUME NEW n \in Nat, n \in U, n + 1 <= N PROVE k[n + 1][2] = n + 1
    OBVIOUS
  <2>1. n + 1 \in 1..N /\ n + 1 - 1 = n /\ k[n][2] = n
    BY <1>j
  <2>2. k[n + 1] = <<Step(k[n][1], n + 1), n + 1>>
    BY <1>c, <2>1
  <2> QED  BY <2>2
<1>6. \A n \in 0..N : k[n][2] = n
  <2>1. \A n \in Nat : n \in U
    <3> HIDE DEF U
    <3> QED  BY <1>4, <1>5, Induction
  <2> QED  BY <1>j, <2>1
<1> DEFINE f == [n \in 0..N |-> k[n][1]]
<1>7. f[0] = <<>>
  BY <1>j, <1>3 DEF Iterates
<1>8. ASSUME NEW n \in 1..N PROVE f[n] = Step(f[n - 1], n)
  <2>1. n \in 0..N /\ n - 1 \in 0..N /\ k[n - 1][2] = n - 1
    BY <1>j, <1>6
  <2>2. k[n] = <<Step(k[n - 1][1], n), n>>
    BY <1>c, <2>1
  <2> QED  BY <2>1, <2>2
<1>9. P(f)
  <2>1. f = [n \in 0..N |-> f[n]]
    OBVIOUS
  <2>2. \A n \in 0..N : f[n] = IF n = 0 THEN <<>> ELSE Step(f[n - 1], n)
    <3> HIDE DEF f
    <3>1. \A n \in 0..N : n = 0 \/ n \in 1..N
      BY <1>j
    <3>2. 0 \notin 1..N
      BY <1>j
    <3> QED  BY <1>7, <1>8, <3>1, <3>2
  <2> HIDE DEF f
  <2> QED  BY <2>1, <2>2 DEF Step
<1>10. P(g)
  <2> HIDE DEF P
  <2> QED  BY <1>9
<1>11. CookiesForUrl(url) = g[N]
  BY DEF CookiesForUrl
<1> HIDE DEF g
<1>12. g[0] = <<>> /\ \A n \in 1..N : g[n] = Step(g[n - 1], n)
  <2>1. \A n \in 0..N : g[n] = IF n = 0 THEN <<>> ELSE Step(g[n - 1], n)
    BY <1>10 DEF Step
  <2>2. 0 \in 0..N /\ \A n \in 1..N : n \in 0..N /\ n # 0
    BY <1>j
  <2> QED  BY <2>1, <2>2
<1> DEFINE W == {n \in Nat : n <= N => Q(g[n], n)}
<1>13. 0 \in W
  BY <1>12, <1>a
<1>14. \A n \in Nat : n \in W => n + 1 \in W
  <2> SUFFICES ASSUME NEW n \in Nat, n \in W, n + 1 <= N PROVE Q(g[n + 1], n + 1)
    OBVIOUS
  <2>1. n + 1 \in 1..N /\ n + 1 - 1 = n /\ Q(g[n], n)
    BY <1>j
  <2>2. g[n + 1] = Step(g[n], n + 1)
    BY <1>12, <2>1
  <2> QED  BY <1>b, <2>1, <2>2
<1>15. N \in W
  <2> HIDE DEF W
  <2> QED  BY <1>13, <1>14, <1>j, Induction
<1>16. Q(g[N], N)
  BY <1>15, <1>j
<1>17. Among(jar, N, T) = T
  <2>1. T \subseteq ToSet(jar)
    BY DEF Due, Live
  <2>2. Among(jar, N, T) = ToSet(jar) \cap T
    BY <1>j, AmongIs
  <2> HIDE DEF T
  <2> QED  BY <2>1, <2>2
<1> QED  BY <1>11, <1>16, <1>17 DEF Q

-----------------------------------------------------------------------------
(* The refinement                                                           *)

\* The jar holds each cookie once, in the order they were set in.
Inv ==
  /\ now \in Nat /\ JarIs
  /\ send \in [Send -> [pc : {"ready", "sent", "done"}, url : Url]]
  /\ header \in [Send -> Seq(Cookies)]

LEMMA EmptyIs == <<>> \in Seq(Cookies) /\ Rising(<<>>) /\ ToSet(<<>>) = {}
<1>1. \A S : <<>> \in Seq(S)
  OBVIOUS
<1>2. Len(<<>>) = 0 /\ DOMAIN <<>> = {}
  OBVIOUS
<1> QED  BY <1>1, <1>2 DEF Rising, ToSet

LEMMA InitInv == Init => Inv
<1> SUFFICES ASSUME Init PROVE Inv
  OBVIOUS
<1>1. JarIs
  BY EmptyIs DEF Init, JarIs, Below
<1>2. send \in [Send -> [pc : {"ready", "sent", "done"}, url : Url]]
  BY DEF Init
<1>3. header \in [Send -> Seq(Cookies)]
  BY EmptyIs DEF Init
<1> QED  BY <1>1, <1>2, <1>3 DEF Init, Inv

LEMMA CompletedIs ==
  ASSUME NEW sc \in SetCookie, NEW url \in Url, NEW value \in Nat, now \in Nat
  PROVE  Completed(sc, url, value) \in Cookies /\ Completed(sc, url, value).value = value
<1>1. sc \in ParsedCookie /\ url \in [secure : BOOLEAN, host : Seq(STRING), path : Seq(STRING)]
  BY JarAssumption
<1>2. DefaultPath(url) \in Seq(STRING)
  <2>1. \A S : <<>> \in Seq(S)
    OBVIOUS
  <2>2. url.path \in Seq(STRING) /\ url.path # <<>> => Front(url.path) \in Seq(STRING)
    BY <1>1 DEF Front
  <2> QED  BY <1>1, <2>1, <2>2 DEF DefaultPath
<1>3. (IF sc.max_age = Never THEN Never ELSE now + sc.max_age) \in Int
  BY <1>1 DEF ParsedCookie, Never
<1>4. /\ (IF sc.domain = NoDomain THEN url.host ELSE sc.domain) \in Seq(STRING)
      /\ (IF sc.path = NoPath THEN DefaultPath(url) ELSE sc.path) \in Seq(STRING)
      /\ sc.name \in STRING /\ sc.secure \in BOOLEAN
  BY <1>1, <1>2 DEF ParsedCookie
<1> QED  BY <1>3, <1>4 DEF Completed, Cookies

\* The cookies of a response are numbered from stored on.
LEMMA AddedIs ==
  ASSUME Inv, NEW url \in Url, NEW n \in Nat, NEW headers \in [1..n -> SetCookie]
  PROVE  Put(AddFromResponse(headers, url), n)
<1> DEFINE s == [i \in DOMAIN headers |-> Completed(headers[i], url, stored + i - 1)]
<1>0. JarIs /\ stored \in Nat /\ now \in Nat
  BY DEF Inv, JarIs
<1>1. ASSUME NEW i \in 1..n
      PROVE  s[i] \in Cookies /\ s[i].value = stored + i - 1
  <2>1. headers[i] \in SetCookie /\ stored + i - 1 \in Nat /\ i \in DOMAIN headers
    BY <1>0
  <2> QED  BY <1>0, <2>1, CompletedIs
<1>2. s = [i \in 1..n |-> s[i]]
  OBVIOUS
<1>3. AddFromResponse(headers, url) = InsertAll(s)
  BY DEF AddFromResponse
<1> HIDE DEF s
<1>4. s \in Seq(Cookies) /\ Len(s) = n
  BY <1>1, <1>2
<1>5. Put(InsertAll(s), Len(s))
  BY <1>0, <1>1, <1>4, InsertAllIs
<1> QED  BY <1>3, <1>4, <1>5

\* What the application's cookie makes of the jar.
LEMMA ReplacedIs ==
  ASSUME Inv, NEW c \in Cookies, c.value = stored, NEW name
  PROVE  LET T == {d \in ToSet(jar) : d.name # name}
             r == Append(Retained(jar, T), c)
         IN  r \in Seq(Cookies) /\ Rising(r) /\ ToSet(r) = T \cup {c} /\ Below(r, stored + 1)
<1> DEFINE T == {d \in ToSet(jar) : d.name # name}
           k == Retained(jar, T)
<1>0. /\ stored \in Nat /\ jar \in Seq(Cookies) /\ Rising(jar) /\ Below(jar, stored)
      /\ \A d \in ToSet(jar) : d.value < stored /\ d.value \in Nat
  <2>1. stored \in Nat /\ jar \in Seq(Cookies) /\ Rising(jar) /\ Below(jar, stored)
    BY DEF Inv, JarIs
  <2>2. \A d \in ToSet(jar) : d \in Cookies
    BY <2>1, ToSetIs
  <2> QED  BY <2>1, <2>2 DEF Below, Cookies
<1>1. k \in Seq(Cookies) /\ Rising(k) /\ ToSet(k) = T
  <2>1. k \in Seq(Cookies) /\ Rising(k) /\ ToSet(k) = ToSet(jar) \cap T
    BY <1>0, RetainedIs
  <2> QED  BY <2>1
<1> HIDE DEF k
<1>2. Below(k, c.value)
  BY <1>0, <1>1 DEF Below
<1>3. Append(k, c) \in Seq(Cookies) /\ Rising(Append(k, c))
  BY <1>1, <1>2, RisingAppend
<1>4. ToSet(Append(k, c)) = T \cup {c}
  BY <1>1, ToSetOfAppend
<1>5. Below(Append(k, c), stored + 1)
  BY <1>0, <1>4 DEF Below
<1> QED  BY <1>3, <1>4, <1>5 DEF k

\* What removing a cookie makes of the jar: it is there once.
LEMMA RemovedIs ==
  ASSUME Inv, NEW i \in 1..Len(jar)
  PROVE  LET r == RemoveAt(jar, i)
         IN  r \in Seq(Cookies) /\ Rising(r) /\ ToSet(r) = ToSet(jar) \ {jar[i]}
<1> DEFINE r == RemoveAt(jar, i)
           N == Len(jar)
<1>0. jar \in Seq(Cookies) /\ Rising(jar) /\ N \in Nat
  BY DEF Inv, JarIs
<1>1. /\ r \in Seq(Cookies) /\ Len(r) = N - 1
      /\ \A k \in 1..N - 1 : r[k] = IF k < i THEN jar[k] ELSE jar[k + 1]
  BY <1>0, RemoveIs
<1> HIDE DEF r
<1>2. \A k \in 1..N : jar[k].value \in Nat
  <2>1. \A k \in 1..N : jar[k] \in Cookies
    BY <1>0
  <2> QED  BY <2>1 DEF Cookies
<1>3. \A k, l \in 1..N : k < l => jar[k].value < jar[l].value
  BY <1>0 DEF Rising
<1>4. \A k \in 1..N : k # i => jar[k] # jar[i]
  <2> TAKE k \in 1..N
  <2>1. k < i \/ k > i \/ k = i
    BY <1>0
  <2> QED  BY <1>2, <1>3, <2>1
<1>5. ASSUME NEW k \in 1..N - 1, NEW l \in 1..N - 1, k < l
      PROVE  r[k].value < r[l].value
  <2>0. k \in 1..N /\ l \in 1..N /\ k + 1 \in 1..N /\ l + 1 \in 1..N
    BY <1>0
  <2>1. CASE l < i
    <3>1. k < i
      BY <1>5, <2>1
    <3>2. r[k] = jar[k] /\ r[l] = jar[l]
      BY <1>1, <2>1, <3>1
    <3> QED  BY <1>3, <1>5, <2>0, <3>2
  <2>2. CASE ~(l < i)
    <3>1. r[l] = jar[l + 1]
      BY <1>1, <2>2
    <3>2. r[k] = jar[k] \/ r[k] = jar[k + 1]
      BY <1>1
    <3>3. k < l + 1 /\ k + 1 < l + 1
      BY <1>5
    <3> QED  BY <1>3, <2>0, <3>1, <3>2, <3>3
  <2> QED  BY <2>1, <2>2
<1>6. Rising(r)
  BY <1>1, <1>5 DEF Rising
<1>7. ToSet(r) = {r[k] : k \in 1..N - 1}
  BY <1>0, <1>1, ToSetIs
<1>8. ToSet(jar) = {jar[k] : k \in 1..N}
  BY <1>0, ToSetIs
<1>9. \A k \in 1..N - 1 : \E l \in 1..N : l # i /\ r[k] = jar[l]
  <2> TAKE k \in 1..N - 1
  <2>1. CASE k < i
    <3>1. k \in 1..N /\ k # i /\ r[k] = jar[k]
      BY <1>0, <1>1, <2>1
    <3> QED  BY <3>1
  <2>2. CASE ~(k < i)
    <3>1. k + 1 \in 1..N /\ k + 1 # i /\ r[k] = jar[k + 1]
      BY <1>0, <1>1, <2>2
    <3> QED  BY <3>1
  <2> QED  BY <2>1, <2>2
<1>10. \A l \in 1..N : l # i => \E k \in 1..N - 1 : r[k] = jar[l]
  <2> SUFFICES ASSUME NEW l \in 1..N, l # i PROVE \E k \in 1..N - 1 : r[k] = jar[l]
    OBVIOUS
  <2>1. CASE l < i
    <3>1. l \in 1..N - 1 /\ r[l] = jar[l]
      BY <1>0, <1>1, <2>1
    <3> QED  BY <3>1
  <2>2. CASE ~(l < i)
    <3>1. l - 1 \in 1..N - 1 /\ ~(l - 1 < i) /\ l - 1 + 1 = l
      BY <1>0, <2>2
    <3>2. r[l - 1] = jar[l]
      BY <1>1, <3>1
    <3> QED  BY <3>1, <3>2
  <2> QED  BY <2>1, <2>2
<1>11. ToSet(r) = ToSet(jar) \ {jar[i]}
  <2>1. ASSUME NEW d \in ToSet(r) PROVE d \in ToSet(jar) /\ d # jar[i]
    <3>1. PICK k \in 1..N - 1 : d = r[k]
      BY <1>7
    <3>2. PICK l \in 1..N : l # i /\ r[k] = jar[l]
      BY <1>9
    <3> QED  BY <1>4, <1>8, <3>1, <3>2
  <2>2. ASSUME NEW d \in ToSet(jar), d # jar[i] PROVE d \in ToSet(r)
    <3>1. PICK l \in 1..N : d = jar[l]
      BY <1>8
    <3>2. PICK k \in 1..N - 1 : r[k] = jar[l]
      BY <1>10, <2>2, <3>1
    <3> QED  BY <1>7, <3>1, <3>2
  <2> QED  BY <2>1, <2>2
<1>12. r \in Seq(Cookies)
  BY <1>1
<1> QED  BY <1>6, <1>11, <1>12 DEF r

\* A request carries what it is due.
LEMMA RequestCarries ==
  ASSUME Inv, NEW s \in Send, Request(s)
  PROVE  Inv' /\ StoreStep
<1> DEFINE url == send[s].url
           list == CookiesForUrl(url)
<1>0. /\ JarIs /\ now \in Nat /\ header \in [Send -> Seq(Cookies)]
      /\ send \in [Send -> [pc : {"ready", "sent", "done"}, url : Url]]
  BY DEF Inv
<1>1. list \in Seq(Cookies) /\ Store!Ordered(list) /\ ToSet(list) = Due(url)
  BY <1>0, CookiesForUrlIs
<1>2. header' = [header EXCEPT ![s] = list] /\ UNCHANGED <<now, jar, stored>>
  BY DEF Request
<1>3. url \in Url
  BY <1>0
<1>4. send' \in [Send -> [pc : {"ready", "sent", "done"}, url : Url]] /\ send' # send
  BY <1>0 DEF Request
<1> HIDE DEF list, url
<1>5. header'[s] = list /\ header' \in [Send -> Seq(Cookies)]
  BY <1>0, <1>1, <1>2
<1>6. list \in Seq(Due(url))
  <2>1. list \in Seq(ToSet(list))
    <3>1. \A k \in 1..Len(list) : list[k] \in ToSet(list)
      BY <1>1, ToSetIs
    <3>2. list = [k \in 1..Len(list) |-> list[k]] /\ Len(list) \in Nat
      BY <1>1
    <3> HIDE DEF ToSet
    <3> QED  BY <3>1, <3>2
  <2> QED  BY <1>1, <2>1
<1>7. Live' = Live
  BY <1>2 DEF Live
<1>8. Store!Carry(s, url)
  <2>1. Store!ToSet(list) = ToSet(list)
    BY DEF Store!ToSet, ToSet
  <2> QED  BY <1>1, <1>2, <1>5, <1>6, <2>1 DEF Store!Carry, Due
<1>9. Store!StepOfSend({c \in ToSet(jar') : c.value >= stored})
  BY <1>2, <1>3, <1>7, <1>8 DEF Store!StepOfSend
<1>10. Inv'
  BY <1>0, <1>2, <1>4, <1>5 DEF Inv, JarIs, Below
<1> QED  BY <1>4, <1>9, <1>10 DEF StoreStep

\* A response stores its cookies, or has none.
LEMMA ResponseStores ==
  ASSUME Inv, NEW s \in Send, Response(s)
  PROVE  Inv' /\ (StoreStep \/ UNCHANGED Store!storeVars)
<1>0. /\ JarIs /\ now \in Nat /\ header \in [Send -> Seq(Cookies)] /\ stored \in Nat
      /\ send \in [Send -> [pc : {"ready", "sent", "done"}, url : Url]]
  BY DEF Inv, JarIs
<1>1. send[s].pc = "sent" /\ UNCHANGED <<now, header>>
  BY DEF Response
<1>2. /\ send' \in [Send -> [pc : {"ready", "sent", "done"}, url : Url]]
      /\ send'[s].pc # "sent"
  <2>1. CASE send' = [send EXCEPT ![s].pc = "done"]
    BY <1>0, <2>1
  <2>2. ASSUME NEW url \in Url, send' = [send EXCEPT ![s] = [pc |-> "ready", url |-> url]]
        PROVE  /\ send' \in [Send -> [pc : {"ready", "sent", "done"}, url : Url]]
               /\ send'[s].pc # "sent"
    BY <1>0, <2>2
  <2> QED  BY <2>1, <2>2 DEF Response
<1>3. send' # send
  BY <1>1, <1>2
<1>4. CASE UNCHANGED <<jar, stored>>
  <2>1. Live' = Live
    BY <1>1, <1>4 DEF Live
  <2>2. UNCHANGED Store!storeVars
    BY <1>1, <1>4, <2>1 DEF Store!storeVars
  <2>3. Inv'
    BY <1>0, <1>1, <1>2, <1>4 DEF Inv, JarIs, Below
  <2> QED  BY <2>2, <2>3
<1>5. CASE ~UNCHANGED <<jar, stored>>
  <2>0. PICK n \in 1..MaxHeaders : \E headers \in [1..n -> SetCookie] :
          jar' = AddFromResponse(headers, send[s].url) /\ stored' = stored + n
    BY <1>5 DEF Response
  <2>1. PICK headers \in [1..n -> SetCookie] :
          jar' = AddFromResponse(headers, send[s].url) /\ stored' = stored + n
    BY <2>0
  <2> DEFINE r == AddFromResponse(headers, send[s].url)
  <2>2. n \in Nat /\ n > 0 /\ send[s].url \in Url
    BY <1>0, JarAssumption
  <2>3. Put(r, n)
    BY <2>2, AddedIs
  <2>4. jar' = r /\ stored' = stored + n
    BY <2>1
  <2> HIDE DEF r
  <2>5. /\ r \in Seq(Cookies) /\ Rising(r) /\ Below(r, stored + n)
        /\ ToSet(r) = {d \in ToSet(jar) : \A c \in New(r) : ~SameCookie(c, d)} \cup New(r)
        /\ \E c \in New(r) : c.value = stored + n - 1
    BY <2>2, <2>3 DEF Put
  <2>6. Inv'
    <3>1. stored' \in Nat /\ jar' \in Seq(Cookies) /\ Rising(jar)' /\ Below(jar, stored)'
      BY <1>0, <2>2, <2>4, <2>5 DEF Rising, Below
    <3> QED  BY <1>0, <1>1, <1>2, <3>1 DEF Inv, JarIs
  <2>7. New(r) = {c \in ToSet(jar') : c.value >= stored}
    BY <2>4 DEF New
  <2>8. /\ \A c, d : Store!Same(c, d) <=> SameCookie(c, d)
        /\ \A c : Store!Lasts(c, now) <=> c.expires = Never \/ c.expires > now
    BY DEF Store!Same, SameCookie, Store!Lasts
  <2>9. Live' = {c \in ToSet(r) : c.expires = Never \/ c.expires > now}
    BY <1>1, <2>4 DEF Live
  <2>10. Live' = {d \in Live : \A c \in New(r) : ~Store!Same(c, d)}
                   \cup {c \in New(r) : Store!Lasts(c, now)}
    BY <2>5, <2>8, <2>9 DEF Live
  <2>11. Store!PutAll(New(r))
    <3>1. PICK c \in New(r) : c.value = stored + n - 1
      BY <2>5
    <3>2. c.value = stored' - 1
      BY <1>0, <2>2, <2>4, <3>1
    <3> QED  BY <2>10, <3>1, <3>2 DEF Store!PutAll
  <2>12. Store!StepOfSend({c \in ToSet(jar') : c.value >= stored})
    BY <1>1, <2>7, <2>11 DEF Store!StepOfSend
  <2> QED  BY <1>3, <2>6, <2>12 DEF StoreStep
<1> QED  BY <1>4, <1>5

\* The application's cookie replaces those of its name, and lasts.
LEMMA InsertByNameStores ==
  ASSUME Inv, NEW sc \in Mine, InsertByName(sc)
  PROVE  Inv' /\ StoreStep
<1> DEFINE c == [name |-> sc.name, value |-> stored, secure |-> sc.secure,
                 domain |-> sc.domain, path |-> sc.path, expires |-> Never]
           T == {d \in ToSet(jar) : d.name # sc.name}
           r == Append(Retained(jar, T), c)
<1>0. stored \in Nat /\ now \in Nat /\ JarIs
  BY DEF Inv, JarIs
<1>1. c \in Cookies /\ c.value = stored /\ c.name = sc.name /\ c.expires = Never
  BY <1>0, JarAssumption DEF ParsedCookie, Cookies, Never
<1>2. jar' = r /\ stored' = stored + 1 /\ UNCHANGED <<now, send, header>>
  BY DEF InsertByName
<1> HIDE DEF c
<1>3. r \in Seq(Cookies) /\ Rising(r) /\ ToSet(r) = T \cup {c} /\ Below(r, stored + 1)
  BY <1>1, ReplacedIs
<1> HIDE DEF r
<1>4. Inv'
  <2>1. stored' \in Nat /\ jar' \in Seq(Cookies) /\ Rising(jar)' /\ Below(jar, stored)'
    BY <1>0, <1>2, <1>3 DEF Rising, Below
  <2> QED  BY <1>2, <2>1 DEF Inv, JarIs
<1>5. {e \in ToSet(jar') : e.value >= stored} = {c}
  <2>1. \A d \in ToSet(jar) : d \in Cookies /\ d.value < stored
    BY <1>0, ToSetIs DEF JarIs, Below
  <2>2. \A d \in T : ~(d.value >= stored)
    BY <1>0, <2>1 DEF Cookies
  <2> QED  BY <1>0, <1>1, <1>2, <1>3, <2>2
<1>6. Live' = {d \in Live : d.name # sc.name} \cup {c}
  BY <1>1, <1>2, <1>3 DEF Live
<1>7. Store!PutByName({c})
  BY <1>1, <1>2, <1>6 DEF Store!PutByName
<1>8. Store!StepOfOthers({e \in ToSet(jar') : e.value >= stored})
  BY <1>2, <1>5, <1>7 DEF Store!StepOfOthers
<1> QED  BY <1>2, <1>4, <1>8 DEF StoreStep

\* One cookie goes, or a dead one does.
LEMMA RemoveByNameDrops ==
  ASSUME Inv, NEW name, RemoveByName(name)
  PROVE  Inv' /\ (StoreStep \/ UNCHANGED Store!storeVars)
<1>0. stored \in Nat /\ now \in Nat /\ JarIs /\ jar \in Seq(Cookies)
  BY DEF Inv, JarIs
<1>1. PICK i \in 1..Len(jar) : jar' = RemoveAt(jar, i)
  BY <1>0 DEF RemoveByName
<1>2. UNCHANGED <<now, send, header, stored>>
  BY DEF RemoveByName
<1> DEFINE r == RemoveAt(jar, i)
           c == jar[i]
<1>3. jar' = r
  BY <1>1
<1>4. r \in Seq(Cookies) /\ Rising(r) /\ ToSet(r) = ToSet(jar) \ {c}
  BY RemovedIs
<1> HIDE DEF r, c
<1>5. Inv'
  <2>1. stored' \in Nat /\ jar' \in Seq(Cookies) /\ Rising(jar)' /\ Below(jar, stored)'
    BY <1>0, <1>2, <1>3, <1>4 DEF Rising, Below, JarIs
  <2> QED  BY <1>2, <2>1 DEF Inv, JarIs
<1>6. Live' = Live \ {c}
  BY <1>2, <1>3, <1>4 DEF Live
<1>7. CASE c \in Live
  <2>1. Store!Drop(c)
    BY <1>6 DEF Store!Drop
  <2>2. Store!StepOfOthers({e \in ToSet(jar') : e.value >= stored})
    BY <1>2, <1>7, <2>1 DEF Store!StepOfOthers
  <2> QED  BY <1>2, <1>5, <2>2 DEF StoreStep
<1>8. CASE c \notin Live
  <2>1. Live' = Live
    BY <1>6, <1>8
  <2> QED  BY <1>2, <1>5, <2>1 DEF Store!storeVars
<1> QED  BY <1>7, <1>8

\* Time takes cookies away.
LEMMA TickPasses ==
  ASSUME Inv, Tick
  PROVE  Inv' /\ StoreStep
<1>0. now \in Nat /\ JarIs
  BY DEF Inv
<1>1. now' = now + 1 /\ UNCHANGED <<jar, send, header, stored>>
  BY DEF Tick
<1>2. Inv'
  BY <1>0, <1>1 DEF Inv, JarIs, Below
<1>3. \A c \in ToSet(jar) : c.expires \in Int
  <2>1. jar \in Seq(Cookies)
    BY <1>0 DEF JarIs
  <2>2. \A c \in ToSet(jar) : c \in Cookies
    BY <2>1, ToSetIs
  <2> QED  BY <2>2 DEF Cookies
<1>4. Live' = {c \in ToSet(jar) : c.expires = Never \/ c.expires > now + 1}
  BY <1>1 DEF Live
<1>5. Live' = {c \in Live : Store!Lasts(c, now + 1)}
  BY <1>0, <1>3, <1>4 DEF Live, Store!Lasts
<1>6. Store!Pass(now + 1)
  BY <1>1, <1>5 DEF Store!Pass
<1>7. Store!StepOfOthers({e \in ToSet(jar') : e.value >= stored})
  BY <1>1, <1>6 DEF Store!StepOfOthers
<1> QED  BY <1>1, <1>2, <1>7 DEF StoreStep

LEMMA NextStores ==
  ASSUME Inv, [Next]_vars
  PROVE  Inv' /\ (StoreStep \/ UNCHANGED Store!storeVars)
<1>1. CASE UNCHANGED vars
  <2>1. UNCHANGED <<now, jar, send, header, stored>>
    BY <1>1 DEF vars
  <2>2. Live' = Live
    BY <2>1 DEF Live
  <2>3. UNCHANGED Store!storeVars
    BY <2>1, <2>2 DEF Store!storeVars
  <2>4. Inv'
    BY <2>1 DEF Inv, JarIs, Below
  <2> QED  BY <2>3, <2>4
<1>2. ASSUME NEW s \in Send, Request(s) PROVE Inv' /\ StoreStep
  BY <1>2, RequestCarries
<1>3. ASSUME NEW s \in Send, Response(s)
      PROVE  Inv' /\ (StoreStep \/ UNCHANGED Store!storeVars)
  BY <1>3, ResponseStores
<1>4. ASSUME NEW sc \in Mine, InsertByName(sc) PROVE Inv' /\ StoreStep
  BY <1>4, InsertByNameStores
<1>5. ASSUME NEW sc \in Mine, RemoveByName(sc.name)
      PROVE  Inv' /\ (StoreStep \/ UNCHANGED Store!storeVars)
  BY <1>5, RemoveByNameDrops
<1>6. CASE Tick
  BY <1>6, TickPasses
<1> QED  BY <1>1, <1>2, <1>3, <1>4, <1>5, <1>6 DEF Next

LEMMA InitStores == Init => Store!Init
<1> SUFFICES ASSUME Init PROVE Store!Init
  OBVIOUS
<1>1. Live = {}
  BY EmptyIs DEF Init, Live
<1> QED  BY <1>1 DEF Init, Store!Init

\* Whatever the sends, the application and time do, in any order and any number, the
\* jar is a store: what a request carries is the live cookies that apply to its URL,
\* the last one of each name, domain and path, in order.
THEOREM JarIsStore == Spec => ActsAsStore
<1>1. Inv /\ [Next]_vars => Inv' /\ [StoreStep]_(Store!storeVars)
  BY NextStores
<1> QED  BY InitInv, InitStores, <1>1, PTL DEF Spec, ActsAsStore
=============================================================================
