---------------------------- MODULE SequenceLaws ----------------------------
(***************************************************************************)
(* Facts about numbers and sequences that the proofs share: induction over *)
(* a set of natural numbers, taken from the least element of a             *)
(* well-founded order, functions defined by recursion, and what            *)
(* FlattenSeq computes.                                                    *)
(***************************************************************************)
EXTENDS Integers, SequencesExt, SequenceTheorems, WellFoundedInduction, TLAPS

-----------------------------------------------------------------------------
(* Induction over the natural numbers, for a set in place of a predicate.  *)

\* Every set of naturals that is not empty has a least element.
LEMMA Least ==
  ASSUME NEW T, T \subseteq Nat, T # {}
  PROVE  \E m \in T : \A k \in T : m <= k
  <1>1. \E R : IsWellFoundedOn(R, Nat) /\ \A x, y \in Nat : x < y => <<x, y>> \in R
    <2> DEFINE Q == OpToRel(<, Nat)
    <2>1. IsWellFoundedOn(Q, Nat)
      BY NatLessThanWellFounded
    <2>2. \A x, y \in Nat : x < y => <<x, y>> \in Q
      BY DEF OpToRel
    <2> HIDE DEF Q
    <2> QED  BY <2>1, <2>2
  <1>2. PICK R : IsWellFoundedOn(R, Nat) /\ \A x, y \in Nat : x < y => <<x, y>> \in R
    BY <1>1
  <1>3. \E x \in T : \A y \in T : ~(<<y, x>> \in R)
    <2>1. IsWellFoundedOn(R, Nat)
      BY <1>2
    <2>2. \A S, U : IsWellFoundedOn(S, Nat) /\ U \subseteq Nat /\ U # {}
            => \E x \in U : \A y \in U : ~(<<y, x>> \in S)
      BY WFMin
    <2> QED  BY <2>1, <2>2, Zenon
  <1>4. PICK m \in T : \A y \in T : ~(<<y, m>> \in R)
    BY <1>3
  <1>5. ASSUME NEW k \in T PROVE m <= k
    <2>1. ~(k < m)
      BY <1>2, <1>4
    <2> QED  BY <2>1
  <1> QED BY <1>5

\* A set with 0 that is closed under the successor has every natural number.
LEMMA SetInduction ==
  ASSUME NEW S, 0 \in S, \A n \in Nat : n \in S => n + 1 \in S
  PROVE  Nat \subseteq S
  <1> DEFINE T == Nat \ S
  <1> SUFFICES ASSUME T # {} PROVE FALSE
    OBVIOUS
  <1>1. PICK m \in T : \A k \in T : m <= k
    BY Least
  <1>2. m # 0 /\ m - 1 \in Nat
    BY <1>1
  <1>3. m - 1 \in S
    BY <1>1, <1>2
  <1> QED BY <1>2, <1>3

\* The least and the greatest element of a set.
LEMMA MinIs ==
  ASSUME NEW T, T \subseteq Nat, T # {}
  PROVE  Min(T) \in T /\ \A k \in T : Min(T) <= k
  BY Least DEF Min

LEMMA MaxIs ==
  ASSUME NEW T, NEW u \in Nat, T \subseteq 0 .. u, T # {}
  PROVE  Max(T) \in T /\ \A k \in T : Max(T) >= k
  <1> DEFINE D == {u - k : k \in T}
  <1>1. D \subseteq Nat /\ D # {}
    <2>1. PICK k \in T : TRUE
      OBVIOUS
    <2>2. u - k \in D
      OBVIOUS
    <2>3. \A x \in T : u - x \in Nat
      OBVIOUS
    <2> QED  BY <2>2, <2>3
  <1>2. PICK d \in D : \A e \in D : d <= e
    BY <1>1, Least
  <1>3. PICK m \in T : d = u - m
    BY <1>2
  <1>4. ASSUME NEW k \in T PROVE m >= k
    <2>1. d <= u - k
      BY <1>2
    <2>2. k \in Int /\ m \in Int
      BY <1>3
    <2> QED  BY <1>3, <2>1, <2>2
  <1> QED  BY <1>3, <1>4 DEF Max

-----------------------------------------------------------------------------
(* Recursion.                                                              *)

\* f starts with a, and g takes a value to the next one, up to n.
Follows(f, a, g, n) == f[0] = a /\ \A i \in 1 .. n : f[i] = g[<<i, f[i - 1]>>]

\* Two such functions agree.
LEMMA FollowsUnique ==
  ASSUME NEW a, NEW g, NEW m \in Nat, NEW n \in Nat, m <= n,
         NEW f, NEW h, Follows(f, a, g, m), Follows(h, a, g, n)
  PROVE  f[m] = h[m]
  <1> DEFINE T == {k \in Nat : k <= m => f[k] = h[k]}
  <1>1. 0 \in T
    BY DEF Follows
  <1>2. ASSUME NEW k \in Nat, k \in T PROVE k + 1 \in T
    <2> SUFFICES ASSUME k + 1 <= m PROVE f[k + 1] = h[k + 1]
      OBVIOUS
    <2>1. k + 1 \in 1 .. m /\ k + 1 \in 1 .. n /\ k + 1 - 1 = k
      OBVIOUS
    <2>2. f[k] = h[k]
      BY <1>2
    <2>3. f[k + 1] = g[<<k + 1, f[k + 1 - 1]>>] /\ h[k + 1] = g[<<k + 1, h[k + 1 - 1]>>]
      BY <2>1 DEF Follows
    <2> QED  BY <2>1, <2>2, <2>3
  <1> HIDE DEF T
  <1>3. Nat \subseteq T
    BY <1>1, <1>2, SetInduction
  <1> QED  BY <1>3 DEF T

\* f does so without an end.
Recurs(f, a, g) == f[0] = a /\ \A i \in Nat \ {0} : f[i] = g[<<i, f[i - 1]>>]

\* Functions can be defined by recursion.
LEMMA RecursionExists ==
  ASSUME NEW S, NEW a \in S, NEW g \in [Nat \X S -> S]
  PROVE  \E f \in [Nat -> S] : Recurs(f, a, g)
  <1> DEFINE T == {n \in Nat : \E f \in [0 .. n -> S] : Follows(f, a, g, n)}
  <1>1. 0 \in T
    <2>1. [i \in 0 .. 0 |-> a] \in [0 .. 0 -> S] /\ Follows([i \in 0 .. 0 |-> a], a, g, 0)
      BY DEF Follows
    <2> QED  BY <2>1
  <1>2. ASSUME NEW n \in Nat, n \in T PROVE n + 1 \in T
    <2>1. PICK f \in [0 .. n -> S] : Follows(f, a, g, n)
      BY <1>2
    <2> DEFINE h == [i \in 0 .. n + 1 |-> IF i = n + 1 THEN g[<<n + 1, f[n]>>] ELSE f[i]]
    <2>2. h \in [0 .. n + 1 -> S]
      <3>1. g[<<n + 1, f[n]>>] \in S
        OBVIOUS
      <3> QED  BY <3>1
    <2>3. h[0] = a
      BY <2>1 DEF Follows
    <2>4. ASSUME NEW i \in 1 .. n + 1 PROVE h[i] = g[<<i, h[i - 1]>>]
      <3>1. CASE i = n + 1
        <4>1. i - 1 = n /\ h[i - 1] = f[n] /\ h[i] = g[<<n + 1, f[n]>>]
          BY <3>1
        <4> QED  BY <3>1, <4>1
      <3>2. CASE i # n + 1
        <4>1. i \in 1 .. n /\ h[i] = f[i] /\ h[i - 1] = f[i - 1]
          BY <3>2
        <4> QED  BY <4>1, <2>1 DEF Follows
      <3> QED  BY <3>1, <3>2
    <2>5. Follows(h, a, g, n + 1)
      BY <2>3, <2>4 DEF Follows
    <2> QED  BY <2>2, <2>5
  <1>3. Nat \subseteq T
    <2> HIDE DEF T
    <2> QED  BY <1>1, <1>2, SetInduction
  <1> DEFINE A(n) == CHOOSE f \in [0 .. n -> S] : Follows(f, a, g, n)
             F == [n \in Nat |-> A(n)[n]]
  <1>4. ASSUME NEW n \in Nat PROVE A(n) \in [0 .. n -> S] /\ Follows(A(n), a, g, n)
    BY <1>3
  <1> HIDE DEF A, T
  <1>5. F \in [Nat -> S]
    BY <1>4
  <1>6. F[0] = a
    BY <1>4 DEF Follows
  <1>7. ASSUME NEW i \in Nat \ {0} PROVE F[i] = g[<<i, F[i - 1]>>]
    <2>1. i - 1 \in Nat /\ i \in Nat /\ i \in 1 .. i
      OBVIOUS
    <2>2. A(i)[i] = g[<<i, A(i)[i - 1]>>]
      BY <1>4, <2>1 DEF Follows
    <2>3. A(i - 1)[i - 1] = A(i)[i - 1]
      <3>1. Follows(A(i), a, g, i) /\ Follows(A(i - 1), a, g, i - 1) /\ i - 1 <= i
        BY <1>4, <2>1
      <3> QED  BY <3>1, <2>1, FollowsUnique
    <2> QED  BY <2>1, <2>2, <2>3
  <1>8. Recurs(F, a, g)
    BY <1>6, <1>7 DEF Recurs
  <1> QED  BY <1>5, <1>8

\* A loop of n turns.
LEMMA LoopExists ==
  ASSUME NEW S, NEW a \in S, NEW n \in Nat, NEW g \in [Nat \X S -> S]
  PROVE  \E f \in [0 .. n -> S] : Follows(f, a, g, n)
  <1>1. PICK f \in [Nat -> S] : Recurs(f, a, g)
    BY RecursionExists
  <1> DEFINE h == [i \in 0 .. n |-> f[i]]
  <1>2. h \in [0 .. n -> S] /\ h[0] = a
    BY <1>1 DEF Recurs
  <1>3. ASSUME NEW i \in 1 .. n PROVE h[i] = g[<<i, h[i - 1]>>]
    <2>1. i \in Nat \ {0} /\ i \in 0 .. n /\ i - 1 \in 0 .. n
      OBVIOUS
    <2>2. f[i] = g[<<i, f[i - 1]>>]
      BY <1>1, <2>1 DEF Recurs
    <2> QED  BY <2>1, <2>2
  <1> HIDE DEF h
  <1> QED  BY <1>2, <1>3 DEF Follows

\* So can functions whose value at n is made from that at a smaller number d[n].
Courses(f, a, d, g) == f[0] = a /\ \A n \in Nat \ {0} : f[n] = g[<<n, f[d[n]]>>]

LEMMA CourseExists ==
  ASSUME NEW S, NEW a \in S, NEW d \in [Nat -> Nat], \A n \in Nat \ {0} : d[n] < n,
         NEW g \in [Nat \X S -> S]
  PROVE  \E f \in [Nat -> S] : Courses(f, a, d, g)
  <1> DEFINE H == [Nat -> S]
             a0 == [n \in Nat |-> a]
             Next1(n, h) == [m \in Nat |-> IF m = n THEN g[<<n, h[d[n]]>>] ELSE h[m]]
             G == [p \in Nat \X H |-> Next1(p[1], p[2])]
  <1>1. a0 \in H
    OBVIOUS
  <1>2. ASSUME NEW n \in Nat, NEW h \in H PROVE Next1(n, h) \in H
    <2>1. g[<<n, h[d[n]]>>] \in S
      OBVIOUS
    <2> QED  BY <2>1
  <1>3. G \in [Nat \X H -> H]
    <2> HIDE DEF H, Next1
    <2> QED  BY <1>2
  <1>4. PICK h \in [Nat -> H] : Recurs(h, a0, G)
    <2> HIDE DEF H, G, a0
    <2>1. \E h \in [Nat -> H] : Recurs(h, a0, G)
      BY <1>1, <1>3, RecursionExists
    <2> QED  BY <2>1
  <1>5. ASSUME NEW n \in Nat \ {0} PROVE n - 1 \in Nat /\ h[n] = Next1(n, h[n - 1])
    <2>1. n - 1 \in Nat /\ h[n - 1] \in H
      BY <1>4
    <2>2. h[n] = G[<<n, h[n - 1]>>]
      BY <1>4 DEF Recurs
    <2> HIDE DEF H, Next1
    <2> QED  BY <2>1, <2>2
  <1> DEFINE T == {k \in Nat : \A n \in 0 .. k : h[k][n] = h[n][n]}
  <1>6. 0 \in T
    OBVIOUS
  <1>7. ASSUME NEW k \in Nat, k \in T PROVE k + 1 \in T
    <2> SUFFICES ASSUME NEW n \in 0 .. k + 1 PROVE h[k + 1][n] = h[n][n]
      OBVIOUS
    <2>1. CASE n = k + 1
      BY <2>1
    <2>2. CASE n # k + 1
      <3>1. k + 1 \in Nat \ {0} /\ k + 1 - 1 = k /\ n \in 0 .. k
        BY <2>2
      <3>2. h[k + 1] = Next1(k + 1, h[k])
        BY <1>5, <3>1
      <3>3. h[k + 1][n] = h[k][n]
        BY <2>2, <3>1, <3>2
      <3> QED  BY <1>7, <3>1, <3>3
    <2> QED  BY <2>1, <2>2
  <1>8. Nat \subseteq T
    <2> HIDE DEF T
    <2> QED  BY <1>6, <1>7, SetInduction
  <1> DEFINE f == [n \in Nat |-> h[n][n]]
  <1>9. f \in [Nat -> S]
    BY <1>4
  <1>10. f[0] = a
    <2>1. h[0] = a0
      BY <1>4 DEF Recurs
    <2> QED  BY <2>1
  <1>11. ASSUME NEW n \in Nat \ {0} PROVE f[n] = g[<<n, f[d[n]]>>]
    <2>1. n - 1 \in Nat /\ d[n] \in Nat /\ d[n] \in 0 .. n - 1
      OBVIOUS
    <2>2. h[n - 1][d[n]] = h[d[n]][d[n]]
      BY <1>8, <2>1
    <2>3. h[n][n] = g[<<n, h[n - 1][d[n]]>>]
      BY <1>5
    <2>4. f[n] = h[n][n] /\ f[d[n]] = h[d[n]][d[n]]
      BY <2>1
    <2> HIDE DEF f
    <2> QED  BY <2>2, <2>3, <2>4
  <1> HIDE DEF f
  <1>12. Courses(f, a, d, g)
    BY <1>10, <1>11 DEF Courses
  <1> QED  BY <1>9, <1>12

\* A set that has a number when it has all smaller ones has every natural number.
LEMMA StrongInduction ==
  ASSUME NEW S, \A n \in Nat : (\A m \in 0 .. n - 1 : m \in S) => n \in S
  PROVE  Nat \subseteq S
  <1> DEFINE T == Nat \ S
  <1> SUFFICES ASSUME T # {} PROVE FALSE
    OBVIOUS
  <1>1. T \subseteq Nat
    OBVIOUS
  <1>2. PICK n \in T : \A k \in T : n <= k
    BY <1>1, Least
  <1>3. ASSUME NEW m \in 0 .. n - 1 PROVE m \in S
    <2>1. m \in Nat /\ n \in Nat /\ ~(n <= m)
      BY <1>2
    <2> QED  BY <1>2, <2>1
  <1> QED  BY <1>2, <1>3

-----------------------------------------------------------------------------
(* Putting sequences together.                                             *)

LEMMA Associative ==
  ASSUME NEW S, NEW s \in Seq(S), NEW t \in Seq(S), NEW u \in Seq(S)
  PROVE  (s \o t) \o u = s \o (t \o u)
  OBVIOUS

\* Two elements to the front, and nothing into the middle.
LEMMA HeadSplit ==
  ASSUME NEW S, NEW a \in S, NEW b \in S, NEW s \in Seq(S), NEW t \in Seq(S)
  PROVE  <<a>> \o (<<b>> \o s) \o t = <<a, b>> \o s \o <<>> \o t
  <1>1. <<a>> \in Seq(S) /\ <<b>> \in Seq(S) /\ <<a, b>> \in Seq(S)
    OBVIOUS
  <1>2. <<a>> \o (<<b>> \o s) = <<a, b>> \o s
    <2>1. <<a>> \o <<b>> = <<a, b>>
      <3>1. Len(<<a>> \o <<b>>) = 2 /\ Len(<<a, b>>) = 2 /\ <<a>> \o <<b>> \in Seq(S)
        BY <1>1
      <3>2. (<<a>> \o <<b>>)[1] = a /\ (<<a>> \o <<b>>)[2] = b
        OBVIOUS
      <3>3. <<a, b>>[1] = a /\ <<a, b>>[2] = b
        OBVIOUS
      <3>4. \A i \in 1 .. 2 : (<<a>> \o <<b>>)[i] = <<a, b>>[i]
        BY <3>2, <3>3
      <3> QED  BY <1>1, <3>1, <3>4, SeqEqual
    <2>2. (<<a>> \o <<b>>) \o s = <<a>> \o (<<b>> \o s)
      BY <1>1, Associative
    <2> QED  BY <2>1, <2>2
  <1> DEFINE u == <<a, b>> \o s
  <1>3. u \in Seq(S)
    BY <1>1
  <1> HIDE DEF u
  <1>4. u \o <<>> = u
    BY <1>3
  <1> QED  BY <1>2, <1>4 DEF u

-----------------------------------------------------------------------------
(* FlattenSeq.                                                             *)

\* f is FlattenSeq's function up to n.
Flattens(f, ss, n) ==
  f = [i \in 1 .. n |-> IF i = 1 THEN ss[i] ELSE f[i - 1] \o ss[i]]

\* The equation of such a function, at one place.
LEMMA FlattensAt ==
  ASSUME NEW f, NEW ss, NEW n, Flattens(f, ss, n), NEW i \in 1 .. n
  PROVE  f[i] = IF i = 1 THEN ss[i] ELSE f[i - 1] \o ss[i]
  BY DEF Flattens

\* There is one, ...
LEMMA FlattensExists ==
  ASSUME NEW ss
  PROVE  \A n \in Nat : \E f : Flattens(f, ss, n)
  <1> DEFINE S == {n \in Nat : \E f : Flattens(f, ss, n)}
  <1>1. 0 \in S
    <2>1. Flattens([i \in 1 .. 0 |-> ss[i]], ss, 0)
      BY DEF Flattens
    <2> QED  BY <2>1
  <1>2. ASSUME NEW n \in Nat, n \in S PROVE n + 1 \in S
    <2>1. PICK f : Flattens(f, ss, n)
      BY <1>2
    <2> DEFINE g == [i \in 1 .. n + 1 |-> IF i = n + 1
                       THEN IF i = 1 THEN ss[i] ELSE f[n] \o ss[i] ELSE f[i]]
    <2>2. \A i \in 1 .. n + 1 : g[i] = IF i = 1 THEN ss[i] ELSE g[i - 1] \o ss[i]
      <3> SUFFICES ASSUME NEW i \in 1 .. n + 1
                   PROVE  g[i] = IF i = 1 THEN ss[i] ELSE g[i - 1] \o ss[i]
        OBVIOUS
      <3>1. CASE i = n + 1
        <4>1. i # 1 => i - 1 \in 1 .. n + 1 /\ g[i - 1] = f[n]
          BY <3>1
        <4> QED  BY <3>1, <4>1
      <3>2. CASE i # n + 1
        <4>1. i \in 1 .. n /\ g[i] = f[i] /\ (i # 1 => g[i - 1] = f[i - 1])
          BY <3>2
        <4>2. f[i] = IF i = 1 THEN ss[i] ELSE f[i - 1] \o ss[i]
          BY <2>1, <4>1 DEF Flattens
        <4> QED  BY <4>1, <4>2
      <3> QED  BY <3>1, <3>2
    <2>3. Flattens(g, ss, n + 1)
      BY <2>2 DEF Flattens
    <2> QED  BY <2>3
  <1> HIDE DEF S
  <1>3. Nat \subseteq S
    BY <1>1, <1>2, SetInduction
  <1> QED  BY <1>3 DEF S

\* s and t have the same first n elements.
Agree(s, t, n) == \A i \in 1 .. n : s[i] = t[i]

\* ... and only one, which the first n elements of ss decide.
LEMMA FlattensUnique ==
  ASSUME NEW ss, NEW tt, NEW n \in Nat, NEW m \in Nat, n <= m,
         Agree(ss, tt, n), NEW f, NEW g, Flattens(f, ss, n), Flattens(g, tt, m)
  PROVE  Agree(f, g, n)
  <1> DEFINE S == {k \in Nat : k \in 1 .. n => f[k] = g[k]}
  <1>1. 0 \in S
    OBVIOUS
  <1>2. ASSUME NEW k \in Nat, k \in S PROVE k + 1 \in S
    <2> SUFFICES ASSUME k + 1 \in 1 .. n PROVE f[k + 1] = g[k + 1]
      OBVIOUS
    <2>1. f[k + 1] = IF k + 1 = 1 THEN ss[k + 1] ELSE f[k + 1 - 1] \o ss[k + 1]
      BY FlattensAt
    <2>2. g[k + 1] = IF k + 1 = 1 THEN tt[k + 1] ELSE g[k + 1 - 1] \o tt[k + 1]
      <3>1. k + 1 \in 1 .. m
        OBVIOUS
      <3> QED  BY <3>1, FlattensAt
    <2>3. k + 1 - 1 = k /\ tt[k + 1] = ss[k + 1] /\ (k + 1 # 1 => f[k] = g[k])
      BY <1>2 DEF Agree
    <2> QED  BY <2>1, <2>2, <2>3
  <1> HIDE DEF S
  <1>3. Nat \subseteq S
    BY <1>1, <1>2, SetInduction
  <1> QED  BY <1>3 DEF S, Agree

\* FlattenSeq, without its CHOOSE.
LEMMA FlattenIs ==
  ASSUME NEW S, NEW ss \in Seq(S), ss # <<>>
  PROVE  \E f : Flattens(f, ss, Len(ss)) /\ FlattenSeq(ss) = f[Len(ss)]
  <1> DEFINE f == CHOOSE f : Flattens(f, ss, Len(ss))
  <1>1. Len(ss) \in Nat /\ Len(ss) # 0
    OBVIOUS
  <1>2. \E h : Flattens(h, ss, Len(ss))
    BY <1>1, FlattensExists
  <1>3. Flattens(f, ss, Len(ss))
    BY <1>2
  <1>4. FlattenSeq(ss) = f[Len(ss)]
    BY <1>1 DEF FlattenSeq, Flattens
  <1> QED  BY <1>3, <1>4

\* Nothing put together.
LEMMA FlattenEmpty == FlattenSeq(<<>>) = <<>>
  BY DEF FlattenSeq

\* Sequences over S put together are a sequence over S.
LEMMA FlattenType ==
  ASSUME NEW S, NEW ss \in Seq(Seq(S))
  PROVE  FlattenSeq(ss) \in Seq(S)
  <1>1. CASE ss = <<>>
    <2>1. FlattenSeq(ss) = <<>>
      BY <1>1, FlattenEmpty
    <2> QED  BY <2>1
  <1>2. CASE ss # <<>>
    <2>1. PICK f : Flattens(f, ss, Len(ss)) /\ FlattenSeq(ss) = f[Len(ss)]
      BY <1>2, FlattenIs
    <2> DEFINE T == {k \in Nat : k \in 1 .. Len(ss) => f[k] \in Seq(S)}
    <2>2. 0 \in T
      OBVIOUS
    <2>3. ASSUME NEW k \in Nat, k \in T PROVE k + 1 \in T
      <3> SUFFICES ASSUME k + 1 \in 1 .. Len(ss) PROVE f[k + 1] \in Seq(S)
        OBVIOUS
      <3>1. f[k + 1] = IF k + 1 = 1 THEN ss[k + 1] ELSE f[k + 1 - 1] \o ss[k + 1]
        BY <2>1, FlattensAt
      <3>2. ss[k + 1] \in Seq(S) /\ k + 1 - 1 = k /\ (k + 1 # 1 => f[k] \in Seq(S))
        BY <2>3
      <3> QED  BY <3>1, <3>2
    <2> HIDE DEF T
    <2>4. Nat \subseteq T
      BY <2>2, <2>3, SetInduction
    <2>5. Len(ss) \in Nat /\ Len(ss) \in 1 .. Len(ss)
      BY <1>2
    <2> QED  BY <2>1, <2>4, <2>5 DEF T
  <1> QED  BY <1>1, <1>2

\* The law the proofs below use: one more sequence goes to the end.
LEMMA FlattenAppend ==
  ASSUME NEW S, NEW ss \in Seq(Seq(S)), NEW x \in Seq(S)
  PROVE  FlattenSeq(Append(ss, x)) = FlattenSeq(ss) \o x
  <1> DEFINE n == Len(ss)
             tt == Append(ss, x)
  <1>1. /\ tt \in Seq(Seq(S)) /\ tt # <<>> /\ Len(tt) = n + 1 /\ n \in Nat
        /\ tt[n + 1] = x /\ \A i \in 1 .. n : tt[i] = ss[i]
    <2> DEFINE Z == Seq(S)
    <2>1. ss \in Seq(Z) /\ x \in Z
      OBVIOUS
    <2> HIDE DEF Z
    <2>2. /\ tt \in Seq(Z) /\ tt # <<>> /\ Len(tt) = n + 1 /\ n \in Nat
          /\ tt[n + 1] = x /\ \A i \in 1 .. n : tt[i] = ss[i]
      BY <2>1
    <2> QED  BY <2>2 DEF Z
  <1>2. PICK g : Flattens(g, tt, Len(tt)) /\ FlattenSeq(tt) = g[Len(tt)]
    BY <1>1, FlattenIs
  <1> HIDE DEF tt
  <1>3. g[n + 1] = IF n + 1 = 1 THEN tt[n + 1] ELSE g[n + 1 - 1] \o tt[n + 1]
    BY <1>1, <1>2, FlattensAt
  <1>4. CASE ss = <<>>
    BY <1>1, <1>2, <1>3, <1>4, FlattenEmpty DEF tt
  <1>5. CASE ss # <<>>
    <2>1. PICK f : Flattens(f, ss, n) /\ FlattenSeq(ss) = f[n]
      BY <1>5, FlattenIs
    <2>2. n \in 1 .. n
      BY <1>5
    <2>3. f[n] = g[n]
      <3>1. n + 1 \in Nat /\ n <= n + 1 /\ Flattens(g, tt, n + 1)
        BY <1>1, <1>2
      <3> HIDE DEF n
      <3>2. Agree(ss, tt, n)
        BY <1>1 DEF Agree
      <3>3. Agree(f, g, n)
        BY <1>1, <2>1, <3>1, <3>2, FlattensUnique
      <3> QED  BY <2>2, <3>3 DEF Agree
    <2>4. n + 1 # 1 /\ n + 1 - 1 = n
      BY <2>2
    <2> QED  BY <1>1, <1>2, <1>3, <2>1, <2>3, <2>4 DEF tt
  <1> QED  BY <1>4, <1>5

\* One more sequence goes to the front.
LEMMA FlattenPush ==
  ASSUME NEW S, NEW ss \in Seq(Seq(S)), NEW x \in Seq(S)
  PROVE  FlattenSeq(<<x>> \o ss) = x \o FlattenSeq(ss)
  <1> DEFINE P(n) == \A tt \in Seq(Seq(S)) : Len(tt) = n =>
                       FlattenSeq(<<x>> \o tt) = x \o FlattenSeq(tt)
             T == {n \in Nat : P(n)}
  <1>1. 0 \in T
    <2> SUFFICES ASSUME NEW tt \in Seq(Seq(S)), Len(tt) = 0
                 PROVE FlattenSeq(<<x>> \o tt) = x \o FlattenSeq(tt)
      OBVIOUS
    <2>1. tt = <<>>
      OBVIOUS
    <2>2. <<x>> \o tt = Append(<<>>, x) /\ <<>> \in Seq(Seq(S))
      BY <2>1
    <2>3. FlattenSeq(<<x>> \o tt) = <<>> \o x
      BY <2>2, FlattenAppend, FlattenEmpty
    <2> QED  BY <2>1, <2>3, FlattenEmpty
  <1>2. ASSUME NEW n \in Nat, n \in T PROVE n + 1 \in T
    <2>p. P(n)
      BY <1>2
    <2> SUFFICES P(n + 1)
      <3> HIDE DEF P
      <3> QED  OBVIOUS
    <2> SUFFICES ASSUME NEW tt \in Seq(Seq(S)), Len(tt) = n + 1
                 PROVE FlattenSeq(<<x>> \o tt) = x \o FlattenSeq(tt)
      OBVIOUS
    <2> DEFINE uu == SubSeq(tt, 1, n)
               y == tt[n + 1]
    <2>1. uu \in Seq(Seq(S)) /\ Len(uu) = n /\ y \in Seq(S) /\ tt = Append(uu, y)
      <3> DEFINE Z == Seq(S)
      <3>1. tt \in Seq(Z)
        OBVIOUS
      <3> HIDE DEF Z
      <3>2. SubSeq(tt, 1, n) \in Seq(Z) /\ Len(SubSeq(tt, 1, n)) = n /\ tt[n + 1] \in Z
            /\ tt = Append(SubSeq(tt, 1, n), tt[n + 1])
        BY <3>1
      <3> QED  BY <3>2 DEF Z
    <2> HIDE DEF uu, y
    <2>2. <<x>> \o uu \in Seq(Seq(S)) /\ <<x>> \o tt = Append(<<x>> \o uu, y)
      <3> DEFINE Z == Seq(S)
      <3>1. uu \in Seq(Z) /\ x \in Z /\ y \in Z
        BY <2>1
      <3> HIDE DEF Z
      <3>2. <<x>> \o uu \in Seq(Z) /\ <<x>> \o Append(uu, y) = Append(<<x>> \o uu, y)
        BY <3>1
      <3> QED  BY <3>2, <2>1 DEF Z
    <2>3. FlattenSeq(<<x>> \o tt) = FlattenSeq(<<x>> \o uu) \o y
      BY <2>1, <2>2, FlattenAppend
    <2>4. FlattenSeq(<<x>> \o uu) = x \o FlattenSeq(uu)
      BY <2>p, <2>1
    <2>5. FlattenSeq(tt) = FlattenSeq(uu) \o y
      BY <2>1, FlattenAppend
    <2>6. FlattenSeq(uu) \in Seq(S)
      BY <2>1, FlattenType
    <2>7. (x \o FlattenSeq(uu)) \o y = x \o (FlattenSeq(uu) \o y)
      BY <2>1, <2>6
    <2> QED  BY <2>3, <2>4, <2>5, <2>7
  <1> HIDE DEF T
  <1>3. Nat \subseteq T
    BY <1>1, <1>2, SetInduction
  <1>4. Len(ss) \in Nat
    OBVIOUS
  <1> QED  BY <1>3, <1>4 DEF T

\* The first i sequences put together.
FrontOf(ss, i) == FlattenSeq(SubSeq(ss, 1, i))

LEMMA FrontType ==
  ASSUME NEW S, NEW ss \in Seq(Seq(S)), NEW i \in 0 .. Len(ss)
  PROVE  FrontOf(ss, i) \in Seq(S)
  <1>1. SubSeq(ss, 1, i) \in Seq(Seq(S))
    <2> DEFINE Z == Seq(S)
    <2>1. ss \in Seq(Z)
      OBVIOUS
    <2> HIDE DEF Z
    <2>2. SubSeq(ss, 1, i) \in Seq(Z)
      BY <2>1
    <2> QED  BY <2>2 DEF Z
  <1> QED  BY <1>1, FlattenType DEF FrontOf

LEMMA FrontStep ==
  ASSUME NEW S, NEW ss \in Seq(Seq(S)), NEW i \in 1 .. Len(ss)
  PROVE  FrontOf(ss, i) = FrontOf(ss, i - 1) \o ss[i]
  <1> DEFINE Z == Seq(S)
             t == SubSeq(ss, 1, i - 1)
  <1>1. ss \in Seq(Z)
    OBVIOUS
  <1> HIDE DEF Z
  <1>2. t \in Seq(Z) /\ ss[i] \in Z /\ SubSeq(ss, 1, i) = Append(t, ss[i])
    <2>1. i - 1 \in Nat /\ i - 1 < Len(ss) /\ Len(ss) \in Nat
      BY <1>1
    <2>2. t \in Seq(Z) /\ Len(t) = i - 1 /\ \A k \in 1 .. i - 1 : t[k] = ss[k]
      BY <1>1, <2>1
    <2>3. ss[i] \in Z
      BY <1>1
    <2> DEFINE a == SubSeq(ss, 1, i)
               b == Append(t, ss[i])
    <2>4. a \in Seq(Z) /\ Len(a) = i /\ \A k \in 1 .. i : a[k] = ss[k]
      BY <1>1, <2>1
    <2> HIDE DEF t
    <2>5. b \in Seq(Z) /\ Len(b) = i /\ b[i] = ss[i] /\ \A k \in 1 .. i - 1 : b[k] = t[k]
      BY <2>1, <2>2, <2>3
    <2>6. ASSUME NEW k \in 1 .. i PROVE a[k] = b[k]
      <3>1. k = i \/ k \in 1 .. i - 1
        BY <2>1
      <3> HIDE DEF a, b
      <3> QED  BY <2>2, <2>4, <2>5, <3>1
    <2> HIDE DEF a, b
    <2>7. a = b
      BY <2>4, <2>5, <2>6, SeqEqual
    <2> QED  BY <2>2, <2>3, <2>7 DEF a, b
  <1>3. FlattenSeq(Append(t, ss[i])) = FlattenSeq(t) \o ss[i]
    BY <1>2, FlattenAppend DEF Z
  <1> QED  BY <1>2, <1>3 DEF FrontOf

\* a is the beginning of b, place by place.
Heads(a, b) == Len(a) <= Len(b) /\ \A q \in 1 .. Len(a) : b[q] = a[q]

LEMMA ConcatHeads ==
  ASSUME NEW S, NEW s \in Seq(S), NEW t \in Seq(S)
  PROVE  Heads(s, s \o t)
  BY DEF Heads

\* Fewer sequences put together are the beginning of more.
LEMMA FrontHeads ==
  ASSUME NEW S, NEW ss \in Seq(Seq(S)), NEW i \in 0 .. Len(ss), NEW k \in i .. Len(ss)
  PROVE  Heads(FrontOf(ss, i), FrontOf(ss, k))
  <1> DEFINE F(m) == FrontOf(ss, m)
             T == {d \in Nat : i + d <= Len(ss) => Heads(F(i), F(i + d))}
  <1>0. Len(ss) \in Nat /\ i \in Nat
    OBVIOUS
  <1>1. 0 \in T
    BY <1>0 DEF Heads
  <1>2. ASSUME NEW d \in Nat, d \in T PROVE d + 1 \in T
    <2> SUFFICES ASSUME i + (d + 1) <= Len(ss) PROVE Heads(F(i), F(i + (d + 1)))
      OBVIOUS
    <2> DEFINE j == i + (d + 1)
    <2>1. j \in 1 .. Len(ss) /\ j - 1 = i + d /\ i + d <= Len(ss) /\ i + d \in 0 .. Len(ss)
      BY <1>0
    <2>2. Heads(F(i), F(i + d))
      BY <1>2, <2>1
    <2> HIDE DEF j
    <2>3. F(j) = F(j - 1) \o ss[j] /\ ss[j] \in Seq(S)
      <3>1. F(j) = F(j - 1) \o ss[j]
        BY <2>1, FrontStep
      <3> DEFINE Z == Seq(S)
      <3>2. ss \in Seq(Z)
        OBVIOUS
      <3> HIDE DEF Z
      <3>3. ss[j] \in Z
        BY <2>1, <3>2
      <3> QED  BY <3>1, <3>3 DEF Z
    <2>4. F(i) \in Seq(S) /\ F(j - 1) \in Seq(S) /\ F(j) \in Seq(S)
      <3>1. j - 1 \in 0 .. Len(ss) /\ j \in 0 .. Len(ss)
        BY <2>1
      <3> QED  BY <3>1, FrontType
    <2> HIDE DEF F
    <2>5. Heads(F(j - 1), F(j - 1) \o ss[j])
      BY <2>3, <2>4, ConcatHeads
    <2>6. Heads(F(i), F(j))
      <3> DEFINE a == F(i)
                 b == F(j - 1)
                 c == F(j)
      <3>1. Heads(a, b) /\ Heads(b, c)
        BY <2>1, <2>2, <2>3, <2>5
      <3>2. Len(a) \in Nat /\ Len(b) \in Nat /\ Len(c) \in Nat
        BY <2>4
      <3> HIDE DEF a, b, c
      <3>3. Heads(a, c)
        BY <3>1, <3>2 DEF Heads
      <3> QED  BY <3>3 DEF a, c
    <2> QED  BY <2>6 DEF j
  <1> HIDE DEF T
  <1>3. Nat \subseteq T
    BY <1>1, <1>2, SetInduction
  <1>4. k - i \in Nat /\ i + (k - i) = k /\ k <= Len(ss)
    BY <1>0
  <1>5. k - i \in T
    BY <1>3, <1>4
  <1> QED  BY <1>4, <1>5 DEF T
=============================================================================
