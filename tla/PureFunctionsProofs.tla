------------------------- MODULE PureFunctionsProofs -------------------------
(***************************************************************************)
(* Proofs about PureFunctions: numbers, arguments and base64, for every    *)
(* number, argument and byte string.                                       *)
(***************************************************************************)
EXTENDS PureFunctions, FrameStreamProofs

-----------------------------------------------------------------------------
(* The digits of a number.                                                 *)

\* f is the loop that takes the digits off a number.
TakesOff(f, base) ==
  /\ f[0] = <<>>
  /\ \A n \in Nat \ {0} : f[n] = <<Digit(n % base)>> \o f[n \div base]

LEMMA DivDown ==
  ASSUME NEW base \in 2 .. 16, NEW n \in Nat
  PROVE  /\ n \div base \in Nat /\ (n # 0 => n \div base < n)
         /\ n % base \in 0 .. base - 1 /\ n = (n \div base) * base + (n % base)
  OBVIOUS

LEMMA DigitType ==
  ASSUME NEW d \in 0 .. 15
  PROVE  /\ Digit(d) \in Bytes /\ (d < 10 => Digit(d) \in Digits /\ Digit(d) - Zero = d)
         /\ (d >= 10 => Digit(d) \notin Digits /\ Digit(d) - 87 = d)
         /\ (d # 0 => Digit(d) # Zero)
  BY DEF Digit, Bytes, Digits, Zero

LEMMA LowFirstIs ==
  ASSUME NEW base \in 2 .. 16
  PROVE  \E f : /\ TakesOff(f, base) /\ \A n \in Nat : LowFirst(n, base) = f[n]
  <1> DEFINE Z == Seq(Bytes)
             d == [n \in Nat |-> n \div base]
             g == [p \in Nat \X Z |-> <<Digit(p[1] % base)>> \o p[2]]
             Def(f) == f = [m \in Nat |-> IF m = 0 THEN <<>>
                                          ELSE <<Digit(m % base)>> \o f[m \div base]]
  <1>1. d \in [Nat -> Nat] /\ \A n \in Nat \ {0} : d[n] < n
    BY DivDown
  <1>0. <<>> \in Z
    OBVIOUS
  <1>2. g \in [Nat \X Z -> Z]
    <2>1. ASSUME NEW n \in Nat, NEW s \in Z PROVE <<Digit(n % base)>> \o s \in Z
      <3>1. n % base \in 0 .. 15
        BY DivDown
      <3>2. Digit(n % base) \in Bytes
        BY <3>1, DigitType
      <3> QED  BY <3>2
    <2> HIDE DEF Z
    <2> QED  BY <2>1
  <1>3. PICK f \in [Nat -> Z] : Courses(f, <<>>, d, g)
    <2> HIDE DEF Z, d, g
    <2> DEFINE a == <<>>
    <2>0. a \in Z
      BY <1>0
    <2> HIDE DEF a
    <2>1. \E f \in [Nat -> Z] : Courses(f, a, d, g)
      BY <1>1, <1>2, <2>0, CourseExists
    <2> QED  BY <2>1 DEF a
  <1>4. Def(f)
    <2>1. ASSUME NEW m \in Nat \ {0} PROVE f[m] = <<Digit(m % base)>> \o f[m \div base]
      <3>1. m \div base \in Nat /\ d[m] = m \div base
        BY DivDown
      <3>2. f[m] = g[<<m, f[m \div base]>>]
        BY <1>3, <3>1 DEF Courses
      <3>3. f[m \div base] \in Z
        BY <1>3, <3>1
      <3> HIDE DEF Z
      <3> QED  BY <3>2, <3>3
    <2>2. f[0] = <<>>
      BY <1>3 DEF Courses
    <2> QED  BY <1>3, <2>1, <2>2
  <1> DEFINE h == CHOOSE f1 : Def(f1)
  <1>5. Def(h)
    BY <1>4
  <1>6. \A n \in Nat : LowFirst(n, base) = h[n]
    BY DEF LowFirst
  <1> HIDE DEF h
  <1>7. TakesOff(h, base)
    BY <1>5 DEF TakesOff
  <1> QED  BY <1>6, <1>7

\* One turn of the loop.
LEMMA LowFirstStep ==
  ASSUME NEW base \in 2 .. 16
  PROVE  /\ LowFirst(0, base) = <<>>
         /\ \A n \in Nat \ {0} :
              LowFirst(n, base) = <<Digit(n % base)>> \o LowFirst(n \div base, base)
  <1>1. PICK f : TakesOff(f, base) /\ \A n \in Nat : LowFirst(n, base) = f[n]
    BY LowFirstIs
  <1>2. \A n \in Nat : n \div base \in Nat
    BY DivDown
  <1> QED  BY <1>1, <1>2 DEF TakesOff

\* The digits as they are written.
High(n, base) == Reverse(LowFirst(n, base))

LEMMA LowFirstType ==
  ASSUME NEW base \in 2 .. 16, NEW n \in Nat
  PROVE  LowFirst(n, base) \in Seq(Bytes)
  <1> DEFINE S == {m \in Nat : LowFirst(m, base) \in Seq(Bytes)}
  <1>1. ASSUME NEW m \in Nat, \A k \in 0 .. m - 1 : k \in S PROVE m \in S
    <2>1. CASE m = 0
      <3>1. LowFirst(m, base) = <<>>
        BY <2>1, LowFirstStep
      <3> QED  BY <3>1
    <2>2. CASE m # 0
      <3>1. m \div base \in 0 .. m - 1 /\ m % base \in 0 .. 15
        BY <2>2, DivDown
      <3>2. LowFirst(m \div base, base) \in Seq(Bytes)
        BY <1>1, <3>1
      <3>3. <<Digit(m % base)>> \in Seq(Bytes)
        BY <3>1, DigitType
      <3>4. LowFirst(m, base) = <<Digit(m % base)>> \o LowFirst(m \div base, base)
        BY <2>2, LowFirstStep
      <3> QED  BY <3>2, <3>3, <3>4, SMTT(30)
    <2> QED  BY <2>1, <2>2
  <1>2. Nat \subseteq S
    <2> HIDE DEF S
    <2> QED  BY <1>1, StrongInduction
  <1> QED  BY <1>2

\* s is t with one more element.
Longer(s, t, e) ==
  /\ Len(s) = Len(t) + 1 /\ s[Len(s)] = e
  /\ \A i \in 1 .. Len(t) : s[i] = t[i]

LEMMA ReversePush ==
  ASSUME NEW S, NEW t \in Seq(S), NEW e \in S
  PROVE  Longer(Reverse(<<e>> \o t), Reverse(t), e)
  <1> DEFINE u == <<e>> \o t
  <1>1. u \in Seq(S) /\ Len(u) = Len(t) + 1 /\ u[1] = e /\ Len(t) \in Nat
    OBVIOUS
  <1>2. ASSUME NEW i \in 1 .. Len(t) PROVE u[i + 1] = t[i]
    OBVIOUS
  <1> HIDE DEF u
  <1>3. Len(Reverse(u)) = Len(u) /\ Len(Reverse(t)) = Len(t)
    BY <1>1 DEF Reverse
  <1>4. Reverse(u)[Len(t) + 1] = e
    BY <1>1 DEF Reverse
  <1>5. ASSUME NEW i \in 1 .. Len(t) PROVE Reverse(u)[i] = Reverse(t)[i]
    <2>1. i \in 1 .. Len(u) /\ Len(u) - i + 1 = (Len(t) - i + 1) + 1
      BY <1>1
    <2>2. Reverse(u)[i] = u[Len(u) - i + 1] /\ Reverse(t)[i] = t[Len(t) - i + 1]
      BY <1>1, <2>1 DEF Reverse
    <2>3. Len(t) - i + 1 \in 1 .. Len(t)
      BY <1>1
    <2> QED  BY <1>2, <2>1, <2>2, <2>3
  <1> QED  BY <1>1, <1>3, <1>4, <1>5 DEF Longer, u

LEMMA HighStep ==
  ASSUME NEW base \in 2 .. 16, NEW n \in Nat
  PROVE  /\ High(n, base) \in Seq(Bytes) /\ Len(High(n, base)) = Len(LowFirst(n, base))
         /\ n = 0 => High(n, base) = <<>>
         /\ n # 0 => Longer(High(n, base), High(n \div base, base), Digit(n % base))
  <1>1. LowFirst(n, base) \in Seq(Bytes)
    BY LowFirstType
  <1>2. High(n, base) \in Seq(Bytes) /\ Len(High(n, base)) = Len(LowFirst(n, base))
    BY <1>1 DEF High, Reverse
  <1>3. CASE n = 0
    <2>1. LowFirst(n, base) = <<>>
      BY <1>3, LowFirstStep
    <2>2. Reverse(<<>>) = <<>>
      BY DEF Reverse
    <2> QED  BY <1>2, <1>3, <2>1, <2>2 DEF High
  <1>4. CASE n # 0
    <2>1. n \div base \in Nat /\ n % base \in 0 .. 15
      BY DivDown
    <2>2. LowFirst(n \div base, base) \in Seq(Bytes) /\ Digit(n % base) \in Bytes
      BY <2>1, LowFirstType, DigitType
    <2>3. LowFirst(n, base) = <<Digit(n % base)>> \o LowFirst(n \div base, base)
      BY <1>4, LowFirstStep
    <2>4. Longer(High(n, base), High(n \div base, base), Digit(n % base))
      BY <2>2, <2>3, ReversePush DEF High
    <2> QED  BY <1>2, <1>4, <2>4
  <1> QED  BY <1>3, <1>4

\* What the digits of a number are.
WellWritten(s, base) ==
  /\ \A i \in 1 .. Len(s) : \E d \in 0 .. base - 1 : s[i] = Digit(d)
  /\ Len(s) > 0 /\ s[1] # Zero

LEMMA HighIs ==
  ASSUME NEW base \in 2 .. 16, NEW n \in Nat \ {0}
  PROVE  WellWritten(High(n, base), base)
  <1> DEFINE S == {m \in Nat : m # 0 => WellWritten(High(m, base), base)}
  <1>1. ASSUME NEW m \in Nat, \A k \in 0 .. m - 1 : k \in S PROVE m \in S
    <2> SUFFICES ASSUME m # 0 PROVE WellWritten(High(m, base), base)
      OBVIOUS
    <2> DEFINE q == m \div base
               d == m % base
               s == High(m, base)
               t == High(q, base)
    <2>1. q \in 0 .. m - 1 /\ q \in Nat /\ d \in 0 .. base - 1 /\ d \in 0 .. 15
          /\ m = q * base + d
      BY DivDown
    <2>2. Longer(s, t, Digit(d)) /\ s \in Seq(Bytes)
      BY HighStep
    <2>3. t \in Seq(Bytes) /\ (q = 0 => t = <<>>)
      BY <2>1, HighStep
    <2>4. q # 0 => WellWritten(t, base)
      BY <1>1, <2>1
    <2> HIDE DEF q, d, s, t
    <2>5. CASE q = 0
      <3>1. d # 0
        BY <2>1, <2>5
      <3>2. Len(s) = 1 /\ s[1] = Digit(d)
        BY <2>2, <2>3, <2>5 DEF Longer
      <3>3. Digit(d) # Zero
        BY <2>1, <3>1, DigitType
      <3>4. WellWritten(s, base)
        BY <2>1, <3>2, <3>3 DEF WellWritten
      <3> QED  BY <3>4 DEF s
    <2>6. CASE q # 0
      <3>1. Len(t) \in Nat \ {0} /\ Len(s) = Len(t) + 1 /\ s[Len(s)] = Digit(d)
            /\ \A i \in 1 .. Len(t) : s[i] = t[i]
        BY <2>2, <2>3, <2>4, <2>6 DEF Longer, WellWritten
      <3>2. s[1] # Zero
        BY <2>4, <2>6, <3>1 DEF WellWritten
      <3>3. ASSUME NEW i \in 1 .. Len(s) PROVE \E e \in 0 .. base - 1 : s[i] = Digit(e)
        <4>1. CASE i = Len(s)
          BY <2>1, <3>1, <4>1
        <4>2. CASE i # Len(s)
          <5>1. i \in 1 .. Len(t) /\ s[i] = t[i]
            BY <3>1, <4>2
          <5> QED  BY <2>4, <2>6, <5>1 DEF WellWritten
        <4> QED  BY <4>1, <4>2
      <3>4. WellWritten(s, base)
        BY <3>1, <3>2, <3>3 DEF WellWritten
      <3> QED  BY <3>4 DEF s
    <2> QED  BY <2>5, <2>6
  <1>2. Nat \subseteq S
    <2> HIDE DEF S
    <2> QED  BY <1>1, StrongInduction
  <1> QED  BY <1>2

-----------------------------------------------------------------------------
(* Digits read as a number.                                                *)

\* v goes through the digits of s like the loop of parse_cstring_usize.
Reads(v, s) ==
  /\ v[0] = 0
  /\ \A i \in 1 .. Len(s) : v[i] = (v[i - 1] * 10 + (s[i] - Zero)) % UsizeSpan

LEMMA ByteInt == \A b \in Bytes : b \in Int /\ b \in Nat
  BY DEF Bytes

LEMMA ParseIs ==
  ASSUME NEW s \in Seq(Bytes)
  PROVE  \E v : /\ Reads(v, s)
                 /\ parse_cstring_usize(s) =
                      IF DigitCount(s) = 0 THEN None ELSE v[DigitCount(s)]
  <1> DEFINE n == Len(s)
             At(i) == IF i \in 1 .. n THEN s[i] ELSE 0
             g == [p \in Nat \X Int |-> (p[2] * 10 + (At(p[1]) - Zero)) % UsizeSpan]
             Def(f) == f = [i \in 0 .. n |-> IF i = 0 THEN 0
                              ELSE (f[i - 1] * 10 + (s[i] - Zero)) % UsizeSpan]
  <1>1. n \in Nat /\ \A i \in Nat : At(i) \in Int
    <2>1. ASSUME NEW i \in 1 .. n PROVE s[i] \in Int
      <3>1. s[i] \in Bytes
        OBVIOUS
      <3> QED  BY <3>1, ByteInt
    <2> QED  BY <2>1
  <1>2. g \in [Nat \X Int -> Int]
    <2>1. ASSUME NEW i \in Nat, NEW x \in Int
          PROVE  (x * 10 + (At(i) - Zero)) % UsizeSpan \in Int
      <3>1. At(i) \in Int
        BY <1>1
      <3> HIDE DEF At
      <3>2. x * 10 + (At(i) - Zero) \in Int
        BY <3>1 DEF Zero
      <3> QED  BY <3>2, SpanType
    <2> HIDE DEF At
    <2> QED  BY <2>1
  <1>3. PICK f \in [0 .. n -> Int] : Follows(f, 0, g, n)
    <2> DEFINE I == Int
               a == 0
    <2>1. a \in I /\ g \in [Nat \X I -> I] /\ n \in Nat
      BY <1>1, <1>2
    <2> HIDE DEF g, n, I, a
    <2>2. \E f \in [0 .. n -> I] : Follows(f, a, g, n)
      BY <2>1, LoopExists
    <2> QED  BY <2>2 DEF I, a
  <1>4. Def(f)
    <2>1. ASSUME NEW i \in 1 .. n PROVE f[i] = (f[i - 1] * 10 + (s[i] - Zero)) % UsizeSpan
      <3>1. i \in Nat /\ f[i - 1] \in Int /\ At(i) = s[i]
        BY <1>1, <1>3, SMTT(30)
      <3>2. f[i] = g[<<i, f[i - 1]>>]
        BY <1>3 DEF Follows
      <3> HIDE DEF At
      <3> QED  BY <3>1, <3>2
    <2>2. f[0] = 0
      BY <1>3 DEF Follows
    <2> HIDE DEF n
    <2>3. ASSUME NEW i \in 0 .. n
          PROVE  f[i] = IF i = 0 THEN 0 ELSE (f[i - 1] * 10 + (s[i] - Zero)) % UsizeSpan
      <3>1. CASE i = 0
        BY <2>2, <3>1
      <3>2. CASE i # 0
        <4>1. i \in 1 .. n
          BY <1>1, <3>2
        <4> QED  BY <2>1, <3>2, <4>1
      <3> QED  BY <3>1, <3>2
    <2> QED  BY <1>3, <2>3
  <1> DEFINE v == CHOOSE f1 : Def(f1)
  <1>5. Def(v)
    BY <1>4
  <1>6. parse_cstring_usize(s) = IF DigitCount(s) = 0 THEN None ELSE v[DigitCount(s)]
    BY DEF parse_cstring_usize
  <1> HIDE DEF v
  <1>7. Reads(v, s)
    BY <1>1, <1>5 DEF Reads
  <1> QED  BY <1>6, <1>7

\* The loop comes back to the number behind its last digit, whatever follows.
LEMMA ReadsHigh ==
  ASSUME NEW s \in Seq(Bytes), NEW v, Reads(v, s),
         NEW n \in Nat, n < UsizeSpan, Heads(High(n, 10), s)
  PROVE  v[Len(High(n, 10))] = n
  <1> DEFINE S == {m \in Nat : m < UsizeSpan /\ Heads(High(m, 10), s)
                                 => v[Len(High(m, 10))] = m}
  <1>1. ASSUME NEW m \in Nat, \A k \in 0 .. m - 1 : k \in S PROVE m \in S
    <2> SUFFICES ASSUME m < UsizeSpan, Heads(High(m, 10), s) PROVE v[Len(High(m, 10))] = m
      OBVIOUS
    <2> DEFINE q == m \div 10
               d == m % 10
               a == High(m, 10)
               b == High(q, 10)
    <2>0. 10 \in 2 .. 16 /\ UsizeSpan \in Nat \ {0}
      BY SpanType
    <2>1. CASE m = 0
      <3>1. Len(a) = 0
        BY <2>0, <2>1, HighStep
      <3> QED  BY <2>1, <3>1 DEF Reads
    <2>2. CASE m # 0
      <3>1. q \in 0 .. m - 1 /\ q \in Nat /\ d \in 0 .. 9 /\ d \in 0 .. 15 /\ m = q * 10 + d
        <4>1. q \in Nat /\ q < m /\ d \in 0 .. 10 - 1 /\ m = q * 10 + d
          BY <2>0, <2>2, DivDown
        <4> HIDE DEF q, d
        <4> QED  BY <4>1
      <3>2. Longer(a, b, Digit(d)) /\ a \in Seq(Bytes)
        BY <2>0, <2>2, HighStep
      <3>3. b \in Seq(Bytes)
        BY <2>0, <3>1, HighStep
      <3>4. Heads(a, s)
        OBVIOUS
      <3>5. Heads(b, s) => v[Len(b)] = q
        <4>1. q \in S /\ q < UsizeSpan
          BY <1>1, <2>0, <3>1
        <4> HIDE DEF q
        <4> QED  BY <4>1
      <3> HIDE DEF q, d, a, b
      <3>6. Len(a) = Len(b) + 1 /\ Len(b) \in Nat /\ Len(a) \in 1 .. Len(s)
            /\ s[Len(a)] = Digit(d) /\ Len(a) - 1 = Len(b)
        <4>1. Len(a) = Len(b) + 1 /\ Len(b) \in Nat /\ a[Len(a)] = Digit(d)
          BY <3>2, <3>3 DEF Longer
        <4> QED  BY <3>4, <4>1 DEF Heads
      <3>7. Heads(b, s)
        BY <3>2, <3>3, <3>4, <3>6 DEF Heads, Longer
      <3>8. v[Len(b)] = q
        BY <3>5, <3>7
      <3>9. Digit(d) - Zero = d
        BY <3>1, DigitType, SMTT(30)
      <3>10. v[Len(a)] = (v[Len(a) - 1] * 10 + (s[Len(a)] - Zero)) % UsizeSpan
        BY <3>6 DEF Reads
      <3>11. v[Len(a)] = (q * 10 + d) % UsizeSpan
        BY <3>6, <3>8, <3>9, <3>10
      <3>12. m % UsizeSpan = m
        BY <2>0, SmallRest
      <3>13. v[Len(a)] = m
        BY <3>1, <3>11, <3>12
      <3> QED  BY <3>13 DEF a
    <2> QED  BY <2>1, <2>2
  <1>2. Nat \subseteq S
    <2> HIDE DEF S
    <2> QED  BY <1>1, StrongInduction
  <1> QED  BY <1>2

-----------------------------------------------------------------------------
(* How many digits a number has.                                           *)

\* Numbers below b have at most k decimal digits.
UpTo(k, b) == \A n \in Nat : n < b => Len(LowFirst(n, 10)) <= k

LEMMA LowFirstLen ==
  ASSUME NEW base \in 2 .. 16, NEW n \in Nat \ {0}
  PROVE  /\ Len(LowFirst(n, base)) = 1 + Len(LowFirst(n \div base, base))
         /\ Len(LowFirst(n \div base, base)) \in Nat
  <1>1. n \div base \in Nat /\ n % base \in 0 .. 15
    BY DivDown
  <1>2. LowFirst(n \div base, base) \in Seq(Bytes) /\ Digit(n % base) \in Bytes
    BY <1>1, LowFirstType, DigitType
  <1>3. LowFirst(n, base) = <<Digit(n % base)>> \o LowFirst(n \div base, base)
    BY LowFirstStep
  <1> QED  BY <1>2, <1>3

LEMMA UpToMore ==
  ASSUME NEW k \in Nat, NEW b \in Nat, UpTo(k, b)
  PROVE  UpTo(k + 1, 10 * b)
  <1> SUFFICES ASSUME NEW n \in Nat, n < 10 * b PROVE Len(LowFirst(n, 10)) <= k + 1
    BY DEF UpTo
  <1>0. 10 \in 2 .. 16
    OBVIOUS
  <1>1. CASE n = 0
    <2>1. LowFirst(n, 10) = <<>>
      BY <1>0, <1>1, LowFirstStep
    <2> QED  BY <2>1
  <1>2. CASE n # 0
    <2>1. n \div 10 \in Nat /\ n \div 10 < b
      OBVIOUS
    <2>2. Len(LowFirst(n \div 10, 10)) <= k
      BY <2>1 DEF UpTo
    <2>3. Len(LowFirst(n, 10)) = 1 + Len(LowFirst(n \div 10, 10))
          /\ Len(LowFirst(n \div 10, 10)) \in Nat
      BY <1>0, <1>2, LowFirstLen
    <2> QED  BY <2>2, <2>3
  <1> QED  BY <1>1, <1>2

LEMMA UpToFive ==
  ASSUME NEW k \in Nat, NEW b \in Nat, UpTo(k, b)
  PROVE  UpTo(k + 5, 100000 * b)
  <1>1. UpTo(k + 1, 10 * b)
    BY UpToMore, SMT
  <1>2. UpTo((k + 1) + 1, 10 * (10 * b))
    BY <1>1, UpToMore, SMT
  <1>3. UpTo(((k + 1) + 1) + 1, 10 * (10 * (10 * b)))
    BY <1>2, UpToMore, SMT
  <1>4. UpTo((((k + 1) + 1) + 1) + 1, 10 * (10 * (10 * (10 * b))))
    BY <1>3, UpToMore, SMT
  <1>5. UpTo(((((k + 1) + 1) + 1) + 1) + 1, 10 * (10 * (10 * (10 * (10 * b)))))
    BY <1>4, UpToMore, SMT
  <1>6. ((((k + 1) + 1) + 1) + 1) + 1 = k + 5
        /\ 10 * (10 * (10 * (10 * (10 * b)))) = 100000 * b
    BY SMT
  <1> QED  BY <1>5, <1>6, SMT

LEMMA UpToTwenty == UpTo(20, 100000 * 1000000000000000)
  <1>1. UpTo(0, 1)
    <2>1. LowFirst(0, 10) = <<>>
      BY LowFirstStep, SMT
    <2>2. ASSUME NEW n \in Nat, n < 1 PROVE n = 0
      BY <2>2, SMT
    <2> QED  BY <2>1, <2>2, SMT DEF UpTo
  <1>2. UpTo(5, 100000)
    <2>1. UpTo(0 + 5, 100000 * 1)
      BY <1>1, UpToFive, SMT
    <2> QED  BY <2>1, SMT
  <1>3. UpTo(10, 10000000000)
    <2>1. UpTo(5 + 5, 100000 * 100000)
      BY <1>2, UpToFive, SMT
    <2> QED  BY <2>1, SMT
  <1>4. UpTo(15, 1000000000000000)
    <2>1. UpTo(10 + 5, 100000 * 10000000000)
      BY <1>3, UpToFive, SMT
    <2> QED  BY <2>1, SMT
  <1>5. UpTo(15 + 5, 100000 * 1000000000000000)
    <2> DEFINE b == 1000000000000000
    <2>1. b \in Nat /\ UpTo(15, b)
      BY <1>4, SMT
    <2> HIDE DEF b
    <2>2. UpTo(15 + 5, 100000 * b)
      BY <2>1, UpToFive, SMT
    <2> QED  BY <2>2, SMT DEF b
  <1> QED  BY <1>5, SMT

\* A word of eight bytes.
LEMMA SpanSmall == UsizeSpan <= 256 * 72057594037927936 /\ UsizeSpan > 255
  <1>1. Pow256[1] = 256
    <2>1. Pow256[0 + 1] = 256 * Pow256[0]
      BY Pow256Is, SMT
    <2> QED  BY <2>1, Pow256Is, SMT
  <1>2. Pow256[2] = 65536
    <2>1. Pow256[1 + 1] = 256 * Pow256[1]
      BY Pow256Is, SMT
    <2> QED  BY <2>1, <1>1, SMT
  <1>3. Pow256[3] = 16777216
    <2>1. Pow256[2 + 1] = 256 * Pow256[2]
      BY Pow256Is, SMT
    <2> QED  BY <2>1, <1>2, SMT
  <1>4. Pow256[4] = 4294967296
    <2>1. Pow256[3 + 1] = 256 * Pow256[3]
      BY Pow256Is, SMT
    <2> QED  BY <2>1, <1>3, SMT
  <1>5. Pow256[5] = 1099511627776
    <2>1. Pow256[4 + 1] = 256 * Pow256[4]
      BY Pow256Is, SMT
    <2> QED  BY <2>1, <1>4, SMT
  <1>6. Pow256[6] = 281474976710656
    <2>1. Pow256[5 + 1] = 256 * Pow256[5]
      BY Pow256Is, SMT
    <2> QED  BY <2>1, <1>5, SMT
  <1>7. Pow256[7] = 72057594037927936
    <2>1. Pow256[6 + 1] = 256 * Pow256[6]
      BY Pow256Is, SMT
    <2> QED  BY <2>1, <1>6, SMT
  <1>8. Pow256[8] = 256 * 72057594037927936
    <2>1. Pow256[7 + 1] = 256 * Pow256[7]
      BY Pow256Is, SMT
    <2> QED  BY <2>1, <1>7, SMT
  <1>9. LongBytes \in 2 .. 8
    BY ParsingAssumption, PureFunctionsAssumption, SMT
  <1> QED  BY <1>1, <1>2, <1>3, <1>4, <1>5, <1>6, <1>7, <1>8, <1>9, Pow256Is, SMT DEF UsizeSpan

\* The buffers of format_usize and write_hex are long enough.
LEMMA DigitsFit ==
  ASSUME NEW n \in Nat, n < UsizeSpan
  PROVE  Len(LowFirst(n, 10)) <= 20 /\ Len(LowFirst(n, 16)) <= 2 * LongBytes
  <1> DEFINE S == {k \in Nat : \A m \in Nat : m < Pow256[k] => Len(LowFirst(m, 16)) <= 2 * k}
  <1>1. n < 100000 * 1000000000000000
    BY SpanSmall, SpanType, SMT
  <1>2. Len(LowFirst(n, 10)) <= 20
    BY <1>1, UpToTwenty, SMT DEF UpTo
  <1>0. 16 \in 2 .. 16
    OBVIOUS
  <1>3. 0 \in S
    <2>1. LowFirst(0, 16) = <<>> /\ Pow256[0] = 1
      BY <1>0, LowFirstStep, Pow256Is
    <2>2. ASSUME NEW m \in Nat, m < Pow256[0] PROVE Len(LowFirst(m, 16)) <= 2 * 0
      <3>1. m = 0
        BY <2>1, <2>2
      <3> QED  BY <2>1, <3>1
    <2> QED  BY <2>2
  <1>4. ASSUME NEW k \in Nat, k \in S PROVE k + 1 \in S
    <2> SUFFICES ASSUME NEW m \in Nat, m < Pow256[k + 1]
                 PROVE  Len(LowFirst(m, 16)) <= 2 * (k + 1)
      OBVIOUS
    <2> DEFINE a == m \div 16
               b == a \div 16
               p == Pow256[k]
    <2>1. p \in Nat /\ m < 256 * p
      BY Pow256Is
    <2>2. a \in Nat /\ b \in Nat /\ b < p
      <3> HIDE DEF p
      <3> QED  BY <2>1
    <2>3. Len(LowFirst(b, 16)) <= 2 * k
      BY <1>4, <2>2
    <2>4. Len(LowFirst(0, 16)) = 0
      <3>1. LowFirst(0, 16) = <<>>
        BY <1>0, LowFirstStep
      <3> QED  BY <3>1
    <2>5. m # 0 => Len(LowFirst(m, 16)) = 1 + Len(LowFirst(a, 16))
      BY <1>0, LowFirstLen
    <2>6. a # 0 => Len(LowFirst(a, 16)) = 1 + Len(LowFirst(b, 16))
                   /\ Len(LowFirst(b, 16)) \in Nat
      BY <1>0, <2>2, LowFirstLen
    <2> HIDE DEF a, b
    <2> QED  BY <2>3, <2>4, <2>5, <2>6
  <1>5. Nat \subseteq S
    <2> HIDE DEF S
    <2> QED  BY <1>3, <1>4, SetInduction
  <1>6. LongBytes \in S
    BY <1>5, ParsingAssumption
  <1> QED  BY <1>2, <1>6 DEF UsizeSpan

-----------------------------------------------------------------------------
(* Numbers are read back.                                                  *)

LEMMA DigitCountIs ==
  ASSUME NEW s \in Seq(Bytes), NEW k \in 0 .. 64, k <= Len(s),
         \A i \in 1 .. k : s[i] \in Digits, k < Len(s) => s[k + 1] \notin Digits
  PROVE  DigitCount(s) = k
  <1> DEFINE T == {i \in 0 .. 64 : i <= Len(s) /\ \A j \in 1 .. i : s[j] \in Digits}
  <1>1. T \subseteq 0 .. 64 /\ k \in T /\ 64 \in Nat
    OBVIOUS
  <1>2. \A m \in T : m <= k
    <2> SUFFICES ASSUME NEW m \in T, m > k PROVE FALSE
      OBVIOUS
    <2>1. k + 1 \in 1 .. m /\ k < Len(s)
      OBVIOUS
    <2> QED  BY <2>1
  <1>3. DigitCount(s) = Max(T)
    BY DEF DigitCount
  <1> HIDE DEF T
  <1>4. Max(T) \in T /\ \A m \in T : Max(T) >= m
    BY <1>1, MaxIs
  <1> DEFINE m == Max(T)
  <1> HIDE DEF m
  <1>5. m \in 0 .. 64 /\ m <= k /\ m >= k
    <2>1. m \in T /\ \A i \in T : m >= i
      BY <1>4 DEF m
    <2> QED  BY <1>1, <1>2, <2>1
  <1>6. m = k
    BY <1>5
  <1> QED  BY <1>3, <1>6 DEF m

\* format_usize gives at least one digit.
Decimal(s) ==
  /\ s \in Seq(Bytes) /\ Len(s) \in Nat \ {0}
  /\ \A i \in 1 .. Len(s) : s[i] \in Digits

LEMMA FormatIs ==
  ASSUME NEW n \in Nat
  PROVE  /\ Decimal(format_usize(n))
         /\ n # 0 => format_usize(n) = High(n, 10) /\ format_usize(n)[1] # Zero
         /\ n = 0 => format_usize(n) = <<Zero>>
         /\ n < UsizeSpan => Len(format_usize(n)) <= 20
  <1>1. CASE n = 0
    <2>1. format_usize(n) = <<Zero>>
      BY <1>1 DEF format_usize
    <2>2. Zero \in Bytes /\ Zero \in Digits
      BY DEF Zero, Digits, Bytes
    <2>3. Decimal(<<Zero>>) /\ Len(<<Zero>>) <= 20
      BY <2>2 DEF Decimal
    <2> QED  BY <1>1, <2>1, <2>3
  <1>2. CASE n # 0
    <2> DEFINE h == High(n, 10)
    <2>0. 10 \in 2 .. 16
      OBVIOUS
    <2>1. format_usize(n) = h
      BY <1>2 DEF format_usize, InOrder, High
    <2>2. h \in Seq(Bytes) /\ Len(h) = Len(LowFirst(n, 10))
      BY <2>0, HighStep
    <2>3. WellWritten(h, 10)
      BY <1>2, <2>0, HighIs
    <2>4. n < UsizeSpan => Len(h) <= 20
      BY <2>2, DigitsFit
    <2> HIDE DEF h
    <2>5. ASSUME NEW i \in 1 .. Len(h) PROVE h[i] \in Digits
      <3>1. PICK d \in 0 .. 10 - 1 : h[i] = Digit(d)
        BY <2>3 DEF WellWritten
      <3>2. d \in 0 .. 15 /\ d < 10
        OBVIOUS
      <3> QED  BY <3>1, <3>2, DigitType
    <2>6. Decimal(h) /\ h[1] # Zero
      BY <2>2, <2>3, <2>5 DEF Decimal, WellWritten
    <2> QED  BY <1>2, <2>1, <2>4, <2>6 DEF h
  <1> QED  BY <1>1, <1>2

\* A number that is written at the beginning of a string is read.
LEMMA ReadsFormat ==
  ASSUME NEW n \in Nat, n < UsizeSpan, NEW s \in Seq(Bytes), Heads(format_usize(n), s),
         Len(format_usize(n)) < Len(s) => s[Len(format_usize(n)) + 1] \notin Digits
  PROVE  parse_cstring_usize(s) = n
  <1> DEFINE f == format_usize(n)
             k == Len(f)
  <1>1. Decimal(f) /\ k <= 20
    BY FormatIs
  <1>2. k \in 0 .. 64 /\ k # 0 /\ k <= Len(s) /\ \A i \in 1 .. k : s[i] = f[i] /\ f[i] \in Digits
    <2>1. Heads(f, s)
      OBVIOUS
    <2>2. k = Len(f)
      OBVIOUS
    <2> HIDE DEF f, k
    <2>3. k \in Nat \ {0} /\ \A i \in 1 .. k : f[i] \in Digits
      BY <1>1, <2>2 DEF Decimal
    <2>4. k <= Len(s) /\ \A i \in 1 .. k : s[i] = f[i]
      BY <2>1, <2>2 DEF Heads
    <2>5. k \in 0 .. 64
      <3>1. k \in Nat /\ k <= 20
        BY <1>1, <2>3
      <3> QED  BY <3>1
    <2> QED  BY <2>3, <2>4, <2>5
  <1>3. DigitCount(s) = k
    <2>1. k < Len(s) => s[k + 1] \notin Digits
      OBVIOUS
    <2> HIDE DEF k
    <2>2. \A i \in 1 .. k : s[i] \in Digits
      BY <1>2
    <2> QED  BY <1>2, <2>1, <2>2, DigitCountIs
  <1>4. PICK v : /\ Reads(v, s)
                 /\ parse_cstring_usize(s) =
                      IF DigitCount(s) = 0 THEN None ELSE v[DigitCount(s)]
    BY ParseIs
  <1>5. v[k] = n
    <2>1. CASE n = 0
      <3>1. f = <<Zero>> /\ k = 1
        BY <2>1, FormatIs
      <3>2. s[1] = Zero /\ 1 \in 1 .. Len(s)
        BY <1>2, <3>1
      <3>3. v[1] = (v[1 - 1] * 10 + (s[1] - Zero)) % UsizeSpan /\ v[0] = 0
        BY <1>4, <3>2 DEF Reads
      <3>4. v[1] = 0 % UsizeSpan
        BY <3>2, <3>3 DEF Zero
      <3>5. 0 % UsizeSpan = 0
        BY SpanType
      <3> QED  BY <2>1, <3>1, <3>4, <3>5
    <2>2. CASE n # 0
      <3>1. f = High(n, 10)
        BY <2>2, FormatIs
      <3>2. Heads(High(n, 10), s)
        BY <3>1
      <3> QED  BY <1>4, <3>1, <3>2, ReadsHigh
    <2> QED  BY <2>1, <2>2
  <1> QED  BY <1>2, <1>3, <1>4, <1>5

-----------------------------------------------------------------------------
(* Hexadecimal output.                                                     *)

HexDigit(c) == IF c \in Digits THEN c - Zero ELSE c - 87

HexReads(v, s) ==
  v[0] = 0 /\ \A i \in 1 .. Len(s) : v[i] = v[i - 1] * 16 + HexDigit(s[i])

LEMMA HexValueIs ==
  ASSUME NEW s \in Seq(Bytes)
  PROVE  \E v : HexReads(v, s) /\ HexValue(s) = v[Len(s)]
  <1> DEFINE n == Len(s)
             At(i) == IF i \in 1 .. n THEN HexDigit(s[i]) ELSE 0
             g == [p \in Nat \X Int |-> p[2] * 16 + At(p[1])]
             Def(f) == f = [i \in 0 .. n |-> IF i = 0 THEN 0 ELSE f[i - 1] * 16 +
                              IF s[i] \in Digits THEN s[i] - Zero ELSE s[i] - 87]
  <1>1. n \in Nat /\ \A i \in Nat : At(i) \in Int
    <2>1. ASSUME NEW i \in 1 .. n PROVE HexDigit(s[i]) \in Int
      <3>1. s[i] \in Bytes
        OBVIOUS
      <3>2. s[i] \in Int
        BY <3>1, ByteInt
      <3> QED  BY <3>2 DEF HexDigit, Zero
    <2> QED  BY <2>1
  <1>2. g \in [Nat \X Int -> Int]
    <2>1. ASSUME NEW i \in Nat, NEW x \in Int PROVE x * 16 + At(i) \in Int
      <3>1. At(i) \in Int
        BY <1>1
      <3> HIDE DEF At
      <3> QED  BY <3>1
    <2> HIDE DEF At
    <2> QED  BY <2>1
  <1>3. PICK f \in [0 .. n -> Int] : Follows(f, 0, g, n)
    <2> DEFINE I == Int
               a == 0
    <2>1. a \in I /\ g \in [Nat \X I -> I] /\ n \in Nat
      BY <1>1, <1>2
    <2> HIDE DEF g, n, I, a
    <2>2. \E f \in [0 .. n -> I] : Follows(f, a, g, n)
      BY <2>1, LoopExists
    <2> QED  BY <2>2 DEF I, a
  <1>4. Def(f)
    <2>1. ASSUME NEW i \in 1 .. n PROVE f[i] = f[i - 1] * 16 + HexDigit(s[i])
      <3>1. i \in Nat /\ f[i - 1] \in Int /\ At(i) = HexDigit(s[i])
        BY <1>1, <1>3, SMTT(30)
      <3>2. f[i] = g[<<i, f[i - 1]>>]
        BY <1>3 DEF Follows
      <3> HIDE DEF At
      <3> QED  BY <3>1, <3>2
    <2>2. f[0] = 0
      BY <1>3 DEF Follows
    <2> HIDE DEF n
    <2>3. ASSUME NEW i \in 0 .. n
          PROVE  f[i] = IF i = 0 THEN 0 ELSE f[i - 1] * 16 +
                           IF s[i] \in Digits THEN s[i] - Zero ELSE s[i] - 87
      <3>1. CASE i = 0
        BY <2>2, <3>1
      <3>2. CASE i # 0
        <4>1. i \in 1 .. n
          BY <1>1, <3>2
        <4> QED  BY <2>1, <3>2, <4>1 DEF HexDigit
      <3> QED  BY <3>1, <3>2
    <2> QED  BY <1>3, <2>3
  <1> DEFINE v == CHOOSE f1 : Def(f1)
  <1>5. Def(v)
    BY <1>4
  <1>6. HexValue(s) = v[Len(s)]
    BY DEF HexValue
  <1> HIDE DEF v
  <1>7. HexReads(v, s)
    BY <1>1, <1>5 DEF HexReads, HexDigit
  <1> QED  BY <1>6, <1>7

LEMMA HexReadsHigh ==
  ASSUME NEW s \in Seq(Bytes), NEW v, HexReads(v, s), NEW n \in Nat, Heads(High(n, 16), s)
  PROVE  v[Len(High(n, 16))] = n
  <1> DEFINE S == {m \in Nat : Heads(High(m, 16), s) => v[Len(High(m, 16))] = m}
  <1>1. ASSUME NEW m \in Nat, \A k \in 0 .. m - 1 : k \in S PROVE m \in S
    <2> SUFFICES ASSUME Heads(High(m, 16), s) PROVE v[Len(High(m, 16))] = m
      OBVIOUS
    <2> DEFINE q == m \div 16
               d == m % 16
               a == High(m, 16)
               b == High(q, 16)
    <2>0. 16 \in 2 .. 16
      OBVIOUS
    <2>1. CASE m = 0
      <3>1. Len(a) = 0
        BY <2>0, <2>1, HighStep
      <3> QED  BY <2>1, <3>1 DEF HexReads
    <2>2. CASE m # 0
      <3>1. q \in 0 .. m - 1 /\ q \in Nat /\ d \in 0 .. 15 /\ m = q * 16 + d
        <4>1. q \in Nat /\ q < m /\ d \in 0 .. 16 - 1 /\ m = q * 16 + d
          BY <2>0, <2>2, DivDown
        <4> HIDE DEF q, d
        <4> QED  BY <4>1
      <3>2. Longer(a, b, Digit(d)) /\ a \in Seq(Bytes)
        BY <2>0, <2>2, HighStep
      <3>3. b \in Seq(Bytes)
        BY <2>0, <3>1, HighStep
      <3>4. Heads(a, s)
        OBVIOUS
      <3>5. Heads(b, s) => v[Len(b)] = q
        <4>1. q \in S
          BY <1>1, <3>1
        <4> HIDE DEF q
        <4> QED  BY <4>1
      <3> HIDE DEF q, d, a, b
      <3>6. Len(a) = Len(b) + 1 /\ Len(b) \in Nat /\ Len(a) \in 1 .. Len(s)
            /\ s[Len(a)] = Digit(d) /\ Len(a) - 1 = Len(b)
        <4>1. Len(a) = Len(b) + 1 /\ Len(b) \in Nat /\ a[Len(a)] = Digit(d)
          BY <3>2, <3>3 DEF Longer
        <4> QED  BY <3>4, <4>1 DEF Heads
      <3>7. Heads(b, s)
        BY <3>2, <3>3, <3>4, <3>6 DEF Heads, Longer
      <3>8. v[Len(b)] = q
        BY <3>5, <3>7
      <3>9. HexDigit(Digit(d)) = d
        <4>1. CASE d < 10
          BY <3>1, <4>1, DigitType DEF HexDigit
        <4>2. CASE d >= 10
          BY <3>1, <4>2, DigitType DEF HexDigit
        <4> QED  BY <3>1, <4>1, <4>2
      <3>10. v[Len(a)] = v[Len(a) - 1] * 16 + HexDigit(s[Len(a)])
        BY <3>6 DEF HexReads
      <3>11. v[Len(a)] = m
        BY <3>1, <3>6, <3>8, <3>9, <3>10
      <3> QED  BY <3>11 DEF a
    <2> QED  BY <2>1, <2>2
  <1>2. Nat \subseteq S
    <2> HIDE DEF S
    <2> QED  BY <1>1, StrongInduction
  <1> QED  BY <1>2

\* idx wraps and wraps back: the slice holds the digits and no more.
LEMMA HexStart ==
  ASSUME NEW u \in Nat, u > 255, NEW size \in 0 .. 16, NEW len \in 0 .. size
  PROVE  (((size - 1 - len) % u) + 1) % u = size - len
  <1>1. CASE len < size
    <2> DEFINE x == size - 1 - len
    <2>1. x \in Nat /\ x < u /\ x + 1 \in Nat /\ x + 1 < u /\ u \in Nat \ {0}
      BY <1>1
    <2> HIDE DEF x
    <2>2. x % u = x /\ (x + 1) % u = x + 1
      BY <2>1, SmallRest
    <2>3. x + 1 = size - len
      BY <1>1 DEF x
    <2>4. ((x % u) + 1) % u = size - len
      BY <2>2, <2>3
    <2> QED  BY <2>4 DEF x
  <1>2. CASE len = size
    <2>1. size - 1 - len = -1 /\ size - len = 0
      BY <1>2
    <2>2. (-1) % u = u - 1
      OBVIOUS
    <2>3. u % u = 0 /\ (u - 1) + 1 = u
      OBVIOUS
    <2> QED  BY <2>1, <2>2, <2>3
  <1> QED  BY <1>1, <1>2

LEMMA CutIs ==
  ASSUME NEW S, NEW b \in Seq(S), NEW a \in Nat, a <= Len(b)
  PROVE  /\ SubSeq(b, a + 1, Len(b)) \in Seq(S)
         /\ Len(SubSeq(b, a + 1, Len(b))) = Len(b) - a
         /\ \A i \in 1 .. Len(b) - a : SubSeq(b, a + 1, Len(b))[i] = b[a + i]
  OBVIOUS

LEMMA WriteHexIs ==
  ASSUME NEW n \in Nat \ {0}, n < UsizeSpan
  PROVE  write_hex(n) = High(n, 16)
  <1> DEFINE low == LowFirst(n, 16)
             size == 2 * LongBytes
             len == Len(low)
             buf == [i \in 1 .. size |-> IF size - i < Len(low) THEN low[size - i + 1] ELSE 0]
             idx == (size - 1 - Len(low)) % UsizeSpan
             start == (idx + 1) % UsizeSpan
  <1>1. low \in Seq(Bytes) /\ len \in Nat /\ len <= size
    <2>1. 16 \in 2 .. 16
      OBVIOUS
    <2>2. low \in Seq(Bytes)
      BY <2>1, LowFirstType
    <2> QED  BY <2>2, DigitsFit
  <1>2. size \in 0 .. 16
    BY ParsingAssumption, PureFunctionsAssumption
  <1>3. write_hex(n) = SubSeq(buf, start + 1, size)
    BY DEF write_hex
  <1> HIDE DEF low, size
  <1>4. start = size - len
    BY <1>1, <1>2, SpanType, SpanSmall, HexStart
  <1>5. buf \in Seq(Bytes)
    <2>1. ASSUME NEW i \in 1 .. size PROVE buf[i] \in Bytes
      <3>1. CASE size - i < len
        <4>1. size - i + 1 \in 1 .. len
          BY <1>1, <1>2, <3>1
        <4> QED  BY <1>1, <3>1, <4>1
      <3>2. CASE ~(size - i < len)
        BY <3>2 DEF Bytes
      <3> QED  BY <3>1, <3>2
    <2>2. buf \in [1 .. size -> Bytes]
      BY <2>1
    <2> HIDE DEF buf
    <2>3. size \in Nat
      BY <1>2
    <2> QED  BY <2>2, <2>3, FunctionIsSeq
  <1>6. Len(buf) = size
    BY <1>2
  <1> DEFINE w == SubSeq(buf, start + 1, size)
             h == High(n, 16)
  <1>7. w \in Seq(Bytes) /\ Len(w) = len /\ \A i \in 1 .. len : w[i] = buf[size - len + i]
    <2>1. w = SubSeq(buf, (size - len) + 1, Len(buf))
      <3> HIDE DEF buf, start, len
      <3> QED  BY <1>4, <1>6
    <2>2. size - len \in Nat /\ size - len <= Len(buf) /\ Len(buf) - (size - len) = len
      <3> HIDE DEF buf, len
      <3> QED  BY <1>1, <1>2, <1>6
    <2> DEFINE a == size - len
    <2> HIDE DEF buf, start, w, a
    <2>3. a \in Nat /\ a <= Len(buf) /\ Len(buf) - a = len /\ w = SubSeq(buf, a + 1, Len(buf))
      BY <2>1, <2>2 DEF a
    <2>4. w \in Seq(Bytes) /\ Len(w) = len /\ \A i \in 1 .. len : w[i] = buf[a + i]
      BY <1>5, <2>3, CutIs
    <2> QED  BY <2>4 DEF a
  <1>8. h \in Seq(Bytes) /\ Len(h) = len /\ \A i \in 1 .. len : h[i] = low[len - i + 1]
    BY <1>1 DEF High, Reverse, low
  <1>9. ASSUME NEW i \in 1 .. len PROVE w[i] = h[i]
    <2>1. size - len + i \in 1 .. size /\ size - (size - len + i) = len - i /\ len - i < len
      BY <1>1, <1>2
    <2>2. buf[size - len + i] = low[len - i + 1]
      BY <2>1
    <2> QED  BY <1>7, <1>8, <2>2
  <1> HIDE DEF w, h
  <1>10. w = h
    BY <1>7, <1>8, <1>9
  <1> QED  BY <1>3, <1>10 DEF w, h

-----------------------------------------------------------------------------
(* The input does not change.                                              *)

InputKept ==
  /\ input.fn = "number" => input.of \in 0 .. UsizeSpan - 1
  /\ input.fn = "argv" => input.of \in Meant
  /\ input.fn = "base64" => input.of \in Seq(Bytes)

LEMMA InputInit == BytesInit => InputKept
  <1>1. ASSUME Init PROVE InputKept
    <2>1. input.fn \in {"stream", "wire", "reply", "length", "request"}
      BY <1>1 DEF Init
    <2> QED  BY <2>1 DEF InputKept
  <1>2. ASSUME FunctionInit PROVE InputKept
    <2>1. input \in [fn : {"number"}, of : Numbers] \cup [fn : {"argv"}, of : Argvs]
                   \cup [fn : {"key"}, of : Handshakes] \cup [fn : {"base64"}, of : Sources]
      BY <1>2 DEF FunctionInit
    <2>2. CASE input \in [fn : {"number"}, of : Numbers]
      <3>1. input.of \in Numbers /\ input.fn = "number"
        BY <2>2
      <3>2. Numbers \subseteq 0 .. UsizeSpan - 1
        BY PureFunctionsAssumption
      <3> QED  BY <3>1, <3>2 DEF InputKept
    <2>3. CASE input \in [fn : {"argv"}, of : Argvs]
      <3>1. input.of \in Argvs /\ input.fn = "argv"
        BY <2>3
      <3>2. Argvs \subseteq Meant
        BY PureFunctionsAssumption
      <3> QED  BY <3>1, <3>2 DEF InputKept
    <2>4. CASE input \in [fn : {"key"}, of : Handshakes]
      BY <2>4 DEF InputKept
    <2>5. CASE input \in [fn : {"base64"}, of : Sources]
      <3>1. input.of \in Sources /\ input.fn = "base64"
        BY <2>5
      <3>2. Sources \subseteq Seq(Bytes)
        BY PureFunctionsAssumption
      <3> QED  BY <3>1, <3>2 DEF InputKept
    <2> QED  BY <2>1, <2>2, <2>3, <2>4, <2>5
  <1> QED  BY <1>1, <1>2 DEF BytesInit

LEMMA InputStep == InputKept /\ [BytesNext]_<<vars, sha>> => InputKept'
  <1> SUFFICES ASSUME InputKept, [BytesNext]_<<vars, sha>> PROVE InputKept'
    OBVIOUS
  <1>1. UNCHANGED input
    BY DEF BytesNext, Recv, Parse, Hash, Over, vars
  <1> QED  BY <1>1 DEF InputKept

\* Every number that a usize holds, written in decimal by format_usize and
\* http_response_headers and in hexadecimal by write_hex, reads back, has no leading
\* zero and fits the buffer it is written to.
THEOREM NumbersComeBack == BytesSpec => []NumbersReadBack
  <1>1. InputKept => NumbersReadBack
    <2> SUFFICES ASSUME InputKept, input.fn = "number" PROVE NumbersReadBack
      BY DEF NumbersReadBack
    <2> DEFINE n == input.of
               f == format_usize(n)
               s == f \o <<Dot, Zero>>
    <2>1. n \in Nat /\ n < UsizeSpan
      BY SpanType DEF InputKept
    <2> HIDE DEF n
    <2>2. Decimal(f) /\ Len(f) <= 20 /\ (n # 0 => f[1] # Zero)
      BY <2>1, FormatIs
    <2>3. parse_cstring_usize(content_length(n)) = n
      <3>1. f \in Seq(Bytes) /\ Heads(f, f)
        BY <2>2 DEF Decimal, Heads
      <3>2. parse_cstring_usize(f) = n
        BY <2>1, <3>1, ReadsFormat
      <3> QED  BY <3>2 DEF content_length
    <2>4. parse_cstring_usize(s) = n
      <3> HIDE DEF f
      <3>1. <<Dot, Zero>> \in Seq(Bytes) /\ f \in Seq(Bytes) /\ Dot \notin Digits
        BY <2>2 DEF Decimal, Dot, Zero, Bytes, Digits
      <3>2. s \in Seq(Bytes) /\ Heads(f, s) /\ s[Len(f) + 1] = Dot
        BY <3>1 DEF Heads
      <3> HIDE DEF s
      <3> QED  BY <2>1, <3>1, <3>2, ReadsFormat DEF f
    <2>5. n > 0 => Head(f) # Zero
      BY <2>1, <2>2 DEF Decimal
    <2>6. ASSUME n > 0 PROVE Head(write_hex(n)) # Zero /\ HexValue(write_hex(n)) = n
      <3> DEFINE h == High(n, 16)
      <3>0. 16 \in 2 .. 16 /\ n \in Nat \ {0}
        BY <2>1, <2>6
      <3>1. write_hex(n) = h
        BY <2>1, <3>0, WriteHexIs
      <3>2. h \in Seq(Bytes) /\ WellWritten(h, 16)
        BY <3>0, HighStep, HighIs
      <3>3. PICK v : HexReads(v, h) /\ HexValue(h) = v[Len(h)]
        BY <3>2, HexValueIs
      <3>4. v[Len(h)] = n
        <4>1. Heads(h, h)
          BY <3>2 DEF Heads
        <4> QED  BY <2>1, <3>2, <3>3, <4>1, HexReadsHigh
      <3> HIDE DEF h
      <3>5. Head(h) # Zero
        BY <3>2 DEF WellWritten
      <3> QED  BY <3>1, <3>3, <3>4, <3>5
    <2>7. CASE n = 0
      <3>1. write_hex(n) = <<Zero>> /\ <<Zero>> \in Seq(Bytes)
        BY <2>7 DEF write_hex, Zero, Bytes
      <3>2. PICK v : HexReads(v, <<Zero>>) /\ HexValue(<<Zero>>) = v[Len(<<Zero>>)]
        BY <3>1, HexValueIs
      <3>3. v[1] = v[1 - 1] * 16 + HexDigit(Zero) /\ v[0] = 0 /\ HexValue(<<Zero>>) = v[1]
        BY <3>2 DEF HexReads
      <3>4. HexDigit(Zero) = 0
        BY DEF HexDigit, Digits, Zero
      <3>5. HexValue(write_hex(n)) = n
        BY <2>7, <3>1, <3>3, <3>4
      <3> QED  BY <2>2, <2>3, <2>4, <2>7, <3>5 DEF NumbersReadBack, n, f, s
    <2>8. n > 0 => write_isize(-n) = <<Minus>> \o format_usize(n)
      <3> SUFFICES ASSUME n > 0 PROVE write_isize(-n) = <<Minus>> \o format_usize(n)
        OBVIOUS
      <3>1. -n < 0 /\ -(-n) = n
        BY <2>1
      <3> QED  BY <3>1 DEF write_isize
    <2>9. CASE n > 0
      BY <2>2, <2>3, <2>4, <2>5, <2>6, <2>8, <2>9 DEF NumbersReadBack, n, f, s
    <2> QED  BY <2>1, <2>7, <2>9
  <1> QED  BY <1>1, InputInit, InputStep, PTL DEF BytesSpec

-----------------------------------------------------------------------------
(* base64_encode.                                                          *)

\* Bit k of a number of w bits, from the highest (0).
BitAt(x, w, k) == (x \div Places[w - k]) % 2

\* Which bit of a byte each bit of a sextet is.
LEMMA SextetBit ==
  ASSUME NEW a \in Bytes, NEW b \in Bytes, NEW c \in Bytes
  PROVE  /\ \A k \in 0 .. 5 : BitAt(a \div 4, 6, k) = BitAt(a, 8, k)
         /\ \A k \in 0 .. 1 : BitAt((a % 4) * 16 + (b \div 16), 6, k) = BitAt(a, 8, k + 6)
         /\ \A k \in 2 .. 5 : BitAt((a % 4) * 16 + (b \div 16), 6, k) = BitAt(b, 8, k - 2)
         /\ \A k \in 0 .. 3 : BitAt((b % 16) * 4 + (c \div 64), 6, k) = BitAt(b, 8, k + 4)
         /\ \A k \in 4 .. 5 : BitAt((b % 16) * 4 + (c \div 64), 6, k) = BitAt(c, 8, k - 4)
         /\ \A k \in 0 .. 5 : BitAt(c % 64, 6, k) = BitAt(c, 8, k + 2)
  <1>0. a \in 0 .. 255 /\ b \in 0 .. 255 /\ c \in 0 .. 255
    BY DEF Bytes
  <1>1. /\ Places[1] = 1 /\ Places[2] = 2 /\ Places[3] = 4 /\ Places[4] = 8
        /\ Places[5] = 16 /\ Places[6] = 32 /\ Places[7] = 64 /\ Places[8] = 128
    BY DEF Places
  <1>2. ASSUME NEW k \in 0 .. 5 PROVE BitAt(a \div 4, 6, k) = BitAt(a, 8, k)
    <2>1. CASE k = 0
      <3>1. ((a \div 4) \div 32) % 2 = (a \div 128) % 2
        BY <1>0
      <3> QED  BY <1>1, <2>1, <3>1 DEF BitAt
    <2>2. CASE k = 1
      <3>1. ((a \div 4) \div 16) % 2 = (a \div 64) % 2
        BY <1>0
      <3> QED  BY <1>1, <2>2, <3>1 DEF BitAt
    <2>3. CASE k = 2
      <3>1. ((a \div 4) \div 8) % 2 = (a \div 32) % 2
        BY <1>0
      <3> QED  BY <1>1, <2>3, <3>1 DEF BitAt
    <2>4. CASE k = 3
      <3>1. ((a \div 4) \div 4) % 2 = (a \div 16) % 2
        BY <1>0
      <3> QED  BY <1>1, <2>4, <3>1 DEF BitAt
    <2>5. CASE k = 4
      <3>1. ((a \div 4) \div 2) % 2 = (a \div 8) % 2
        BY <1>0
      <3> QED  BY <1>1, <2>5, <3>1 DEF BitAt
    <2>6. CASE k = 5
      <3>1. ((a \div 4) \div 1) % 2 = (a \div 4) % 2
        BY <1>0
      <3> QED  BY <1>1, <2>6, <3>1 DEF BitAt
    <2> QED  BY <2>1, <2>2, <2>3, <2>4, <2>5, <2>6
  <1>3. ASSUME NEW k \in 0 .. 1 PROVE BitAt((a % 4) * 16 + (b \div 16), 6, k) = BitAt(a, 8, k + 6)
    <2>1. CASE k = 0
      <3>1. (((a % 4) * 16 + (b \div 16)) \div 32) % 2 = (a \div 2) % 2
        BY <1>0
      <3> QED  BY <1>1, <2>1, <3>1 DEF BitAt
    <2>2. CASE k = 1
      <3>1. (((a % 4) * 16 + (b \div 16)) \div 16) % 2 = (a \div 1) % 2
        BY <1>0
      <3> QED  BY <1>1, <2>2, <3>1 DEF BitAt
    <2> QED  BY <2>1, <2>2
  <1>4. ASSUME NEW k \in 2 .. 5 PROVE BitAt((a % 4) * 16 + (b \div 16), 6, k) = BitAt(b, 8, k - 2)
    <2>1. CASE k = 2
      <3>1. (((a % 4) * 16 + (b \div 16)) \div 8) % 2 = (b \div 128) % 2
        BY <1>0
      <3> QED  BY <1>1, <2>1, <3>1 DEF BitAt
    <2>2. CASE k = 3
      <3>1. (((a % 4) * 16 + (b \div 16)) \div 4) % 2 = (b \div 64) % 2
        BY <1>0
      <3> QED  BY <1>1, <2>2, <3>1 DEF BitAt
    <2>3. CASE k = 4
      <3>1. (((a % 4) * 16 + (b \div 16)) \div 2) % 2 = (b \div 32) % 2
        BY <1>0
      <3> QED  BY <1>1, <2>3, <3>1 DEF BitAt
    <2>4. CASE k = 5
      <3>1. (((a % 4) * 16 + (b \div 16)) \div 1) % 2 = (b \div 16) % 2
        BY <1>0
      <3> QED  BY <1>1, <2>4, <3>1 DEF BitAt
    <2> QED  BY <2>1, <2>2, <2>3, <2>4
  <1>5. ASSUME NEW k \in 0 .. 3 PROVE BitAt((b % 16) * 4 + (c \div 64), 6, k) = BitAt(b, 8, k + 4)
    <2>1. CASE k = 0
      <3>1. (((b % 16) * 4 + (c \div 64)) \div 32) % 2 = (b \div 8) % 2
        BY <1>0
      <3> QED  BY <1>1, <2>1, <3>1 DEF BitAt
    <2>2. CASE k = 1
      <3>1. (((b % 16) * 4 + (c \div 64)) \div 16) % 2 = (b \div 4) % 2
        BY <1>0
      <3> QED  BY <1>1, <2>2, <3>1 DEF BitAt
    <2>3. CASE k = 2
      <3>1. (((b % 16) * 4 + (c \div 64)) \div 8) % 2 = (b \div 2) % 2
        BY <1>0
      <3> QED  BY <1>1, <2>3, <3>1 DEF BitAt
    <2>4. CASE k = 3
      <3>1. (((b % 16) * 4 + (c \div 64)) \div 4) % 2 = (b \div 1) % 2
        BY <1>0
      <3> QED  BY <1>1, <2>4, <3>1 DEF BitAt
    <2> QED  BY <2>1, <2>2, <2>3, <2>4
  <1>6. ASSUME NEW k \in 4 .. 5 PROVE BitAt((b % 16) * 4 + (c \div 64), 6, k) = BitAt(c, 8, k - 4)
    <2>1. CASE k = 4
      <3>1. (((b % 16) * 4 + (c \div 64)) \div 2) % 2 = (c \div 128) % 2
        BY <1>0
      <3> QED  BY <1>1, <2>1, <3>1 DEF BitAt
    <2>2. CASE k = 5
      <3>1. (((b % 16) * 4 + (c \div 64)) \div 1) % 2 = (c \div 64) % 2
        BY <1>0
      <3> QED  BY <1>1, <2>2, <3>1 DEF BitAt
    <2> QED  BY <2>1, <2>2
  <1>7. ASSUME NEW k \in 0 .. 5 PROVE BitAt(c % 64, 6, k) = BitAt(c, 8, k + 2)
    <2>1. CASE k = 0
      <3>1. ((c % 64) \div 32) % 2 = (c \div 32) % 2
        BY <1>0
      <3> QED  BY <1>1, <2>1, <3>1 DEF BitAt
    <2>2. CASE k = 1
      <3>1. ((c % 64) \div 16) % 2 = (c \div 16) % 2
        BY <1>0
      <3> QED  BY <1>1, <2>2, <3>1 DEF BitAt
    <2>3. CASE k = 2
      <3>1. ((c % 64) \div 8) % 2 = (c \div 8) % 2
        BY <1>0
      <3> QED  BY <1>1, <2>3, <3>1 DEF BitAt
    <2>4. CASE k = 3
      <3>1. ((c % 64) \div 4) % 2 = (c \div 4) % 2
        BY <1>0
      <3> QED  BY <1>1, <2>4, <3>1 DEF BitAt
    <2>5. CASE k = 4
      <3>1. ((c % 64) \div 2) % 2 = (c \div 2) % 2
        BY <1>0
      <3> QED  BY <1>1, <2>5, <3>1 DEF BitAt
    <2>6. CASE k = 5
      <3>1. ((c % 64) \div 1) % 2 = (c \div 1) % 2
        BY <1>0
      <3> QED  BY <1>1, <2>6, <3>1 DEF BitAt
    <2> QED  BY <2>1, <2>2, <2>3, <2>4, <2>5, <2>6
  <1> QED  BY <1>2, <1>3, <1>4, <1>5, <1>6, <1>7

Fours(ss) == \A g \in 1 .. Len(ss) : Len(ss[g]) = 4

\* w holds the groups of ss, four by four, up to the i-th.
InGroups(w, ss, i) ==
  Len(w) = 4 * i /\ \A g \in 1 .. i : \A r \in 1 .. 4 : w[4 * (g - 1) + r] = ss[g][r]

LEMMA GroupMore ==
  ASSUME NEW S, NEW ss \in Seq(Seq(S)), Fours(ss), NEW i \in Nat, i + 1 <= Len(ss),
         NEW w \in Seq(S), InGroups(w, ss, i)
  PROVE  InGroups(w \o ss[i + 1], ss, i + 1)
  <1> DEFINE t == ss[i + 1]
             u == w \o t
  <1>1. t \in Seq(S) /\ Len(t) = 4
    BY DEF Fours
  <1> HIDE DEF t
  <1>2. Len(w) = 4 * i /\ Len(w) \in Nat
    BY DEF InGroups
  <1>3. Len(u) = 4 * (i + 1) /\ (\A q \in 1 .. Len(w) : u[q] = w[q])
        /\ \A r \in 1 .. 4 : u[Len(w) + r] = t[r]
    <2>1. Joined(u, w, t)
      BY <1>1, TwoParts
    <2> HIDE DEF u
    <2> QED  BY <1>1, <1>2, <2>1 DEF Joined
  <1> HIDE DEF u
  <1>4. ASSUME NEW g \in 1 .. i + 1, NEW r \in 1 .. 4 PROVE u[4 * (g - 1) + r] = ss[g][r]
    <2>1. CASE g = i + 1
      <3>1. 4 * (g - 1) + r = Len(w) + r
        BY <1>2, <2>1
      <3> QED  BY <1>3, <2>1, <3>1 DEF t
    <2>2. CASE g # i + 1
      <3>1. g \in 1 .. i /\ 4 * (g - 1) + r \in 1 .. Len(w)
        BY <1>2, <2>2
      <3> QED  BY <1>3, <3>1 DEF InGroups
    <2> QED  BY <2>1, <2>2
  <1> QED  BY <1>3, <1>4 DEF InGroups, u, t

\* Groups of four put together.
LEMMA GroupsFlat ==
  ASSUME NEW S, NEW ss \in Seq(Seq(S)), Fours(ss)
  PROVE  FlattenSeq(ss) \in Seq(S) /\ InGroups(FlattenSeq(ss), ss, Len(ss))
  <1> DEFINE T == {i \in Nat : i <= Len(ss) =>
                     FrontOf(ss, i) \in Seq(S) /\ InGroups(FrontOf(ss, i), ss, i)}
  <1>0. Len(ss) \in Nat
    OBVIOUS
  <1>1. 0 \in T
    <2>1. FrontOf(ss, 0) = <<>>
      <3>1. SubSeq(ss, 1, 0) = <<>>
        OBVIOUS
      <3> QED  BY <3>1, FlattenEmpty DEF FrontOf
    <2>2. InGroups(<<>>, ss, 0)
      BY DEF InGroups
    <2>3. <<>> \in Seq(S)
      OBVIOUS
    <2> QED  BY <2>1, <2>2, <2>3
  <1>2. ASSUME NEW i \in Nat, i \in T PROVE i + 1 \in T
    <2> SUFFICES ASSUME i + 1 <= Len(ss)
                 PROVE FrontOf(ss, i + 1) \in Seq(S) /\ InGroups(FrontOf(ss, i + 1), ss, i + 1)
      OBVIOUS
    <2>1. i + 1 \in 1 .. Len(ss) /\ i + 1 \in 0 .. Len(ss) /\ i + 1 - 1 = i /\ i <= Len(ss)
      BY <1>0
    <2>2. FrontOf(ss, i) \in Seq(S) /\ InGroups(FrontOf(ss, i), ss, i)
      BY <1>2, <2>1
    <2>3. FrontOf(ss, i + 1) = FrontOf(ss, i + 1 - 1) \o ss[i + 1]
      <3> DEFINE k == i + 1
      <3>1. k \in 1 .. Len(ss)
        BY <2>1
      <3> HIDE DEF k
      <3>2. FrontOf(ss, k) = FrontOf(ss, k - 1) \o ss[k]
        BY <3>1, FrontStep
      <3> QED  BY <3>2 DEF k
    <2>4. InGroups(FrontOf(ss, i) \o ss[i + 1], ss, i + 1)
      BY <2>2, GroupMore
    <2>5. FrontOf(ss, i + 1) \in Seq(S)
      BY <2>1, FrontType
    <2> QED  BY <2>1, <2>3, <2>4, <2>5
  <1>3. Nat \subseteq T
    <2> HIDE DEF T
    <2> QED  BY <1>1, <1>2, SetInduction
  <1>4. FrontOf(ss, Len(ss)) \in Seq(S) /\ InGroups(FrontOf(ss, Len(ss)), ss, Len(ss))
    BY <1>0, <1>3
  <1>5. FrontOf(ss, Len(ss)) = FlattenSeq(ss)
    <2>1. SubSeq(ss, 1, Len(ss)) = ss
      OBVIOUS
    <2> QED  BY <2>1 DEF FrontOf
  <1> QED  BY <1>4, <1>5

-----------------------------------------------------------------------------
(* What base64_encode writes.                                              *)

Six == 0 .. 63

ByteAt(src, i) == IF i <= Len(src) THEN src[i] ELSE 0
GroupAt(src, g) ==
  Sextets(ByteAt(src, 3 * g + 1), ByteAt(src, 3 * g + 2), ByteAt(src, 3 * g + 3))
\* The characters that carry data, and all of them.
UsedOf(n) == 4 * (n \div 3) + IF n % 3 = 0 THEN 0 ELSE (n % 3) + 1
AllOf(n) == 4 * (n \div 3) + IF n % 3 = 0 THEN 0 ELSE 4

LEMMA ByteAtType ==
  ASSUME NEW src \in Seq(Bytes), NEW i \in Nat \ {0}
  PROVE  ByteAt(src, i) \in Bytes
  <1>1. CASE i <= Len(src)
    <2>1. i \in 1 .. Len(src)
      BY <1>1
    <2> QED  BY <1>1, <2>1 DEF ByteAt
  <1>2. CASE ~(i <= Len(src))
    BY <1>2 DEF ByteAt, Bytes
  <1> QED  BY <1>1, <1>2

LEMMA SextetType ==
  ASSUME NEW a \in Bytes, NEW b \in Bytes, NEW c \in Bytes
  PROVE  Sextets(a, b, c) \in Seq(Six) /\ Len(Sextets(a, b, c)) = 4
  <1>1. a \in 0 .. 255 /\ b \in 0 .. 255 /\ c \in 0 .. 255
    BY DEF Bytes
  <1>2. /\ a \div 4 \in Six /\ (a % 4) * 16 + (b \div 16) \in Six
        /\ (b % 16) * 4 + (c \div 64) \in Six /\ c % 64 \in Six
    BY <1>1 DEF Six
  <1> QED  BY <1>2 DEF Sextets

LEMMA GroupType ==
  ASSUME NEW src \in Seq(Bytes), NEW g \in Nat
  PROVE  GroupAt(src, g) \in Seq(Six) /\ Len(GroupAt(src, g)) = 4
  <1>1. 3 * g + 1 \in Nat \ {0} /\ 3 * g + 2 \in Nat \ {0} /\ 3 * g + 3 \in Nat \ {0}
    OBVIOUS
  <1> QED  BY <1>1, ByteAtType, SextetType DEF GroupAt

\* Bit o of the 24 of a group.
LEMMA GroupBit ==
  ASSUME NEW src \in Seq(Bytes), NEW g \in Nat, NEW o \in 0 .. 23
  PROVE  BitAt(GroupAt(src, g)[(o \div 6) + 1], 6, o % 6)
           = BitAt(ByteAt(src, 3 * g + (o \div 8) + 1), 8, o % 8)
  <1> DEFINE a == ByteAt(src, 3 * g + 1)
             b == ByteAt(src, 3 * g + 2)
             c == ByteAt(src, 3 * g + 3)
             k == o % 6
  <1>1. a \in Bytes /\ b \in Bytes /\ c \in Bytes
    <2>1. 3 * g + 1 \in Nat \ {0} /\ 3 * g + 2 \in Nat \ {0} /\ 3 * g + 3 \in Nat \ {0}
      OBVIOUS
    <2> QED  BY <2>1, ByteAtType
  <1>2. /\ GroupAt(src, g)[1] = a \div 4 /\ GroupAt(src, g)[2] = (a % 4) * 16 + (b \div 16)
        /\ GroupAt(src, g)[3] = (b % 16) * 4 + (c \div 64) /\ GroupAt(src, g)[4] = c % 64
    BY DEF GroupAt, Sextets
  <1>3. /\ o \div 8 = 0 => ByteAt(src, 3 * g + (o \div 8) + 1) = a
        /\ o \div 8 = 1 => ByteAt(src, 3 * g + (o \div 8) + 1) = b
        /\ o \div 8 = 2 => ByteAt(src, 3 * g + (o \div 8) + 1) = c
    <2>1. ASSUME NEW q \in 0 .. 2 PROVE 3 * g + q + 1 = 3 * g + (q + 1)
      OBVIOUS
    <2> QED  BY <2>1
  <1>4. k \in 0 .. 5
    OBVIOUS
  <1> HIDE DEF a, b, c
  <1>5. CASE o \in 0 .. 5
    <2>1. o \div 6 = 0 /\ o \div 8 = 0 /\ o % 8 = k
      BY <1>5
    <2> HIDE DEF k
    <2> QED  BY <1>1, <1>2, <1>3, <1>4, <2>1, SextetBit DEF k
  <1>6. CASE o \in 6 .. 7
    <2>1. o \div 6 = 1 /\ o \div 8 = 0 /\ o % 8 = k + 6 /\ k \in 0 .. 1
      BY <1>6
    <2> HIDE DEF k
    <2> QED  BY <1>1, <1>2, <1>3, <2>1, SextetBit DEF k
  <1>7. CASE o \in 8 .. 11
    <2>1. o \div 6 = 1 /\ o \div 8 = 1 /\ o % 8 = k - 2 /\ k \in 2 .. 5
      BY <1>7
    <2> HIDE DEF k
    <2> QED  BY <1>1, <1>2, <1>3, <2>1, SextetBit DEF k
  <1>8. CASE o \in 12 .. 15
    <2>1. o \div 6 = 2 /\ o \div 8 = 1 /\ o % 8 = k + 4 /\ k \in 0 .. 3
      BY <1>8
    <2> HIDE DEF k
    <2> QED  BY <1>1, <1>2, <1>3, <2>1, SextetBit DEF k
  <1>9. CASE o \in 16 .. 17
    <2>1. o \div 6 = 2 /\ o \div 8 = 2 /\ o % 8 = k - 4 /\ k \in 4 .. 5
      BY <1>9
    <2> HIDE DEF k
    <2> QED  BY <1>1, <1>2, <1>3, <2>1, SextetBit DEF k
  <1>10. CASE o \in 18 .. 23
    <2>1. o \div 6 = 3 /\ o \div 8 = 2 /\ o % 8 = k + 2
      BY <1>10
    <2> HIDE DEF k
    <2> QED  BY <1>1, <1>2, <1>3, <1>4, <2>1, SextetBit DEF k
  <1> QED  BY <1>5, <1>6, <1>7, <1>8, <1>9, <1>10

\* How many characters there are, and how many carry data.
LEMMA UsedIs ==
  ASSUME NEW n \in Nat
  PROVE  /\ UsedOf(n) \in Nat /\ AllOf(n) \in Nat /\ UsedOf(n) <= AllOf(n)
         /\ AllOf(n) - UsedOf(n) < 3 /\ AllOf(n) % 4 = 0
         /\ 8 * n <= 6 * UsedOf(n) /\ 6 * UsedOf(n) - 8 * n < 6
  <1> DEFINE m == n \div 3
             r == n % 3
  <1>1. m \in Nat /\ r \in {0, 1, 2} /\ n = 3 * m + r
    OBVIOUS
  <1>2. /\ UsedOf(n) = 4 * m + (IF r = 0 THEN 0 ELSE r + 1)
        /\ AllOf(n) = 4 * m + IF r = 0 THEN 0 ELSE 4
    BY DEF UsedOf, AllOf
  <1> HIDE DEF m, r
  <1>3. CASE r = 0
    BY <1>1, <1>2, <1>3
  <1>4. CASE r = 1
    BY <1>1, <1>2, <1>4
  <1>5. CASE r = 2
    BY <1>1, <1>2, <1>5
  <1> QED  BY <1>1, <1>3, <1>4, <1>5

\* out has the groups of src, and '=' where the last one lacks bytes.
Encoded(out, src) ==
  /\ Len(out) = AllOf(Len(src))
  /\ \A j \in 1 .. UsedOf(Len(src)) : out[j] = GroupAt(src, (j - 1) \div 4)[((j - 1) % 4) + 1]
  /\ \A j \in UsedOf(Len(src)) + 1 .. Len(out) : out[j] = Pad

LEMMA OutIs ==
  ASSUME NEW src \in Seq(Bytes)
  PROVE  base64_encode(src) \in Seq(0 .. 64) /\ Encoded(base64_encode(src), src)
  <1> DEFINE n == Len(src)
             full == n \div 3
             rem == n % 3
             ss == [g \in 1 .. full |-> GroupAt(src, g - 1)]
             body == FlattenSeq(ss)
             last == IF rem = 0 THEN <<>>
                     ELSE [i \in 1 .. 4 |-> IF i <= TailChars(rem) THEN GroupAt(src, full)[i]
                                            ELSE Pad]
             out == body \o last
             C == 0 .. 64
  <1>0. base64_encode(src) = out
    BY DEF base64_encode, GroupAt, ByteAt
  <1>1. n \in Nat /\ full \in Nat /\ rem \in 0 .. 2 /\ n = 3 * full + rem
    OBVIOUS
  <1> HIDE DEF full, rem, n
  <1>2. ss \in Seq(Seq(C)) /\ Len(ss) = full /\ Fours(ss)
        /\ \A g \in 1 .. full : ss[g] = GroupAt(src, g - 1)
    <2>1. ASSUME NEW g \in 1 .. full
          PROVE GroupAt(src, g - 1) \in Seq(C) /\ Len(GroupAt(src, g - 1)) = 4
      <3>1. g - 1 \in Nat
        BY <1>1
      <3>2. GroupAt(src, g - 1) \in Seq(Six) /\ Len(GroupAt(src, g - 1)) = 4
        BY <3>1, GroupType
      <3> HIDE DEF C
      <3>3. Six \subseteq C
        BY DEF Six, C
      <3> QED  BY <3>2, <3>3
    <2>2. ss \in [1 .. full -> Seq(C)]
      <3> DEFINE Z == Seq(C)
      <3>1. \A g \in 1 .. full : GroupAt(src, g - 1) \in Z
        BY <2>1
      <3> HIDE DEF Z
      <3>2. ss \in [1 .. full -> Z]
        BY <3>1
      <3> QED  BY <3>2 DEF Z
    <2>3. ss \in Seq(Seq(C)) /\ Len(ss) = full
      BY <1>1, <2>2, FunctionIsSeq
    <2>4. \A g \in 1 .. full : ss[g] = GroupAt(src, g - 1)
      OBVIOUS
    <2> HIDE DEF ss, C
    <2>5. Fours(ss)
      BY <2>1, <2>3, <2>4 DEF Fours
    <2> QED  BY <2>3, <2>4, <2>5
  <1> HIDE DEF ss
  <1>3. body \in Seq(C) /\ InGroups(body, ss, full)
    <2> HIDE DEF C
    <2> QED  BY <1>2, GroupsFlat
  <1> HIDE DEF body
  <1>4. Len(body) = 4 * full
    BY <1>3 DEF InGroups
  <1>5. /\ last \in Seq(C) /\ Len(last) = IF rem = 0 THEN 0 ELSE 4
        /\ rem # 0 => \A i \in 1 .. 4 : last[i] = IF i <= rem + 1 THEN GroupAt(src, full)[i]
                                                  ELSE Pad
    <2>1. CASE rem = 0
      BY <2>1
    <2>2. CASE rem # 0
      <3>1. last = [i \in 1 .. 4 |-> IF i <= rem + 1 THEN GroupAt(src, full)[i] ELSE Pad]
        BY <2>2 DEF TailChars
      <3>2. \A i \in 1 .. 4 : GroupAt(src, full)[i] \in C
        <4> DEFINE t == GroupAt(src, full)
        <4>1. t \in Seq(Six) /\ Len(t) = 4
          BY <1>1, GroupType
        <4> HIDE DEF t
        <4>2. \A i \in 1 .. 4 : t[i] \in Six
          BY <4>1, ElementOfSeq
        <4>3. Six \subseteq C
          BY DEF Six
        <4> QED  BY <4>2, <4>3 DEF t
      <3>3. Pad \in C
        BY DEF Pad
      <3> HIDE DEF last, C
      <3>4. last \in [1 .. 4 -> C]
        BY <3>1, <3>2, <3>3
      <3>5. last \in Seq(C) /\ Len(last) = 4
        BY <3>4, FunctionIsSeq
      <3> QED  BY <2>2, <3>1, <3>5
    <2> QED  BY <2>1, <2>2
  <1> HIDE DEF last, C
  <1>6. out \in Seq(C) /\ Joined(out, body, last)
    BY <1>3, <1>5, TwoParts
  <1> HIDE DEF out
  <1>7. Len(out) = AllOf(n) /\ UsedOf(n) = 4 * full + (IF rem = 0 THEN 0 ELSE rem + 1)
    BY <1>1, <1>4, <1>5, <1>6 DEF Joined, AllOf, UsedOf, full, rem
  <1>8. ASSUME NEW j \in 1 .. UsedOf(n)
        PROVE out[j] = GroupAt(src, (j - 1) \div 4)[((j - 1) % 4) + 1]
    <2> DEFINE g == (j - 1) \div 4
               r == ((j - 1) % 4) + 1
    <2>1. g \in Nat /\ r \in 1 .. 4 /\ j = 4 * g + r
      BY <1>1, <1>7
    <2>2. CASE j <= 4 * full
      <3> HIDE DEF g, r
      <3>1. g + 1 \in 1 .. full /\ 4 * ((g + 1) - 1) + r = j /\ (g + 1) - 1 = g
        BY <1>1, <2>1, <2>2
      <3>2. body[4 * ((g + 1) - 1) + r] = ss[g + 1][r]
        BY <1>3, <2>1, <3>1 DEF InGroups
      <3>3. ss[g + 1] = GroupAt(src, g)
        BY <1>2, <3>1
      <3>4. out[j] = body[j]
        BY <1>1, <1>4, <1>6, <2>2 DEF Joined
      <3> QED  BY <3>1, <3>2, <3>3, <3>4 DEF g, r
    <2>3. CASE j > 4 * full
      <3>1. rem # 0 /\ g = full /\ r <= rem + 1 /\ j = Len(body) + r
        BY <1>1, <1>4, <1>7, <2>1, <2>3
      <3> HIDE DEF g, r
      <3>2. out[j] = last[r]
        BY <1>5, <1>6, <2>1, <3>1 DEF Joined
      <3> QED  BY <1>5, <2>1, <3>1, <3>2 DEF g, r
    <2> QED  BY <1>1, <2>1, <2>2, <2>3
  <1>9. ASSUME NEW j \in UsedOf(n) + 1 .. Len(out) PROVE out[j] = Pad
    <2>1. rem # 0
      BY <1>1, <1>7 DEF AllOf, full, rem
    <2>2. j - 4 * full \in rem + 2 .. 4 /\ j = Len(body) + (j - 4 * full)
      BY <1>1, <1>4, <1>5, <1>6, <1>7, <2>1 DEF Joined
    <2> DEFINE r == j - 4 * full
    <2>3. r \in rem + 2 .. 4 /\ j = Len(body) + r
      BY <2>2
    <2> HIDE DEF r
    <2>4. r \in 1 .. 4 /\ ~(r <= rem + 1)
      BY <1>1, <2>3
    <2>5. out[j] = last[r]
      BY <1>5, <1>6, <2>1, <2>3, <2>4 DEF Joined
    <2> QED  BY <1>5, <2>1, <2>4, <2>5
  <1> QED  BY <1>0, <1>6, <1>7, <1>8, <1>9 DEF Encoded, n, C

\* Bit i (from 0) of the characters is bit i of the bytes, filled up with zeros.
LEMMA EncodedBit ==
  ASSUME NEW src \in Seq(Bytes), NEW out, Encoded(out, src),
         NEW i \in 0 .. 6 * UsedOf(Len(src)) - 1
  PROVE  BitAt(out[(i \div 6) + 1], 6, i % 6) = BitAt(ByteAt(src, (i \div 8) + 1), 8, i % 8)
  <1> DEFINE g == i \div 24
             o == i % 24
             j == (i \div 6) + 1
             u == UsedOf(Len(src))
  <1>0. u \in Nat
    <2>1. Len(src) \in Nat
      OBVIOUS
    <2> QED  BY <2>1, UsedIs
  <1> HIDE DEF u
  <1>1. i \in Nat /\ i < 6 * u
    BY <1>0 DEF u
  <1>2. j \in 1 .. u
    BY <1>0, <1>1
  <1>3. /\ g \in Nat /\ o \in 0 .. 23 /\ (j - 1) \div 4 = g /\ (j - 1) % 4 = o \div 6
        /\ i % 6 = o % 6 /\ (i \div 8) + 1 = 3 * g + (o \div 8) + 1 /\ i % 8 = o % 8
    BY <1>1
  <1> HIDE DEF g, o, j
  <1>4. out[j] = GroupAt(src, g)[(o \div 6) + 1]
    BY <1>2, <1>3 DEF Encoded, u
  <1> QED  BY <1>3, <1>4, GroupBit DEF j

\* A sequence over a set is one over a larger set.
LEMMA SeqWider ==
  ASSUME NEW S, NEW U, S \subseteq U, NEW s \in Seq(S)
  PROVE  s \in Seq(U)
  <1> DEFINE n == Len(s)
  <1>1. n \in Nat /\ s \in [1 .. n -> S]
    OBVIOUS
  <1> HIDE DEF n
  <1>2. s \in [1 .. n -> U]
    BY <1>1
  <1> QED  BY <1>1, <1>2, FunctionIsSeq

\* The first n elements.
LEMMA FirstPart ==
  ASSUME NEW S, NEW s \in Seq(S), NEW n \in 0 .. Len(s)
  PROVE  /\ SubSeq(s, 1, n) \in Seq(S) /\ Len(SubSeq(s, 1, n)) = n
         /\ \A j \in 1 .. n : SubSeq(s, 1, n)[j] = s[j]
  OBVIOUS

\* A bit is 0 or 1, and 0 has no other.
LEMMA BitIs ==
  ASSUME NEW x \in Nat, NEW w \in {6, 8}, NEW k \in 0 .. w - 1
  PROVE  BitAt(x, w, k) \in 0 .. 1 /\ (x = 0 => BitAt(x, w, k) = 0)
  <1>1. Places[w - k] \in {1, 2, 4, 8, 16, 32, 64, 128}
    <2>1. w - k \in 1 .. 8
      OBVIOUS
    <2> QED  BY <2>1 DEF Places
  <1> DEFINE p == Places[w - k]
  <1>2. (x \div p) % 2 \in 0 .. 1 /\ (x = 0 => (x \div p) % 2 = 0)
    <2> HIDE DEF p
    <2>1. p \in {1, 2, 4, 8, 16, 32, 64, 128}
      BY <1>1 DEF p
    <2> QED  BY <2>1
  <1> QED  BY <1>2 DEF BitAt

\* The bits of a sequence of numbers.
LEMMA BitsAre ==
  ASSUME NEW s \in Seq(Nat), NEW w \in {6, 8}
  PROVE  /\ Bits(s, w) \in Seq(0 .. 1) /\ Len(Bits(s, w)) = w * Len(s)
         /\ \A i \in 1 .. w * Len(s) :
              Bits(s, w)[i] = BitAt(s[((i - 1) \div w) + 1], w, (i - 1) % w)
  <1> DEFINE n == w * Len(s)
             b == Bits(s, w)
  <1>1. n \in Nat /\ Len(s) \in Nat
    OBVIOUS
  <1>2. b = [i \in 1 .. n |-> BitAt(s[((i - 1) \div w) + 1], w, (i - 1) % w)]
    BY DEF Bits, BitAt
  <1>3. ASSUME NEW i \in 1 .. n PROVE BitAt(s[((i - 1) \div w) + 1], w, (i - 1) % w) \in 0 .. 1
    <2> DEFINE j == ((i - 1) \div w) + 1
               k == (i - 1) % w
    <2>1. CASE w = 6
      <3>1. j \in 1 .. Len(s) /\ k \in 0 .. w - 1
        BY <1>1, <2>1
      <3> HIDE DEF j, k
      <3>2. s[j] \in Nat
        BY <3>1, ElementOfSeq
      <3> DEFINE x == s[j]
      <3> HIDE DEF x
      <3>3. BitAt(x, w, k) \in 0 .. 1
        BY <3>1, <3>2, BitIs DEF x
      <3> QED  BY <3>3 DEF j, k, x
    <2>2. CASE w = 8
      <3>1. j \in 1 .. Len(s) /\ k \in 0 .. w - 1
        BY <1>1, <2>2
      <3> HIDE DEF j, k
      <3>2. s[j] \in Nat
        BY <3>1, ElementOfSeq
      <3> DEFINE x == s[j]
      <3> HIDE DEF x
      <3>3. BitAt(x, w, k) \in 0 .. 1
        BY <3>1, <3>2, BitIs DEF x
      <3> QED  BY <3>3 DEF j, k, x
    <2> QED  BY <2>1, <2>2
  <1> DEFINE B == 0 .. 1
  <1> HIDE DEF n, b, B
  <1>4. b \in [1 .. n -> B]
    BY <1>2, <1>3 DEF B
  <1>5. b \in Seq(B) /\ Len(b) = n
    BY <1>1, <1>4, FunctionIsSeq
  <1> QED  BY <1>2, <1>5 DEF n, b, B

\* Base64Faithful says that the output, how much of it is used, and its bits are so.
Base64Of(out, used, data, bits) ==
  /\ \A i \in used + 1 .. Len(out) : out[i] = Pad
  /\ Len(out) % 4 = 0 /\ Len(out) - used < 3
  /\ IsPrefix(bits, Bits(data, 6)) /\ 6 * used - Len(bits) < 6
  /\ \A i \in Len(bits) + 1 .. 6 * used : Bits(data, 6)[i] = 0

\* base64_encode of every byte string.
LEMMA EncodesAll ==
  ASSUME NEW src \in Seq(Bytes), NEW out, NEW used, NEW data, NEW bits,
         out = base64_encode(src),
         used = Max({i \in 0 .. Len(out) : \A j \in 1 .. i : out[j] # Pad}),
         data = SubSeq(out, 1, used), bits = Bits(src, 8)
  PROVE  Base64Of(out, used, data, bits)
  <1> DEFINE n == Len(src)
             u == UsedOf(n)
             T == {i \in 0 .. Len(out) : \A j \in 1 .. i : out[j] # Pad}
             C == 0 .. 64
  <1>1. out \in Seq(C) /\ Encoded(out, src)
    BY OutIs
  <1>2. n \in Nat
    OBVIOUS
  <1> HIDE DEF n
  <1>3. u \in Nat /\ Len(out) \in Nat /\ u <= Len(out)
    BY <1>1, <1>2, UsedIs DEF Encoded, n
  <1>3a. Len(out) - u < 3 /\ Len(out) % 4 = 0
    BY <1>1, <1>2, UsedIs DEF Encoded, n
  <1>3b. 8 * n <= 6 * u /\ 6 * u - 8 * n < 6
    BY <1>2, UsedIs
  <1>4. ASSUME NEW j \in 1 .. u PROVE out[j] \in Six /\ out[j] # Pad
    <2> DEFINE g == (j - 1) \div 4
               r == ((j - 1) % 4) + 1
               t == GroupAt(src, g)
    <2>1. g \in Nat /\ r \in 1 .. 4
      BY <1>3
    <2> HIDE DEF g, r
    <2>2. t \in Seq(Six) /\ Len(t) = 4
      BY <2>1, GroupType
    <2>3. out[j] = t[r]
      BY <1>1 DEF Encoded, g, r, n
    <2> HIDE DEF t
    <2>4. t[r] \in Six
      BY <2>1, <2>2, ElementOfSeq
    <2>5. 64 \notin Six
      BY DEF Six
    <2> QED  BY <2>3, <2>4, <2>5 DEF Pad
  <1>5. \A j \in u + 1 .. Len(out) : out[j] = Pad
    BY <1>1 DEF Encoded, n
  <1> HIDE DEF u, C
  <1>6. used = u
    <2>1. u \in T
      BY <1>3, <1>4
    <2>2. ASSUME NEW i \in T PROVE i <= u
      <3>1. i \in Nat /\ i <= Len(out) /\ \A j \in 1 .. i : out[j] # Pad
        BY <1>3
      <3>2. ASSUME i > u PROVE FALSE
        <4>1. u + 1 \in 1 .. i /\ u + 1 \in u + 1 .. Len(out)
          BY <1>3, <3>1, <3>2
        <4> QED  BY <1>5, <3>1, <4>1
      <3> QED  BY <1>3, <3>1, <3>2
    <2>3. T \subseteq 0 .. Len(out)
      OBVIOUS
    <2>4. T \subseteq Nat
      BY <1>3
    <2>5. used = Max(T)
      OBVIOUS
    <2> HIDE DEF T
    <2>6. Max(T) \in T /\ \A k \in T : Max(T) >= k
      BY <1>3, <2>1, <2>3, MaxIs
    <2>7. Max(T) \in Nat /\ Max(T) >= u /\ Max(T) <= u
      BY <2>1, <2>2, <2>4, <2>6
    <2> QED  BY <1>3, <2>5, <2>7
  <1>7. data \in Seq(Nat) /\ Len(data) = u /\ \A j \in 1 .. u : data[j] = out[j]
    <2>1. data = SubSeq(out, 1, u)
      BY <1>6
    <2>2. /\ SubSeq(out, 1, u) \in Seq(C) /\ Len(SubSeq(out, 1, u)) = u
          /\ \A j \in 1 .. u : SubSeq(out, 1, u)[j] = out[j]
      <3>1. u \in 0 .. Len(out)
        BY <1>3
      <3> QED  BY <1>1, <3>1, FirstPart
    <2>3. data \in Seq(C)
      BY <2>1, <2>2
    <2>4. C \subseteq Nat
      BY DEF C
    <2>5. data \in Seq(Nat)
      BY <2>3, <2>4, SeqWider
    <2> QED  BY <2>1, <2>2, <2>5
  <1> DEFINE six == Bits(data, 6)
  <1>8. /\ six \in Seq(0 .. 1) /\ Len(six) = 6 * u
        /\ \A i \in 1 .. 6 * u : six[i] = BitAt(data[((i - 1) \div 6) + 1], 6, (i - 1) % 6)
    BY <1>7, BitsAre
  <1>9. /\ bits \in Seq(0 .. 1) /\ Len(bits) = 8 * n
        /\ \A i \in 1 .. 8 * n : bits[i] = BitAt(src[((i - 1) \div 8) + 1], 8, (i - 1) % 8)
    <2>1. src \in Seq(Nat)
      <3>1. Bytes \subseteq Nat
        BY DEF Bytes
      <3> QED  BY <3>1, SeqWider
    <2> QED  BY <2>1, BitsAre DEF n
  <1> HIDE DEF six
  <1>10. ASSUME NEW i \in 1 .. 6 * u
         PROVE six[i] = BitAt(ByteAt(src, ((i - 1) \div 8) + 1), 8, (i - 1) % 8)
    <2> DEFINE k == i - 1
               j == (k \div 6) + 1
    <2>1. k \in 0 .. 6 * u - 1
      BY <1>3
    <2>2. j \in 1 .. u
      BY <1>3
    <2>3. data[j] = out[j]
      BY <1>7, <2>2
    <2>4. six[i] = BitAt(out[j], 6, k % 6)
      BY <1>8, <2>3
    <2> HIDE DEF k
    <2>5. BitAt(out[j], 6, k % 6) = BitAt(ByteAt(src, (k \div 8) + 1), 8, k % 8)
      BY <1>1, <2>1, EncodedBit DEF u, n
    <2> QED  BY <2>4, <2>5 DEF k
  <1>11. IsPrefix(bits, six)
    <2>1. ASSUME NEW i \in 1 .. 8 * n PROVE six[i] = bits[i]
      <3> DEFINE j == ((i - 1) \div 8) + 1
      <3>1. j \in 1 .. n /\ i \in 1 .. 6 * u
        BY <1>2, <1>3, <1>3b
      <3>2. ByteAt(src, j) = src[j]
        BY <3>1 DEF ByteAt, n
      <3> QED  BY <1>9, <1>10, <3>1, <3>2
    <2>2. Heads(bits, six)
      BY <1>2, <1>3, <1>3b, <1>8, <1>9, <2>1 DEF Heads
    <2> DEFINE B == 0 .. 1
    <2>3. bits \in Seq(B) /\ six \in Seq(B)
      BY <1>8, <1>9
    <2> HIDE DEF B
    <2> QED  BY <2>2, <2>3, HeadsIsPrefix
  <1>12. ASSUME NEW i \in Len(bits) + 1 .. 6 * u PROVE six[i] = 0
    <2> DEFINE j == ((i - 1) \div 8) + 1
    <2>1. j > n /\ i \in 1 .. 6 * u /\ (i - 1) % 8 \in 0 .. 8 - 1 /\ j \in Nat
      BY <1>2, <1>3, <1>9
    <2>2. ByteAt(src, j) = 0
      BY <1>2, <2>1 DEF ByteAt, n
    <2>3. BitAt(0, 8, (i - 1) % 8) = 0
      BY <2>1, BitIs
    <2> QED  BY <1>10, <2>1, <2>2, <2>3
  <1> QED  BY <1>3, <1>3a, <1>3b, <1>5, <1>6, <1>9, <1>11, <1>12 DEF six, Base64Of

\* Every byte string is encoded by base64_encode bit by bit, filled up to a character
\* with zeros and to a group of four with '='.
THEOREM BytesEncoded == BytesSpec => []Base64Faithful
  <1>1. InputKept => Base64Faithful
    <2> SUFFICES ASSUME InputKept, input.fn = "base64" PROVE Base64Faithful
      BY DEF Base64Faithful
    <2>1. input.of \in Seq(Bytes)
      BY DEF InputKept
    <2> DEFINE src == input.of
               out == base64_encode(src)
               used == Max({i \in 0 .. Len(out) : \A j \in 1 .. i : out[j] # Pad})
               data == SubSeq(out, 1, used)
               bits == Bits(src, 8)
    <2>2. src \in Seq(Bytes)
      BY <2>1
    <2> HIDE DEF src
    <2>3. ASSUME NEW o, NEW u, NEW d, NEW b, o = base64_encode(src),
                 u = Max({i \in 0 .. Len(o) : \A j \in 1 .. i : o[j] # Pad}),
                 d = SubSeq(o, 1, u), b = Bits(src, 8)
          PROVE Base64Of(o, u, d, b)
      BY <2>2, <2>3, EncodesAll
    <2>4. Base64Of(out, used, data, bits)
      BY <2>3
    <2> QED  BY <2>4 DEF Base64Faithful, Base64Of, src
  <1> QED  BY <1>1, InputInit, InputStep, PTL DEF BytesSpec

-----------------------------------------------------------------------------
(* Addresses.                                                              *)

\* What parse_cstring_ip has taken: the octets before, and the current one so far.
Taken(ps, x) == [parts |-> ps, acc |-> x]
OctetStates == {None} \cup [parts : Seq(Nat), acc : Nat]

LEMMA TakenIs ==
  ASSUME NEW ps \in Seq(Nat), NEW x \in Nat
  PROVE  /\ Taken(ps, x) \in OctetStates /\ Taken(ps, x) # None
         /\ Taken(ps, x).parts = ps /\ Taken(ps, x).acc = x
  <1> DEFINE R == [parts : Seq(Nat), acc : Nat]
  <1>1. Taken(ps, x) \in R
    BY DEF Taken
  <1>2. None \notin R
    BY PureFunctionsAssumption
  <1>3. Taken(ps, x).parts = ps /\ Taken(ps, x).acc = x
    BY DEF Taken
  <1> HIDE DEF R
  <1> QED  BY <1>1, <1>2, <1>3 DEF OctetStates, R

\* What each character does.
LEMMA NoneStays == \A c : OctetStep(None, c) = None
  BY DEF OctetStep

LEMMA DigitStep ==
  ASSUME NEW ps \in Seq(Nat), NEW x \in Nat, NEW c \in Digits
  PROVE  OctetStep(Taken(ps, x), c) =
           IF x * 10 + (c - Zero) > 255 THEN None ELSE Taken(ps, x * 10 + (c - Zero))
  <1>1. Taken(ps, x) # None /\ Taken(ps, x).acc = x
    BY TakenIs
  <1>2. c # Dot /\ c \in Int /\ x * 10 + c - Zero = x * 10 + (c - Zero)
    BY DEF Digits, Dot, Zero
  <1>3. [Taken(ps, x) EXCEPT !.acc = @ * 10 + c - Zero] = Taken(ps, x * 10 + c - Zero)
    BY DEF Taken
  <1> QED  BY <1>1, <1>2, <1>3 DEF OctetStep

LEMMA DotStep ==
  ASSUME NEW ps \in Seq(Nat), NEW x \in Nat
  PROVE  OctetStep(Taken(ps, x), Dot) =
           IF Len(ps) >= 3 THEN None ELSE Taken(Append(ps, x), 0)
  <1>1. Taken(ps, x) # None /\ Taken(ps, x).acc = x /\ Taken(ps, x).parts = ps
    BY TakenIs
  <1> QED  BY <1>1 DEF OctetStep, Taken

LEMMA OtherStep ==
  ASSUME NEW st, NEW c, c # Dot, c \notin Digits
  PROVE  OctetStep(st, c) = None
  BY DEF OctetStep

LEMMA StepStates ==
  ASSUME NEW st \in OctetStates, NEW c
  PROVE  OctetStep(st, c) \in OctetStates
  <1>0. None \in OctetStates
    BY DEF OctetStates
  <1>1. CASE st = None
    BY <1>0, <1>1, NoneStays
  <1>2. CASE st # None
    <2>1. st \in [parts : Seq(Nat), acc : Nat]
      BY <1>2 DEF OctetStates
    <2> DEFINE ps == st.parts
               x == st.acc
    <2>2. ps \in Seq(Nat) /\ x \in Nat /\ st = Taken(ps, x)
      BY <2>1 DEF Taken
    <2> HIDE DEF ps, x
    <2>3. CASE c = Dot
      <3>1. Append(ps, x) \in Seq(Nat) /\ 0 \in Nat
        BY <2>2
      <3>2. Taken(Append(ps, x), 0) \in OctetStates
        BY <3>1, TakenIs
      <3> QED  BY <1>0, <2>2, <2>3, <3>2, DotStep
    <2>4. CASE c \in Digits
      <3>1. x * 10 + (c - Zero) \in Nat
        BY <2>2, <2>4 DEF Digits, Zero
      <3>2. Taken(ps, x * 10 + (c - Zero)) \in OctetStates
        BY <2>2, <3>1, TakenIs
      <3> QED  BY <1>0, <2>2, <2>4, <3>2, DigitStep
    <2>5. CASE c # Dot /\ c \notin Digits
      BY <1>0, <2>5, OtherStep
    <2> QED  BY <2>3, <2>4, <2>5
  <1> QED  BY <1>1, <1>2

\* st goes through the characters of s like the loop of parse_cstring_ip, from q on.
Steps(st, q, s) == \A d \in 1 .. Len(s) : st[q + d] = OctetStep(st[q + d - 1], s[d])

\* parse_cstring_ip, without its recursive function.
LEMMA ParseIpIs ==
  ASSUME NEW s \in Seq(Bytes)
  PROVE  \E st : /\ st[0] = Taken(<<>>, 0) /\ Steps(st, 0, s)
                 /\ parse_cstring_ip(s) =
                      IF Len(s) >= 128 \/ st[Len(s)] = None THEN None
                      ELSE IF Len(st[Len(s)].parts) # 3 THEN None
                      ELSE Append(st[Len(s)].parts, st[Len(s)].acc)
  <1> DEFINE n == Len(s)
             a == [parts |-> <<>>, acc |-> 0]
             O == OctetStates
             g == [p \in Nat \X O |-> OctetStep(p[2], s[p[1]])]
             Def(f) == f = [i \in 0 .. n |-> IF i = 0 THEN a ELSE OctetStep(f[i - 1], s[i])]
  <1>1. n \in Nat
    OBVIOUS
  <1>2. a \in O /\ a = Taken(<<>>, 0)
    <2>1. <<>> \in Seq(Nat) /\ 0 \in Nat
      OBVIOUS
    <2>2. a = Taken(<<>>, 0)
      BY DEF Taken
    <2>3. Taken(<<>>, 0) \in O
      BY <2>1, TakenIs
    <2> QED  BY <2>2, <2>3
  <1>3. g \in [Nat \X O -> O]
    <2>1. ASSUME NEW i \in Nat, NEW x \in O PROVE OctetStep(x, s[i]) \in O
      BY StepStates
    <2> HIDE DEF O
    <2> QED  BY <2>1
  <1> HIDE DEF a, n, O
  <1>4. PICK f \in [0 .. n -> O] : Follows(f, a, g, n)
    <2> HIDE DEF g
    <2>1. \E f \in [0 .. n -> O] : Follows(f, a, g, n)
      BY <1>1, <1>2, <1>3, LoopExists
    <2> QED  BY <2>1
  <1>5. Def(f)
    <2>1. ASSUME NEW i \in 1 .. n PROVE f[i] = OctetStep(f[i - 1], s[i])
      <3>1. i \in Nat /\ f[i - 1] \in O
        BY <1>1, <1>4
      <3>2. f[i] = g[<<i, f[i - 1]>>]
        BY <1>4 DEF Follows
      <3> QED  BY <3>1, <3>2
    <2>2. f[0] = a
      BY <1>4 DEF Follows
    <2>3. ASSUME NEW i \in 0 .. n PROVE f[i] = IF i = 0 THEN a ELSE OctetStep(f[i - 1], s[i])
      <3>1. CASE i = 0
        BY <2>2, <3>1
      <3>2. CASE i # 0
        <4>1. i \in 1 .. n
          BY <1>1, <3>2
        <4> QED  BY <2>1, <3>2, <4>1
      <3> QED  BY <3>1, <3>2
    <2> QED  BY <1>4, <2>3
  <1> DEFINE st == CHOOSE f1 : Def(f1)
  <1>6. Def(st)
    <2> HIDE DEF Def
    <2> QED  BY <1>5
  <1>7. parse_cstring_ip(s) =
          IF Len(s) >= 128 \/ st[Len(s)] = None THEN None
          ELSE IF Len(st[Len(s)].parts) # 3 THEN None
          ELSE Append(st[Len(s)].parts, st[Len(s)].acc)
    BY DEF parse_cstring_ip, a, n
  <1> HIDE DEF st
  <1>8. st[0] = Taken(<<>>, 0)
    BY <1>1, <1>2, <1>6
  <1>9. Steps(st, 0, s)
    <2>1. ASSUME NEW d \in 1 .. n PROVE st[0 + d] = OctetStep(st[0 + d - 1], s[d])
      <3>1. d \in 0 .. n /\ d # 0 /\ 0 + d = d /\ 0 + d - 1 = d - 1
        BY <1>1
      <3>2. st[d] = IF d = 0 THEN a ELSE OctetStep(st[d - 1], s[d])
        BY <1>6, <3>1
      <3> QED  BY <3>1, <3>2
    <2> QED  BY <2>1 DEF Steps, n
  <1> QED  BY <1>7, <1>8, <1>9

\* A string that was refused stays refused.
LEMMA NoneToEnd ==
  ASSUME NEW st, NEW q \in Nat, NEW s \in Seq(Bytes), Steps(st, q, s), st[q] = None
  PROVE  st[q + Len(s)] = None
  <1> DEFINE T == {d \in Nat : d <= Len(s) => st[q + d] = None}
  <1>1. 0 \in T
    OBVIOUS
  <1>2. ASSUME NEW d \in Nat, d \in T PROVE d + 1 \in T
    <2> SUFFICES ASSUME d + 1 <= Len(s) PROVE st[q + (d + 1)] = None
      OBVIOUS
    <2>1. d + 1 \in 1 .. Len(s) /\ q + (d + 1) - 1 = q + d /\ d <= Len(s)
      OBVIOUS
    <2>2. st[q + (d + 1)] = OctetStep(st[q + d], s[d + 1])
      BY <2>1 DEF Steps
    <2>3. st[q + d] = None
      BY <1>2, <2>1
    <2> QED  BY <2>2, <2>3, NoneStays
  <1>3. Nat \subseteq T
    <2> HIDE DEF T
    <2> QED  BY <1>1, <1>2, SetInduction
  <1>4. Len(s) \in Nat
    OBVIOUS
  <1> QED  BY <1>3, <1>4

\* The state behind a number.
Behind(ps, n) == IF n <= 255 THEN Taken(ps, n) ELSE None

LEMMA OctetDigits ==
  ASSUME NEW st, NEW q \in Nat, NEW ps \in Seq(Nat), st[q] = Taken(ps, 0),
         NEW n \in Nat, Steps(st, q, High(n, 10))
  PROVE  st[q + Len(High(n, 10))] = Behind(ps, n)
  <1> DEFINE S == {m \in Nat : Steps(st, q, High(m, 10))
                                 => st[q + Len(High(m, 10))] = Behind(ps, m)}
  <1>1. ASSUME NEW m \in Nat, \A k \in 0 .. m - 1 : k \in S PROVE m \in S
    <2> SUFFICES ASSUME Steps(st, q, High(m, 10))
                 PROVE st[q + Len(High(m, 10))] = Behind(ps, m)
      OBVIOUS
    <2> DEFINE k == m \div 10
               d == m % 10
               a == High(m, 10)
               b == High(k, 10)
    <2>0. 10 \in 2 .. 16
      OBVIOUS
    <2>1. CASE m = 0
      <3>1. Len(a) = 0
        BY <2>0, <2>1, HighStep
      <3> HIDE DEF a
      <3>2. q + Len(a) = q
        BY <3>1
      <3>3. Behind(ps, m) = Taken(ps, 0)
        BY <2>1 DEF Behind
      <3> QED  BY <3>2, <3>3 DEF a
    <2>2. CASE m # 0
      <3>1. k \in 0 .. m - 1 /\ k \in Nat /\ d \in 0 .. 9 /\ d \in 0 .. 15 /\ m = k * 10 + d
        <4>1. k \in Nat /\ k < m /\ d \in 0 .. 10 - 1 /\ m = k * 10 + d
          BY <2>0, <2>2, DivDown
        <4> HIDE DEF k, d
        <4> QED  BY <4>1
      <3>2. Longer(a, b, Digit(d)) /\ a \in Seq(Bytes)
        BY <2>0, <2>2, HighStep
      <3>3. b \in Seq(Bytes)
        BY <2>0, <3>1, HighStep
      <3>4. Steps(st, q, a)
        OBVIOUS
      <3>5. Steps(st, q, b) => st[q + Len(b)] = Behind(ps, k)
        <4>1. k \in S
          BY <1>1, <3>1
        <4> HIDE DEF k
        <4> QED  BY <4>1
      <3> HIDE DEF k, d, a, b
      <3>6. Len(a) = Len(b) + 1 /\ Len(b) \in Nat /\ a[Len(a)] = Digit(d)
        BY <3>2, <3>3 DEF Longer
      <3>7. Steps(st, q, b)
        <4>1. ASSUME NEW i \in 1 .. Len(b) PROVE st[q + i] = OctetStep(st[q + i - 1], b[i])
          <5>1. i \in 1 .. Len(a) /\ a[i] = b[i]
            BY <3>2, <3>6 DEF Longer
          <5> QED  BY <3>4, <5>1 DEF Steps
        <4> QED  BY <4>1 DEF Steps
      <3>8. st[q + Len(b)] = Behind(ps, k)
        BY <3>5, <3>7
      <3>9. Digit(d) - Zero = d /\ Digit(d) \in Digits
        <4>1. d < 10
          BY <3>1
        <4> QED  BY <3>1, <4>1, DigitType
      <3>10. st[q + Len(a)] = OctetStep(Behind(ps, k), Digit(d))
        <4>1. Len(a) \in 1 .. Len(a) /\ q + Len(a) - 1 = q + Len(b)
          BY <3>6
        <4> QED  BY <3>4, <3>6, <3>8, <4>1 DEF Steps
      <3>11. OctetStep(Behind(ps, k), Digit(d)) = Behind(ps, m)
        <4>1. CASE k <= 255
          <5>1. Behind(ps, k) = Taken(ps, k)
            BY <4>1 DEF Behind
          <5>2. OctetStep(Taken(ps, k), Digit(d)) =
                  IF k * 10 + (Digit(d) - Zero) > 255 THEN None
                  ELSE Taken(ps, k * 10 + (Digit(d) - Zero))
            <6>1. k \in Nat /\ Digit(d) \in Digits
              BY <3>1, <3>9
            <6> QED  BY <6>1, DigitStep
          <5>3. OctetStep(Taken(ps, k), Digit(d)) = IF m > 255 THEN None ELSE Taken(ps, m)
            BY <3>1, <3>9, <5>2
          <5>4. (m > 255) = ~(m <= 255)
            OBVIOUS
          <5> QED  BY <5>1, <5>3, <5>4 DEF Behind
        <4>2. CASE ~(k <= 255)
          <5>1. ~(m <= 255)
            BY <3>1, <4>2
          <5> QED  BY <4>2, <5>1, NoneStays DEF Behind
        <4> QED  BY <4>1, <4>2
      <3> QED  BY <3>10, <3>11 DEF a
    <2> QED  BY <2>1, <2>2
  <1>2. Nat \subseteq S
    <2> HIDE DEF S
    <2> QED  BY <1>1, StrongInduction
  <1> QED  BY <1>2

\* The same for a number as format_usize writes it.
LEMMA OctetNumber ==
  ASSUME NEW st, NEW q \in Nat, NEW ps \in Seq(Nat), st[q] = Taken(ps, 0),
         NEW n \in Nat, Steps(st, q, format_usize(n))
  PROVE  st[q + Len(format_usize(n))] = Behind(ps, n)
  <1>1. CASE n = 0
    <2>1. format_usize(n) = <<Zero>> /\ Len(<<Zero>>) = 1 /\ <<Zero>>[1] = Zero
      BY <1>1, FormatIs
    <2>2. st[q + 1] = OctetStep(st[q + 1 - 1], Zero)
      BY <2>1 DEF Steps
    <2>3. Zero \in Digits /\ 0 * 10 + (Zero - Zero) = 0
      BY DEF Zero, Digits
    <2>4. OctetStep(Taken(ps, 0), Zero) = Taken(ps, 0)
      BY <2>3, DigitStep
    <2>5. q + 1 - 1 = q
      OBVIOUS
    <2>6. st[q + 1] = Taken(ps, 0)
      BY <2>2, <2>4, <2>5
    <2>7. Behind(ps, n) = Taken(ps, 0)
      BY <1>1 DEF Behind
    <2> QED  BY <2>1, <2>6, <2>7
  <1>2. CASE n # 0
    <2>1. format_usize(n) = High(n, 10)
      BY <1>2, FormatIs
    <2> QED  BY <2>1, OctetDigits
  <1> QED  BY <1>1, <1>2

-----------------------------------------------------------------------------
(* The text of an argument.                                                *)

Words == 0 .. UsizeSpan - 1

NumberPiece(ps, i) == (IF i = 1 THEN <<>> ELSE <<Dot>>) \o format_usize(ps[i])
Pieces(ps) == [i \in 1 .. Len(ps) |-> NumberPiece(ps, i)]
Ending(a) == IF a.junk THEN <<120>> ELSE <<>>

LEMMA WordIs ==
  ASSUME NEW ps \in Seq(Words), NEW i \in 1 .. Len(ps)
  PROVE  ps[i] \in Nat /\ ps[i] < UsizeSpan
  <1> DEFINE x == ps[i]
  <1>1. x \in Words
    BY ElementOfSeq
  <1> HIDE DEF x
  <1>2. x \in Nat /\ x < UsizeSpan
    BY <1>1, SpanType DEF Words
  <1> QED  BY <1>2 DEF x

\* A piece is a dot, but for the first, and a number.
LEMMA NumberPieceIs ==
  ASSUME NEW ps \in Seq(Words), NEW i \in 1 .. Len(ps)
  PROVE  /\ NumberPiece(ps, i) \in Seq(Bytes) /\ Len(NumberPiece(ps, i)) \in 1 .. 21
         /\ i = 1 => NumberPiece(ps, i) = format_usize(ps[i])
         /\ i # 1 => Joined(NumberPiece(ps, i), <<Dot>>, format_usize(ps[i]))
  <1> DEFINE f == format_usize(ps[i])
             t == NumberPiece(ps, i)
  <1>1. f \in Seq(Bytes) /\ Len(f) \in 1 .. 20
    <2>1. ps[i] \in Nat /\ ps[i] < UsizeSpan
      BY WordIs
    <2>2. Decimal(f) /\ Len(f) <= 20
      BY <2>1, FormatIs
    <2> HIDE DEF f
    <2>3. Len(f) \in Nat \ {0} /\ f \in Seq(Bytes)
      BY <2>2 DEF Decimal
    <2> DEFINE k == Len(f)
    <2> HIDE DEF k
    <2>4. k \in Nat \ {0} /\ k <= 20
      BY <2>2, <2>3 DEF k
    <2>5. k \in 1 .. 20
      BY <2>4
    <2> QED  BY <2>3, <2>5 DEF k
  <1>2. CASE i = 1
    <2>1. t = <<>> \o f
      BY <1>2 DEF NumberPiece
    <2> HIDE DEF f
    <2>2. <<>> \o f = f
      BY <1>1
    <2>3. t = f /\ Len(t) \in 1 .. 21
      BY <1>1, <2>1, <2>2
    <2> QED  BY <1>1, <1>2, <2>3 DEF f
  <1>3. CASE i # 1
    <2>1. t = <<Dot>> \o f
      BY <1>3 DEF NumberPiece
    <2>2. <<Dot>> \in Seq(Bytes) /\ Len(<<Dot>>) = 1
      BY DEF Dot, Bytes
    <2> DEFINE dot == <<Dot>>
    <2> HIDE DEF f, dot
    <2>3. dot \o f \in Seq(Bytes) /\ Joined(dot \o f, dot, f)
      BY <1>1, <2>2, TwoParts DEF dot
    <2>4. t \in Seq(Bytes) /\ Joined(t, dot, f)
      BY <2>1, <2>3 DEF dot
    <2> HIDE DEF t
    <2>5. Len(t) \in 1 .. 21
      <3>1. Len(t) = 1 + Len(f)
        BY <2>2, <2>4 DEF Joined, dot
      <3> DEFINE k == Len(f)
      <3> HIDE DEF k
      <3>2. k \in 1 .. 20 /\ Len(t) = 1 + k
        BY <1>1, <3>1 DEF k
      <3>3. 1 + k \in 1 .. 21
        BY <3>2
      <3> QED  BY <3>2, <3>3
    <2> QED  BY <1>3, <2>4, <2>5 DEF f, t, dot
  <1> QED  BY <1>2, <1>3

LEMMA PiecesType ==
  ASSUME NEW ps \in Seq(Words)
  PROVE  /\ Pieces(ps) \in Seq(Seq(Bytes)) /\ Len(Pieces(ps)) = Len(ps)
         /\ \A i \in 1 .. Len(ps) : Pieces(ps)[i] = NumberPiece(ps, i)
  <1> DEFINE n == Len(ps)
             Z == Seq(Bytes)
  <1>1. n \in Nat
    OBVIOUS
  <1>2. \A i \in 1 .. n : NumberPiece(ps, i) \in Z
    BY NumberPieceIs
  <1> HIDE DEF n, Z
  <1>3. Pieces(ps) \in [1 .. n -> Z] /\ \A i \in 1 .. n : Pieces(ps)[i] = NumberPiece(ps, i)
    BY <1>2 DEF Pieces, n
  <1>4. Pieces(ps) \in Seq(Z) /\ Len(Pieces(ps)) = n
    BY <1>1, <1>3, FunctionIsSeq
  <1> QED  BY <1>3, <1>4 DEF n, Z

\* Where the i-th sequence lies in what all of them make.
LiesIn(ss, i, w) ==
  /\ Len(FrontOf(ss, i - 1)) \in Nat
  /\ Len(FrontOf(ss, i)) = Len(FrontOf(ss, i - 1)) + Len(ss[i])
  /\ Len(FrontOf(ss, i)) <= Len(w)
  /\ \A d \in 1 .. Len(ss[i]) : w[Len(FrontOf(ss, i - 1)) + d] = ss[i][d]

LEMMA PlaceIn ==
  ASSUME NEW S, NEW ss \in Seq(Seq(S)), NEW i \in 1 .. Len(ss), NEW w \in Seq(S),
         Heads(FlattenSeq(ss), w)
  PROVE  LiesIn(ss, i, w)
  <1> DEFINE n == Len(ss)
             a == FrontOf(ss, i - 1)
             t == ss[i]
             b == FrontOf(ss, i)
             c == FlattenSeq(ss)
  <1>1. i - 1 \in 0 .. n /\ i \in 0 .. n /\ n \in Nat /\ n \in i .. n
    OBVIOUS
  <1>2. a \in Seq(S) /\ b \in Seq(S) /\ t \in Seq(S) /\ c \in Seq(S)
    <2>1. t \in Seq(S)
      <3> DEFINE Z == Seq(S)
      <3>1. ss \in Seq(Z)
        OBVIOUS
      <3> HIDE DEF Z
      <3>2. ss[i] \in Z
        BY <3>1, ElementOfSeq
      <3> QED  BY <3>2 DEF Z
    <2>2. a \in Seq(S) /\ b \in Seq(S)
      BY <1>1, FrontType
    <2> QED  BY <2>1, <2>2, FlattenType
  <1>3. b = a \o t
    BY FrontStep
  <1>4. FrontOf(ss, n) = c
    <2>1. SubSeq(ss, 1, Len(ss)) = ss
      OBVIOUS
    <2> QED  BY <2>1 DEF FrontOf
  <1>5. Heads(b, c)
    <2>1. Heads(b, FrontOf(ss, n))
      BY <1>1, FrontHeads
    <2> QED  BY <1>4, <2>1
  <1> HIDE DEF a, t, c
  <1>6. Joined(b, a, t)
    BY <1>2, <1>3, TwoParts
  <1> HIDE DEF b
  <1>7. Len(a) \in Nat /\ Len(b) \in Nat /\ Len(t) \in Nat /\ Len(b) = Len(a) + Len(t)
    BY <1>2, <1>6 DEF Joined
  <1>8. Heads(c, w)
    BY DEF c
  <1>9. Len(b) <= Len(w) /\ \A q \in 1 .. Len(b) : w[q] = b[q]
    <2>1. Len(c) \in Nat /\ Len(w) \in Nat
      BY <1>2
    <2>2. Len(b) <= Len(c) /\ Len(c) <= Len(w)
      BY <1>5, <1>8 DEF Heads
    <2>3. ASSUME NEW q \in 1 .. Len(b) PROVE w[q] = b[q]
      <3>1. q \in 1 .. Len(c)
        BY <1>7, <2>1, <2>2
      <3>2. c[q] = b[q]
        BY <1>5 DEF Heads
      <3>3. w[q] = c[q]
        BY <1>8, <3>1 DEF Heads
      <3> QED  BY <3>2, <3>3
    <2> QED  BY <1>7, <2>1, <2>2, <2>3
  <1>10. ASSUME NEW d \in 1 .. Len(t) PROVE w[Len(a) + d] = t[d]
    <2>1. Len(a) + d \in 1 .. Len(b)
      BY <1>7
    <2>2. b[Len(a) + d] = t[d]
      BY <1>6 DEF Joined
    <2> QED  BY <1>9, <2>1, <2>2
  <1> QED  BY <1>7, <1>9, <1>10 DEF a, b, t, LiesIn

\* What Text puts together.
MeantArguments == [parts : Seq(Words) \ {<<>>}, junk : BOOLEAN]

LEMMA ArgumentText ==
  ASSUME NEW a \in MeantArguments
  PROVE  /\ a.parts \in Seq(Words) /\ Len(a.parts) \in Nat \ {0}
         /\ Text(a) \in Seq(Bytes) /\ Joined(Text(a), FlattenSeq(Pieces(a.parts)), Ending(a))
         /\ Heads(FlattenSeq(Pieces(a.parts)), Text(a))
         /\ FlattenSeq(Pieces(a.parts)) \in Seq(Bytes) /\ Ending(a) \in Seq(Bytes)
  <1> DEFINE ps == a.parts
             c == FlattenSeq(Pieces(ps))
             j == Ending(a)
  <1>1. ps \in Seq(Words) /\ ps # <<>>
    BY DEF MeantArguments
  <1>2. DOMAIN ps = 1 .. Len(ps) /\ Len(ps) \in Nat \ {0}
    BY <1>1
  <1>3. Text(a) = c \o j
    <2>1. Pieces(ps) = [i \in DOMAIN ps |->
                          (IF i = 1 THEN <<>> ELSE <<Dot>>) \o format_usize(a.parts[i])]
      BY <1>2 DEF Pieces, NumberPiece
    <2> QED  BY <2>1 DEF Text, Ending
  <1>4. j \in Seq(Bytes)
    <2>1. 120 \in Bytes
      BY DEF Bytes
    <2>2. <<120>> \in Seq(Bytes) /\ <<>> \in Seq(Bytes)
      BY <2>1
    <2> QED  BY <2>2 DEF Ending
  <1>5. c \in Seq(Bytes)
    BY <1>1, PiecesType, FlattenType
  <1> HIDE DEF c, j
  <1>6. c \o j \in Seq(Bytes) /\ Joined(c \o j, c, j) /\ Heads(c, c \o j)
    BY <1>4, <1>5, TwoParts, ConcatHeads
  <1> QED  BY <1>1, <1>2, <1>3, <1>4, <1>5, <1>6 DEF c, j

\* An argument read as a number is its first one.
LEMMA TextNumber ==
  ASSUME NEW a \in MeantArguments
  PROVE  parse_cstring_usize(Text(a)) = a.parts[1]
  <1> DEFINE ps == a.parts
             ss == Pieces(ps)
             c == FlattenSeq(ss)
             w == Text(a)
             j == Ending(a)
             f == format_usize(ps[1])
  <1>1. /\ ps \in Seq(Words) /\ Len(ps) \in Nat \ {0} /\ w \in Seq(Bytes)
        /\ Joined(w, c, j) /\ Heads(c, w) /\ c \in Seq(Bytes) /\ j \in Seq(Bytes)
    BY ArgumentText
  <1>2. 1 \in 1 .. Len(ps)
    BY <1>1
  <1>3. ps[1] \in Nat /\ ps[1] < UsizeSpan
    BY <1>1, <1>2, WordIs
  <1>4. /\ ss \in Seq(Seq(Bytes)) /\ Len(ss) = Len(ps)
        /\ \A i \in 1 .. Len(ps) : ss[i] = NumberPiece(ps, i)
    BY <1>1, PiecesType
  <1>5. ss[1] = f
    BY <1>1, <1>2, <1>4, NumberPieceIs
  <1>6. f \in Seq(Bytes) /\ Len(f) \in Nat
    BY <1>3, FormatIs DEF Decimal
  <1>7. j = <<>> \/ j = <<120>>
    BY DEF Ending
  <1> HIDE DEF ps, ss, c, w, j, f
  <1>8. FrontOf(ss, 0) = <<>>
    <2>1. SubSeq(ss, 1, 0) = <<>>
      BY <1>4
    <2> QED  BY <2>1, FlattenEmpty DEF FrontOf
  <1>9. Len(FrontOf(ss, 1)) = Len(f) /\ Len(f) <= Len(w) /\ \A d \in 1 .. Len(f) : w[d] = f[d]
    <2>1. 1 \in 1 .. Len(ss) /\ 1 - 1 = 0 /\ Len(<<>>) = 0
      BY <1>2, <1>4
    <2> DEFINE k == 1
    <2> HIDE DEF k
    <2>2. /\ Len(FrontOf(ss, k)) = Len(FrontOf(ss, k - 1)) + Len(ss[k])
          /\ Len(FrontOf(ss, k)) <= Len(w)
          /\ \A d \in 1 .. Len(ss[k]) : w[Len(FrontOf(ss, k - 1)) + d] = ss[k][d]
      <3>1. k \in 1 .. Len(ss)
        BY <2>1 DEF k
      <3>2. Heads(FlattenSeq(ss), w)
        BY <1>1 DEF c
      <3>3. LiesIn(ss, k, w)
        BY <1>1, <1>4, <3>1, <3>2, PlaceIn
      <3> QED  BY <3>3 DEF LiesIn
    <2>3. Len(FrontOf(ss, k - 1)) = 0
      BY <1>8, <2>1 DEF k
    <2> QED  BY <1>5, <1>6, <2>2, <2>3 DEF k
  <1>10. Heads(f, w)
    BY <1>9 DEF Heads
  <1>11. ASSUME Len(f) < Len(w) PROVE w[Len(f) + 1] \notin Digits
    <2>1. CASE Len(ps) >= 2
      <3> DEFINE k == 2
      <3>1. k \in 1 .. Len(ss) /\ k - 1 = 1 /\ k # 1 /\ k \in 1 .. Len(ps)
        BY <1>1, <1>4, <2>1
      <3> HIDE DEF k
      <3>2. Joined(ss[k], <<Dot>>, format_usize(ps[k])) /\ Len(ss[k]) \in 1 .. 21
        BY <1>1, <1>4, <3>1, NumberPieceIs
      <3>3. ss[k][1] = Dot
        BY <3>2 DEF Joined
      <3>4. \A d \in 1 .. Len(ss[k]) : w[Len(FrontOf(ss, k - 1)) + d] = ss[k][d]
        <4>1. Heads(FlattenSeq(ss), w)
          BY <1>1 DEF c
        <4>2. LiesIn(ss, k, w)
          BY <1>1, <1>4, <3>1, <4>1, PlaceIn
        <4> QED  BY <4>2 DEF LiesIn
      <3>5. 1 \in 1 .. Len(ss[k])
        <4> DEFINE x == Len(ss[k])
        <4>1. x \in 1 .. 21
          BY <3>2
        <4> HIDE DEF x
        <4>2. 1 \in 1 .. x
          BY <4>1
        <4> QED  BY <4>2 DEF x
      <3>6. w[Len(f) + 1] = Dot
        BY <1>9, <3>1, <3>3, <3>4, <3>5
      <3>7. Dot \notin Digits
        BY DEF Dot, Digits, Zero
      <3> QED  BY <3>6, <3>7
    <2>2. CASE ~(Len(ps) >= 2)
      <3>1. Len(ss) = 1
        BY <1>1, <1>4, <2>2
      <3>2. FrontOf(ss, 1) = c
        <4>1. SubSeq(ss, 1, 1) = ss
          BY <1>4, <3>1
        <4> QED  BY <4>1 DEF FrontOf, c
      <3>3. Len(c) = Len(f)
        BY <1>9, <3>2
      <3>4. j = <<120>> /\ Len(j) = 1 /\ j[1] = 120
        <4>1. CASE j = <<>>
          <5>1. Len(w) = Len(c) + 0
            BY <1>1, <4>1 DEF Joined
          <5> QED  BY <1>6, <1>11, <3>3, <5>1
        <4>2. CASE j = <<120>>
          BY <4>2
        <4> QED  BY <1>7, <4>1, <4>2
      <3>5. w[Len(f) + 1] = 120
        <4>1. 1 \in 1 .. Len(j)
          BY <3>4
        <4>2. w[Len(c) + 1] = j[1]
          BY <1>1, <4>1 DEF Joined
        <4> QED  BY <3>3, <3>4, <4>2
      <3> QED  BY <3>5 DEF Digits, Zero
    <2> QED  BY <2>1, <2>2
  <1>12. parse_cstring_usize(w) = ps[1]
    BY <1>1, <1>3, <1>10, <1>11, ReadsFormat DEF f
  <1> QED  BY <1>12 DEF w, ps

-----------------------------------------------------------------------------
(* Addresses are read.                                                     *)

\* Numbers that an octet holds, and not too many.
Octets(ps, i) == i <= 4 /\ \A j \in 1 .. i : ps[j] <= 255

\* The state behind the i-th number of an argument.
After(ps, i) ==
  IF i = 0 THEN Taken(<<>>, 0)
  ELSE IF Octets(ps, i) THEN Taken(SubSeq(ps, 1, i - 1), ps[i]) ELSE None

\* From one number to the next.
LEMMA PieceStep ==
  ASSUME NEW ps \in Seq(Words), NEW i \in 1 .. Len(ps), NEW st, NEW q \in Nat,
         Steps(st, q, NumberPiece(ps, i)), st[q] = After(ps, i - 1)
  PROVE  st[q + Len(NumberPiece(ps, i))] = After(ps, i)
  <1> DEFINE n == ps[i]
             f == format_usize(n)
             t == NumberPiece(ps, i)
             u == SubSeq(ps, 1, i - 1)
  <1>1. n \in Nat /\ n < UsizeSpan
    BY WordIs
  <1>2. ps \in Seq(Nat)
    <2>1. Words \subseteq Nat
      BY SpanType DEF Words
    <2> QED  BY <2>1, SeqWider
  <1>3. f \in Seq(Bytes) /\ Len(f) \in Nat
    BY <1>1, FormatIs DEF Decimal
  <1>4. i - 1 \in 0 .. Len(ps) /\ i \in Nat /\ i # 0
    OBVIOUS
  <1>5. u \in Seq(Nat) /\ Len(u) = i - 1
    BY <1>2, <1>4, FirstPart
  <1>6. \/ Octets(ps, i) /\ After(ps, i) = Taken(u, n) /\ n <= 255
        \/ ~Octets(ps, i) /\ After(ps, i) = None
    <2>1. i \in 1 .. i
      BY <1>4
    <2> QED  BY <1>4, <2>1 DEF After, Octets
  <1>7. Steps(st, q, t)
    OBVIOUS
  <1>8. CASE i = 1
    <2>1. t = f
      BY <1>8, NumberPieceIs
    <2>2. u = <<>> /\ <<>> \in Seq(Nat)
      BY <1>2, <1>8
    <2>3. st[q] = Taken(<<>>, 0)
      BY <1>8 DEF After
    <2> HIDE DEF f, t, u, n
    <2>4. st[q + Len(f)] = Behind(u, n)
      BY <1>1, <1>7, <2>1, <2>2, <2>3, OctetNumber DEF f
    <2>5. Octets(ps, i) <=> n <= 255
      <3>1. \A j \in 1 .. i : j = 1
        BY <1>8
      <3> QED  BY <1>8, <3>1 DEF Octets, n
    <2> QED  BY <1>6, <2>1, <2>4, <2>5 DEF Behind, t
  <1>9. CASE i # 1
    <2>1. Joined(t, <<Dot>>, f) /\ Len(<<Dot>>) = 1 /\ <<Dot>>[1] = Dot
      BY <1>9, NumberPieceIs
    <2> DEFINE dot == <<Dot>>
    <2> HIDE DEF dot, f, t, n
    <2>2. Len(t) = 1 + Len(f) /\ t[1] = Dot /\ \A d \in 1 .. Len(f) : t[1 + d] = f[d]
      <3>1. Len(dot) = 1 /\ dot[1] = Dot /\ Joined(t, dot, f) /\ 1 \in 1 .. 1
        BY <2>1 DEF dot
      <3> QED  BY <3>1 DEF Joined
    <2>3. st[q + 1] = OctetStep(After(ps, i - 1), Dot)
      <3>1. 1 \in 1 .. Len(t) /\ q + 1 - 1 = q
        BY <1>3, <2>2
      <3> QED  BY <1>7, <2>2, <3>1 DEF Steps
    <2>4. Steps(st, q + 1, f) /\ (q + 1) + Len(f) = q + Len(t) /\ q + 1 \in Nat
      <3>1. ASSUME NEW d \in 1 .. Len(f)
            PROVE st[q + 1 + d] = OctetStep(st[q + 1 + d - 1], f[d])
        <4>1. 1 + d \in 1 .. Len(t) /\ q + (1 + d) = q + 1 + d /\ t[1 + d] = f[d]
          BY <1>3, <2>2
        <4> QED  BY <1>7, <4>1, SMTT(30) DEF Steps
      <3> QED  BY <1>3, <2>2, <3>1 DEF Steps
    <2> DEFINE k == i - 1
               v == SubSeq(ps, 1, k - 1)
               x == ps[k]
    <2>5. k \in 1 .. Len(ps) /\ k # 0 /\ k - 1 \in 0 .. Len(ps) /\ i = k + 1 /\ k \in Nat
      BY <1>9
    <2>6. x \in Nat
      BY <2>5, WordIs
    <2>7. v \in Seq(Nat) /\ Len(v) = k - 1
      <3> HIDE DEF k
      <3> QED  BY <1>2, <2>5, FirstPart
    <2>8. Append(v, x) = u
      <3>1. Append(v, x) \in Seq(Nat) /\ Len(Append(v, x)) = k
        BY <2>5, <2>6, <2>7
      <3>2. ASSUME NEW j \in 1 .. k PROVE Append(v, x)[j] = u[j]
        <4>1. u[j] = ps[j]
          BY <1>2, <1>4, FirstPart
        <4>2. CASE j = k
          BY <2>5, <2>6, <2>7, <4>1, <4>2
        <4>3. CASE j # k
          <5>1. j \in 1 .. k - 1
            BY <2>5, <4>3
          <5>2. v[j] = ps[j]
            <6> HIDE DEF k
            <6> QED  BY <1>2, <2>5, <5>1, FirstPart
          <5>3. Append(v, x)[j] = v[j]
            <6> HIDE DEF v, x, k
            <6> QED  BY <2>6, <2>7, <5>1
          <5> QED  BY <4>1, <5>2, <5>3
        <4> QED  BY <4>2, <4>3
      <3> DEFINE y == Append(v, x)
      <3>3. y \in Seq(Nat) /\ Len(y) = Len(u) /\ \A j \in 1 .. Len(y) : y[j] = u[j]
        BY <1>5, <3>1, <3>2
      <3> HIDE DEF y, u
      <3>4. y = u
        BY <1>5, <3>3, SeqEqual
      <3> QED  BY <3>4 DEF y
    <2> HIDE DEF v, x, u
    <2>9. After(ps, k) = IF Octets(ps, k) THEN Taken(v, x) ELSE None
      BY <2>5 DEF After, v, x
    <2>10. Octets(ps, i) <=> Octets(ps, k) /\ i <= 4 /\ n <= 255
      <3>1. \A j : j \in 1 .. i <=> j \in 1 .. k \/ j = i
        BY <2>5
      <3>2. i <= 4 => k <= 4
        BY <2>5
      <3> HIDE DEF k
      <3> QED  BY <3>1, <3>2 DEF Octets, n
    <2>11. CASE Octets(ps, k) /\ i <= 4
      <3>1. OctetStep(Taken(v, x), Dot) = Taken(u, 0)
        <4>1. ~(Len(v) >= 3)
          BY <2>5, <2>7, <2>11
        <4> QED  BY <2>6, <2>7, <2>8, <4>1, DotStep
      <3>2. st[q + 1] = Taken(u, 0)
        BY <2>3, <2>9, <2>11, <3>1
      <3>3. st[(q + 1) + Len(f)] = Behind(u, n)
        BY <1>1, <1>5, <2>4, <3>2, OctetNumber DEF f
      <3>4. st[q + Len(t)] = Behind(u, n)
        BY <2>4, <3>3
      <3> QED  BY <1>6, <2>10, <2>11, <3>4 DEF Behind, t
    <2>12. CASE ~(Octets(ps, k) /\ i <= 4)
      <3>1. After(ps, i) = None
        BY <1>6, <2>10, <2>12
      <3>2. st[q + 1] = None
        <4>1. CASE Octets(ps, k)
          <5>1. Len(v) >= 3
            BY <2>5, <2>7, <2>12, <4>1
          <5>2. OctetStep(Taken(v, x), Dot) = None
            BY <2>6, <2>7, <5>1, DotStep
          <5> QED  BY <2>3, <2>9, <4>1, <5>2
        <4>2. CASE ~Octets(ps, k)
          BY <2>3, <2>9, <4>2, NoneStays
        <4> QED  BY <4>1, <4>2
      <3>3. st[(q + 1) + Len(f)] = None
        BY <1>3, <2>4, <3>2, NoneToEnd
      <3> QED  BY <2>4, <3>1, <3>3 DEF t
    <2> QED  BY <2>11, <2>12
  <1> QED  BY <1>8, <1>9

\* Through all the numbers of an argument.
LEMMA TextSteps ==
  ASSUME NEW ps \in Seq(Words), NEW w \in Seq(Bytes), Heads(FlattenSeq(Pieces(ps)), w),
         NEW st, st[0] = Taken(<<>>, 0), Steps(st, 0, w)
  PROVE  /\ st[Len(FlattenSeq(Pieces(ps)))] = After(ps, Len(ps))
         /\ Len(FlattenSeq(Pieces(ps))) <= 21 * Len(ps)
  <1> DEFINE n == Len(ps)
             ss == Pieces(ps)
             P(i) == Len(FrontOf(ss, i))
             T == {i \in Nat : i <= n => st[P(i)] = After(ps, i) /\ P(i) <= 21 * i /\ P(i) \in Nat}
  <1>1. n \in Nat
    OBVIOUS
  <1>2. ss \in Seq(Seq(Bytes)) /\ Len(ss) = n /\ \A i \in 1 .. n : ss[i] = NumberPiece(ps, i)
    BY PiecesType
  <1>3. Heads(FlattenSeq(ss), w)
    OBVIOUS
  <1> HIDE DEF ss, n
  <1>4. 0 \in T
    <2>1. FrontOf(ss, 0) = <<>> /\ Len(<<>>) = 0
      <3>1. SubSeq(ss, 1, 0) = <<>>
        BY <1>2
      <3> QED  BY <3>1, FlattenEmpty DEF FrontOf
    <2>2. P(0) = 0
      BY <2>1
    <2> HIDE DEF P
    <2> QED  BY <2>2 DEF After
  <1>5. ASSUME NEW i \in Nat, i \in T PROVE i + 1 \in T
    <2> SUFFICES ASSUME i + 1 <= n
                 PROVE  /\ st[P(i + 1)] = After(ps, i + 1)
                        /\ P(i + 1) <= 21 * (i + 1) /\ P(i + 1) \in Nat
      OBVIOUS
    <2> DEFINE k == i + 1
               q == P(i)
               t == NumberPiece(ps, k)
    <2>1. k \in 1 .. n /\ k - 1 = i /\ i <= n
      BY <1>1
    <2>2. st[q] = After(ps, i) /\ q <= 21 * i /\ q \in Nat
      BY <1>5, <2>1
    <2> HIDE DEF k
    <2>3. LiesIn(ss, k, w)
      BY <1>2, <1>3, <2>1, PlaceIn
    <2>4. ss[k] = t /\ k \in 1 .. Len(ps)
      BY <1>2, <2>1 DEF n
    <2>5. t \in Seq(Bytes) /\ Len(t) \in 1 .. 21
      BY <2>4, NumberPieceIs
    <2>6. P(k) = q + Len(t) /\ P(k) <= Len(w) /\ \A d \in 1 .. Len(t) : w[q + d] = t[d]
      BY <2>1, <2>3, <2>4 DEF LiesIn
    <2> HIDE DEF q, t, P
    <2>7. Steps(st, q, t)
      <3>1. ASSUME NEW d \in 1 .. Len(t) PROVE st[q + d] = OctetStep(st[q + d - 1], t[d])
        <4> DEFINE e == q + d
        <4>0. Len(t) \in Nat /\ Len(w) \in Nat
          BY <2>5
        <4>1. e \in 1 .. Len(w) /\ 0 + e = e
          BY <2>2, <2>6, <4>0
        <4>2. w[e] = t[d]
          BY <2>6
        <4>5. st[e] = st[q + d] /\ e - 1 = q + d - 1
          BY <2>2, <4>0
        <4> HIDE DEF e
        <4>3. st[0 + e] = OctetStep(st[0 + e - 1], w[e])
          BY <4>1 DEF Steps
        <4>4. st[e] = OctetStep(st[e - 1], t[d])
          BY <4>1, <4>2, <4>3
        <4> QED  BY <4>4, <4>5
      <3> QED  BY <3>1 DEF Steps
    <2>8. st[q] = After(ps, k - 1)
      BY <2>1, <2>2
    <2>9. st[q + Len(t)] = After(ps, k)
      BY <2>2, <2>4, <2>7, <2>8, PieceStep DEF t
    <2>10. P(k) <= 21 * k /\ P(k) \in Nat
      <3> DEFINE l == Len(t)
      <3>1. l \in 1 .. 21 /\ P(k) = q + l
        BY <2>5, <2>6
      <3> HIDE DEF l
      <3> QED  BY <2>1, <2>2, <3>1
    <2> QED  BY <2>6, <2>9, <2>10 DEF k
  <1>6. Nat \subseteq T
    <2> HIDE DEF T
    <2> QED  BY <1>4, <1>5, SetInduction
  <1>7. st[P(n)] = After(ps, n) /\ P(n) <= 21 * n
    BY <1>1, <1>6
  <1>8. FrontOf(ss, n) = FlattenSeq(ss)
    <2>1. SubSeq(ss, 1, n) = ss
      BY <1>2
    <2> QED  BY <2>1 DEF FrontOf
  <1> QED  BY <1>7, <1>8 DEF ss, n

\* Four numbers up to 255 and nothing else.
FourOctets(a) == Len(a.parts) = 4 /\ ~a.junk /\ \A i \in 1 .. 4 : a.parts[i] <= 255

\* Nothing but an address is read as one.
LEMMA TextAddress ==
  ASSUME NEW a \in MeantArguments
  PROVE  parse_cstring_ip(Text(a)) = IF FourOctets(a) THEN a.parts ELSE None
  <1> DEFINE ps == a.parts
             n == Len(ps)
             c == FlattenSeq(Pieces(ps))
             w == Text(a)
             j == Ending(a)
             IpOf(st) == IF Len(w) >= 128 \/ st[Len(w)] = None THEN None
                         ELSE IF Len(st[Len(w)].parts) # 3 THEN None
                         ELSE Append(st[Len(w)].parts, st[Len(w)].acc)
  <1>1. /\ ps \in Seq(Words) /\ n \in Nat \ {0} /\ w \in Seq(Bytes) /\ Joined(w, c, j)
        /\ Heads(c, w) /\ c \in Seq(Bytes) /\ j \in Seq(Bytes)
    BY ArgumentText
  <1>2. ps \in Seq(Nat)
    <2>1. Words \subseteq Nat
      BY SpanType DEF Words
    <2> QED  BY <1>1, <2>1, SeqWider
  <1>3. j = IF a.junk THEN <<120>> ELSE <<>>
    BY DEF Ending
  <1>4. a.junk \in BOOLEAN
    BY DEF MeantArguments
  <1> HIDE DEF w
  <1>5. PICK st : st[0] = Taken(<<>>, 0) /\ Steps(st, 0, w) /\ parse_cstring_ip(w) = IpOf(st)
    <2>1. \E st : st[0] = Taken(<<>>, 0) /\ Steps(st, 0, w) /\ parse_cstring_ip(w) = IpOf(st)
      BY <1>1, ParseIpIs
    <2> QED  BY <2>1
  <1>6. st[Len(c)] = After(ps, n) /\ Len(c) <= 21 * n
    <2> HIDE DEF ps
    <2> QED  BY <1>1, <1>5, TextSteps
  <1> HIDE DEF ps, n, c, j
  <1>7. Len(w) = Len(c) + Len(j) /\ Len(c) \in Nat
    BY <1>1 DEF Joined
  <1>8. After(ps, n) = IF Octets(ps, n) THEN Taken(SubSeq(ps, 1, n - 1), ps[n]) ELSE None
    BY <1>1 DEF After
  <1>9. n - 1 \in 0 .. Len(ps) /\ n \in 1 .. Len(ps) /\ n = Len(ps)
    BY <1>1 DEF n
  <1>10. ps[n] \in Nat
    BY <1>1, <1>9, WordIs
  <1> DEFINE u == SubSeq(ps, 1, n - 1)
  <1>11. u \in Seq(Nat) /\ Len(u) = n - 1 /\ \A k \in 1 .. n - 1 : u[k] = ps[k]
    BY <1>2, <1>9, FirstPart
  <1> HIDE DEF u
  <1>12. CASE a.junk
    <2>1. Len(j) = 1 /\ j[1] = 120 /\ 1 \in 1 .. Len(j)
      BY <1>3, <1>12
    <2>2. w[Len(c) + 1] = 120 /\ Len(w) = Len(c) + 1
      BY <1>1, <1>7, <2>1 DEF Joined
    <2>3. Len(w) \in 1 .. Len(w) /\ 0 + Len(w) = Len(w)
      BY <1>7, <2>2
    <2>4. st[0 + Len(w)] = OctetStep(st[0 + Len(w) - 1], w[Len(w)])
      BY <1>5, <2>3 DEF Steps
    <2>5. 120 # Dot /\ 120 \notin Digits
      BY DEF Dot, Digits, Zero
    <2>6. st[Len(w)] = None
      BY <2>2, <2>3, <2>4, <2>5, OtherStep
    <2>7. parse_cstring_ip(w) = None
      BY <1>5, <2>6
    <2> QED  BY <1>12, <2>7 DEF FourOctets, w
  <1>13. CASE ~a.junk
    <2>1. Len(j) = 0
      BY <1>3, <1>13
    <2>2. Len(w) = Len(c)
      BY <1>7, <2>1
    <2>3. st[Len(w)] = After(ps, n)
      BY <1>6, <2>2
    <2>4. FourOctets(a) <=> n = 4 /\ \A i \in 1 .. 4 : ps[i] <= 255
      BY <1>13 DEF FourOctets, ps, n
    <2>5. CASE ~Octets(ps, n)
      <3>1. parse_cstring_ip(w) = None
        BY <1>5, <1>8, <2>3, <2>5
      <3>2. ~FourOctets(a)
        <4>1. ASSUME FourOctets(a) PROVE FALSE
          <5>1. n = 4 /\ \A i \in 1 .. 4 : ps[i] <= 255
            BY <2>4, <4>1
          <5> QED  BY <2>5, <5>1 DEF Octets
        <4> QED  BY <4>1
      <3> QED  BY <3>1, <3>2 DEF w
    <2>6. CASE Octets(ps, n)
      <3>1. st[Len(w)] = Taken(u, ps[n])
        BY <1>8, <2>3, <2>6 DEF u
      <3>2. /\ st[Len(w)] # None /\ st[Len(w)].parts = u /\ st[Len(w)].acc = ps[n]
        BY <1>10, <1>11, <3>1, TakenIs
      <3>3. n <= 4 /\ \A i \in 1 .. n : ps[i] <= 255
        BY <2>6 DEF Octets
      <3>4. Len(w) < 128
        BY <1>1, <1>6, <1>7, <2>2, <3>3
      <3>5. parse_cstring_ip(w) = IF Len(u) # 3 THEN None ELSE Append(u, ps[n])
        <4>1. ~(Len(w) >= 128)
          BY <1>7, <2>2, <3>4
        <4> QED  BY <1>5, <3>2, <4>1
      <3>6. CASE n = 4
        <4>1. FourOctets(a)
          BY <2>4, <3>3, <3>6
        <4>2. Append(u, ps[n]) = ps
          <5> DEFINE y == Append(u, ps[n])
          <5>1. y \in Seq(Nat) /\ Len(y) = n
            BY <1>1, <1>10, <1>11
          <5>2. ASSUME NEW k \in 1 .. n PROVE y[k] = ps[k]
            <6>1. CASE k = n
              BY <1>1, <1>10, <1>11, <6>1
            <6>2. CASE k # n
              <7>1. k \in 1 .. n - 1 /\ k \in 1 .. Len(u)
                BY <1>1, <1>11, <6>2
              <7>2. y[k] = u[k]
                BY <1>10, <1>11, <7>1
              <7> QED  BY <1>11, <7>1, <7>2
            <6> QED  BY <6>1, <6>2
          <5> HIDE DEF y
          <5>3. y = ps
            BY <1>2, <1>9, <5>1, <5>2, SeqEqual
          <5> QED  BY <5>3 DEF y
        <4>3. Len(u) = 3
          BY <1>11, <3>6
        <4> QED  BY <3>5, <4>1, <4>2, <4>3 DEF w, ps
      <3>7. CASE n # 4
        <4>1. Len(u) # 3
          BY <1>1, <1>11, <3>7
        <4> QED  BY <2>4, <3>5, <3>7, <4>1 DEF w
      <3> QED  BY <3>6, <3>7
    <2> QED  BY <2>5, <2>6
  <1> QED  BY <1>4, <1>12, <1>13

\* A missing argument.
LEMMA EmptyText == parse_cstring_usize(<<>>) = None /\ parse_cstring_ip(<<>>) = None
  <1> DEFINE e == <<>>
  <1>1. e \in Seq(Bytes) /\ Len(e) = 0
    OBVIOUS
  <1> HIDE DEF e
  <1>2. DigitCount(e) = 0
    <2>1. 0 \in 0 .. 64 /\ 0 <= Len(e) /\ ~(0 < Len(e)) /\ \A i \in 1 .. 0 : e[i] \in Digits
      BY <1>1
    <2> QED  BY <1>1, <2>1, DigitCountIs
  <1>3. parse_cstring_usize(e) = None
    BY <1>1, <1>2, ParseIs
  <1>4. parse_cstring_ip(e) = None
    <2> DEFINE IpOf(st) == IF Len(e) >= 128 \/ st[Len(e)] = None THEN None
                           ELSE IF Len(st[Len(e)].parts) # 3 THEN None
                           ELSE Append(st[Len(e)].parts, st[Len(e)].acc)
    <2>1. \E st : st[0] = Taken(<<>>, 0) /\ Steps(st, 0, e) /\ parse_cstring_ip(e) = IpOf(st)
      BY <1>1, ParseIpIs
    <2>2. PICK st : st[0] = Taken(<<>>, 0) /\ parse_cstring_ip(e) = IpOf(st)
      BY <2>1
    <2> DEFINE z == <<>>
    <2>3. z \in Seq(Nat) /\ 0 \in Nat /\ Len(z) = 0 /\ st[Len(e)] = Taken(z, 0)
      BY <1>1, <2>2
    <2> HIDE DEF z
    <2>4. st[Len(e)] # None /\ Len(st[Len(e)].parts) = 0
      BY <2>3, TakenIs
    <2> QED  BY <1>1, <2>2, <2>4
  <1> QED  BY <1>3, <1>4 DEF e

\* Ports.
LEMMA PortConstants == PortSpan \in Nat \ {0} /\ DefaultPort \in 0 .. PortSpan - 1
  BY SMT DEF PortSpan, DefaultPort

LEMMA PortHigh ==
  ASSUME NEW p \in 0 .. PortSpan - 1
  PROVE  p \in Nat /\ p \div 256 \in 0 .. 255
  <1> DEFINE h == p \div 256
             l == p % 256
  <1>1. p \in Nat
    BY PortConstants
  <1>2. h \in Nat /\ l \in 0 .. 255 /\ p = h * 256 + l
    BY <1>1
  <1> HIDE DEF h, l
  <1>3. p < 65536
    <2>1. p < PortSpan
      BY PortConstants
    <2>2. PortSpan = 65536
      BY DEF PortSpan
    <2> QED  BY <1>1, <2>1, <2>2, SMT
  <1>4. h < 256
    BY <1>1, <1>2, <1>3, SMT
  <1>5. h \in 0 .. 255
    BY <1>2, <1>4
  <1> QED  BY <1>1, <1>5 DEF h

\* The two bytes of a port.
LEMMA PortIs ==
  ASSUME NEW p \in 0 .. PortSpan - 1
  PROVE  PortBytes(p)[1] * 256 + PortBytes(p)[2] = p
  <1> DEFINE h == p \div 256
             l == p % 256
  <1>1. p % PortSpan = p /\ p \in Nat
    <2>1. p \in Nat /\ p < PortSpan
      BY PortConstants
    <2> QED  BY <2>1, PortConstants, SmallRest
  <1>2. /\ PortBytes(p)[1] = (p \div Pow256[2 - 1]) % 256
        /\ PortBytes(p)[2] = (p \div Pow256[2 - 2]) % 256
    BY <1>1 DEF PortBytes, BytesOf
  <1>3. Pow256[0] = 1 /\ Pow256[1] = 256
    BY Pow256Is
  <1>4. PortBytes(p)[1] = h % 256 /\ PortBytes(p)[2] = l
    BY <1>1, <1>2, <1>3
  <1>5. h \in 0 .. 255 /\ l \in 0 .. 255 /\ p = h * 256 + l
    <2>1. h \in 0 .. 255
      BY PortHigh
    <2>2. l \in 0 .. 255 /\ p = h * 256 + l
      BY <1>1
    <2> QED  BY <2>1, <2>2
  <1> HIDE DEF h, l
  <1>6. h % 256 = h
    BY <1>5
  <1> QED  BY <1>4, <1>5, <1>6

\* What ListensWhereAsked says of the server's settings.
Bound(args, got, addr) ==
  /\ got.workers = IF Len(args) < 1 THEN 16 ELSE args[1].parts[1]
  /\ addr.sin_addr = IF Len(args) >= 2 /\ FourOctets(args[2]) THEN args[2].parts
                     ELSE <<0, 0, 0, 0>>
  /\ addr.sin_port[1] * 256 + addr.sin_port[2] =
       IF Len(args) < 3 THEN DefaultPort ELSE args[3].parts[1]

\* The workers, the address and the port of main come from its arguments, and a missing
\* or malformed one is replaced by its default.
LEMMA ArgumentsTaken ==
  ASSUME NEW args \in Meant, NEW got, NEW addr, NEW argv,
         argv = [i \in DOMAIN args |-> Text(args[i])],
         got = main_trampoline(argv), addr = SockAddr(got.ip, got.port)
  PROVE  Bound(args, got, addr)
  <1> DEFINE n == Len(args)
             M == MeantArguments
  <1>1. args \in Seq(M) /\ n \in Nat /\ (n >= 3 => args[3].parts[1] \in 0 .. PortSpan - 1)
    BY DEF Meant, MeantArguments, Words
  <1>2. DOMAIN args = 1 .. n
    BY <1>1
  <1>3. \A i \in 1 .. n : args[i] \in M
    <2> HIDE DEF M
    <2> QED  BY <1>1, ElementOfSeq
  <1> HIDE DEF n, M
  <1>4. ASSUME NEW i \in Nat \ {0}
        PROVE  Argument(argv, i) = IF i <= n THEN Text(args[i]) ELSE <<>>
    <2>1. DOMAIN argv = 1 .. n /\ \A k \in 1 .. n : argv[k] = Text(args[k])
      BY <1>2
    <2>2. CASE i <= n
      <3>1. i \in 1 .. n
        BY <1>1, <2>2
      <3> QED  BY <2>1, <2>2, <3>1 DEF Argument
    <2>3. CASE ~(i <= n)
      <3>1. i \notin DOMAIN argv
        BY <1>1, <2>1, <2>3
      <3> QED  BY <2>3, <3>1 DEF Argument
    <2> QED  BY <2>2, <2>3
  <1>5. /\ got.workers = OrDefault(parse_cstring_usize(Argument(argv, 1)), 16)
        /\ got.ip = OrDefault(parse_cstring_ip(Argument(argv, 2)), <<0, 0, 0, 0>>)
        /\ got.port = OrDefault(parse_cstring_usize(Argument(argv, 3)), DefaultPort)
    BY DEF main_trampoline
  <1>6. addr.sin_addr = got.ip /\ addr.sin_port = PortBytes(got.port)
    BY DEF SockAddr
  <1>7. \A x \in Nat : OrDefault(x, 16) = x /\ OrDefault(x, DefaultPort) = x
    BY PureFunctionsAssumption DEF OrDefault
  <1>8. \A y : OrDefault(None, y) = y
    BY DEF OrDefault
  <1>9. ASSUME NEW i \in 1 .. n
        PROVE  parse_cstring_usize(Text(args[i])) = args[i].parts[1] /\ args[i].parts[1] \in Nat
    <2> DEFINE a == args[i]
    <2>1. a \in MeantArguments
      BY <1>3 DEF M
    <2> HIDE DEF a
    <2>2. parse_cstring_usize(Text(a)) = a.parts[1]
      BY <2>1, TextNumber
    <2>3. a.parts \in Seq(Words) /\ 1 \in 1 .. Len(a.parts)
      <3>1. a.parts \in Seq(Words) /\ Len(a.parts) \in Nat \ {0}
        BY <2>1, ArgumentText
      <3> QED  BY <3>1
    <2>4. a.parts[1] \in Nat
      BY <2>3, WordIs
    <2> QED  BY <2>2, <2>4 DEF a
  <1>10. got.workers = IF n < 1 THEN 16 ELSE args[1].parts[1]
    <2>1. CASE n < 1
      <3>1. Argument(argv, 1) = <<>>
        BY <1>1, <1>4, <2>1
      <3> QED  BY <1>5, <1>8, <2>1, <3>1, EmptyText
    <2>2. CASE ~(n < 1)
      <3>1. 1 <= n /\ 1 \in 1 .. n /\ 1 \in Nat \ {0}
        BY <1>1, <2>2
      <3>2. Argument(argv, 1) = Text(args[1])
        <4>1. Argument(argv, 1) = IF 1 <= n THEN Text(args[1]) ELSE <<>>
          BY <1>4, <3>1
        <4> QED  BY <3>1, <4>1
      <3>3. /\ parse_cstring_usize(Text(args[1])) = args[1].parts[1]
            /\ args[1].parts[1] \in Nat
        BY <1>9, <3>1
      <3>4. OrDefault(args[1].parts[1], 16) = args[1].parts[1]
        BY <1>7, <3>3
      <3>5. got.workers = args[1].parts[1]
        <4>1. got.workers = OrDefault(parse_cstring_usize(Text(args[1])), 16)
          BY <1>5, <3>2
        <4> QED  BY <3>3, <3>4, <4>1
      <3> QED  BY <2>2, <3>5
    <2> QED  BY <1>1, <2>1, <2>2
  <1>11. got.port = IF n < 3 THEN DefaultPort ELSE args[3].parts[1]
    <2>1. CASE n < 3
      <3>1. Argument(argv, 3) = <<>>
        BY <1>1, <1>4, <2>1
      <3> QED  BY <1>5, <1>8, <2>1, <3>1, EmptyText
    <2>2. CASE ~(n < 3)
      <3>1. 3 <= n /\ 3 \in 1 .. n /\ 3 \in Nat \ {0}
        BY <1>1, <2>2
      <3>2. Argument(argv, 3) = Text(args[3])
        <4>1. Argument(argv, 3) = IF 3 <= n THEN Text(args[3]) ELSE <<>>
          BY <1>4, <3>1
        <4> QED  BY <3>1, <4>1
      <3>3. /\ parse_cstring_usize(Text(args[3])) = args[3].parts[1]
            /\ args[3].parts[1] \in Nat
        BY <1>9, <3>1
      <3>4. OrDefault(args[3].parts[1], DefaultPort) = args[3].parts[1]
        BY <1>7, <3>3
      <3> QED  BY <1>5, <2>2, <3>2, <3>3, <3>4
    <2> QED  BY <2>1, <2>2
  <1>12. got.port \in 0 .. PortSpan - 1
    <2>1. CASE n < 3
      BY <1>11, <2>1, PortConstants
    <2>2. CASE ~(n < 3)
      BY <1>1, <1>11, <2>2
    <2> QED  BY <2>1, <2>2
  <1>13. addr.sin_port[1] * 256 + addr.sin_port[2] = IF n < 3 THEN DefaultPort ELSE args[3].parts[1]
    <2>1. PortBytes(got.port)[1] * 256 + PortBytes(got.port)[2] = got.port
      BY <1>12, PortIs
    <2> QED  BY <1>6, <1>11, <2>1
  <1>14. addr.sin_addr = IF n >= 2 /\ FourOctets(args[2]) THEN args[2].parts ELSE <<0, 0, 0, 0>>
    <2>1. CASE ~(n >= 2)
      <3>1. Argument(argv, 2) = <<>>
        BY <1>1, <1>4, <2>1
      <3> QED  BY <1>5, <1>6, <1>8, <2>1, <3>1, EmptyText
    <2>2. CASE n >= 2
      <3>1. 2 <= n /\ 2 \in 1 .. n /\ 2 \in Nat \ {0}
        BY <1>1, <2>2
      <3>2. Argument(argv, 2) = Text(args[2])
        BY <1>4, <3>1
      <3> DEFINE a == args[2]
      <3>3. a \in MeantArguments
        BY <1>3, <3>1 DEF M
      <3> HIDE DEF a
      <3>4. parse_cstring_ip(Text(a)) = IF FourOctets(a) THEN a.parts ELSE None
        BY <3>3, TextAddress
      <3>5. FourOctets(a) => a.parts # None
        <4> SUFFICES ASSUME FourOctets(a) PROVE a.parts # None
          OBVIOUS
        <4>1. a.parts \in Seq(Words)
          BY <3>3, ArgumentText
        <4> DEFINE ps == a.parts
        <4>2. Len(ps) = 4 /\ \A i \in 1 .. 4 : ps[i] <= 255
          BY DEF FourOctets
        <4>3. \A i \in 1 .. 4 : ps[i] \in Nat
          BY <4>1, <4>2, WordIs
        <4> HIDE DEF ps
        <4> DEFINE B == 0 .. 255
        <4>4. \A i \in 1 .. 4 : ps[i] \in B
          BY <4>2, <4>3
        <4>5. ps \in Seq(Words)
          BY <4>1 DEF ps
        <4> HIDE DEF B
        <4>6. ps \in [1 .. 4 -> B]
          BY <4>2, <4>4, <4>5
        <4>7. ps \in Seq(B)
          BY <4>6, FunctionIsSeq
        <4> QED  BY <4>7, ParsingAssumption DEF ps, B
      <3>6. got.ip = IF FourOctets(a) THEN a.parts ELSE <<0, 0, 0, 0>>
        <4>1. CASE FourOctets(a)
          BY <1>5, <3>2, <3>4, <3>5, <4>1 DEF OrDefault, a
        <4>2. CASE ~FourOctets(a)
          BY <1>5, <1>8, <3>2, <3>4, <4>2 DEF a
        <4> QED  BY <4>1, <4>2
      <3> QED  BY <1>6, <2>2, <3>6 DEF a
    <2> QED  BY <2>1, <2>2
  <1> QED  BY <1>10, <1>13, <1>14 DEF Bound, n

\* The server that is started with any arguments, numbers joined by dots and perhaps
\* something behind them, listens where the arguments say (main_trampoline and
\* create_listening_socket).
THEOREM ListensAsTold == BytesSpec => []ListensWhereAsked
  <1>1. InputKept => ListensWhereAsked
    <2> SUFFICES ASSUME InputKept, input.fn = "argv" PROVE ListensWhereAsked
      BY Zenon DEF ListensWhereAsked
    <2> DEFINE args == input.of
               argv == [i \in DOMAIN args |-> Text(args[i])]
               got == main_trampoline(argv)
               addr == SockAddr(got.ip, got.port)
    <2>1. args \in Meant
      BY DEF InputKept
    <2> HIDE DEF args
    <2>2. ASSUME NEW v, NEW g, NEW d, v = argv, g = main_trampoline(v),
                 d = SockAddr(g.ip, g.port)
          PROVE Bound(args, g, d)
      BY <2>1, <2>2, ArgumentsTaken
    <2>3. Bound(args, got, addr)
      BY <2>2
    <2> HIDE DEF got, addr
    <2>4. /\ got.workers = IF Len(args) < 1 THEN 16 ELSE args[1].parts[1]
          /\ addr.sin_addr = IF Len(args) >= 2 /\ /\ Len(args[2].parts) = 4 /\ ~args[2].junk
                                               /\ \A i \in 1 .. 4 : args[2].parts[i] <= 255
                             THEN args[2].parts ELSE <<0, 0, 0, 0>>
          /\ addr.sin_port[1] * 256 + addr.sin_port[2] =
               IF Len(args) < 3 THEN DefaultPort ELSE args[3].parts[1]
      BY <2>3 DEF Bound, FourOctets
    <2> QED  BY <2>4, Zenon DEF ListensWhereAsked, args, got, addr
  <1> QED  BY <1>1, InputInit, InputStep, PTL DEF BytesSpec
=============================================================================
