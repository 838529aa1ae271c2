-------------------------- MODULE FrameStreamProofs --------------------------
(***************************************************************************)
(* Proofs about FrameStream: for any frames and any cutting of the stream  *)
(* accept_and_run gets the frames the client has sent, and the functions   *)
(* of Parsing do what they should for every input.                         *)
(***************************************************************************)
EXTENDS FrameStream, SequenceLaws

-----------------------------------------------------------------------------
(* Numbers as bytes.                                                       *)

LEMMA Pow256Is ==
  /\ Pow256 \in [Nat -> Nat] /\ Pow256[0] = 1
  /\ \A n \in Nat : Pow256[n + 1] = 256 * Pow256[n] /\ Pow256[n] # 0
  <1> DEFINE g == [p \in Nat \X Nat |-> 256 * p[2]]
             Def(f) == f = [n \in Nat |-> IF n = 0 THEN 1 ELSE 256 * f[n - 1]]
  <1>1. g \in [Nat \X Nat -> Nat]
    OBVIOUS
  <1>2. PICK f \in [Nat -> Nat] : Recurs(f, 1, g)
    <2> HIDE DEF g
    <2>1. \E f \in [Nat -> Nat] : Recurs(f, 1, g)
      BY <1>1, RecursionExists
    <2> QED  BY <2>1
  <1>3. ASSUME NEW i \in Nat \ {0} PROVE f[i] = 256 * f[i - 1]
    <2>1. i - 1 \in Nat /\ f[i - 1] \in Nat
      BY <1>2
    <2>2. g[<<i, f[i - 1]>>] = 256 * f[i - 1]
      BY <2>1
    <2> QED  BY <1>2, <2>2 DEF Recurs
  <1>4. Def(f)
    BY <1>2, <1>3 DEF Recurs
  <1>5. Pow256 = CHOOSE h : Def(h)
    BY DEF Pow256
  <1>6. Def(Pow256)
    <2> HIDE DEF Def
    <2> QED  BY <1>4, <1>5
  <1>7. /\ Pow256[0] = 1 /\ DOMAIN Pow256 = Nat
        /\ \A n \in Nat : Pow256[n + 1] = 256 * Pow256[n]
    <2>1. ASSUME NEW n \in Nat PROVE Pow256[n + 1] = 256 * Pow256[n]
      <3>1. Pow256[n + 1] = 256 * Pow256[n + 1 - 1]
        BY <1>6
      <3> QED  BY <3>1
    <2>2. Pow256[0] = 1
      BY <1>6
    <2>3. DOMAIN Pow256 = Nat
      BY <1>6
    <2> QED  BY <2>1, <2>2, <2>3
  <1> DEFINE T == {n \in Nat : Pow256[n] \in Nat \ {0}}
  <1> HIDE DEF Def
  <1>8. Nat \subseteq T
    <2>1. 0 \in T
      BY <1>7
    <2>2. ASSUME NEW n \in Nat, n \in T PROVE n + 1 \in T
      BY <1>7, <2>2
    <2> HIDE DEF T
    <2> QED  BY <2>1, <2>2, SetInduction
  <1>9. Pow256 = [n \in Nat |-> Pow256[n]]
    BY <1>6 DEF Def
  <1> QED  BY <1>7, <1>8, <1>9

\* ValueOf goes through a sequence of bytes like the loop of parse_websocket_frame.
ValuesOf(v, s) ==
  /\ v[0] = 0
  /\ \A i \in 1 .. Len(s) : v[i] = (v[i - 1] * 256 + s[i]) % UsizeSpan

LEMMA SpanType == UsizeSpan \in Nat \ {0}
  BY Pow256Is, ParsingAssumption DEF UsizeSpan

LEMMA SmallRest ==
  ASSUME NEW a \in Nat, NEW b \in Nat \ {0}, a < b
  PROVE  a % b = a
  OBVIOUS

LEMMA ValueOfIs ==
  ASSUME NEW s \in Seq(Bytes)
  PROVE  \E v : ValuesOf(v, s) /\ ValueOf(s) = v[Len(s)]
  <1> DEFINE At(i) == IF i \in 1 .. Len(s) THEN s[i] ELSE 0
             g == [p \in Nat \X Nat |-> (p[2] * 256 + At(p[1])) % UsizeSpan]
             Def(f) == f = [i \in 0 .. Len(s) |->
                              IF i = 0 THEN 0 ELSE (f[i - 1] * 256 + s[i]) % UsizeSpan]
  <1>1. Len(s) \in Nat /\ \A i \in Nat : At(i) \in Nat
    <2>1. \A i \in 1 .. Len(s) : s[i] \in Bytes
      OBVIOUS
    <2>2. Bytes \subseteq Nat
      BY DEF Bytes
    <2>3. ASSUME NEW i \in Nat PROVE At(i) \in Nat
      <3>1. CASE i \in 1 .. Len(s)
        BY <2>1, <2>2, <3>1
      <3>2. CASE i \notin 1 .. Len(s)
        BY <3>2
      <3> QED  BY <3>1, <3>2
    <2> QED  BY <2>3
  <1>2. \A x, y \in Nat : (x * 256 + y) % UsizeSpan \in Nat
    BY SpanType
  <1>3. g \in [Nat \X Nat -> Nat]
    <2> HIDE DEF At
    <2>1. \A p \in Nat \X Nat : p[1] \in Nat /\ p[2] \in Nat
      OBVIOUS
    <2>2. ASSUME NEW p \in Nat \X Nat PROVE (p[2] * 256 + At(p[1])) % UsizeSpan \in Nat
      <3>1. p[2] \in Nat /\ At(p[1]) \in Nat
        BY <1>1, <2>1
      <3> QED  BY <1>2, <3>1
    <2> QED  BY <2>2
  <1>4. PICK f \in [Nat -> Nat] : Recurs(f, 0, g)
    <2> HIDE DEF g
    <2>1. \E f \in [Nat -> Nat] : Recurs(f, 0, g)
      BY <1>3, RecursionExists
    <2> QED  BY <2>1
  <1>5. \A i \in Nat \ {0} : f[i] = (f[i - 1] * 256 + At(i)) % UsizeSpan
    <2> SUFFICES ASSUME NEW i \in Nat \ {0}
                 PROVE f[i] = (f[i - 1] * 256 + At(i)) % UsizeSpan
      OBVIOUS
    <2> HIDE DEF At
    <2>1. i - 1 \in Nat
      OBVIOUS
    <2>3. f[i - 1] \in Nat /\ <<i, f[i - 1]>> \in Nat \X Nat
      BY <2>1, <1>4
    <2>2. g[<<i, f[i - 1]>>] = (f[i - 1] * 256 + At(i)) % UsizeSpan
      BY <2>3
    <2> HIDE DEF g
    <2> QED  BY <1>4, <2>2 DEF Recurs
  <1> DEFINE h == [i \in 0 .. Len(s) |-> f[i]]
  <1>6. Def(h)
    <2>1. ASSUME NEW i \in 0 .. Len(s)
          PROVE h[i] = IF i = 0 THEN 0 ELSE (h[i - 1] * 256 + s[i]) % UsizeSpan
      <3>1. CASE i = 0
        BY <3>1, <1>4 DEF Recurs
      <3>2. CASE i # 0
        <4>1. /\ i \in Nat \ {0} /\ i - 1 \in 0 .. Len(s) /\ At(i) = s[i]
              /\ h[i] = f[i] /\ h[i - 1] = f[i - 1]
          BY <3>2, <1>1
        <4> QED  BY <4>1, <1>5
      <3> QED  BY <3>1, <3>2
    <2> QED  BY <2>1
  <1> DEFINE v == CHOOSE w : Def(w)
  <1>7. Def(v)
    <2> HIDE DEF Def, h
    <2> QED  BY <1>6
  <1>8. ValueOf(s) = v[Len(s)]
    BY DEF ValueOf
  <1> HIDE DEF v
  <1>9. ValuesOf(v, s)
    <2>1. v[0] = 0
      BY <1>1, <1>7
    <2>2. ASSUME NEW i \in 1 .. Len(s) PROVE v[i] = (v[i - 1] * 256 + s[i]) % UsizeSpan
      <3>1. i \in 0 .. Len(s) /\ i # 0
        BY <1>1
      <3>2. v[i] = IF i = 0 THEN 0 ELSE (v[i - 1] * 256 + s[i]) % UsizeSpan
        BY <1>7, <3>1
      <3> QED  BY <3>1, <3>2
    <2> QED  BY <2>1, <2>2 DEF ValuesOf
  <1> QED  BY <1>8, <1>9

\* Division by a power in two steps.
LEMMA DivStep ==
  ASSUME NEW v \in Nat, NEW p \in Nat \ {0}
  PROVE  v \div (256 * p) = (v \div p) \div 256 /\ v \div p \in Nat
  OBVIOUS

LEMMA DivSmall ==
  ASSUME NEW v \in Nat, NEW p \in Nat, v < p
  PROVE  v \div p = 0
  OBVIOUS

LEMMA BytesType ==
  ASSUME NEW v \in Nat, NEW n \in Nat
  PROVE  /\ BytesOf(v, n) \in Seq(Bytes) /\ Len(BytesOf(v, n)) = n
         /\ \A i \in 1 .. n : BytesOf(v, n)[i] = (v \div Pow256[n - i]) % 256
  <1>1. ASSUME NEW i \in 1 .. n PROVE (v \div Pow256[n - i]) % 256 \in Bytes
    <2>1. n - i \in Nat /\ Pow256[n - i] \in Nat \ {0}
      BY Pow256Is
    <2>2. v \div Pow256[n - i] \in Nat
      BY <2>1, DivStep
    <2> QED  BY <2>2 DEF Bytes
  <1> QED  BY <1>1 DEF BytesOf

LEMMA BytesLen ==
  ASSUME NEW v \in Nat, NEW n \in Nat
  PROVE  BytesOf(v, n) \in Seq(Bytes) /\ Len(BytesOf(v, n)) = n
  BY BytesType

\* A number that fits its bytes and a usize is read back.
LEMMA ReadsBack ==
  ASSUME NEW v \in Nat, NEW n \in Nat, v < Pow256[n], v < UsizeSpan
  PROVE  ValueOf(BytesOf(v, n)) = v
  <1> DEFINE s == BytesOf(v, n)
  <1>1. s \in Seq(Bytes) /\ Len(s) = n /\ \A i \in 1 .. n : s[i] = (v \div Pow256[n - i]) % 256
    BY BytesType, ZenonT(30)
  <1>2. PICK w : ValuesOf(w, s) /\ ValueOf(s) = w[Len(s)]
    BY <1>1, ValueOfIs
  <1> HIDE DEF s
  <1> DEFINE T == {i \in Nat : i <= n => w[i] = v \div Pow256[n - i]}
  <1>3. 0 \in T
    <2>1. v \div Pow256[n - 0] = 0
      <3>1. n - 0 = n /\ Pow256[n] \in Nat \ {0}
        BY Pow256Is
      <3> QED  BY <3>1, DivSmall
    <2>2. w[0] = 0
      BY <1>2 DEF ValuesOf
    <2> QED  BY <2>1, <2>2
  <1>4. ASSUME NEW i \in Nat, i \in T PROVE i + 1 \in T
    <2> SUFFICES ASSUME i + 1 <= n PROVE w[i + 1] = v \div Pow256[n - (i + 1)]
      OBVIOUS
    <2> DEFINE p == Pow256[n - (i + 1)]
               q == v \div p
    <2>1. p \in Nat \ {0} /\ Pow256[n - i] = 256 * p
      <3>1. n - (i + 1) \in Nat /\ n - (i + 1) + 1 = n - i
        OBVIOUS
      <3> QED  BY <3>1, Pow256Is
    <2>2. w[i] = q \div 256 /\ q \in Nat
      <3>1. w[i] = v \div (256 * p)
        BY <1>4, <2>1
      <3> HIDE DEF p
      <3>2. v \div (256 * p) = q \div 256 /\ q \in Nat
        BY <2>1, DivStep
      <3> QED  BY <3>1, <3>2
    <2>3. i + 1 \in 1 .. Len(s) /\ i + 1 - 1 = i /\ s[i + 1] = q % 256
      BY <1>1
    <2>4. w[i + 1] = (w[i] * 256 + (q % 256)) % UsizeSpan
      <3>1. w[i + 1] = (w[i + 1 - 1] * 256 + s[i + 1]) % UsizeSpan
        BY <1>2, <2>3 DEF ValuesOf
      <3> HIDE DEF q
      <3> QED  BY <2>3, <3>1
    <2>5. (q \div 256) * 256 + (q % 256) = q
      <3> HIDE DEF q
      <3>1. q \in Nat
        BY <2>2
      <3> QED  BY <3>1
    <2>6. q <= v
      <3> HIDE DEF p
      <3> QED  BY <2>1
    <2>7. q % UsizeSpan = q
      <3> HIDE DEF q
      <3> QED  BY <2>2, <2>6, SpanType
    <2> QED  BY <2>2, <2>4, <2>5, <2>7
  <1>5. Nat \subseteq T
    <2> HIDE DEF T
    <2> QED  BY <1>3, <1>4, SetInduction
  <1>6. w[n] = v \div Pow256[n - n]
    BY <1>5
  <1>7. Pow256[n - n] = 1
    BY Pow256Is
  <1> QED  BY <1>1, <1>2, <1>6, <1>7 DEF s

-----------------------------------------------------------------------------
(* Masking.                                                                *)

Bit(x, p) == (x \div p) % 2

\* A byte put together from bits has these bits, ...
LEMMA BitsBack ==
  ASSUME NEW b1 \in {0, 1}, NEW b2 \in {0, 1}, NEW b3 \in {0, 1}, NEW b4 \in {0, 1},
         NEW b5 \in {0, 1}, NEW b6 \in {0, 1}, NEW b7 \in {0, 1}, NEW b8 \in {0, 1},
         NEW s, s = 1 * b1 + 2 * b2 + 4 * b3 + 8 * b4 + 16 * b5 + 32 * b6 + 64 * b7 + 128 * b8
  PROVE  /\ s \in Bytes
         /\ Bit(s, 1) = b1 /\ Bit(s, 2) = b2 /\ Bit(s, 4) = b3 /\ Bit(s, 8) = b4
         /\ Bit(s, 16) = b5 /\ Bit(s, 32) = b6 /\ Bit(s, 64) = b7 /\ Bit(s, 128) = b8
  BY DEF Bit, Bytes

\* ... and a byte is put together from its bits.
LEMMA BitsSum ==
  ASSUME NEW a \in Bytes
  PROVE  a = 1 * Bit(a, 1) + 2 * Bit(a, 2) + 4 * Bit(a, 4) + 8 * Bit(a, 8)
             + 16 * Bit(a, 16) + 32 * Bit(a, 32) + 64 * Bit(a, 64) + 128 * Bit(a, 128)
  BY DEF Bit, Bytes

LEMMA BitType ==
  ASSUME NEW a \in Bytes, NEW p \in Nat \ {0}
  PROVE  Bit(a, p) \in {0, 1}
  <1>1. a \in Nat /\ a \div p \in Nat
    BY DEF Bytes
  <1> QED  BY <1>1 DEF Bit

\* Masking twice with the same key gives the byte back.
LEMMA XorTwice ==
  ASSUME NEW a \in Bytes, NEW b \in Bytes
  PROVE  ByteXor(a, b) \in Bytes /\ ByteXor(ByteXor(a, b), b) = a
  <1> DEFINE C(p) == (Bit(a, p) + Bit(b, p)) % 2
             Places == {1, 2, 4, 8, 16, 32, 64, 128}
             x == ByteXor(a, b)
  <1>1. \A p \in Places : Bit(a, p) \in {0, 1} /\ Bit(b, p) \in {0, 1}
    BY BitType
  <1>2. ASSUME NEW p \in Places PROVE C(p) \in {0, 1} /\ (C(p) + Bit(b, p)) % 2 = Bit(a, p)
    BY <1>1
  <1>3. x = 1 * C(1) + 2 * C(2) + 4 * C(4) + 8 * C(8) + 16 * C(16) + 32 * C(32)
            + 64 * C(64) + 128 * C(128)
    BY DEF ByteXor, Bit
  <1> HIDE DEF C, x
  <1>4. x \in Bytes /\ \A p \in Places : Bit(x, p) = C(p)
    <2>1. /\ C(1) \in {0, 1} /\ C(2) \in {0, 1} /\ C(4) \in {0, 1} /\ C(8) \in {0, 1}
          /\ C(16) \in {0, 1} /\ C(32) \in {0, 1} /\ C(64) \in {0, 1} /\ C(128) \in {0, 1}
      BY <1>2
    <2>2. /\ x \in Bytes
          /\ Bit(x, 1) = C(1) /\ Bit(x, 2) = C(2) /\ Bit(x, 4) = C(4) /\ Bit(x, 8) = C(8)
          /\ Bit(x, 16) = C(16) /\ Bit(x, 32) = C(32) /\ Bit(x, 64) = C(64)
          /\ Bit(x, 128) = C(128)
      BY <1>3, <2>1, BitsBack
    <2> QED  BY <2>2
  <1> DEFINE D(p) == (Bit(x, p) + Bit(b, p)) % 2
  <1>5. ByteXor(x, b) = 1 * D(1) + 2 * D(2) + 4 * D(4) + 8 * D(8) + 16 * D(16) + 32 * D(32)
                    + 64 * D(64) + 128 * D(128)
    BY DEF ByteXor, Bit
  <1>6. \A p \in Places : D(p) = Bit(a, p)
    BY <1>2, <1>4
  <1> HIDE DEF D
  <1>7. ByteXor(x, b) = a
    <2>1. /\ D(1) = Bit(a, 1) /\ D(2) = Bit(a, 2) /\ D(4) = Bit(a, 4) /\ D(8) = Bit(a, 8)
          /\ D(16) = Bit(a, 16) /\ D(32) = Bit(a, 32) /\ D(64) = Bit(a, 64)
          /\ D(128) = Bit(a, 128)
      BY <1>6
    <2> QED  BY <1>5, <2>1, BitsSum
  <1> QED  BY <1>4, <1>7 DEF x

-----------------------------------------------------------------------------
(* A frame on the wire.                                                    *)

\* w is s and t one after the other, place by place.
Joined(w, s, t) ==
  /\ Len(w) = Len(s) + Len(t)
  /\ \A i \in 1 .. Len(s) : w[i] = s[i]
  /\ \A i \in 1 .. Len(t) : w[Len(s) + i] = t[i]

LEMMA TwoParts ==
  ASSUME NEW S, NEW s \in Seq(S), NEW t \in Seq(S)
  PROVE  s \o t \in Seq(S) /\ Joined(s \o t, s, t)
  BY DEF Joined

\* The same for four sequences.
FourJoined(w, h, e, k, p) ==
  /\ Len(w) = Len(h) + Len(e) + Len(k) + Len(p)
  /\ \A i \in 1 .. Len(h) : w[i] = h[i]
  /\ \A i \in 1 .. Len(e) : w[Len(h) + i] = e[i]
  /\ \A i \in 1 .. Len(k) : w[Len(h) + Len(e) + i] = k[i]
  /\ \A i \in 1 .. Len(p) : w[Len(h) + Len(e) + Len(k) + i] = p[i]

LEMMA FourParts ==
  ASSUME NEW S, NEW h \in Seq(S), NEW e \in Seq(S), NEW k \in Seq(S), NEW p \in Seq(S)
  PROVE  h \o e \o k \o p \in Seq(S) /\ FourJoined(h \o e \o k \o p, h, e, k, p)
  <1> DEFINE he == h \o e
             hek == he \o k
             w == hek \o p
  <1>1. he \in Seq(S) /\ Joined(he, h, e)
    BY TwoParts
  <1> HIDE DEF he
  <1>2. hek \in Seq(S) /\ Joined(hek, he, k)
    BY <1>1, TwoParts
  <1> HIDE DEF hek
  <1>3. w \in Seq(S) /\ Joined(w, hek, p)
    BY <1>2, TwoParts
  <1> HIDE DEF w
  <1>4. Len(h) \in Nat /\ Len(e) \in Nat /\ Len(k) \in Nat /\ Len(p) \in Nat
    OBVIOUS
  <1>5. FourJoined(w, h, e, k, p)
    <2>1. /\ Len(he) = Len(h) + Len(e) /\ Len(hek) = Len(h) + Len(e) + Len(k)
          /\ Len(w) = Len(h) + Len(e) + Len(k) + Len(p)
      BY <1>1, <1>2, <1>3, <1>4 DEF Joined
    <2>2. \A i \in 1 .. Len(he) : hek[i] = he[i] /\ w[i] = he[i]
      BY <1>2, <1>3, <1>4, <2>1 DEF Joined
    <2>3. \A i \in 1 .. Len(h) : w[i] = h[i]
      BY <1>1, <1>4, <2>1, <2>2 DEF Joined
    <2>4. \A i \in 1 .. Len(e) : w[Len(h) + i] = e[i]
      BY <1>1, <1>4, <2>1, <2>2 DEF Joined
    <2>5. \A i \in 1 .. Len(k) : w[Len(h) + Len(e) + i] = k[i]
      BY <1>2, <1>3, <1>4, <2>1 DEF Joined
    <2>6. \A i \in 1 .. Len(p) : w[Len(h) + Len(e) + Len(k) + i] = p[i]
      BY <1>3, <1>4, <2>1 DEF Joined
    <2> QED  BY <2>1, <2>3, <2>4, <2>5, <2>6 DEF FourJoined
  <1> QED  BY <1>3, <1>5 DEF he, hek, w

Keys == {<<>>} \cup [1 .. 4 -> Bytes]

LEMMA FunctionIsSeq ==
  ASSUME NEW S, NEW n \in Nat, NEW f \in [1 .. n -> S]
  PROVE  f \in Seq(S) /\ Len(f) = n
  OBVIOUS

LEMMA KeyType ==
  ASSUME NEW key \in Keys
  PROVE  key \in Seq(Bytes) /\ Len(key) = IF key = <<>> THEN 0 ELSE 4
  <1>1. CASE key = <<>>
    BY <1>1
  <1>2. CASE key # <<>>
    <2>1. key \in [1 .. 4 -> Bytes]
      BY <1>2 DEF Keys
    <2>2. key \in Seq(Bytes) /\ Len(key) = 4
      BY <2>1, FunctionIsSeq
    <2> QED  BY <1>2, <2>2
  <1> QED  BY <1>1, <1>2

Mask(p, key) ==
  IF key = <<>> THEN p ELSE [i \in DOMAIN p |-> ByteXor(p[i], key[((i - 1) % 4) + 1])]

\* The byte of the key for a place of the payload.
LEMMA KeyAt ==
  ASSUME NEW key \in Keys, key # <<>>, NEW i \in Nat \ {0}
  PROVE  ((i - 1) % 4) + 1 \in 1 .. 4 /\ key[((i - 1) % 4) + 1] \in Bytes
  <1>1. key \in [1 .. 4 -> Bytes]
    BY DEF Keys
  <1>2. ((i - 1) % 4) + 1 \in 1 .. 4
    OBVIOUS
  <1> QED  BY <1>1, <1>2

LEMMA MaskType ==
  ASSUME NEW key \in Keys, NEW p \in Seq(Bytes)
  PROVE  Mask(p, key) \in Seq(Bytes) /\ Len(Mask(p, key)) = Len(p)
  <1>1. CASE key = <<>>
    BY <1>1 DEF Mask
  <1>2. CASE key # <<>>
    <2>1. ASSUME NEW i \in 1 .. Len(p) PROVE ByteXor(p[i], key[((i - 1) % 4) + 1]) \in Bytes
      <3>1. p[i] \in Bytes /\ i \in Nat \ {0}
        OBVIOUS
      <3> QED  BY <1>2, <3>1, KeyAt, XorTwice
    <2>2. DOMAIN p = 1 .. Len(p) /\ Len(p) \in Nat
      OBVIOUS
    <2>3. Mask(p, key) = [i \in 1 .. Len(p) |-> ByteXor(p[i], key[((i - 1) % 4) + 1])]
      BY <1>2, <2>2 DEF Mask
    <2> QED  BY <2>1, <2>2, <2>3
  <1> QED  BY <1>1, <1>2

\* Unmasking is masking again.
LEMMA MaskTwice ==
  ASSUME NEW key \in Keys, key # <<>>, NEW p \in Seq(Bytes)
  PROVE  Unmask(Mask(p, key), key) = p
  <1> DEFINE m == Mask(p, key)
  <1>1. m \in Seq(Bytes) /\ Len(m) = Len(p) /\ Len(p) \in Nat
    BY MaskType
  <1>2. ASSUME NEW i \in 1 .. Len(p) PROVE ByteXor(m[i], key[((i - 1) % 4) + 1]) = p[i]
    <2>1. m[i] = ByteXor(p[i], key[((i - 1) % 4) + 1])
      BY DEF Mask
    <2>2. p[i] \in Bytes /\ i \in Nat \ {0}
      OBVIOUS
    <2>3. key[((i - 1) % 4) + 1] \in Bytes
      BY <2>2, KeyAt
    <2> QED  BY <2>1, <2>2, <2>3, XorTwice
  <1> HIDE DEF m
  <1>3. DOMAIN m = 1 .. Len(p)
    BY <1>1
  <1>4. Unmask(m, key) = [i \in 1 .. Len(p) |-> p[i]]
    BY <1>2, <1>3 DEF Unmask
  <1>5. p = [i \in 1 .. Len(p) |-> p[i]]
    OBVIOUS
  <1> QED  BY <1>4, <1>5 DEF m

\* mark and ext say that a payload has l bytes.
Announces(mark, ext, l) ==
  /\ mark \in 0 .. 127 /\ ext \in Seq(Bytes)
  /\ Len(ext) = IF mark = 126 THEN ExtBytes ELSE IF mark = 127 THEN LongBytes ELSE 0
  /\ Len(ext) = 0 => mark = l
  /\ Len(ext) # 0 => ValueOf(ext) = l

\* A frame with the length in a given form.
WireAs(fin, opcode, mark, ext, key, p) ==
  <<(IF fin THEN 128 ELSE 0) + opcode, (IF key = <<>> THEN 0 ELSE 128) + mark>>
  \o ext \o key \o Mask(p, key)

\* Such a frame, place by place.
Shape(w, fin, opcode, mark, ext, key, p) ==
  /\ Len(w) = 2 + Len(ext) + Len(key) + Len(p)
  /\ w[1] = (IF fin THEN 128 ELSE 0) + opcode
  /\ w[2] = (IF key = <<>> THEN 0 ELSE 128) + mark
  /\ \A i \in 1 .. Len(ext) : w[2 + i] = ext[i]
  /\ \A i \in 1 .. Len(key) : w[2 + Len(ext) + i] = key[i]
  /\ \A i \in 1 .. Len(p) : w[2 + Len(ext) + Len(key) + i] = Mask(p, key)[i]

LEMMA WireAsIs ==
  ASSUME NEW fin \in BOOLEAN, NEW opcode \in 0 .. 15, NEW key \in Keys,
         NEW p \in Seq(Bytes), NEW mark, NEW ext, Announces(mark, ext, Len(p)),
         NEW w, w = WireAs(fin, opcode, mark, ext, key, p)
  PROVE  /\ w \in Seq(Bytes) /\ Len(w) \in Nat \ {0}
         /\ Shape(w, fin, opcode, mark, ext, key, p)
  <1> DEFINE a == (IF fin THEN 128 ELSE 0) + opcode
             b == (IF key = <<>> THEN 0 ELSE 128) + mark
             h == <<a, b>>
             m == Mask(p, key)
  <1>1. a \in Bytes /\ b \in Bytes
    BY DEF Bytes, Announces
  <1>2. key \in Seq(Bytes) /\ m \in Seq(Bytes) /\ Len(m) = Len(p)
    BY KeyType, MaskType
  <1>3. w = h \o ext \o key \o m
    BY DEF WireAs
  <1>4. ext \in Seq(Bytes)
    BY DEF Announces
  <1> HIDE DEF a, b, m
  <1>5. h \in Seq(Bytes) /\ Len(h) = 2 /\ h[1] = a /\ h[2] = b
    BY <1>1
  <1> HIDE DEF h
  <1>6. w \in Seq(Bytes) /\ FourJoined(w, h, ext, key, m)
    BY <1>2, <1>3, <1>4, <1>5, FourParts
  <1>7. w[1] = a /\ w[2] = b
    BY <1>5, <1>6 DEF FourJoined
  <1>8. /\ w[1] = (IF fin THEN 128 ELSE 0) + opcode
        /\ w[2] = (IF key = <<>> THEN 0 ELSE 128) + mark
    BY <1>7 DEF a, b
  <1>9. \A i \in 1 .. Len(p) : w[2 + Len(ext) + Len(key) + i] = Mask(p, key)[i]
    BY <1>2, <1>5, <1>6 DEF m, FourJoined
  <1>10. Len(w) = 2 + Len(ext) + Len(key) + Len(p)
    BY <1>2, <1>5, <1>6 DEF FourJoined
  <1>11. Len(w) \in Nat \ {0}
    BY <1>2, <1>4, <1>10
  <1> QED  BY <1>5, <1>6, <1>8, <1>9, <1>10, <1>11 DEF FourJoined, Shape

-----------------------------------------------------------------------------
(* The parser.                                                             *)

\* A length with its top bit clear does not wrap when a header is added.
LEMMA HeaderFits ==
  /\ LegalLength \in Nat /\ 2 * LegalLength <= UsizeSpan
  /\ LongBytes + 6 <= LegalLength
  <1> DEFINE T == {n \in Nat : n >= 2 => 2 * n + 12 <= Pow256[n]}
  <1>1. 0 \in T
    OBVIOUS
  <1>2. ASSUME NEW n \in Nat, n \in T PROVE n + 1 \in T
    <2> SUFFICES ASSUME n + 1 >= 2 PROVE 2 * (n + 1) + 12 <= Pow256[n + 1]
      OBVIOUS
    <2>1. Pow256[n] \in Nat \ {0} /\ Pow256[n + 1] = 256 * Pow256[n]
      BY Pow256Is
    <2>2. CASE n = 1
      <3>1. 0 + 1 = 1 /\ 0 \in Nat
        OBVIOUS
      <3>2. Pow256[1] = 256
        BY <3>1, Pow256Is
      <3> QED  BY <2>1, <2>2, <3>2
    <2>3. CASE n >= 2
      <3>1. 2 * n + 12 <= Pow256[n]
        BY <1>2, <2>3
      <3> QED  BY <2>1, <3>1
    <2> QED  BY <2>2, <2>3
  <1>3. Nat \subseteq T
    <2> HIDE DEF T
    <2> QED  BY <1>1, <1>2, SetInduction
  <1>4. LongBytes \in Nat /\ LongBytes >= 2
    BY ParsingAssumption
  <1>5. 2 * LongBytes + 12 <= UsizeSpan
    BY <1>3, <1>4 DEF UsizeSpan
  <1> QED  BY <1>4, <1>5, SpanType DEF LegalLength

\* The first bytes of buf are those of w.
Begins(buf, w) == \A i \in 1 .. Len(buf) : i <= Len(w) => buf[i] = w[i]

LEMMA LowBits ==
  ASSUME NEW m \in 0 .. 127
  PROVE  m % 128 = m /\ ~(m >= 128) /\ (128 + m) % 128 = m /\ 128 + m >= 128
  OBVIOUS

\* A flag in the top bit of a byte.
LEMMA TopBit ==
  ASSUME NEW c, c \in BOOLEAN, NEW m \in 0 .. 127, NEW b, b = (IF c THEN 128 ELSE 0) + m
  PROVE  (b >= 128 <=> c) /\ b % 128 = m /\ (m < 16 => b % 16 = m)
  <1>1. CASE c
    <2>1. b = 128 + m
      BY <1>1
    <2>2. b >= 128 /\ b % 128 = m /\ (m < 16 => b % 16 = m)
      BY <2>1
    <2> QED  BY <1>1, <2>2
  <1>2. CASE ~c
    <2>1. b = m
      BY <1>2
    <2>2. ~(b >= 128) /\ b % 128 = m /\ (m < 16 => b % 16 = m)
      BY <2>1
    <2> QED  BY <1>2, <2>2
  <1> QED  BY <1>1, <1>2

\* What the two bytes that begin a frame tell.
Tells(buf, fin, opcode, mark, ext, key) ==
  /\ (buf[1] >= 128 <=> fin) /\ buf[1] % 16 = opcode /\ buf[2] % 128 = mark
  /\ ExtOf(buf) = Len(ext) /\ (Masked(buf) <=> key # <<>>)
  /\ HeaderSize(buf) = 2 + Len(ext) + Len(key)

LEMMA HeaderRead ==
  ASSUME NEW fin \in BOOLEAN, NEW opcode \in 0 .. 15, NEW key \in Keys,
         NEW p \in Seq(Bytes), NEW mark, NEW ext, Announces(mark, ext, Len(p)),
         NEW w \in Seq(Bytes), Shape(w, fin, opcode, mark, ext, key, p),
         NEW buf \in Seq(Bytes), Begins(buf, w), Len(buf) >= 2
  PROVE  Tells(buf, fin, opcode, mark, ext, key)
  <1>1. /\ Len(w) = 2 + Len(ext) + Len(key) + Len(p)
        /\ w[1] = (IF fin THEN 128 ELSE 0) + opcode
        /\ w[2] = (IF key = <<>> THEN 0 ELSE 128) + mark
    BY DEF Shape
  <1>2. /\ mark \in 0 .. 127 /\ ext \in Seq(Bytes)
        /\ Len(ext) = IF mark = 126 THEN ExtBytes ELSE IF mark = 127 THEN LongBytes ELSE 0
    BY DEF Announces
  <1>3. key \in Seq(Bytes) /\ Len(key) = IF key = <<>> THEN 0 ELSE 4
    BY KeyType
  <1>4. Len(ext) \in Nat /\ Len(key) \in Nat /\ Len(p) \in Nat /\ Len(buf) \in Nat
    BY <1>2, <1>3
  <1>5. buf[1] = w[1] /\ buf[2] = w[2]
    BY <1>1, <1>4 DEF Begins
  <1>6. (buf[1] >= 128 <=> fin) /\ buf[1] % 16 = opcode
    <2>1. opcode \in 0 .. 127 /\ opcode < 16
      OBVIOUS
    <2>2. buf[1] = (IF fin THEN 128 ELSE 0) + opcode
      BY <1>1, <1>5
    <2> QED  BY <2>1, <2>2, TopBit, ZenonT(30)
  <1> DEFINE has == key # <<>>
  <1>7. buf[2] = (IF has THEN 128 ELSE 0) + mark /\ Len(key) = (IF has THEN 4 ELSE 0)
    <2>1. buf[2] = (IF key = <<>> THEN 0 ELSE 128) + mark
      BY <1>1, <1>5
    <2>2. CASE has
      BY <1>3, <2>1, <2>2
    <2>3. CASE ~has
      BY <1>3, <2>1, <2>3
    <2> QED  BY <2>2, <2>3
  <1> HIDE DEF has
  <1>9. buf[2] % 128 = mark /\ (buf[2] >= 128 <=> has)
    <2>1. mark \in 0 .. 127
      BY <1>2
    <2>2. buf[2] = (IF has THEN 128 ELSE 0) + mark
      BY <1>7
    <2>3. CASE has
      <3>1. buf[2] = 128 + mark
        BY <2>2, <2>3
      <3>2. (128 + mark) % 128 = mark /\ 128 + mark >= 128
        BY <2>1, LowBits
      <3> QED  BY <2>3, <3>1, <3>2
    <2>4. CASE ~has
      <3>1. buf[2] = mark
        BY <2>1, <2>2, <2>4
      <3>2. mark % 128 = mark /\ ~(mark >= 128)
        BY <2>1, LowBits
      <3> QED  BY <2>4, <3>1, <3>2
    <2> QED  BY <2>3, <2>4
  <1>10. ExtOf(buf) = Len(ext) /\ (Masked(buf) <=> has)
    BY <1>2, <1>9 DEF ExtOf, Masked
  <1>11. HeaderSize(buf) = 2 + Len(ext) + Len(key)
    BY <1>7, <1>10 DEF HeaderSize
  <1> QED  BY <1>6, <1>9, <1>10, <1>11 DEF has, Tells

\* A piece of buf, place by place.
LEMMA Piece ==
  ASSUME NEW S, NEW buf \in Seq(S), NEW t \in Seq(S), NEW n \in Nat,
         n + Len(t) <= Len(buf), \A i \in 1 .. Len(t) : buf[n + i] = t[i]
  PROVE  SubSeq(buf, n + 1, n + Len(t)) = t
  <1> DEFINE u == SubSeq(buf, n + 1, n + Len(t))
  <1>1. Len(t) \in Nat /\ Len(buf) \in Nat
    OBVIOUS
  <1>2. u \in Seq(S) /\ Len(u) = Len(t)
    BY <1>1
  <1>3. ASSUME NEW i \in 1 .. Len(t) PROVE u[i] = t[i]
    <2>1. u[i] = buf[n + 1 + i - 1] /\ n + 1 + i - 1 = n + i
      BY <1>1
    <2> QED  BY <2>1
  <1> HIDE DEF u
  <1>4. u = t
    BY <1>2, <1>3, SeqEqual
  <1> QED  BY <1>4 DEF u

\* The parser waits for a frame of n bytes and then gives it.
Parses(buf, n, fin, opcode, p) ==
  parse_websocket_frame(buf) =
    IF Len(buf) < n THEN NoFrame ELSE Frame(n, fin, opcode, p)

\* It does so on any beginning of a frame and on a whole frame with more behind it.
LEMMA ParsesPrefix ==
  ASSUME NEW fin \in BOOLEAN, NEW opcode \in 0 .. 15, NEW key \in Keys,
         NEW p \in Seq(Bytes), Len(p) < LegalLength,
         NEW mark, NEW ext, Announces(mark, ext, Len(p)),
         NEW w \in Seq(Bytes), Shape(w, fin, opcode, mark, ext, key, p),
         NEW buf \in Seq(Bytes), Begins(buf, w)
  PROVE  Parses(buf, Len(w), fin, opcode, p)
  <1> USE DEF Parses
  <1> DEFINE e == Len(ext)
             k == Len(key)
             pos == 2 + e + k
             total == pos + Len(p)
  <1>1. ext \in Seq(Bytes) /\ e \in Nat /\ e <= LongBytes
    BY ParsingAssumption DEF Announces
  <1>2. key \in Seq(Bytes) /\ k = (IF key = <<>> THEN 0 ELSE 4)
    BY KeyType
  <1>3. /\ w \in Seq(Bytes) /\ Len(w) = total
        /\ \A i \in 1 .. e : w[2 + i] = ext[i]
        /\ \A i \in 1 .. k : w[2 + e + i] = key[i]
        /\ \A i \in 1 .. Len(p) : w[pos + i] = Mask(p, key)[i]
    BY DEF Shape, e, k
  <1>4. Len(p) \in Nat /\ Len(buf) \in Nat /\ k \in Nat
    BY <1>2
  <1> HIDE DEF e, k
  <1>5. CASE Len(buf) < 2
    BY <1>1, <1>3, <1>4, <1>5 DEF parse_websocket_frame
  <1>6. CASE Len(buf) >= 2
    <2>1. /\ (buf[1] >= 128 <=> fin) /\ buf[1] % 16 = opcode /\ buf[2] % 128 = mark
          /\ ExtOf(buf) = e /\ (Masked(buf) <=> key # <<>>)
          /\ HeaderSize(buf) = pos
      <3>1. Tells(buf, fin, opcode, mark, ext, key)
        BY <1>6, HeaderRead
      <3> QED  BY <3>1 DEF Tells, e, k
    <2> DEFINE data == SubSeq(buf, pos + 1, total)
               P == IF key # <<>> THEN Unmask(data, SubSeq(buf, pos - 3, pos)) ELSE data
    <2>2. parse_websocket_frame(buf) =
            IF Len(buf) < pos THEN NoFrame
            ELSE IF Len(buf) < FrameTotal(pos, payload_len(buf)) THEN NoFrame
            ELSE IF FrameTotal(pos, payload_len(buf)) < pos THEN Panic
            ELSE Frame(FrameTotal(pos, payload_len(buf)), buf[1] >= 128, buf[1] % 16,
                       IF Masked(buf)
                       THEN Unmask(SubSeq(buf, pos + 1, FrameTotal(pos, payload_len(buf))),
                                   SubSeq(buf, pos - 3, pos))
                       ELSE SubSeq(buf, pos + 1, FrameTotal(pos, payload_len(buf))))
      BY <1>4, <1>6, <2>1 DEF parse_websocket_frame
    <2>3. CASE Len(buf) < pos
      BY <1>1, <1>3, <1>4, <2>2, <2>3
    <2>4. CASE Len(buf) >= pos
      <3>1. payload_len(buf) = Len(p)
        <4>1. CASE e = 0
          <5>1. mark = Len(p)
            BY <4>1 DEF Announces, e
          <5> QED  BY <2>1, <4>1, <5>1 DEF payload_len
        <4>2. CASE e # 0
          <5>1. \A i \in 1 .. e : buf[2 + i] = ext[i]
            BY <1>1, <1>3, <1>4, <2>4 DEF Begins
          <5>2. SubSeq(buf, 2 + 1, 2 + Len(ext)) = ext
            <6>1. 2 + Len(ext) <= Len(buf) /\ \A i \in 1 .. Len(ext) : buf[2 + i] = ext[i]
              BY <1>1, <1>4, <2>4, <5>1 DEF e
            <6> QED  BY <1>1, <6>1, Piece
          <5>3. SubSeq(buf, 3, 2 + e) = ext
            BY <5>2 DEF e
          <5>4. ValueOf(ext) = Len(p)
            BY <4>2 DEF Announces, e
          <5> QED  BY <2>1, <4>2, <5>3, <5>4 DEF payload_len
        <4> QED  BY <4>1, <4>2
      <3>2. FrameTotal(pos, Len(p)) = total
        <4>1. total < UsizeSpan /\ total \in Nat
          BY <1>1, <1>2, <1>4, HeaderFits, SpanType, ParsingAssumption
        <4> HIDE DEF pos, total
        <4>2. pos + Len(p) = total
          BY DEF pos, total
        <4>3. total % UsizeSpan = total
          BY <4>1, SpanType, SmallRest
        <4>4. FrameTotal(pos, Len(p)) = (pos + Len(p)) % UsizeSpan
          BY DEF FrameTotal
        <4> QED  BY <4>2, <4>3, <4>4
      <3>3. CASE Len(buf) < total
        BY <1>3, <2>2, <2>4, <3>1, <3>2, <3>3
      <3>4. CASE Len(buf) >= total
        <4>1. data = Mask(p, key)
          <5>1. Mask(p, key) \in Seq(Bytes) /\ Len(Mask(p, key)) = Len(p)
            BY MaskType
          <5>2. \A i \in 1 .. Len(p) : buf[pos + i] = Mask(p, key)[i]
            <6> SUFFICES ASSUME NEW i \in 1 .. Len(p) PROVE buf[pos + i] = Mask(p, key)[i]
              OBVIOUS
            <6>1. pos + i \in 1 .. Len(buf) /\ pos + i <= Len(w)
              BY <1>1, <1>3, <1>4, <3>4
            <6>2. buf[pos + i] = w[pos + i]
              BY <6>1 DEF Begins
            <6> QED  BY <1>3, <6>2
          <5>3. pos \in Nat
            BY <1>1, <1>4
          <5> HIDE DEF pos
          <5>4. SubSeq(buf, pos + 1, pos + Len(Mask(p, key))) = Mask(p, key)
            BY <3>4, <5>1, <5>2, <5>3, Piece
          <5> QED  BY <5>1, <5>4
        <4>2. P = p
          <5>1. CASE key = <<>>
            BY <4>1, <5>1 DEF Mask
          <5>2. CASE key # <<>>
            <6>1. \A i \in 1 .. k : buf[2 + e + i] = key[i]
              BY <1>1, <1>3, <1>4, <2>4 DEF Begins
            <6>2. SubSeq(buf, 2 + e + 1, 2 + e + Len(key)) = key
              <7>1. 2 + e \in Nat /\ 2 + e + Len(key) <= Len(buf)
                BY <1>1, <1>4, <2>4 DEF k
              <7>2. \A i \in 1 .. Len(key) : buf[2 + e + i] = key[i]
                BY <6>1 DEF k
              <7> DEFINE d == 2 + e
              <7>3. d \in Nat /\ d + Len(key) <= Len(buf)
                    /\ \A i \in 1 .. Len(key) : buf[d + i] = key[i]
                BY <7>1, <7>2
              <7> HIDE DEF d
              <7>4. SubSeq(buf, d + 1, d + Len(key)) = key
                BY <1>2, <7>3, Piece
              <7> QED  BY <7>4 DEF d
            <6>3. k = 4 /\ pos - 3 = 2 + e + 1 /\ pos = 2 + e + Len(key)
              BY <1>1, <1>2, <5>2 DEF k
            <6>4. SubSeq(buf, pos - 3, pos) = key
              BY <6>2, <6>3
            <6>5. Unmask(Mask(p, key), key) = p
              BY <5>2, MaskTwice
            <6> QED  BY <4>1, <5>2, <6>4, <6>5
          <5> QED  BY <5>1, <5>2
        <4>3. total >= pos /\ total \in Nat
          BY <1>1, <1>4
        <4>4. parse_websocket_frame(buf) = Frame(total, fin, opcode, P)
          <5> HIDE DEF pos, total
          <5>1. ~(total < pos) /\ ~(Len(buf) < pos) /\ ~(Len(buf) < total)
            <6>1. pos \in Nat
              BY <1>1, <1>4 DEF pos
            <6> QED  BY <1>4, <2>4, <3>4, <4>3, <6>1
          <5>2. (buf[1] >= 128) = fin
            <6>1. (buf[1] >= 128) \in BOOLEAN
              BY <1>6
            <6> QED  BY <2>1, <6>1
          <5>3. parse_websocket_frame(buf) =
                  Frame(total, buf[1] >= 128, buf[1] % 16,
                        IF Masked(buf) THEN Unmask(data, SubSeq(buf, pos - 3, pos)) ELSE data)
            BY <2>2, <3>1, <3>2, <5>1
          <5>4. (IF Masked(buf) THEN Unmask(data, SubSeq(buf, pos - 3, pos)) ELSE data) = P
            BY <2>1
          <5> QED  BY <2>1, <5>2, <5>3, <5>4
        <4>5. ~(Len(buf) < Len(w)) /\ Len(w) = total
          BY <1>3, <1>4, <3>4, <4>3
        <4> HIDE DEF total, P
        <4> QED  BY <4>2, <4>4, <4>5
      <3> QED  BY <1>1, <1>4, <3>3, <3>4
    <2> QED  BY <1>1, <1>4, <2>3, <2>4
  <1> QED  BY <1>4, <1>5, <1>6

\* RFC 6455's form of a length announces it.
LEMMA WireLengthIs ==
  ASSUME NEW l \in Nat, l < LegalLength
  PROVE  Announces(WireLength(l).mark, WireLength(l).ext, l)
  <1> DEFINE x == WireLength(l)
  <1>1. ExtBytes \in Nat \ {0} /\ LongBytes \in Nat \ {0} /\ l < UsizeSpan
    BY HeaderFits, SpanType, ParsingAssumption
  <1>2. CASE l <= 125
    <2>1. x.mark = l /\ x.ext = <<>>
      BY <1>2 DEF WireLength
    <2> HIDE DEF x
    <2>2. Len(x.ext) = 0 /\ x.ext \in Seq(Bytes)
      BY <2>1
    <2>3. x.mark \in 0 .. 127 /\ x.mark # 126 /\ x.mark # 127
      BY <1>2, <2>1
    <2>4. Announces(x.mark, x.ext, l)
      BY <2>1, <2>2, <2>3 DEF Announces
    <2> QED  BY <2>4 DEF x
  <1>3. CASE ~(l <= 125) /\ l < Pow256[ExtBytes]
    <2>1. x.mark = 126 /\ x.ext = BytesOf(l, ExtBytes)
      BY <1>3 DEF WireLength
    <2> HIDE DEF x
    <2>2. Len(x.ext) = ExtBytes /\ x.ext \in Seq(Bytes)
      <3>1. ExtBytes \in Nat
        BY <1>1
      <3> QED  BY <2>1, <3>1, BytesLen
    <2>3. ValueOf(x.ext) = l
      BY <1>1, <1>3, <2>1, ReadsBack
    <2>4. Announces(x.mark, x.ext, l)
      BY <1>1, <2>1, <2>2, <2>3 DEF Announces
    <2> QED  BY <2>4 DEF x
  <1>4. CASE ~(l <= 125) /\ ~(l < Pow256[ExtBytes])
    <2>1. x.mark = 127 /\ x.ext = BytesOf(l, LongBytes)
      BY <1>4 DEF WireLength
    <2> HIDE DEF x
    <2>2. Len(x.ext) = LongBytes /\ x.ext \in Seq(Bytes)
      <3>1. LongBytes \in Nat
        BY <1>1
      <3> QED  BY <2>1, <3>1, BytesLen
    <2>3. ValueOf(x.ext) = l
      BY <1>1, <2>1, ReadsBack DEF UsizeSpan
    <2>4. Announces(x.mark, x.ext, l)
      BY <1>1, <2>1, <2>2, <2>3 DEF Announces
    <2> QED  BY <2>4 DEF x
  <1> QED  BY <1>2, <1>3, <1>4

LEMMA FrameType ==
  ASSUME NEW f \in ClientFrames
  PROVE  /\ f.fin \in BOOLEAN /\ f.opcode \in 0 .. 15 /\ f.key \in Keys
         /\ f.payload \in Seq(Bytes) /\ Len(f.payload) \in Nat
         /\ Len(f.payload) < LegalLength
  BY DEF ClientFrames, Keys

\* A frame that begins in buf: the parser waits for its last byte and then gives it.
LEMMA ParsesFrame ==
  ASSUME NEW f \in ClientFrames, NEW buf \in Seq(Bytes), Begins(buf, WireBytes(f))
  PROVE  Parses(buf, Len(WireBytes(f)), f.fin, f.opcode, f.payload)
  <1> DEFINE x == WireLength(Len(f.payload))
             w == WireBytes(f)
  <1>1. w = WireAs(f.fin, f.opcode, x.mark, x.ext, f.key, f.payload)
    BY DEF WireBytes, WireAs, Mask
  <1>2. Announces(x.mark, x.ext, Len(f.payload))
    BY FrameType, WireLengthIs
  <1> HIDE DEF x, w
  <1>3. w \in Seq(Bytes) /\ Shape(w, f.fin, f.opcode, x.mark, x.ext, f.key, f.payload)
    BY <1>1, <1>2, FrameType, WireAsIs
  <1>4. Begins(buf, w)
    BY DEF w
  <1>5. Parses(buf, Len(w), f.fin, f.opcode, f.payload)
    BY <1>2, <1>3, <1>4, FrameType, ParsesPrefix
  <1> QED  BY <1>5 DEF w

LEMMA WireType ==
  ASSUME NEW f \in ClientFrames
  PROVE  WireBytes(f) \in Seq(Bytes) /\ Len(WireBytes(f)) \in Nat \ {0}
  <1> DEFINE x == WireLength(Len(f.payload))
             w == WireBytes(f)
  <1>1. w = WireAs(f.fin, f.opcode, x.mark, x.ext, f.key, f.payload)
    BY DEF WireBytes, WireAs, Mask
  <1>2. Announces(x.mark, x.ext, Len(f.payload))
    BY FrameType, WireLengthIs
  <1> HIDE DEF x, w
  <1>3. w \in Seq(Bytes) /\ Len(w) \in Nat \ {0}
    BY <1>1, <1>2, FrameType, WireAsIs
  <1> QED  BY <1>3 DEF w

\* What the parser gives.
Decoded == [kind : {"frame"}, consumed : Nat, fin : BOOLEAN, opcode : 0 .. 15,
            payload : Seq(Bytes)]

\* A byte of a byte string is a number.
LEMMA BufByte ==
  ASSUME NEW s \in Seq(Bytes), NEW i \in 1 .. Len(s)
  PROVE  s[i] \in Bytes /\ s[i] \in Nat
  <1>1. s[i] \in Bytes
    OBVIOUS
  <1>2. \A b \in Bytes : b \in Nat
    BY DEF Bytes
  <1> QED  BY <1>1, <1>2

LEMMA KeyOfFour ==
  ASSUME NEW s \in Seq(Bytes), Len(s) = 4
  PROVE  s \in Keys /\ s # <<>>
  <1>1. s \in [1 .. 4 -> Bytes] /\ s # <<>>
    OBVIOUS
  <1> QED  BY <1>1 DEF Keys

LEMMA Rests ==
  ASSUME NEW b \in Nat
  PROVE  b % 128 \in 0 .. 127 /\ b % 16 \in 0 .. 15 /\ (b >= 128) \in BOOLEAN
  OBVIOUS

\* A usize is what the loop over the bytes of a length makes.
LEMMA ValueType ==
  ASSUME NEW s \in Seq(Bytes)
  PROVE  ValueOf(s) \in 0 .. UsizeSpan - 1
  <1>1. PICK v : ValuesOf(v, s) /\ ValueOf(s) = v[Len(s)]
    BY ValueOfIs
  <1> DEFINE T == {i \in Nat : i <= Len(s) => v[i] \in 0 .. UsizeSpan - 1}
  <1>2. 0 \in T
    BY <1>1, SpanType DEF ValuesOf
  <1>3. ASSUME NEW i \in Nat, i \in T PROVE i + 1 \in T
    <2> SUFFICES ASSUME i + 1 <= Len(s) PROVE v[i + 1] \in 0 .. UsizeSpan - 1
      OBVIOUS
    <2>1. i + 1 \in 1 .. Len(s) /\ i + 1 - 1 = i /\ s[i + 1] \in Bytes
      OBVIOUS
    <2>2. v[i] \in Nat
      BY <1>3, SpanType
    <2>3. v[i + 1] = (v[i] * 256 + s[i + 1]) % UsizeSpan
      BY <1>1, <2>1 DEF ValuesOf
    <2> DEFINE x == v[i] * 256 + s[i + 1]
    <2>4. x \in Nat
      <3>1. s[i + 1] \in Nat
        BY <2>1, BufByte
      <3> QED  BY <2>2, <3>1
    <2> HIDE DEF x
    <2>5. x % UsizeSpan \in 0 .. UsizeSpan - 1
      BY <2>4, SpanType
    <2> QED  BY <2>3, <2>5 DEF x
  <1>4. Nat \subseteq T
    <2> HIDE DEF T
    <2> QED  BY <1>2, <1>3, SetInduction
  <1>5. Len(s) \in T
    BY <1>4
  <1> QED  BY <1>1, <1>5

\* The size of a header, and the length it announces.
LEMMA HeaderType ==
  ASSUME NEW buf \in Seq(Bytes), Len(buf) >= 2, Len(buf) >= HeaderSize(buf)
  PROVE  /\ HeaderSize(buf) \in Nat /\ HeaderSize(buf) >= 2 /\ HeaderSize(buf) < UsizeSpan
         /\ Masked(buf) => HeaderSize(buf) >= 6
         /\ payload_len(buf) \in 0 .. UsizeSpan - 1
  <1>1. /\ buf[2] \in Nat /\ ExtOf(buf) \in Nat /\ ExtOf(buf) <= LongBytes
        /\ Len(buf) \in Nat /\ LongBytes \in Nat
    <2>1. 2 \in 1 .. Len(buf) /\ Len(buf) \in Nat
      OBVIOUS
    <2>2. buf[2] \in Nat
      BY <2>1, BufByte
    <2>3. ExtOf(buf) \in {0, ExtBytes, LongBytes}
      BY DEF ExtOf
    <2> QED  BY <2>1, <2>2, <2>3, ParsingAssumption
  <1>2. /\ HeaderSize(buf) \in Nat /\ HeaderSize(buf) >= 2 + ExtOf(buf)
        /\ HeaderSize(buf) <= 6 + LongBytes /\ (Masked(buf) => HeaderSize(buf) >= 6)
    BY <1>1 DEF HeaderSize
  <1>3. LegalLength < UsizeSpan /\ LongBytes + 6 <= LegalLength /\ 127 < UsizeSpan
    <2>1. UsizeSpan >= 256
      <3>1. LongBytes - 1 \in Nat /\ LongBytes = (LongBytes - 1) + 1
        BY <1>1, ParsingAssumption
      <3>2. UsizeSpan = 256 * Pow256[LongBytes - 1] /\ Pow256[LongBytes - 1] \in Nat \ {0}
        BY <3>1, Pow256Is DEF UsizeSpan
      <3> QED  BY <3>2
    <2> QED  BY <1>1, <2>1, HeaderFits, SpanType
  <1>4. payload_len(buf) \in 0 .. UsizeSpan - 1
    <2>1. CASE ExtOf(buf) = 0
      <3>1. payload_len(buf) = buf[2] % 128
        BY <2>1 DEF payload_len
      <3>2. buf[2] % 128 \in 0 .. 127
        BY <1>1, Rests
      <3>3. \A b \in 0 .. 127 : b \in 0 .. UsizeSpan - 1
        BY <1>3, SpanType
      <3> QED  BY <3>1, <3>2, <3>3
    <2>2. CASE ExtOf(buf) # 0
      <3>1. 2 + ExtOf(buf) <= Len(buf)
        BY <1>1, <1>2
      <3>2. SubSeq(buf, 3, 2 + ExtOf(buf)) \in Seq(Bytes)
        BY <1>1, <3>1
      <3> QED  BY <2>2, <3>2, ValueType DEF payload_len
    <2> QED  BY <2>1, <2>2
  <1> QED  BY <1>1, <1>2, <1>3, <1>4, SpanType, HeaderFits

\* The parser on any bytes: it panics just where the sum wraps, and a frame it gives
\* is in the buffer.
LEMMA ParsesAny ==
  ASSUME NEW buf \in Seq(Bytes)
  PROVE  LET p == parse_websocket_frame(buf)
         IN /\ p.kind = "panic" <=> Wraps(buf)
            /\ p.kind = "frame" =>
                 p \in Decoded /\ p.consumed >= 2 /\ p.consumed <= Len(buf)
  <1> DEFINE pos == HeaderSize(buf)
             len == payload_len(buf)
             total == FrameTotal(pos, len)
             data == SubSeq(buf, pos + 1, total)
             load == IF Masked(buf) THEN Unmask(data, SubSeq(buf, pos - 3, pos)) ELSE data
             p == parse_websocket_frame(buf)
  <1>1. CASE Len(buf) < 2 \/ Len(buf) < pos
    <2>1. p = NoFrame
      BY <1>1 DEF parse_websocket_frame
    <2>2. ~Wraps(buf)
      <3>1. CASE Len(buf) < 2
        BY <3>1 DEF Wraps
      <3>2. CASE Len(buf) >= 2 /\ Len(buf) < pos
        <4>1. pos \in Nat
          BY <3>2, ParsingAssumption DEF HeaderSize, ExtOf, Bytes
        <4> QED  BY <3>2, <4>1 DEF Wraps
      <3> QED  BY <1>1, <3>1, <3>2
    <2> QED  BY <2>1, <2>2 DEF NoFrame
  <1>2. CASE ~(Len(buf) < 2) /\ ~(Len(buf) < pos)
    <2>1. Len(buf) \in Nat /\ Len(buf) >= 2
      BY <1>2
    <2>2. pos \in Nat /\ Len(buf) >= pos
      <3>1. pos \in Nat
        BY <2>1, ParsingAssumption DEF HeaderSize, ExtOf, Bytes
      <3> QED  BY <1>2, <2>1, <3>1
    <2>3. /\ pos >= 2 /\ pos < UsizeSpan /\ (Masked(buf) => pos >= 6)
          /\ len \in 0 .. UsizeSpan - 1
      BY <2>1, <2>2, HeaderType
    <2>4. Wraps(buf) <=> pos + len >= UsizeSpan
      BY <2>1, <2>2 DEF Wraps
    <2>5. p = IF Len(buf) < total THEN NoFrame
              ELSE IF total < pos THEN Panic
              ELSE Frame(total, buf[1] >= 128, buf[1] % 16, load)
      BY <1>2 DEF parse_websocket_frame
    <2>6. total = IF pos + len >= UsizeSpan THEN pos + len - UsizeSpan ELSE pos + len
      <3> DEFINE x == pos + len
      <3>1. x \in Nat /\ x < 2 * UsizeSpan
        BY <2>2, <2>3, SpanType
      <3>2. total = x % UsizeSpan
        BY DEF FrameTotal
      <3> HIDE DEF x, total
      <3>3. x % UsizeSpan = IF x >= UsizeSpan THEN x - UsizeSpan ELSE x
        BY <3>1, SpanType
      <3>4. total = IF x >= UsizeSpan THEN x - UsizeSpan ELSE x
        BY <3>2, <3>3
      <3> HIDE DEF pos, len
      <3>5. x = pos + len
        BY DEF x
      <3> QED  BY <2>2, <2>3, <3>1, <3>4, <3>5, SpanType
    <2> HIDE DEF pos, len, total, load, p
    <2>7. CASE pos + len >= UsizeSpan
      <3>1. total < pos /\ ~(Len(buf) < total)
        BY <2>1, <2>2, <2>3, <2>6, <2>7, SpanType
      <3>2. p = Panic
        BY <2>5, <3>1
      <3> QED  BY <2>4, <2>7, <3>2 DEF Panic, p
    <2>8. CASE ~(pos + len >= UsizeSpan)
      <3>1. total = pos + len /\ total \in Nat /\ ~(total < pos) /\ total >= 2
        BY <2>2, <2>3, <2>6, <2>8, SpanType
      <3>2. CASE Len(buf) < total
        <4>1. p = NoFrame
          BY <2>5, <3>2
        <4> QED  BY <2>4, <2>8, <4>1 DEF NoFrame, p
      <3>3. CASE ~(Len(buf) < total)
        <4>1. p = Frame(total, buf[1] >= 128, buf[1] % 16, load)
          BY <2>5, <3>1, <3>3
        <4>2. total <= Len(buf)
          BY <2>1, <3>1, <3>3
        <4>3. (buf[1] >= 128) \in BOOLEAN /\ buf[1] % 16 \in 0 .. 15
          <5>1. 1 \in 1 .. Len(buf)
            BY <2>1
          <5>2. buf[1] \in Nat
            BY <5>1, BufByte
          <5> QED  BY <5>2, Rests
        <4>4. load \in Seq(Bytes)
          <5>1. data \in Seq(Bytes)
            BY <2>1, <2>2, <3>1, <4>2
          <5>2. CASE ~Masked(buf)
            BY <5>1, <5>2 DEF load
          <5>3. CASE Masked(buf)
            <6> DEFINE key == SubSeq(buf, pos - 3, pos)
            <6>1. key \in Seq(Bytes) /\ Len(key) = 4
              <7>1. pos - 3 \in 1 .. pos /\ pos \in 1 .. Len(buf) /\ pos - (pos - 3) + 1 = 4
                BY <2>1, <2>2, <2>3, <5>3
              <7> QED  BY <7>1
            <6> HIDE DEF key, data
            <6>2. key \in Keys /\ key # <<>>
              BY <6>1, KeyOfFour
            <6>3. Unmask(data, key) = Mask(data, key)
              BY <6>2 DEF Unmask, Mask
            <6>4. Unmask(data, key) \in Seq(Bytes)
              BY <5>1, <6>2, <6>3, MaskType
            <6> QED  BY <5>3, <6>4 DEF load, key, data
          <5> QED  BY <5>2, <5>3
        <4>5. p.kind = "frame" /\ p.consumed = total /\ p \in Decoded
          BY <3>1, <4>1, <4>3, <4>4 DEF Frame, Decoded
        <4> QED  BY <2>4, <2>8, <3>1, <4>2, <4>5 DEF p
      <3> QED  BY <3>2, <3>3
    <2> QED  BY <2>7, <2>8
  <1> QED  BY <1>1, <1>2

-----------------------------------------------------------------------------
(* The stream.                                                             *)

\* The front of the one is the front of the other; it can be cut off.
LEMMA CutFront ==
  ASSUME NEW S, NEW a \in Seq(S), NEW b \in Seq(S), NEW w \in Seq(S), NEW t \in Seq(S),
         a \o b = w \o t
  PROVE  /\ Begins(a, w)
         /\ Len(w) <= Len(a) => SubSeq(a, Len(w) + 1, Len(a)) \o b = t
  <1>1. ASSUME NEW i \in 1 .. Len(a), i <= Len(w) PROVE a[i] = w[i]
    <2>1. (a \o b)[i] = a[i]
      OBVIOUS
    <2>2. (w \o t)[i] = w[i]
      BY <1>1
    <2> QED  BY <2>1, <2>2
  <1>2. ASSUME Len(w) <= Len(a) PROVE SubSeq(a, Len(w) + 1, Len(a)) \o b = t
    <2> DEFINE u == SubSeq(a, Len(w) + 1, Len(a))
    <2>1. /\ u \in Seq(S) /\ Len(u) = Len(a) - Len(w)
          /\ \A i \in 1 .. Len(u) : u[i] = a[Len(w) + i]
      BY <1>2
    <2> HIDE DEF u
    <2>2. Len(a) + Len(b) = Len(w) + Len(t)
      <3>1. Len(a \o b) = Len(a) + Len(b) /\ Len(w \o t) = Len(w) + Len(t)
        OBVIOUS
      <3> QED  BY <3>1
    <2>3. Len(u \o b) = Len(t) /\ u \o b \in Seq(S)
      BY <2>1, <2>2
    <2>4. ASSUME NEW i \in 1 .. Len(t) PROVE (u \o b)[i] = t[i]
      <3>1. (w \o t)[Len(w) + i] = t[i]
        OBVIOUS
      <3>2. (u \o b)[i] = (a \o b)[Len(w) + i]
        <4>1. CASE i <= Len(u)
          <5>1. (u \o b)[i] = a[Len(w) + i]
            BY <2>1, <4>1
          <5>2. (a \o b)[Len(w) + i] = a[Len(w) + i]
            BY <1>2, <2>1, <4>1
          <5> QED  BY <5>1, <5>2
        <4>2. CASE ~(i <= Len(u))
          <5>1. (u \o b)[i] = b[i - Len(u)]
            BY <2>1, <2>3, <4>2
          <5>2. (a \o b)[Len(w) + i] = b[Len(w) + i - Len(a)]
            <6> DEFINE j == Len(w) + i
            <6>1. j \in Len(a) + 1 .. Len(a) + Len(b)
              BY <1>2, <2>1, <2>2, <4>2
            <6> HIDE DEF j
            <6>2. (a \o b)[j] = b[j - Len(a)]
              BY <6>1
            <6> QED  BY <6>2 DEF j
          <5>3. Len(w) + i - Len(a) = i - Len(u)
            BY <2>1
          <5> QED  BY <5>1, <5>2, <5>3
        <4> QED  BY <4>1, <4>2
      <3> QED  BY <3>1, <3>2
    <2>5. u \o b = t
      BY <2>3, <2>4, SeqEqual
    <2> QED  BY <2>5 DEF u
  <1>3. Begins(a, w)
    BY <1>1 DEF Begins
  <1> QED  BY <1>2, <1>3

\* The frames of a stream on the wire.
Wires(fs) == [i \in DOMAIN fs |-> WireBytes(fs[i])]

LEMMA WiresType ==
  ASSUME NEW fs \in Seq(ClientFrames)
  PROVE  Wires(fs) \in Seq(Seq(Bytes)) /\ Len(Wires(fs)) = Len(fs)
  <1> DEFINE Z == Seq(Bytes)
  <1>1. ASSUME NEW i \in 1 .. Len(fs) PROVE WireBytes(fs[i]) \in Z
    BY WireType
  <1>2. DOMAIN fs = 1 .. Len(fs) /\ Len(fs) \in Nat
    OBVIOUS
  <1> HIDE DEF Z
  <1>3. Wires(fs) \in [1 .. Len(fs) -> Z]
    BY <1>1, <1>2 DEF Wires
  <1>4. Wires(fs) \in Seq(Z) /\ Len(Wires(fs)) = Len(fs)
    BY <1>2, <1>3, FunctionIsSeq
  <1> QED  BY <1>4 DEF Z

LEMMA WireOfType ==
  ASSUME NEW fs \in Seq(ClientFrames)
  PROVE  WireOf(fs) \in Seq(Bytes)
  BY WiresType, FlattenType DEF WireOf, Wires

\* What is left of the frames from place m + 1 on.
From(fs, m) == SubSeq(fs, m + 1, Len(fs))

LEMMA FromType ==
  ASSUME NEW S, NEW fs \in Seq(S), NEW m \in Nat, m <= Len(fs)
  PROVE  /\ From(fs, m) \in Seq(S) /\ Len(From(fs, m)) = Len(fs) - m
         /\ \A i \in 1 .. Len(fs) - m : From(fs, m)[i] = fs[m + i]
  BY DEF From

\* The first of them comes first.
LEMMA WireOfStep ==
  ASSUME NEW fs \in Seq(ClientFrames), NEW m \in Nat, m < Len(fs)
  PROVE  WireOf(From(fs, m)) = WireBytes(fs[m + 1]) \o WireOf(From(fs, m + 1))
  <1> DEFINE g == From(fs, m)
             h == From(fs, m + 1)
             x == WireBytes(fs[m + 1])
             C == ClientFrames
             Z == Seq(Bytes)
  <1>1. fs \in Seq(C) /\ m + 1 <= Len(fs) /\ m + 1 \in Nat /\ m <= Len(fs) /\ Len(fs) \in Nat
    OBVIOUS
  <1>2. x \in Z
    BY WireType
  <1> HIDE DEF C
  <1>3. /\ g \in Seq(C) /\ Len(g) = Len(fs) - m
        /\ \A i \in 1 .. Len(fs) - m : g[i] = fs[m + i]
    BY <1>1, FromType
  <1>4. /\ h \in Seq(C) /\ Len(h) = Len(fs) - (m + 1)
        /\ \A i \in 1 .. Len(fs) - (m + 1) : h[i] = fs[m + 1 + i]
    BY <1>1, FromType
  <1> HIDE DEF g, h
  <1>5. /\ Wires(g) \in Seq(Z) /\ Len(Wires(g)) = Len(fs) - m
        /\ \A i \in 1 .. Len(fs) - m : Wires(g)[i] = WireBytes(fs[m + i])
    <2>1. Wires(g) \in Seq(Seq(Bytes)) /\ Len(Wires(g)) = Len(g)
      BY <1>3, WiresType DEF C
    <2>2. DOMAIN g = 1 .. Len(fs) - m
      BY <1>3
    <2>3. \A i \in 1 .. Len(fs) - m : Wires(g)[i] = WireBytes(fs[m + i])
      BY <1>3, <2>2 DEF Wires
    <2> QED  BY <1>3, <2>1, <2>3
  <1>6. /\ Wires(h) \in Seq(Z) /\ Len(Wires(h)) = Len(fs) - (m + 1)
        /\ \A i \in 1 .. Len(fs) - (m + 1) : Wires(h)[i] = WireBytes(fs[m + 1 + i])
    <2>1. Wires(h) \in Seq(Seq(Bytes)) /\ Len(Wires(h)) = Len(h)
      BY <1>4, WiresType DEF C
    <2>2. DOMAIN h = 1 .. Len(fs) - (m + 1)
      BY <1>4
    <2>3. \A i \in 1 .. Len(fs) - (m + 1) : Wires(h)[i] = WireBytes(fs[m + 1 + i])
      BY <1>4, <2>2 DEF Wires
    <2> QED  BY <1>4, <2>1, <2>3
  <1>7. Wires(g) = <<x>> \o Wires(h)
    <2> DEFINE u == <<x>> \o Wires(h)
    <2>x. x = WireBytes(fs[m + 1])
      OBVIOUS
    <2> HIDE DEF Z, x
    <2>1. <<x>> \in Seq(Z) /\ Len(<<x>>) = 1 /\ <<x>>[1] = x
      BY <1>2
    <2>2. u \in Seq(Z) /\ Joined(u, <<x>>, Wires(h))
      BY <1>6, <2>1, TwoParts
    <2> HIDE DEF u
    <2>3. Len(u) = Len(Wires(g))
      BY <1>1, <1>5, <1>6, <2>1, <2>2 DEF Joined
    <2>4. ASSUME NEW i \in 1 .. Len(Wires(g)) PROVE Wires(g)[i] = u[i]
      <3>1. Wires(g)[i] = WireBytes(fs[m + i])
        BY <1>5, <2>4
      <3>2. CASE i = 1
        <4>1. u[1] = x
          BY <2>1, <2>2 DEF Joined
        <4> QED  BY <3>1, <3>2, <4>1, <2>x
      <3>3. CASE i # 1
        <4> DEFINE j == i - 1
        <4>1. j \in 1 .. Len(Wires(h)) /\ 1 + j = i /\ m + 1 + j = m + i
          BY <1>1, <1>5, <1>6, <2>4, <3>3
        <4> HIDE DEF j
        <4>2. u[1 + j] = Wires(h)[j]
          BY <2>1, <2>2, <4>1 DEF Joined
        <4>3. Wires(h)[j] = WireBytes(fs[m + 1 + j])
          BY <1>6, <4>1
        <4> QED  BY <3>1, <4>1, <4>2, <4>3
      <3> QED  BY <3>2, <3>3
    <2>5. Wires(g) = u
      BY <1>5, <2>2, <2>3, <2>4, SeqEqual
    <2> QED  BY <2>5 DEF u
  <1>8. FlattenSeq(<<x>> \o Wires(h)) = x \o FlattenSeq(Wires(h))
    BY <1>2, <1>6, FlattenPush
  <1>9. WireOf(g) = FlattenSeq(Wires(g)) /\ WireOf(h) = FlattenSeq(Wires(h))
    BY DEF WireOf, Wires
  <1> QED  BY <1>7, <1>8, <1>9 DEF g, h

LEMMA WireOfNone ==
  ASSUME NEW fs \in Seq(ClientFrames)
  PROVE  WireOf(From(fs, Len(fs))) = <<>> /\ From(fs, 0) = fs
  <1>1. Len(fs) \in Nat
    OBVIOUS
  <1>2. From(fs, Len(fs)) = <<>>
    BY <1>1 DEF From
  <1>3. From(fs, 0) = fs
    BY DEF From
  <1>4. [i \in DOMAIN <<>> |-> WireBytes(<<>>[i])] = <<>>
    OBVIOUS
  <1> QED  BY <1>2, <1>3, <1>4, FlattenEmpty DEF WireOf

-----------------------------------------------------------------------------
(* The invariant.                                                          *)

Inputs ==
  [fn : {"stream"}, of : Streams] \cup [fn : {"wire"}, of : AnyBytes]
  \cup [fn : {"reply"}, of : Replies] \cup [fn : {"length"}, of : Lengths]
  \cup [fn : {"request"}, of : Requests]

LEMMA InputType ==
  ASSUME input \in Inputs
  PROVE  /\ input.fn = "stream" => input.of \in Seq(ClientFrames)
         /\ input.fn = "reply" => input.of \in [opcode : 0 .. 15, payload : Seq(Bytes)]
         /\ input.fn = "length" => input.of \in [len : 0 .. LegalLength - 1, bytes : Nat]
         /\ input.fn = "wire" => input.of \in Seq(Bytes)
  <1>1. input.fn = "stream" => input.of \in Streams
    BY DEF Inputs
  <1>2. input.fn = "reply" => input.of \in Replies
    BY DEF Inputs
  <1>3. input.fn = "length" => input.of \in Lengths
    BY DEF Inputs
  <1>4. input.fn = "wire" => input.of \in AnyBytes
    BY DEF Inputs
  <1> QED  BY <1>1, <1>2, <1>3, <1>4, FrameStreamAssumption

TypeOK ==
  /\ input \in Inputs
  /\ rest \in Seq(Bytes) /\ buf_acc \in Seq(Bytes)
  /\ seen \in Seq(Decoded)
  /\ pc \in {"recv", "parse", "dead"}

\* What has come and what is still to come are the frames not seen yet.
StreamInv ==
  /\ TypeOK
  /\ DecodesWhatWasSent
  /\ AnyBytesParsed
  /\ input.fn \notin {"stream", "wire"} => rest = <<>> /\ buf_acc = <<>> /\ pc = "recv"

\* AnyBytesParsed, its parts.
EndOf(sent) == \E k \in 0 .. Len(sent) : buf_acc \o rest = SubSeq(sent, k + 1, Len(sent))
NeverStuck == \A i \in DOMAIN seen : seen[i].consumed >= 2

LEMMA AnyIs ==
  AnyBytesParsed <=>
    (input.fn = "wire" => /\ pc = "dead" => Wraps(buf_acc)
                          /\ pc = "recv" => ~Wraps(buf_acc)
                          /\ NeverStuck /\ EndOf(input.of))
  BY DEF AnyBytesParsed, NeverStuck, EndOf

\* DecodesWhatWasSent, its parts.
SeenAre(fs) ==
  \A i \in 1 .. Len(seen) : /\ seen[i].fin = fs[i].fin
                            /\ seen[i].opcode = fs[i].opcode
                            /\ seen[i].payload = fs[i].payload
Waits(fs) ==
  pc = "recv" /\ Len(seen) < Len(fs) => Len(buf_acc) < Len(WireBytes(fs[Len(seen) + 1]))

LEMMA DecodesIs ==
  DecodesWhatWasSent <=>
    (input.fn = "stream" => /\ Len(seen) <= Len(input.of)
                            /\ SeenAre(input.of)
                            /\ buf_acc \o rest = WireOf(From(input.of, Len(seen)))
                            /\ Waits(input.of) /\ pc # "dead")
  BY DEF DecodesWhatWasSent, SeenAre, Waits, From

\* An end of an end is an end.
IsEnd(b, t, s, k) == k <= Len(s) /\ b \o t = From(s, k)

LEMMA EndOfEnd ==
  ASSUME NEW S, NEW s \in Seq(S), NEW b \in Seq(S), NEW t \in Seq(S),
         NEW k \in Nat, NEW c \in Nat,
         c <= Len(b), IsEnd(b, t, s, k)
  PROVE  IsEnd(From(b, c), t, s, k + c)
  <1> DEFINE e == b \o t
             r == From(b, c)
             l == r \o t
             q == From(s, k + c)
  <1>1. Len(s) \in Nat /\ Len(b) \in Nat /\ Len(t) \in Nat /\ k \in Nat /\ k <= Len(s)
    BY DEF IsEnd
  <1>2. e = From(s, k)
    BY DEF IsEnd
  <1>3. e \in Seq(S) /\ Joined(e, b, t)
    BY TwoParts
  <1> HIDE DEF e
  <1>4. Len(e) = Len(s) - k /\ \A i \in 1 .. Len(s) - k : e[i] = s[k + i]
    BY <1>1, <1>2, FromType
  <1>5. Len(b) + Len(t) = Len(s) - k /\ k + c \in Nat /\ k + c <= Len(s)
    <2>1. Len(e) = Len(b) + Len(t)
      BY <1>3 DEF Joined
    <2> DEFINE ls == Len(s)
               lb == Len(b)
               lt == Len(t)
    <2>2. /\ ls \in Nat /\ lb \in Nat /\ lt \in Nat /\ k \in Nat /\ c \in Nat /\ c <= lb
          /\ lb + lt = ls - k
      BY <1>1, <1>4, <2>1
    <2> HIDE DEF ls, lb, lt
    <2>3. k + c \in Nat /\ k + c <= ls
      BY <2>2
    <2> QED  BY <2>2, <2>3 DEF ls, lb, lt
  <1>6. r \in Seq(S) /\ Len(r) = Len(b) - c /\ \A i \in 1 .. Len(b) - c : r[i] = b[c + i]
    BY FromType
  <1>7. q \in Seq(S) /\ Len(q) = Len(s) - (k + c)
        /\ \A i \in 1 .. Len(s) - (k + c) : q[i] = s[k + c + i]
    BY <1>5, FromType
  <1> HIDE DEF r, q
  <1>8. l \in Seq(S) /\ Joined(l, r, t)
    BY <1>6, TwoParts
  <1> HIDE DEF l
  <1>9. ASSUME NEW i \in 1 .. Len(l) PROVE l[i] = q[i]
    <2>1. /\ i \in Nat /\ i \in 1 .. Len(s) - (k + c)
          /\ c + i \in 1 .. Len(s) - k /\ k + (c + i) = k + c + i
      BY <1>1, <1>5, <1>6, <1>8 DEF Joined
    <2>2. q[i] = s[k + c + i] /\ e[c + i] = s[k + (c + i)]
      BY <1>4, <1>7, <2>1
    <2>3. e[c + i] = l[i]
      <3>1. CASE i <= Len(b) - c
        <4>1. i \in 1 .. Len(r) /\ c + i \in 1 .. Len(b) /\ i \in 1 .. Len(b) - c
          BY <1>1, <1>6, <2>1, <3>1
        <4> QED  BY <1>3, <1>6, <1>8, <4>1 DEF Joined
      <3>2. CASE ~(i <= Len(b) - c)
        <4> DEFINE j == i - Len(r)
        <4>1. j \in 1 .. Len(t) /\ i = Len(r) + j /\ c + i = Len(b) + j
          BY <1>1, <1>6, <1>8, <2>1, <3>2 DEF Joined
        <4> HIDE DEF j
        <4> QED  BY <1>3, <1>8, <4>1 DEF Joined
      <3> QED  BY <3>1, <3>2
    <2> QED  BY <2>1, <2>2, <2>3
  <1>10. Len(l) = Len(q)
    BY <1>1, <1>5, <1>6, <1>7, <1>8, SMTT(30) DEF Joined
  <1>11. l = q
    BY <1>7, <1>8, <1>9, <1>10, SeqEqual
  <1> QED  BY <1>5, <1>11 DEF l, q, r, IsEnd

LEMMA InitInv == Init => StreamInv
  <1> SUFFICES ASSUME Init PROVE StreamInv
    OBVIOUS
  <1>1. input \in Inputs /\ buf_acc = <<>> /\ seen = <<>> /\ pc = "recv"
    BY DEF Init, Inputs
  <1>2. /\ input.fn = "stream" => rest = WireOf(input.of)
        /\ input.fn = "wire" => rest = input.of
        /\ input.fn \notin {"stream", "wire"} => rest = <<>>
    BY DEF Init
  <1>3. CASE input.fn = "stream"
    <2> DEFINE fs == input.of
    <2>1. fs \in Seq(ClientFrames)
      BY <1>1, <1>3, InputType
    <2>2. rest = WireOf(fs) /\ rest \in Seq(Bytes)
      BY <1>2, <1>3, <2>1, WireOfType
    <2>3. Len(seen) = 0 /\ Len(buf_acc) = 0 /\ seen \in Seq(Decoded) /\ buf_acc \in Seq(Bytes)
      BY <1>1
    <2>4. TypeOK
      BY <1>1, <2>2, <2>3 DEF TypeOK
    <2> HIDE DEF fs
    <2>5. Len(fs) \in Nat
      BY <2>1
    <2>6. Len(seen) <= Len(fs) /\ SeenAre(fs)
      BY <2>3, <2>5 DEF SeenAre
    <2>7. buf_acc \o rest = WireOf(From(fs, Len(seen)))
      <3>1. buf_acc \o rest = rest
        BY <1>1, <2>2
      <3> QED  BY <2>1, <2>2, <2>3, <3>1, WireOfNone
    <2>8. Waits(fs)
      <3> SUFFICES ASSUME 0 < Len(fs) PROVE Len(buf_acc) < Len(WireBytes(fs[Len(seen) + 1]))
        BY <2>3 DEF Waits
      <3>1. fs[1] \in ClientFrames
        BY <2>1, <2>5
      <3>2. Len(WireBytes(fs[1])) \in Nat \ {0}
        BY <3>1, WireType
      <3>3. Len(seen) + 1 = 1
        BY <2>3
      <3> QED  BY <2>3, <3>2, <3>3
    <2>9. DecodesWhatWasSent
      BY <1>1, <2>6, <2>7, <2>8, DecodesIs DEF fs
    <2>10. AnyBytesParsed
      BY <1>3 DEF AnyBytesParsed
    <2> QED  BY <1>3, <2>4, <2>9, <2>10 DEF StreamInv
  <1>4. CASE input.fn \notin {"stream", "wire"}
    <2>1. rest = <<>>
      BY <1>2, <1>4
    <2>2. rest \in Seq(Bytes) /\ buf_acc \in Seq(Bytes) /\ seen \in Seq(Decoded)
      BY <1>1, <2>1
    <2> QED  BY <1>1, <1>4, <2>1, <2>2 DEF StreamInv, TypeOK, DecodesWhatWasSent,
       AnyBytesParsed
  <1>5. CASE input.fn = "wire"
    <2> DEFINE sent == input.of
    <2>1. rest = sent /\ sent \in Seq(Bytes)
      BY <1>1, <1>2, <1>5, InputType
    <2>2. rest \in Seq(Bytes) /\ buf_acc \in Seq(Bytes) /\ seen \in Seq(Decoded)
      BY <1>1, <2>1
    <2>3. ~Wraps(buf_acc)
      <3>1. Len(buf_acc) = 0
        BY <1>1
      <3> QED  BY <3>1 DEF Wraps
    <2>4. NeverStuck
      BY <1>1 DEF NeverStuck
    <2>5. EndOf(sent)
      <3> HIDE DEF sent
      <3>1. SubSeq(sent, 0 + 1, Len(sent)) = sent /\ 0 \in 0 .. Len(sent)
        BY <2>1
      <3>2. buf_acc \o rest = sent
        BY <1>1, <2>1
      <3> QED  BY <3>1, <3>2 DEF EndOf
    <2>6. AnyBytesParsed
      BY <1>1, <2>3, <2>4, <2>5, AnyIs
    <2>7. DecodesWhatWasSent
      BY <1>5 DEF DecodesWhatWasSent
    <2> QED  BY <1>1, <1>5, <2>2, <2>6, <2>7 DEF StreamInv, TypeOK
  <1> QED  BY <1>3, <1>4, <1>5

\* A chunk goes from the stream to the end of buf_acc.
LEMMA RecvInv ==
  ASSUME StreamInv, Recv
  PROVE  StreamInv'
  <1>1. PICK n \in ChunkSizes \cap 1 .. Len(rest) :
          /\ buf_acc' = buf_acc \o SubSeq(rest, 1, n)
          /\ rest' = SubSeq(rest, n + 1, Len(rest))
    BY DEF Recv
  <1>2. pc' = "parse" /\ input' = input /\ seen' = seen
    BY DEF Recv
  <1>3. rest \in Seq(Bytes) /\ buf_acc \in Seq(Bytes) /\ n \in 1 .. Len(rest)
    BY <1>1 DEF StreamInv, TypeOK
  <1>4. /\ buf_acc' \in Seq(Bytes) /\ rest' \in Seq(Bytes)
        /\ buf_acc' \o rest' = buf_acc \o rest
    <2> DEFINE a == SubSeq(rest, 1, n)
               b == SubSeq(rest, n + 1, Len(rest))
    <2>1. a \in Seq(Bytes) /\ b \in Seq(Bytes) /\ a \o b = rest
      BY <1>3
    <2> HIDE DEF a, b
    <2>2. buf_acc \o a \in Seq(Bytes) /\ (buf_acc \o a) \o b = buf_acc \o (a \o b)
      <3>1. buf_acc \o a \in Seq(Bytes)
        BY <1>3, <2>1
      <3>2. a \in Seq(Bytes) /\ b \in Seq(Bytes) /\ buf_acc \in Seq(Bytes)
        BY <1>3, <2>1
      <3>3. (buf_acc \o a) \o b = buf_acc \o (a \o b)
        BY <3>2, Associative
      <3> QED  BY <3>1, <3>3
    <2>3. buf_acc' = buf_acc \o a /\ rest' = b
      BY <1>1 DEF a, b
    <2> QED  BY <2>1, <2>2, <2>3
  <1>5. TypeOK'
    BY <1>2, <1>4 DEF StreamInv, TypeOK
  <1>6. input.fn \in {"stream", "wire"}
    <2>1. rest # <<>>
      BY <1>3
    <2> QED  BY <2>1 DEF StreamInv
  <1>7. ASSUME input.fn = "stream" PROVE DecodesWhatWasSent'
    <2> DEFINE fs == input.of
    <2>1. Len(seen) <= Len(fs) /\ SeenAre(fs) /\ buf_acc \o rest = WireOf(From(fs, Len(seen)))
      BY <1>7, DecodesIs DEF StreamInv
    <2>2. Len(seen') <= Len(fs) /\ buf_acc' \o rest' = WireOf(From(fs, Len(seen')))
      BY <1>2, <1>4, <2>1
    <2>3. SeenAre(fs)'
      BY <1>2, <2>1 DEF SeenAre
    <2>4. Waits(fs)'
      BY <1>2 DEF Waits
    <2> QED  BY <1>2, <2>2, <2>3, <2>4 DEF DecodesWhatWasSent, SeenAre, Waits, From
  <1>8. ASSUME input.fn = "wire" PROVE AnyBytesParsed'
    <2>1. NeverStuck /\ EndOf(input.of)
      BY <1>8, AnyIs DEF StreamInv
    <2>2. NeverStuck'
      BY <1>2, <2>1 DEF NeverStuck
    <2>3. EndOf(input.of)'
      BY <1>2, <1>4, <2>1 DEF EndOf
    <2> QED  BY <1>2, <2>2, <2>3 DEF AnyBytesParsed, NeverStuck, EndOf
  <1>9. /\ input.fn # "stream" => DecodesWhatWasSent'
        /\ input.fn # "wire" => AnyBytesParsed'
    BY <1>2 DEF DecodesWhatWasSent, AnyBytesParsed
  <1> QED  BY <1>2, <1>5, <1>6, <1>7, <1>8, <1>9 DEF StreamInv

\* What the parser finds at the front of buf_acc.
LEMMA FrontOfBuffer ==
  ASSUME StreamInv, input.fn = "stream", NEW fs, fs = input.of
  PROVE  /\ Len(seen) = Len(fs) => parse_websocket_frame(buf_acc) = NoFrame
         /\ Len(seen) < Len(fs) =>
              LET f == fs[Len(seen) + 1]
              IN /\ f \in ClientFrames
                 /\ Parses(buf_acc, Len(WireBytes(f)), f.fin, f.opcode, f.payload)
                 /\ Len(WireBytes(f)) <= Len(buf_acc) =>
                      Drain(Len(WireBytes(f))) \o rest = WireOf(From(fs, Len(seen) + 1))
  <1> DEFINE n == Len(seen)
  <1>1. fs \in Seq(ClientFrames) /\ n \in Nat /\ Len(fs) \in Nat
    <2>1. fs \in Seq(ClientFrames) /\ seen \in Seq(Decoded)
      BY InputType DEF StreamInv, TypeOK
    <2> QED  BY <2>1
  <1>2. buf_acc \in Seq(Bytes) /\ rest \in Seq(Bytes) /\ buf_acc \o rest = WireOf(From(fs, n))
    BY DecodesIs DEF StreamInv, TypeOK
  <1> HIDE DEF n
  <1>3. ASSUME n = Len(fs) PROVE parse_websocket_frame(buf_acc) = NoFrame
    <2>1. buf_acc \o rest = <<>>
      BY <1>1, <1>2, <1>3, WireOfNone
    <2>2. Len(buf_acc) = 0
      BY <1>2, <2>1
    <2> QED  BY <2>2 DEF parse_websocket_frame
  <1>4. ASSUME n < Len(fs)
        PROVE  /\ fs[n + 1] \in ClientFrames
               /\ Begins(buf_acc, WireBytes(fs[n + 1]))
               /\ Len(WireBytes(fs[n + 1])) <= Len(buf_acc) =>
                    Drain(Len(WireBytes(fs[n + 1]))) \o rest = WireOf(From(fs, n + 1))
    <2> DEFINE w == WireBytes(fs[n + 1])
               t == WireOf(From(fs, n + 1))
    <2>1. fs[n + 1] \in ClientFrames
      BY <1>1, <1>4
    <2>2. w \in Seq(Bytes)
      BY <2>1, WireType
    <2>3. t \in Seq(Bytes)
      <3>1. n + 1 \in Nat /\ n + 1 <= Len(fs)
        BY <1>1, <1>4
      <3>2. From(fs, n + 1) \in Seq(ClientFrames)
        BY <1>1, <3>1, FromType
      <3> QED  BY <3>2, WireOfType
    <2>4. buf_acc \o rest = w \o t
      BY <1>1, <1>2, <1>4, WireOfStep
    <2> HIDE DEF w, t
    <2>5. /\ Begins(buf_acc, w)
          /\ Len(w) <= Len(buf_acc) => SubSeq(buf_acc, Len(w) + 1, Len(buf_acc)) \o rest = t
      BY <1>2, <2>2, <2>3, <2>4, CutFront
    <2> QED  BY <2>1, <2>5 DEF w, t, Drain
  <1>5. ASSUME n < Len(fs)
        PROVE  Parses(buf_acc, Len(WireBytes(fs[n + 1])), fs[n + 1].fin, fs[n + 1].opcode,
                      fs[n + 1].payload)
    BY <1>2, <1>4, <1>5, ParsesFrame
  <1> QED  BY <1>3, <1>4, <1>5 DEF n

\* A frame leaves buf_acc, or the parser waits for more.
LEMMA ParseStream ==
  ASSUME StreamInv, Parse, input.fn = "stream"
  PROVE  StreamInv'
  <1> DEFINE p == parse_websocket_frame(buf_acc)
             fs == input.of
             n == Len(seen)
             f == fs[n + 1]
             l == Len(WireBytes(f))
  <1>1. input' = input /\ rest' = rest /\ pc = "parse"
    BY DEF Parse
  <1>2. \/ p.kind = "none" /\ pc' = "recv" /\ buf_acc' = buf_acc /\ seen' = seen
        \/ /\ p.kind = "frame" /\ buf_acc' = Drain(p.consumed)
           /\ seen' = Append(seen, p) /\ pc' = pc
        \/ p.kind = "panic" /\ pc' = "dead" /\ buf_acc' = buf_acc /\ seen' = seen
    BY DEF Parse
  <1>3. input.fn = "stream" /\ input'.fn = "stream"
    BY <1>1
  <1>4. /\ fs \in Seq(ClientFrames) /\ seen \in Seq(Decoded)
        /\ buf_acc \in Seq(Bytes) /\ rest \in Seq(Bytes) /\ input \in Inputs
    BY <1>3, InputType DEF StreamInv, TypeOK
  <1>5. n \in Nat /\ Len(fs) \in Nat /\ Len(buf_acc) \in Nat
    BY <1>4
  <1>6. n <= Len(fs) /\ SeenAre(fs) /\ buf_acc \o rest = WireOf(From(fs, n))
    BY <1>3, DecodesIs DEF StreamInv
  <1>7. n = Len(fs) => p = NoFrame
    BY <1>3, FrontOfBuffer
  <1>8. n < Len(fs) => /\ f \in ClientFrames
                       /\ Parses(buf_acc, l, f.fin, f.opcode, f.payload)
                       /\ l <= Len(buf_acc) => Drain(l) \o rest = WireOf(From(fs, n + 1))
    BY <1>3, FrontOfBuffer
  <1> HIDE DEF p, fs, f, l
  <1>9. CASE p.kind = "none"
    <2>1. pc' = "recv" /\ buf_acc' = buf_acc /\ seen' = seen
      BY <1>2, <1>9
    <2>2. ASSUME n < Len(fs) PROVE Len(buf_acc) < l
      <3>1. p = IF Len(buf_acc) < l THEN NoFrame ELSE Frame(l, f.fin, f.opcode, f.payload)
        BY <1>8, <2>2 DEF Parses, p
      <3> QED  BY <1>9, <3>1 DEF Frame
    <2>3. SeenAre(fs)'
      <3>1. fs' = fs
        BY <1>1 DEF fs
      <3> QED  BY <1>6, <2>1, <3>1 DEF SeenAre
    <2>4. DecodesWhatWasSent'
      BY <1>1, <1>6, <2>1, <2>2, <2>3 DEF DecodesWhatWasSent, SeenAre, From, fs, f, l
    <2>5. TypeOK'
      BY <1>1, <1>4, <2>1 DEF TypeOK
    <2> QED  BY <1>3, <2>4, <2>5 DEF StreamInv, AnyBytesParsed
  <1>10. CASE p.kind = "frame"
    <2>1. pc' = "parse" /\ buf_acc' = Drain(p.consumed) /\ seen' = Append(seen, p)
      BY <1>1, <1>2, <1>10
    <2>2. n < Len(fs)
      <3>1. p # NoFrame
        BY <1>10 DEF NoFrame
      <3> QED  BY <1>5, <1>6, <1>7, <3>1
    <2>3. f \in ClientFrames /\ l \in Nat
      BY <1>8, <2>2, WireType DEF l
    <2>4. p = Frame(l, f.fin, f.opcode, f.payload) /\ l <= Len(buf_acc)
      <3>1. p = IF Len(buf_acc) < l THEN NoFrame ELSE Frame(l, f.fin, f.opcode, f.payload)
        BY <1>8, <2>2 DEF Parses, p
      <3> QED  BY <1>5, <1>10, <2>3, <3>1 DEF NoFrame
    <2>5. /\ p \in Decoded /\ p.consumed = l /\ p.fin = f.fin /\ p.opcode = f.opcode
          /\ p.payload = f.payload
      BY <2>3, <2>4, FrameType DEF Frame, Decoded
    <2>6. buf_acc' \o rest' = WireOf(From(fs, n + 1))
      BY <1>1, <1>8, <2>1, <2>2, <2>4, <2>5
    <2>7. seen' \in Seq(Decoded) /\ Len(seen') = n + 1 /\ seen'[n + 1] = p
          /\ \A i \in 1 .. n : seen'[i] = seen[i]
      <3> DEFINE D == Decoded
      <3>1. seen \in Seq(D) /\ p \in D
        BY <1>4, <2>5
      <3> HIDE DEF D
      <3>2. /\ Append(seen, p) \in Seq(D) /\ Len(Append(seen, p)) = n + 1
            /\ Append(seen, p)[n + 1] = p /\ \A i \in 1 .. n : Append(seen, p)[i] = seen[i]
        BY <3>1
      <3> QED  BY <2>1, <3>2 DEF D
    <2>8. buf_acc' \in Seq(Bytes)
      BY <1>4, <2>1, <2>3, <2>4, <2>5 DEF Drain
    <2>9. TypeOK'
      BY <1>1, <1>4, <2>1, <2>7, <2>8 DEF TypeOK
    <2>10. SeenAre(fs)'
      <3> SUFFICES ASSUME NEW i \in 1 .. n + 1
                   PROVE  /\ seen'[i].fin = fs[i].fin /\ seen'[i].opcode = fs[i].opcode
                          /\ seen'[i].payload = fs[i].payload
        <4>1. fs' = fs
          BY <1>1 DEF fs
        <4> QED  BY <2>7, <4>1 DEF SeenAre
      <3>1. CASE i = n + 1
        BY <2>5, <2>7, <3>1 DEF f
      <3>2. CASE i # n + 1
        <4>1. i \in 1 .. n /\ seen'[i] = seen[i]
          BY <1>5, <2>7, <3>2
        <4> QED  BY <1>6, <4>1 DEF SeenAre
      <3> QED  BY <3>1, <3>2
    <2>11. DecodesWhatWasSent'
      <3>1. Len(seen') <= Len(fs)
        BY <1>5, <2>2, <2>7
      <3>2. buf_acc' \o rest' = WireOf(SubSeq(fs, Len(seen') + 1, Len(fs)))
        BY <2>6, <2>7 DEF From
      <3>3. fs' = fs
        BY <1>1 DEF fs
      <3> QED  BY <1>1, <2>1, <2>10, <3>1, <3>2, <3>3 DEF DecodesWhatWasSent, SeenAre, fs
    <2> QED  BY <1>3, <2>9, <2>11 DEF StreamInv, AnyBytesParsed
  <1>11. p.kind # "panic"
    <2>1. NoFrame.kind = "none" /\ \A k, a, b, c : Frame(k, a, b, c).kind = "frame"
      BY DEF NoFrame, Frame
    <2>2. CASE n = Len(fs)
      BY <1>7, <2>1, <2>2
    <2>3. CASE n < Len(fs)
      <3>1. p = NoFrame \/ p = Frame(l, f.fin, f.opcode, f.payload)
        BY <1>8, <2>3 DEF Parses, p
      <3> QED  BY <2>1, <3>1
    <2> QED  BY <1>5, <1>6, <2>2, <2>3
  <1> QED  BY <1>2, <1>9, <1>10, <1>11

\* Any bytes: a frame leaves buf_acc, or the parser waits for more, or panics.
LEMMA ParseWire ==
  ASSUME StreamInv, Parse, input.fn = "wire"
  PROVE  StreamInv'
  <1> DEFINE p == parse_websocket_frame(buf_acc)
             sent == input.of
  <1>1. input' = input /\ rest' = rest /\ pc = "parse"
    BY DEF Parse
  <1>2. \/ p.kind = "none" /\ pc' = "recv" /\ buf_acc' = buf_acc /\ seen' = seen
        \/ /\ p.kind = "frame" /\ buf_acc' = Drain(p.consumed)
           /\ seen' = Append(seen, p) /\ pc' = "parse"
        \/ p.kind = "panic" /\ pc' = "dead" /\ buf_acc' = buf_acc /\ seen' = seen
    BY DEF Parse
  <1>3. /\ input \in Inputs /\ rest \in Seq(Bytes) /\ buf_acc \in Seq(Bytes)
        /\ seen \in Seq(Decoded) /\ sent \in Seq(Bytes)
    BY InputType DEF StreamInv, TypeOK
  <1>4. NeverStuck /\ EndOf(sent)
    BY AnyIs DEF StreamInv
  <1>5. /\ p.kind = "panic" <=> Wraps(buf_acc)
        /\ p.kind = "frame" =>
             p \in Decoded /\ p.consumed >= 2 /\ p.consumed <= Len(buf_acc)
    BY <1>3, ParsesAny
  <1> HIDE DEF p, sent
  <1>6. DecodesWhatWasSent'
    BY <1>1 DEF DecodesWhatWasSent
  <1>7. CASE p.kind # "frame"
    <2>1. buf_acc' = buf_acc /\ seen' = seen
      BY <1>2, <1>7
    <2>2. TypeOK'
      BY <1>1, <1>2, <1>3, <1>7 DEF TypeOK
    <2>3. NeverStuck' /\ EndOf(sent)'
      <3>1. sent' = sent
        BY <1>1 DEF sent
      <3> QED  BY <1>1, <1>4, <2>1, <3>1 DEF NeverStuck, EndOf
    <2>4. (pc' = "dead" => Wraps(buf_acc)') /\ (pc' = "recv" => ~Wraps(buf_acc)')
      <3>1. Wraps(buf_acc)' <=> Wraps(buf_acc)
        BY <2>1 DEF Wraps
      <3> QED  BY <1>2, <1>5, <1>7, <3>1
    <2>5. AnyBytesParsed'
      BY <2>3, <2>4 DEF AnyBytesParsed, NeverStuck, EndOf, sent
    <2> QED  BY <1>1, <1>6, <2>2, <2>5 DEF StreamInv
  <1>8. CASE p.kind = "frame"
    <2> DEFINE c == p.consumed
    <2>1. buf_acc' = Drain(c) /\ seen' = Append(seen, p) /\ pc' = "parse"
      BY <1>2, <1>8
    <2>2. p \in Decoded /\ c \in Nat /\ c >= 2 /\ c <= Len(buf_acc)
      BY <1>5, <1>8 DEF Decoded
    <2> HIDE DEF c
    <2>3. buf_acc' \in Seq(Bytes)
      BY <1>3, <2>1, <2>2 DEF Drain
    <2>4. seen' \in Seq(Decoded) /\ NeverStuck'
      <3> DEFINE D == Decoded
                 s == Append(seen, p)
      <3>1. seen \in Seq(D) /\ p \in D
        BY <1>3, <2>2
      <3> HIDE DEF D
      <3>2. /\ s \in Seq(D) /\ DOMAIN s = 1 .. Len(seen) + 1 /\ DOMAIN seen = 1 .. Len(seen)
            /\ s[Len(seen) + 1] = p /\ \A i \in 1 .. Len(seen) : s[i] = seen[i]
            /\ Len(seen) \in Nat
        BY <3>1
      <3>3. \A i \in DOMAIN seen : seen[i].consumed >= 2
        BY <1>4 DEF NeverStuck
      <3>4. p.consumed >= 2
        BY <2>2 DEF c
      <3> HIDE DEF s
      <3>5. ASSUME NEW i \in DOMAIN s PROVE s[i].consumed >= 2
        <4>1. CASE i = Len(seen) + 1
          BY <3>2, <3>4, <4>1
        <4>2. CASE i # Len(seen) + 1
          <5>1. i \in 1 .. Len(seen)
            BY <3>2, <4>2
          <5> QED  BY <3>2, <3>3, <5>1
        <4> QED  BY <4>1, <4>2
      <3>6. seen' = s
        BY <2>1 DEF s
      <3> QED  BY <3>2, <3>5, <3>6 DEF NeverStuck, D
    <2>5. EndOf(sent)'
      <3>1. PICK k \in 0 .. Len(sent) : buf_acc \o rest = SubSeq(sent, k + 1, Len(sent))
        BY <1>4 DEF EndOf
      <3>2. k \in Nat /\ k <= Len(sent) /\ buf_acc \o rest = From(sent, k) /\ Len(sent) \in Nat
        BY <1>3, <3>1 DEF From
      <3>3. k + c <= Len(sent) /\ From(buf_acc, c) \o rest = From(sent, k + c)
        <4>1. IsEnd(buf_acc, rest, sent, k)
          BY <3>2 DEF IsEnd
        <4>2. IsEnd(From(buf_acc, c), rest, sent, k + c)
          BY <1>3, <2>2, <3>2, <4>1, EndOfEnd
        <4> QED  BY <4>2 DEF IsEnd
      <3>4. k + c \in 0 .. Len(sent)
        BY <2>2, <3>2, <3>3
      <3>5. buf_acc' \o rest = SubSeq(sent, k + c + 1, Len(sent))
        BY <2>1, <3>3 DEF Drain, From
      <3>6. sent' = sent
        BY <1>1 DEF sent
      <3> QED  BY <1>1, <3>4, <3>5, <3>6 DEF EndOf
    <2>6. TypeOK'
      BY <1>1, <1>3, <2>1, <2>3, <2>4 DEF TypeOK
    <2>7. AnyBytesParsed'
      BY <2>1, <2>4, <2>5 DEF AnyBytesParsed, NeverStuck, EndOf, sent
    <2> QED  BY <1>1, <1>6, <2>6, <2>7 DEF StreamInv
  <1> QED  BY <1>7, <1>8

LEMMA ParseInv ==
  ASSUME StreamInv, Parse
  PROVE  StreamInv'
  <1>1. input.fn \in {"stream", "wire"}
    BY DEF StreamInv, Parse
  <1> QED  BY <1>1, ParseStream, ParseWire

LEMMA StepInv == StreamInv /\ [Next]_vars => StreamInv'
  <1> SUFFICES ASSUME StreamInv, [Next]_vars PROVE StreamInv'
    OBVIOUS
  <1>1. CASE Recv
    BY <1>1, RecvInv
  <1>2. CASE Parse
    BY <1>2, ParseInv
  <1>3. CASE Over \/ UNCHANGED vars
    BY <1>3 DEF Over, vars, StreamInv, TypeOK, DecodesWhatWasSent, AnyBytesParsed, Wraps
  <1> QED  BY <1>1, <1>2, <1>3 DEF Next

\* However the stream is cut into chunks, accept_and_run gets the client's frames in
\* order and unmasked, each as soon as its last byte is there, for frames of every
\* length that RFC 6455 allows.
THEOREM FramesDecoded == Spec => []DecodesWhatWasSent
  <1>1. StreamInv => DecodesWhatWasSent
    BY DEF StreamInv
  <1> QED  BY <1>1, InitInv, StepInv, PTL DEF Spec

\* Whatever bytes a client sends and however they are cut, a panic of
\* parse_websocket_frame ends the thread exactly when a header announces a length that
\* wraps the sum with its own size; until then no slice leaves buf_acc, every frame
\* takes at least two bytes off it and no byte is lost.
THEOREM ParserSurvives == Spec => []AnyBytesParsed
  <1>1. StreamInv => AnyBytesParsed
    BY DEF StreamInv
  <1> QED  BY <1>1, InitInv, StepInv, PTL DEF Spec

-----------------------------------------------------------------------------
(* The functions.                                                          *)

\* What the server builds is RFC 6455's frame.
LEMMA BuildsWire ==
  ASSUME NEW f, f.fin = TRUE, f.key = <<>>, f.payload \in Seq(Bytes), f.opcode \in 0 .. 15
  PROVE  build_websocket_frame(f.opcode, f.payload) = WireBytes(f)
  <1> DEFINE l == Len(f.payload)
             x == WireLength(l)
             p == f.payload
             c == f.opcode
  <1>1. l \in Nat /\ ExtBytes \in Nat /\ LongBytes \in Nat
    BY ParsingAssumption
  <1>2. WireBytes(f) = <<128 + c, 0 + x.mark>> \o x.ext \o <<>> \o p
    BY DEF WireBytes
  <1>3. build_websocket_frame(c, p) = <<128 + c>> \o LengthBytes(l) \o p
    BY DEF build_websocket_frame
  <1>4. LengthBytes(l) = <<x.mark>> \o x.ext /\ x.ext \in Seq(Bytes) /\ x.mark \in Bytes
    <2>0. 126 \in Bytes /\ 127 \in Bytes /\ <<>> \in Seq(Bytes)
      BY DEF Bytes
    <2>1. CASE l <= 125
      <3>1. x.mark = l /\ x.ext = <<>> /\ LengthBytes(l) = <<l>>
        BY <1>1, <2>1 DEF WireLength, LengthBytes
      <3> HIDE DEF x, l
      <3>2. l \in Bytes
        BY <1>1, <2>1 DEF Bytes
      <3>3. <<l>> = <<l>> \o <<>>
        BY <3>2
      <3> QED  BY <2>0, <3>1, <3>2, <3>3
    <2>2. CASE ~(l <= 125) /\ l < Pow256[ExtBytes]
      <3>1. /\ x.mark = 126 /\ x.ext = BytesOf(l, ExtBytes)
            /\ LengthBytes(l) = <<126>> \o BytesOf(l, ExtBytes)
        BY <1>1, <2>2 DEF WireLength, LengthBytes
      <3>2. BytesOf(l, ExtBytes) \in Seq(Bytes)
        BY <1>1, BytesLen
      <3> HIDE DEF x, l
      <3> QED  BY <2>0, <3>1, <3>2
    <2>3. CASE ~(l <= 125) /\ ~(l < Pow256[ExtBytes])
      <3>1. /\ x.mark = 127 /\ x.ext = BytesOf(l, LongBytes)
            /\ LengthBytes(l) = <<127>> \o BytesOf(l, LongBytes)
        BY <1>1, <2>3 DEF WireLength, LengthBytes
      <3>2. BytesOf(l, LongBytes) \in Seq(Bytes)
        BY <1>1, BytesLen
      <3> HIDE DEF x, l
      <3> QED  BY <2>0, <3>1, <3>2
    <2> QED  BY <2>1, <2>2, <2>3
  <1>5. c \in 0 .. 15 /\ p \in Seq(Bytes)
    OBVIOUS
  <1> HIDE DEF x, p, c
  <1>6. 128 + c \in Bytes /\ 0 + x.mark = x.mark
    <2>1. \A k \in 0 .. 15 : 128 + k \in Bytes
      BY DEF Bytes
    <2>2. \A k \in Bytes : 0 + k = k
      BY DEF Bytes
    <2> QED  BY <1>4, <1>5, <2>1, <2>2
  <1>7. <<128 + c>> \o (<<x.mark>> \o x.ext) \o p = <<128 + c, x.mark>> \o x.ext \o <<>> \o p
    BY <1>4, <1>5, <1>6, HeadSplit
  <1>8. build_websocket_frame(c, p) = WireBytes(f)
    BY <1>2, <1>3, <1>4, <1>6, <1>7
  <1> QED  BY <1>8 DEF c, p

LEMMA RepliesValid == input \in Inputs => ServerFramesValid
  <1> SUFFICES ASSUME input \in Inputs, input.fn = "reply" PROVE ServerFramesValid
    BY DEF ServerFramesValid
  <1> DEFINE f == [fin |-> TRUE, opcode |-> input.of.opcode, key |-> <<>>,
                   payload |-> input.of.payload]
             g == [f EXCEPT !.opcode = 2]
  <1>1. input.of.opcode \in 0 .. 15 /\ input.of.payload \in Seq(Bytes)
    BY InputType
  <1>2. /\ f.fin = TRUE /\ f.key = <<>> /\ f.payload = input.of.payload
        /\ f.opcode = input.of.opcode
    OBVIOUS
  <1>3. g.fin = TRUE /\ g.key = <<>> /\ g.payload = input.of.payload /\ g.opcode = 2
    OBVIOUS
  <1> HIDE DEF f, g
  <1>4. build_websocket_frame(f.opcode, f.payload) = WireBytes(f)
    BY <1>1, <1>2, BuildsWire
  <1>5. build_websocket_frame(2, g.payload) = WireBytes(g)
    <2>1. 2 \in 0 .. 15
      OBVIOUS
    <2> QED  BY <1>1, <1>3, <2>1, BuildsWire
  <1>6. ws_payload_frame(f.payload) = WireBytes(g)
    BY <1>2, <1>3, <1>5 DEF ws_payload_frame
  <1> QED  BY <1>4, <1>6 DEF ServerFramesValid, f, g

\* For every opcode and every payload build_websocket_frame and send_ws_payload write
\* the frame of RFC 6455, with the shortest form of the length.
THEOREM RepliesAreFrames == Spec => []ServerFramesValid
  <1>1. StreamInv => ServerFramesValid
    BY RepliesValid DEF StreamInv, TypeOK
  <1> QED  BY <1>1, InitInv, StepInv, PTL DEF Spec

\* A frame of zeros with the long form of its length.
LEMMA LengthsWait == input \in Inputs => LegalLengthsWait
  <1> SUFFICES ASSUME input \in Inputs, input.fn = "length" PROVE LegalLengthsWait
    BY DEF LegalLengthsWait
  <1> DEFINE l == input.of.len
             m == input.of.bytes
             ext == BytesOf(l, LongBytes)
             zeros == [i \in 1 .. 4 + m |-> 0]
             buf == <<130, 255>> \o ext \o zeros
             key == [i \in 1 .. 4 |-> 0]
             p == [i \in 1 .. l |-> 0]
             w == WireAs(TRUE, 2, 127, ext, key, p)
  <1>1. l \in Nat /\ l < LegalLength /\ m \in Nat
    <2>1. l \in 0 .. LegalLength - 1 /\ m \in Nat
      BY InputType
    <2> QED  BY <2>1, HeaderFits
  <1> HIDE DEF l, m
  <1>2. 0 \in Bytes /\ 130 \in Bytes /\ 255 \in Bytes
    BY DEF Bytes
  <1>3. LongBytes \in Nat \ {0}
    BY ParsingAssumption
  <1>4. ext \in Seq(Bytes) /\ Len(ext) = LongBytes
    BY <1>1, <1>3, BytesLen
  <1>5. ValueOf(ext) = l
    BY <1>1, <1>3, ReadsBack, HeaderFits, SpanType DEF UsizeSpan
  <1> HIDE DEF ext
  <1>6. p \in Seq(Bytes) /\ Len(p) = l /\ \A i \in 1 .. l : p[i] = 0
    BY <1>1, <1>2, FunctionIsSeq
  <1>7. key \in Keys /\ key # <<>> /\ Len(key) = 4 /\ \A i \in 1 .. 4 : key[i] = 0
    <2>1. key \in [1 .. 4 -> Bytes]
      BY <1>2
    <2>2. Len(key) = 4
      BY <2>1, FunctionIsSeq
    <2> QED  BY <2>1, <2>2 DEF Keys
  <1>8. zeros \in Seq(Bytes) /\ Len(zeros) = 4 + m /\ \A i \in 1 .. 4 + m : zeros[i] = 0
    <2>1. 4 + m \in Nat /\ zeros \in [1 .. 4 + m -> Bytes]
      BY <1>1, <1>2
    <2> QED  BY <2>1, FunctionIsSeq
  <1> HIDE DEF p, key, zeros
  <1>9. Announces(127, ext, Len(p))
    BY <1>3, <1>4, <1>5, <1>6 DEF Announces
  <1>10. w \in Seq(Bytes) /\ Shape(w, TRUE, 2, 127, ext, key, p)
    <2>1. TRUE \in BOOLEAN /\ 2 \in 0 .. 15
      OBVIOUS
    <2> QED  BY <1>6, <1>7, <1>9, <2>1, WireAsIs, ZenonT(30)
  <1> HIDE DEF w
  <1>11. Len(w) = 6 + LongBytes + l
    BY <1>1, <1>3, <1>4, <1>6, <1>7, <1>10 DEF Shape
  <1>12. buf \in Seq(Bytes) /\ FourJoined(buf, <<130, 255>>, ext, <<>>, zeros)
    <2>1. <<130, 255>> \in Seq(Bytes) /\ <<>> \in Seq(Bytes)
      BY <1>2
    <2>2. <<130, 255>> \o ext \in Seq(Bytes)
      BY <1>4, <2>1
    <2>3. (<<130, 255>> \o ext) \o <<>> = <<130, 255>> \o ext
      <3> DEFINE u == <<130, 255>> \o ext
      <3> HIDE DEF u
      <3>1. u \in Seq(Bytes)
        BY <2>2 DEF u
      <3>2. u \o <<>> = u
        BY <3>1
      <3> QED  BY <3>2 DEF u
    <2>4. /\ <<130, 255>> \o ext \o <<>> \o zeros \in Seq(Bytes)
          /\ FourJoined(<<130, 255>> \o ext \o <<>> \o zeros, <<130, 255>>, ext, <<>>, zeros)
      <3> DEFINE h == <<130, 255>>
                 k == <<>>
                 B == Bytes
      <3>1. h \in Seq(B) /\ ext \in Seq(B) /\ k \in Seq(B) /\ zeros \in Seq(B)
        BY <1>4, <1>8, <2>1
      <3> HIDE DEF h, k, B, ext, zeros
      <3>2. h \o ext \o k \o zeros \in Seq(B) /\ FourJoined(h \o ext \o k \o zeros, h, ext, k, zeros)
        BY <3>1, FourParts
      <3> QED  BY <3>2 DEF h, k, B
    <2> QED  BY <2>3, <2>4
  <1> HIDE DEF buf
  <1>13. /\ Len(buf) = 6 + LongBytes + m
         /\ buf[1] = 130 /\ buf[2] = 255
         /\ \A i \in 1 .. LongBytes : buf[2 + i] = ext[i]
         /\ \A i \in 1 .. 4 + m : buf[2 + LongBytes + i] = 0
    <2>1. Len(<<130, 255>>) = 2 /\ Len(<<>>) = 0
      OBVIOUS
    <2>2. <<130, 255>>[1] = 130 /\ <<130, 255>>[2] = 255
      OBVIOUS
    <2>3. Len(buf) = 6 + LongBytes + m
      BY <1>1, <1>3, <1>4, <1>8, <1>12, <2>1 DEF FourJoined
    <2>4. buf[1] = 130 /\ buf[2] = 255
      BY <1>12, <2>1, <2>2 DEF FourJoined
    <2>5. \A i \in 1 .. LongBytes : buf[2 + i] = ext[i]
      BY <1>4, <1>12, <2>1 DEF FourJoined
    <2>6. \A i \in 1 .. 4 + m : buf[2 + LongBytes + i] = 0
      <3> SUFFICES ASSUME NEW i \in 1 .. 4 + m PROVE buf[2 + LongBytes + i] = 0
        OBVIOUS
      <3>1. buf[2 + LongBytes + 0 + i] = zeros[i]
        BY <1>4, <1>8, <1>12, <2>1 DEF FourJoined
      <3>2. 2 + LongBytes + 0 + i = 2 + LongBytes + i
        BY <1>3
      <3> QED  BY <1>8, <3>1, <3>2
    <2> QED  BY <2>3, <2>4, <2>5, <2>6
  <1>14. \A i \in 1 .. l : Mask(p, key)[i] = 0
    <2> SUFFICES ASSUME NEW i \in 1 .. l PROVE Mask(p, key)[i] = 0
      OBVIOUS
    <2>1. ByteXor(0, 0) = 0
      BY DEF ByteXor
    <2>2. DOMAIN p = 1 .. l
      BY <1>6
    <2>3. i \in Nat \ {0} /\ ((i - 1) % 4) + 1 \in 1 .. 4
      BY <1>1
    <2>4. key[((i - 1) % 4) + 1] = 0 /\ p[i] = 0
      BY <1>6, <1>7, <2>3
    <2>5. Mask(p, key)[i] = ByteXor(p[i], key[((i - 1) % 4) + 1])
      BY <1>7, <2>2 DEF Mask
    <2> QED  BY <2>1, <2>4, <2>5
  <1>15. Begins(buf, w)
    <2> SUFFICES ASSUME NEW i \in 1 .. Len(buf), i <= Len(w) PROVE buf[i] = w[i]
      BY DEF Begins
    <2>1. CASE i = 1
      <3>1. w[1] = (IF TRUE THEN 128 ELSE 0) + 2
        BY <1>10 DEF Shape
      <3> QED  BY <1>13, <2>1, <3>1
    <2>2. CASE i = 2
      <3>1. w[2] = (IF key = <<>> THEN 0 ELSE 128) + 127
        BY <1>10 DEF Shape
      <3> QED  BY <1>7, <1>13, <2>2, <3>1
    <2>3. CASE i \in 3 .. 2 + LongBytes
      <3> DEFINE j == i - 2
      <3>1. j \in 1 .. LongBytes /\ 2 + j = i
        BY <1>3, <2>3
      <3> HIDE DEF j
      <3>2. w[2 + j] = ext[j]
        BY <1>4, <1>10, <3>1 DEF Shape
      <3> QED  BY <1>13, <3>1, <3>2
    <2>4. CASE i \in 3 + LongBytes .. 6 + LongBytes
      <3> DEFINE j == i - 2 - LongBytes
      <3>1. j \in 1 .. 4 /\ j \in 1 .. 4 + m /\ 2 + LongBytes + j = i
        BY <1>1, <1>3, <2>4
      <3> HIDE DEF j
      <3>2. w[2 + LongBytes + j] = key[j]
        BY <1>4, <1>7, <1>10, <3>1 DEF Shape
      <3> QED  BY <1>7, <1>13, <3>1, <3>2
    <2>5. CASE i \in 7 + LongBytes .. Len(buf)
      <3> DEFINE j == i - 6 - LongBytes
      <3>1. /\ j \in 1 .. l /\ 2 + LongBytes + 4 + j = i
            /\ 4 + j \in 1 .. 4 + m /\ 2 + LongBytes + (4 + j) = i
        BY <1>1, <1>3, <1>11, <1>13, <2>5
      <3> HIDE DEF j
      <3>2. w[2 + LongBytes + 4 + j] = Mask(p, key)[j]
        BY <1>4, <1>6, <1>7, <1>10, <3>1 DEF Shape
      <3>3. buf[2 + LongBytes + (4 + j)] = 0
        BY <1>13, <3>1
      <3> QED  BY <1>14, <3>1, <3>2, <3>3
    <2> QED  BY <1>3, <1>13, <2>1, <2>2, <2>3, <2>4, <2>5
  <1>16. Parses(buf, Len(w), TRUE, 2, p)
    <2>1. TRUE \in BOOLEAN /\ 2 \in 0 .. 15 /\ Len(p) < LegalLength
      BY <1>1, <1>6
    <2> QED  BY <1>6, <1>7, <1>9, <1>10, <1>12, <1>15, <2>1, ParsesPrefix
  <1>17. Len(buf) < Len(w) <=> m < l
    BY <1>1, <1>3, <1>11, <1>13
  <1> DEFINE q == parse_websocket_frame(buf)
  <1>18. IF m < l THEN q = NoFrame ELSE q.kind = "frame" /\ Len(q.payload) = l
    <2>1. CASE m < l
      BY <1>16, <1>17, <2>1 DEF Parses
    <2>2. CASE ~(m < l)
      <3>1. q = Frame(Len(w), TRUE, 2, p)
        BY <1>16, <1>17, <2>2 DEF Parses
      <3>2. q.kind = "frame" /\ q.payload = p
        BY <3>1 DEF Frame
      <3> QED  BY <1>6, <2>2, <3>2
    <2> QED  BY <2>1, <2>2
  <1> QED  BY <1>18 DEF LegalLengthsWait, l, m, buf, ext, zeros

\* A length with its top bit clear is never wrapped, whatever the width of a usize:
\* parse_websocket_frame waits for exactly so many bytes.
THEOREM LegalLengthsNeverWrap == Spec => []LegalLengthsWait
  <1>1. StreamInv => LegalLengthsWait
    BY LengthsWait DEF StreamInv, TypeOK
  <1> QED  BY <1>1, InitInv, StepInv, PTL DEF Spec

-----------------------------------------------------------------------------
(* The key of a request.                                                   *)

HeaderLines == [name : Seq(Bytes), value : Seq(Bytes)]

LEMMA LineIs ==
  ASSUME NEW h \in HeaderLines
  PROVE  /\ Line(h) \in Seq(Bytes)
         /\ FourJoined(Line(h), h.name, <<Colon, Space>>, h.value, <<CR, LF>>)
  <1>1. h.name \in Seq(Bytes) /\ h.value \in Seq(Bytes)
    BY DEF HeaderLines
  <1>2. Colon \in Bytes /\ Space \in Bytes /\ CR \in Bytes /\ LF \in Bytes
    BY DEF Colon, Space, CR, LF, Bytes
  <1>3. <<Colon, Space>> \in Seq(Bytes) /\ <<CR, LF>> \in Seq(Bytes)
    BY <1>2
  <1> QED  BY <1>1, <1>3, FourParts DEF Line

Lines(hs) == [i \in DOMAIN hs |-> Line(hs[i])]

LEMMA LinesType ==
  ASSUME NEW hs \in Seq(HeaderLines)
  PROVE  /\ Lines(hs) \in Seq(Seq(Bytes)) /\ Len(Lines(hs)) = Len(hs)
         /\ \A i \in 1 .. Len(hs) : Lines(hs)[i] = Line(hs[i])
  <1> DEFINE Z == Seq(Bytes)
  <1>1. ASSUME NEW i \in 1 .. Len(hs) PROVE Line(hs[i]) \in Z
    BY LineIs
  <1>2. DOMAIN hs = 1 .. Len(hs) /\ Len(hs) \in Nat
    OBVIOUS
  <1> HIDE DEF Z
  <1>3. Lines(hs) \in [1 .. Len(hs) -> Z]
    BY <1>1, <1>2 DEF Lines
  <1>4. Lines(hs) \in Seq(Z) /\ Len(Lines(hs)) = Len(hs)
    BY <1>2, <1>3, FunctionIsSeq
  <1>5. \A i \in 1 .. Len(hs) : Lines(hs)[i] = Line(hs[i])
    BY <1>2 DEF Lines
  <1> QED  BY <1>4, <1>5 DEF Z

LEMMA LineStartIs ==
  ASSUME NEW hs \in Seq(HeaderLines), NEW k \in 1 .. Len(hs)
  PROVE  LineStart(hs, k) = 3 + Len(FrontOf(Lines(hs), k - 1))
  <1> DEFINE Z == Seq(Bytes)
             a == [j \in 1 .. k - 1 |-> Line(hs[j])]
             b == SubSeq(Lines(hs), 1, k - 1)
  <1>0. Len(hs) \in Nat /\ k - 1 \in Nat /\ k - 1 <= Len(hs)
    OBVIOUS
  <1>1. /\ Lines(hs) \in Seq(Z) /\ Len(Lines(hs)) = Len(hs)
        /\ \A i \in 1 .. Len(hs) : Lines(hs)[i] = Line(hs[i])
    BY LinesType
  <1>2. ASSUME NEW i \in 1 .. Len(hs) PROVE Line(hs[i]) \in Z
    BY LineIs
  <1> HIDE DEF Z
  <1>3. a \in [1 .. k - 1 -> Z] /\ \A j \in 1 .. k - 1 : a[j] = Line(hs[j])
    BY <1>0, <1>2
  <1>4. a \in Seq(Z) /\ Len(a) = k - 1
    BY <1>0, <1>3, FunctionIsSeq
  <1>5. b \in Seq(Z) /\ Len(b) = k - 1 /\ \A j \in 1 .. k - 1 : b[j] = Lines(hs)[j]
    BY <1>0, <1>1
  <1>6. LineStart(hs, k) = 3 + Len(FlattenSeq(a))
    BY DEF LineStart
  <1> HIDE DEF a, b
  <1>7. ASSUME NEW j \in 1 .. Len(a) PROVE a[j] = b[j]
    BY <1>0, <1>1, <1>3, <1>4, <1>5
  <1>8. a = b
    BY <1>4, <1>5, <1>7, SeqEqual
  <1> QED  BY <1>6, <1>8 DEF b, FrontOf

\* x stands in T behind place s.
Stands(T, s, x) == s + Len(x) <= Len(T) /\ \A q \in 1 .. Len(x) : T[s + q] = x[q]

LEMMA TextIs ==
  ASSUME NEW hs \in Seq(HeaderLines)
  PROVE  RequestText(hs) \in Seq(Bytes) /\ Stands(RequestText(hs), 3, FlattenSeq(Lines(hs)))
  <1> DEFINE h == <<71, CR, LF>>
             f == FlattenSeq(Lines(hs))
             e == <<CR, LF>>
             T == RequestText(hs)
  <1>1. h \in Seq(Bytes) /\ e \in Seq(Bytes) /\ Len(h) = 3 /\ Len(e) = 2
    <2>1. CR \in Bytes /\ LF \in Bytes /\ 71 \in Bytes
      BY DEF CR, LF, Bytes
    <2> QED  BY <2>1
  <1>2. f \in Seq(Bytes)
    BY LinesType, FlattenType
  <1>3. T = (h \o f) \o e
    BY DEF RequestText, Lines
  <1> HIDE DEF h, f, e, T
  <1>4. h \o f \in Seq(Bytes) /\ Joined(h \o f, h, f)
    BY <1>1, <1>2, TwoParts
  <1> DEFINE g == h \o f
  <1> HIDE DEF g
  <1>5. g \in Seq(Bytes) /\ Joined(g, h, f) /\ T = g \o e
    BY <1>3, <1>4 DEF g
  <1>6. g \o e \in Seq(Bytes) /\ Joined(g \o e, g, e)
    BY <1>1, <1>5, TwoParts
  <1>7. Len(f) \in Nat /\ Len(T) = 3 + Len(f) + 2 /\ Len(g) = 3 + Len(f)
    BY <1>1, <1>2, <1>5, <1>6 DEF Joined
  <1>8. ASSUME NEW q \in 1 .. Len(f) PROVE T[3 + q] = f[q]
    <2>1. 3 + q \in 1 .. Len(g)
      BY <1>7
    <2>2. T[3 + q] = g[3 + q]
      BY <1>5, <1>6, <2>1 DEF Joined
    <2>3. g[3 + q] = f[q]
      BY <1>1, <1>5 DEF Joined
    <2> QED  BY <2>2, <2>3
  <1>9. Stands(T, 3, f) /\ T \in Seq(Bytes)
    BY <1>5, <1>6, <1>7, <1>8 DEF Stands
  <1> QED  BY <1>9 DEF T, f

\* A header line stands at its start, and the starts go up.
LEMMA LineAt ==
  ASSUME NEW hs \in Seq(HeaderLines), NEW k \in 1 .. Len(hs)
  PROVE  /\ LineStart(hs, k) \in Nat
         /\ Stands(RequestText(hs), LineStart(hs, k), Line(hs[k]))
         /\ \A g \in 1 .. k : LineStart(hs, g) <= LineStart(hs, k)
  <1> DEFINE ss == Lines(hs)
             F(i) == FrontOf(ss, i)
             N == Len(hs)
             T == RequestText(hs)
             x == Line(hs[k])
             s == Len(F(k - 1))
  <1>0. N \in Nat /\ k \in 1 .. N /\ k - 1 \in 0 .. N /\ k \in 0 .. N /\ N \in 0 .. N
    OBVIOUS
  <1>1. ss \in Seq(Seq(Bytes)) /\ Len(ss) = N /\ ss[k] = x
    BY LinesType
  <1>2. T \in Seq(Bytes) /\ Stands(T, 3, FlattenSeq(ss))
    BY TextIs
  <1>3. \A g \in 1 .. N : LineStart(hs, g) = 3 + Len(F(g - 1))
    BY LineStartIs
  <1>4. x \in Seq(Bytes)
    BY LineIs
  <1> HIDE DEF ss, N, T, x
  <1>5. F(N) = FlattenSeq(ss)
    <2>1. SubSeq(ss, 1, N) = ss
      <3> DEFINE Z == Seq(Bytes)
      <3>1. ss \in Seq(Z)
        BY <1>1
      <3> HIDE DEF Z
      <3> QED  BY <1>1, <3>1
    <2> QED  BY <2>1 DEF FrontOf
  <1>6. \A i \in 0 .. N : F(i) \in Seq(Bytes)
    BY <1>1, FrontType
  <1>7. F(k) = F(k - 1) \o x
    <2>1. k \in 1 .. Len(ss)
      BY <1>0, <1>1
    <2> QED  BY <1>1, <2>1, FrontStep
  <1>8. \A i \in 0 .. N : \A j \in i .. N : Heads(F(i), F(j))
    BY <1>1, FrontHeads
  <1> HIDE DEF F
  <1>9. Joined(F(k), F(k - 1), x)
    BY <1>0, <1>4, <1>6, <1>7, TwoParts
  <1>10. s \in Nat /\ Len(x) \in Nat /\ Len(F(k)) = s + Len(x) /\ Len(F(N)) \in Nat
    BY <1>0, <1>4, <1>6, <1>9 DEF Joined
  <1>11. Heads(F(k), F(N))
    <2>1. N \in k .. N
      BY <1>0
    <2> QED  BY <1>0, <1>8, <2>1
  <1>12. Stands(T, 3 + s, x)
    <2>1. 3 + s + Len(x) <= Len(T)
      <3>1. 3 + Len(F(N)) <= Len(T) /\ Len(F(k)) <= Len(F(N))
        BY <1>2, <1>5, <1>11 DEF Stands, Heads
      <3>2. Len(T) \in Nat
        BY <1>2
      <3> QED  BY <1>10, <3>1, <3>2
    <2>2. ASSUME NEW q \in 1 .. Len(x) PROVE T[3 + s + q] = x[q]
      <3>1. s + q \in 1 .. Len(F(k)) /\ s + q \in 1 .. Len(F(N)) /\ 3 + (s + q) = 3 + s + q
        BY <1>10, <1>11 DEF Heads
      <3>2. T[3 + (s + q)] = F(N)[s + q]
        BY <1>2, <1>5, <3>1 DEF Stands
      <3>3. F(N)[s + q] = F(k)[s + q]
        BY <1>11, <3>1 DEF Heads
      <3>4. F(k)[s + q] = x[q]
        BY <1>9 DEF Joined
      <3> QED  BY <3>1, <3>2, <3>3, <3>4
    <2> QED  BY <2>1, <2>2 DEF Stands
  <1>13. LineStart(hs, k) = 3 + s
    BY <1>0, <1>3
  <1>14. ASSUME NEW g \in 1 .. k PROVE LineStart(hs, g) <= LineStart(hs, k)
    <2>1. g \in 1 .. N /\ g - 1 \in 0 .. N /\ k - 1 \in (g - 1) .. N
      BY <1>0
    <2>2. Heads(F(g - 1), F(k - 1))
      BY <1>8, <2>1
    <2>3. Len(F(g - 1)) <= s /\ Len(F(g - 1)) \in Nat
      BY <1>6, <2>1, <2>2 DEF Heads
    <2>4. LineStart(hs, g) = 3 + Len(F(g - 1))
      BY <1>3, <2>1
    <2> HIDE DEF s
    <2> QED  BY <1>10, <1>13, <2>3, <2>4
  <1> QED  BY <1>10, <1>12, <1>13, <1>14 DEF T, x

LEMMA HeadsIsPrefix ==
  ASSUME NEW S, NEW s \in Seq(S), NEW t \in Seq(S), Heads(s, t)
  PROVE  IsPrefix(s, t) /\ (Len(s) = Len(t) => s = t)
  <1> DEFINE a == SubSeq(s, 1, Len(s))
             b == SubSeq(t, 1, Len(s))
  <1>1. Len(s) \in Nat /\ Len(t) \in Nat /\ Len(s) <= Len(t)
    BY DEF Heads
  <1>2. a \in Seq(S) /\ Len(a) = Len(s) /\ \A i \in 1 .. Len(s) : a[i] = s[i]
    BY <1>1
  <1>3. b \in Seq(S) /\ Len(b) = Len(s) /\ \A i \in 1 .. Len(s) : b[i] = t[i]
    BY <1>1
  <1>4. a = b
    <2> HIDE DEF a, b
    <2>1. \A i \in 1 .. Len(a) : a[i] = b[i]
      BY <1>2, <1>3 DEF Heads
    <2> QED  BY <1>2, <1>3, <2>1, SeqEqual
  <1>5. ASSUME Len(s) = Len(t) PROVE s = t
    <2>1. \A i \in 1 .. Len(s) : s[i] = t[i]
      BY DEF Heads
    <2> QED  BY <1>5, <2>1, SeqEqual
  <1> QED  BY <1>1, <1>4, <1>5 DEF IsPrefix

Kept(s) == {i \in DOMAIN s : s[i] # Space}

LEMMA TrimIs ==
  ASSUME NEW s
  PROVE  trim(s) = IF Kept(s) = {} THEN <<>> ELSE SubSeq(s, Min(Kept(s)), Max(Kept(s)))
  BY DEF trim, Kept

LEMMA KeptIs ==
  ASSUME NEW s \in Seq(Bytes)
  PROVE  /\ Kept(s) = {i \in 1 .. Len(s) : s[i] # Space}
         /\ Kept(s) # {} => /\ Min(Kept(s)) \in Kept(s) /\ Max(Kept(s)) \in Kept(s)
                            /\ \A i \in Kept(s) : Min(Kept(s)) <= i /\ Max(Kept(s)) >= i
  <1>1. DOMAIN s = 1 .. Len(s) /\ Len(s) \in Nat
    OBVIOUS
  <1>2. Kept(s) = {i \in 1 .. Len(s) : s[i] # Space}
    BY <1>1 DEF Kept
  <1>3. Kept(s) \subseteq Nat /\ Kept(s) \subseteq 0 .. Len(s)
    BY <1>1, <1>2
  <1>4. Kept(s) # {} => Min(Kept(s)) \in Kept(s) /\ \A i \in Kept(s) : Min(Kept(s)) <= i
    BY <1>3, MinIs
  <1>5. Kept(s) # {} => Max(Kept(s)) \in Kept(s) /\ \A i \in Kept(s) : Max(Kept(s)) >= i
    BY <1>1, <1>3, MaxIs
  <1> QED  BY <1>2, <1>4, <1>5

LEMMA TrimType ==
  ASSUME NEW s \in Seq(Bytes)
  PROVE  trim(s) \in Seq(Bytes)
  <1>1. CASE Kept(s) = {}
    <2>1. trim(s) = <<>>
      BY <1>1, TrimIs
    <2> QED  BY <2>1
  <1>2. CASE Kept(s) # {}
    <2>1. Min(Kept(s)) \in 1 .. Len(s) /\ Max(Kept(s)) \in 1 .. Len(s)
      BY <1>2, KeptIs
    <2> DEFINE a == Min(Kept(s))
               b == Max(Kept(s))
    <2>2. trim(s) = SubSeq(s, a, b)
      BY <1>2, TrimIs
    <2> HIDE DEF a, b
    <2> QED  BY <2>1, <2>2 DEF a, b
  <1> QED  BY <1>1, <1>2

\* The first byte of v that is no space has place a, if there is one.
StartsAt(v, a) == (\A q \in 1 .. a - 1 : v[q] = Space) /\ (a <= Len(v) => v[a] # Space)

\* A piece of v that begins there.
LEMMA TrimPiece ==
  ASSUME NEW v \in Seq(Bytes), NEW a \in 1 .. Len(v) + 1, NEW b \in (a - 1) .. Len(v),
         StartsAt(v, a)
  PROVE  /\ IsPrefix(trim(SubSeq(v, a, b)), trim(v))
         /\ b = Len(v) => trim(SubSeq(v, a, b)) = trim(v)
  <1> DEFINE key == SubSeq(v, a, b)
  <1>0. Len(v) \in Nat
    OBVIOUS
  <1>1. CASE b = a - 1
    <2>1. key = <<>>
      BY <1>0, <1>1
    <2>2. Kept(key) = {}
      BY <2>1 DEF Kept
    <2>3. trim(key) = <<>>
      BY <2>2, TrimIs
    <2>4. IsPrefix(trim(key), trim(v))
      <3>1. <<>> \in Seq(Bytes) /\ Heads(<<>>, trim(v))
        <4>1. Len(trim(v)) \in Nat
          BY TrimType
        <4> QED  BY <4>1 DEF Heads
      <3>2. IsPrefix(<<>>, trim(v))
        BY <3>1, TrimType, HeadsIsPrefix
      <3> QED  BY <2>3, <3>2
    <2>5. ASSUME b = Len(v) PROVE trim(v) = <<>>
      <3>1. \A i \in 1 .. Len(v) : v[i] = Space
        BY <1>0, <1>1, <2>5 DEF StartsAt
      <3>2. Kept(v) = {}
        BY <3>1, KeptIs
      <3> QED  BY <3>2, TrimIs
    <2> QED  BY <2>3, <2>4, <2>5
  <1>2. CASE b >= a
    <2> DEFINE KV == Kept(v)
               KK == Kept(key)
               z == Max(KV)
               y == Max(KK)
    <2>1. a \in 1 .. Len(v) /\ b \in a .. Len(v) /\ v[a] # Space
      BY <1>0, <1>2 DEF StartsAt
    <2>2. /\ key \in Seq(Bytes) /\ Len(key) = b - a + 1
          /\ \A q \in 1 .. b - a + 1 : key[q] = v[a + q - 1]
      BY <1>0, <2>1
    <2>3. KV = {i \in 1 .. Len(v) : v[i] # Space} /\ KK = {i \in 1 .. b - a + 1 : key[i] # Space}
      BY <2>2, KeptIs
    <2>4. a \in KV
      BY <2>1, <2>3
    <2>5. 1 \in KK
      <3>1. 1 \in 1 .. b - a + 1 /\ a + 1 - 1 = a
        BY <2>1
      <3> QED  BY <2>1, <2>2, <2>3, <3>1
    <2>6. /\ Min(KV) \in KV /\ z \in KV /\ \A i \in KV : Min(KV) <= i /\ z >= i
      BY <2>4, KeptIs
    <2>7. /\ Min(KK) \in KK /\ y \in KK /\ \A i \in KK : Min(KK) <= i /\ y >= i
      BY <2>2, <2>5, KeptIs
    <2>8. trim(v) = SubSeq(v, Min(KV), z) /\ trim(key) = SubSeq(key, Min(KK), y)
      BY <2>4, <2>5, TrimIs
    <2> HIDE DEF z, y
    <2>9. Min(KV) = a
      <3>1. Min(KV) \in 1 .. Len(v) /\ v[Min(KV)] # Space /\ Min(KV) <= a
        BY <2>3, <2>4, <2>6
      <3>2. ~(Min(KV) \in 1 .. a - 1)
        BY <3>1 DEF StartsAt
      <3> HIDE DEF KV
      <3> QED  BY <2>1, <3>1, <3>2
    <2>10. Min(KK) = 1
      <3>1. Min(KK) \in 1 .. b - a + 1 /\ Min(KK) <= 1
        BY <2>3, <2>5, <2>7
      <3> HIDE DEF KK
      <3> QED  BY <3>1
    <2>11. y \in 1 .. b - a + 1 /\ key[y] # Space /\ z \in 1 .. Len(v) /\ v[z] # Space /\ z >= a
      BY <2>3, <2>4, <2>6, <2>7
    <2>12. a + y - 1 <= z
      <3>1. v[a + y - 1] = key[y] /\ a + y - 1 \in 1 .. Len(v)
        BY <1>0, <2>1, <2>2, <2>11
      <3>2. a + y - 1 \in KV
        BY <2>3, <2>11, <3>1
      <3> HIDE DEF KV
      <3> QED  BY <2>1, <2>6, <2>11, <3>2
    <2> DEFINE s == SubSeq(key, 1, y)
               t == SubSeq(v, a, z)
    <2>13. s \in Seq(Bytes) /\ Len(s) = y /\ \A q \in 1 .. y : s[q] = v[a + q - 1]
      <3>1. s \in Seq(Bytes) /\ Len(s) = y /\ \A q \in 1 .. y : s[q] = key[q]
        <4>1. key \in Seq(Bytes) /\ y \in 1 .. Len(key)
          BY <2>2, <2>11
        <4> QED  BY <4>1
      <3> HIDE DEF s
      <3>2. \A q \in 1 .. y : q \in 1 .. b - a + 1
        BY <2>1, <2>11
      <3> QED  BY <2>2, <3>1, <3>2
    <2>14. t \in Seq(Bytes) /\ Len(t) = z - a + 1 /\ \A q \in 1 .. z - a + 1 : t[q] = v[a + q - 1]
      BY <1>0, <2>1, <2>11
    <2>15. trim(key) = s /\ trim(v) = t
      BY <2>8, <2>9, <2>10
    <2> HIDE DEF s, t
    <2>16. Heads(s, t)
      <3>1. y \in Nat /\ z - a + 1 \in Nat /\ y <= z - a + 1
        BY <1>0, <2>1, <2>11, <2>12
      <3>2. \A q \in 1 .. y : q \in 1 .. z - a + 1
        BY <3>1
      <3>3. \A q \in 1 .. y : t[q] = s[q]
        BY <2>13, <2>14, <3>2
      <3> QED  BY <2>13, <2>14, <3>1, <3>3 DEF Heads
    <2>17. IsPrefix(s, t) /\ (Len(s) = Len(t) => s = t)
      BY <2>13, <2>14, <2>16, HeadsIsPrefix
    <2>18. ASSUME b = Len(v) PROVE Len(s) = Len(t)
      <3>1. z - a + 1 \in 1 .. b - a + 1 /\ a + (z - a + 1) - 1 = z
        BY <1>0, <2>1, <2>11, <2>18
      <3>2. z - a + 1 \in KK
        BY <2>2, <2>3, <2>11, <3>1
      <3>3. y >= z - a + 1
        BY <2>7, <3>2
      <3> HIDE DEF KK, KV
      <3> QED  BY <2>1, <2>11, <2>12, <2>13, <2>14, <3>1, <3>3
    <2> QED  BY <2>15, <2>17, <2>18
  <1> QED  BY <1>0, <1>1, <1>2

\* The name stands in T behind place s and nowhere before, and a value without CR and
\* colon behind it.
OneLine(T, s, name, v) ==
  LET i0 == s + Len(name)
      e  == i0 + 2 + Len(v)
  IN /\ e + 2 <= Len(T)
     /\ SubSeq(T, s + 1, i0) = name
     /\ \A i \in Len(name) .. Len(T) : SubSeq(T, i - Len(name) + 1, i) = name => i >= i0
     /\ T[i0 + 1] = Colon /\ T[i0 + 2] = Space
     /\ \A q \in 1 .. Len(v) : T[i0 + 2 + q] = v[q] /\ v[q] \notin {CR, Colon}
     /\ T[e + 1] = CR /\ T[e + 2] = LF

\* What find_header_value finds.
Found(t, name) ==
  {i \in Len(name) .. Len(t) - 1 : SubSeq(t, i - Len(name) + 1, i) = name}
ValueStart(t, i) ==
  Min({m \in i .. Len(t) : m = Len(t) \/ t[m + 1] \notin {Colon, Space}})
LineEnds(t, j) == {m \in j .. Len(t) - 2 : t[m + 1] = CR /\ t[m + 2] = LF}
ValueEnd(t, j) ==
  IF LineEnds(t, j) = {} THEN Max({j, Len(t) - 1}) ELSE Min(LineEnds(t, j))

LEMMA FindIs ==
  ASSUME NEW t, NEW name
  PROVE  /\ Found(t, name) = {} => find_header_value(t, name) = None
         /\ Found(t, name) # {} =>
              LET j == ValueStart(t, Min(Found(t, name)))
              IN find_header_value(t, name) = SubSeq(t, j + 1, ValueEnd(t, j))
  BY DEF find_header_value, Found, ValueStart, LineEnds, ValueEnd, FirstOf

\* x is what stands in s from place j + 1 to place k.
PieceOf(x, s, j, k) == Len(x) = k - j /\ \A q \in 1 .. k - j : x[q] = s[j + q]

LEMMA PieceIs ==
  ASSUME NEW S, NEW s \in Seq(S), NEW j \in Nat, NEW k \in Nat, j <= k, k <= Len(s)
  PROVE  SubSeq(s, j + 1, k) \in Seq(S) /\ PieceOf(SubSeq(s, j + 1, k), s, j, k)
  BY DEF PieceOf

\* Pieces of a beginning of T are pieces of T.
LEMMA SameBeginning ==
  ASSUME NEW T \in Seq(Bytes), NEW n \in 0 .. Len(T), NEW t, t = SubSeq(T, 1, n),
         NEW L \in Nat, NEW i \in L .. n
  PROVE  SubSeq(t, i - L + 1, i) = SubSeq(T, i - L + 1, i)
  <1>a. Len(T) \in Nat /\ n \in Nat
    OBVIOUS
  <1>b. t \in Seq(Bytes) /\ Len(t) = n /\ \A q \in 1 .. n : t[q] = T[q]
    BY <1>a
  <1> DEFINE a == SubSeq(t, i - L + 1, i)
             b == SubSeq(T, i - L + 1, i)
  <1>1. i \in Nat /\ i <= n /\ n <= Len(T) /\ i - L + 1 \in Nat \ {0} /\ i - L + 1 >= 1
    BY <1>a
  <1>2. a \in Seq(Bytes) /\ Len(a) = L /\ \A q \in 1 .. L : a[q] = t[i - L + q]
    BY <1>a, <1>b, <1>1
  <1>3. b \in Seq(Bytes) /\ Len(b) = L /\ \A q \in 1 .. L : b[q] = T[i - L + q]
    BY <1>a, <1>1
  <1> HIDE DEF a, b
  <1>4. ASSUME NEW q \in 1 .. L PROVE a[q] = b[q]
    <2>1. i - L + q \in 1 .. n
      BY <1>a, <1>1
    <2> QED  BY <1>b, <1>2, <1>3, <2>1
  <1>5. a = b
    BY <1>2, <1>3, <1>4, SeqEqual
  <1> QED  BY <1>5 DEF a, b

\* The first place of the name in a beginning of T.
LEMMA FirstFound ==
  ASSUME NEW T \in Seq(Bytes), NEW s \in Nat, NEW name \in Seq(Bytes), NEW v \in Seq(Bytes),
         OneLine(T, s, name, v), NEW n \in 0 .. Len(T), NEW t, t = SubSeq(T, 1, n)
  PROVE  /\ n <= s + Len(name) => Found(t, name) = {}
         /\ n > s + Len(name) => Found(t, name) # {} /\ Min(Found(t, name)) = s + Len(name)
  <1> DEFINE L == Len(name)
             i0 == s + L
             F == Found(t, name)
  <1>0. L \in Nat /\ Len(T) \in Nat /\ Len(v) \in Nat
    OBVIOUS
  <1>1. t \in Seq(Bytes) /\ Len(t) = n /\ \A i \in 1 .. n : t[i] = T[i]
    BY <1>0
  <1>2. ASSUME NEW i \in L .. n PROVE SubSeq(t, i - L + 1, i) = SubSeq(T, i - L + 1, i)
    <2> HIDE DEF L
    <2> QED  BY <1>0, SameBeginning
  <1>3. F = {i \in L .. n - 1 : SubSeq(T, i - L + 1, i) = name}
    <2>1. F = {i \in L .. n - 1 : SubSeq(t, i - L + 1, i) = name}
      BY <1>1 DEF Found
    <2>2. \A i \in L .. n - 1 : i \in L .. n
      BY <1>0
    <2> HIDE DEF L, F
    <2> QED  BY <1>2, <2>1, <2>2
  <1>4. ASSUME NEW i \in F PROVE i >= i0 /\ i \in Nat /\ i <= n - 1
    <2>1. i \in L .. n - 1 /\ SubSeq(T, i - L + 1, i) = name
      BY <1>3
    <2>2. i \in L .. Len(T)
      BY <1>0, <2>1
    <2> QED  BY <1>0, <2>1, <2>2 DEF OneLine
  <1>5. ASSUME n > i0 PROVE i0 \in F
    <2>1. i0 \in L .. n - 1 /\ i0 - L + 1 = s + 1
      BY <1>0, <1>5
    <2>2. SubSeq(T, s + 1, i0) = name
      BY DEF OneLine
    <2> QED  BY <1>3, <2>1, <2>2
  <1>6. F \subseteq Nat
    BY <1>4
  <1> HIDE DEF F
  <1>7. ASSUME n <= i0 PROVE F = {}
    BY <1>0, <1>4, <1>7
  <1>8. ASSUME n > i0 PROVE F # {} /\ Min(F) = i0
    <2>1. Min(F) \in F /\ Min(F) <= i0
      BY <1>5, <1>6, <1>8, MinIs
    <2>2. Min(F) >= i0 /\ Min(F) \in Nat
      BY <1>4, <2>1
    <2> QED  BY <1>0, <1>5, <1>8, <2>1, <2>2
  <1> QED  BY <1>7, <1>8 DEF F

\* Where its value, which lies before place e, begins and ends.
Ranges(t, n, i0, e, j, k) ==
  /\ j \in i0 .. n /\ j <= e /\ k \in j .. e /\ k <= n
  /\ \A m \in i0 .. j - 1 : t[m + 1] \in {Colon, Space}
  /\ j < n => t[j + 1] \notin {Colon, Space}
  /\ j = n => k = n
  /\ n > e => k = e

LEMMA ValueRange ==
  ASSUME NEW T \in Seq(Bytes), NEW s \in Nat, NEW name \in Seq(Bytes), NEW v \in Seq(Bytes),
         OneLine(T, s, name, v), NEW n \in 0 .. Len(T), NEW t, t = SubSeq(T, 1, n),
         NEW i0, i0 = s + Len(name), n > i0, NEW j, j = ValueStart(t, i0),
         NEW k, k = ValueEnd(t, j)
  PROVE  Ranges(t, n, i0, i0 + 2 + Len(v), j, k)
  <1> DEFINE e == i0 + 2 + Len(v)
             J == {m \in i0 .. Len(t) : m = Len(t) \/ t[m + 1] \notin {Colon, Space}}
             E == LineEnds(t, j)
  <1>0. i0 \in Nat /\ Len(T) \in Nat /\ Len(v) \in Nat /\ e \in Nat /\ e = i0 + 2 + Len(v)
    OBVIOUS
  <1>1. t \in Seq(Bytes) /\ Len(t) = n /\ \A i \in 1 .. n : t[i] = T[i]
    BY <1>0
  <1>2. /\ e + 2 <= Len(T) /\ T[i0 + 1] = Colon /\ T[i0 + 2] = Space
        /\ \A q \in 1 .. Len(v) : T[i0 + 2 + q] = v[q] /\ v[q] \notin {CR, Colon}
        /\ T[e + 1] = CR /\ T[e + 2] = LF
    BY DEF OneLine
  <1> HIDE DEF e
  <1>3. J \subseteq Nat /\ n \in J
    BY <1>0, <1>1
  <1>4. j \in J /\ \A m \in J : j <= m
    <2>1. j = Min(J)
      BY DEF ValueStart
    <2> HIDE DEF J
    <2> QED  BY <1>3, <2>1, MinIs
  <1>5. j \in i0 .. n /\ (j < n => t[j + 1] \notin {Colon, Space})
    BY <1>0, <1>1, <1>4
  <1>6. ASSUME NEW m \in i0 .. j - 1 PROVE t[m + 1] \in {Colon, Space}
    <2>1. m \notin J /\ m \in i0 .. n /\ m # n
      <3> HIDE DEF J
      <3> QED  BY <1>0, <1>4, <1>5
    <2> QED  BY <1>1, <2>1
  <1>7. j <= e
    <2>1. CASE n <= e
      BY <1>0, <1>5, <2>1
    <2>2. CASE n > e
      <3>1. e \in i0 .. n /\ t[e + 1] = CR
        <4>1. e \in i0 .. n /\ e + 1 \in 1 .. n
          BY <1>0, <2>2
        <4> QED  BY <1>1, <1>2, <4>1
      <3>2. e \in J
        BY <1>1, <3>1 DEF CR, Colon, Space
      <3> HIDE DEF J
      <3> QED  BY <1>4, <3>2
    <2> QED  BY <1>0, <2>1, <2>2
  <1>8. ASSUME NEW m \in j .. n - 1, m < e PROVE t[m + 1] # CR
    <2>1. m + 1 \in 1 .. n /\ t[m + 1] = T[m + 1]
      BY <1>0, <1>1, <1>5
    <2>2. CASE m = i0
      BY <1>2, <2>1, <2>2 DEF CR, Colon
    <2>3. CASE m = i0 + 1
      <3>1. m + 1 = i0 + 2
        BY <1>0, <2>3
      <3> QED  BY <1>2, <2>1, <3>1 DEF CR, Space
    <2>4. CASE m >= i0 + 2
      <3> DEFINE q == m - i0 - 1
      <3>1. q \in 1 .. Len(v) /\ i0 + 2 + q = m + 1
        BY <1>0, <1>5, <1>8, <2>4
      <3> HIDE DEF q
      <3>2. T[i0 + 2 + q] = v[q] /\ v[q] \notin {CR, Colon}
        BY <1>2, <3>1, Zenon
      <3> QED  BY <2>1, <3>1, <3>2
    <2>5. m = i0 \/ m = i0 + 1 \/ m >= i0 + 2
      <3>1. j \in Int /\ j >= i0 /\ n \in Int
        BY <1>0, <1>5
      <3>2. m \in Int /\ m >= i0
        BY <1>0, <3>1
      <3> QED  BY <1>0, <3>2
    <2> QED  BY <2>2, <2>3, <2>4, <2>5
  <1>9. E = {m \in j .. n - 2 : t[m + 1] = CR /\ t[m + 2] = LF}
    BY <1>1 DEF LineEnds
  <1>10. CASE n >= e + 2
    <2>1. e \in j .. n - 2 /\ t[e + 1] = CR /\ t[e + 2] = LF
      BY <1>0, <1>1, <1>2, <1>5, <1>7, <1>10
    <2>2. e \in E
      BY <1>9, <2>1
    <2>3. \A m \in E : m >= e
      <3> SUFFICES ASSUME NEW m \in E, m < e PROVE FALSE
        BY <1>0, <1>5, <1>9
      <3>1. m \in j .. n - 2 /\ t[m + 1] = CR
        BY <1>9
      <3>2. m \in j .. n - 1
        BY <1>0, <1>5, <3>1
      <3> QED  BY <1>8, <3>1, <3>2
    <2>4. E \subseteq Nat
      BY <1>0, <1>5, <1>9
    <2> HIDE DEF E
    <2>5. Min(E) \in E /\ Min(E) <= e
      BY <2>2, <2>4, MinIs
    <2>6. Min(E) = e
      <3>1. Min(E) >= e /\ Min(E) \in Nat /\ Min(E) <= e
        BY <2>3, <2>4, <2>5
      <3> QED  BY <1>0, <3>1
    <2>7. k = e
      BY <2>2, <2>6 DEF ValueEnd, E
    <2>8. k \in j .. e /\ k <= n /\ (j = n => k = n)
      BY <1>0, <1>5, <1>7, <1>10, <2>7
    <2> QED  BY <1>5, <1>6, <1>7, <2>7, <2>8 DEF Ranges, e
  <1>11. CASE n <= e + 1
    <2>1. E = {}
      <3> SUFFICES ASSUME NEW m \in E PROVE FALSE
        OBVIOUS
      <3>1. m \in j .. n - 2 /\ t[m + 1] = CR
        BY <1>9
      <3>2. m \in j .. n - 1 /\ m < e
        BY <1>0, <1>5, <1>11, <3>1
      <3> QED  BY <1>8, <3>1, <3>2
    <2>2. k = Max({j, n - 1})
      BY <1>1, <2>1 DEF ValueEnd
    <2>3. {j, n - 1} \subseteq 0 .. n /\ n \in Nat
      BY <1>0, <1>5
    <2>4. k \in {j, n - 1} /\ k >= j /\ k >= n - 1
      BY <2>2, <2>3, MaxIs
    <2>5. n \in Nat /\ j \in Nat /\ k \in Int
      BY <1>0, <1>5, <2>3, <2>4
    <2>6. k \in j .. e
      BY <1>0, <1>7, <1>11, <2>4, <2>5
    <2>7. (j = n => k = n) /\ (n > e => k = e) /\ k <= n
      BY <1>0, <1>5, <1>7, <1>11, <2>4, <2>5
    <2> QED  BY <1>5, <1>6, <1>7, <2>6, <2>7 DEF Ranges, e
  <1> QED  BY <1>0, <1>10, <1>11

\* key is v, or a beginning of it while the text of n bytes ends before place e + 1.
Finds(key, n, e, v) ==
  /\ key \in Seq(Bytes) /\ IsPrefix(trim(key), trim(v))
  /\ n > e => trim(key) = trim(v)

LEMMA FoundValue ==
  ASSUME NEW T \in Seq(Bytes), NEW s \in Nat, NEW name \in Seq(Bytes), NEW v \in Seq(Bytes),
         OneLine(T, s, name, v), NEW n \in 0 .. Len(T), NEW t, t = SubSeq(T, 1, n),
         n > s + Len(name), NEW key, key = find_header_value(t, name)
  PROVE  Finds(key, n, s + Len(name) + 2 + Len(v), v)
  <1> USE DEF Finds
  <1> DEFINE i0 == s + Len(name)
             e == i0 + 2 + Len(v)
             j == ValueStart(t, i0)
             k == ValueEnd(t, j)
  <1>0. i0 \in Nat /\ Len(T) \in Nat /\ Len(v) \in Nat /\ e \in Nat /\ n \in Nat
    OBVIOUS
  <1>1. t \in Seq(Bytes) /\ Len(t) = n /\ \A i \in 1 .. n : t[i] = T[i]
    BY <1>0
  <1>2. /\ e + 2 <= Len(T) /\ T[i0 + 1] = Colon /\ T[i0 + 2] = Space
        /\ \A q \in 1 .. Len(v) : T[i0 + 2 + q] = v[q] /\ v[q] \notin {CR, Colon}
        /\ T[e + 1] = CR
    BY DEF OneLine
  <1>3. Found(t, name) # {} /\ Min(Found(t, name)) = i0
    BY FirstFound
  <1>4. key = SubSeq(t, j + 1, k)
    BY <1>3, FindIs
  <1>5. /\ j \in i0 .. n /\ j <= e /\ k \in j .. e /\ k <= n
        /\ \A m \in i0 .. j - 1 : t[m + 1] \in {Colon, Space}
        /\ j < n => t[j + 1] \notin {Colon, Space}
        /\ j = n => k = n
        /\ n > e => k = e
    <2>1. Ranges(t, n, i0, i0 + 2 + Len(v), j, k)
      BY ValueRange
    <2> HIDE DEF j, k, i0
    <2> QED  BY <2>1 DEF Ranges
  <1> HIDE DEF j, k
  <1>e. e = i0 + 2 + Len(v)
    OBVIOUS
  <1>g. ~(n > e) <=> ~(n > s + Len(name) + 2 + Len(v))
    OBVIOUS
  <1> HIDE DEF i0, e
  <1>6. j \in Nat /\ k \in Nat /\ j >= i0 /\ j <= n /\ j <= e /\ k >= j /\ k <= e /\ k <= n
    BY <1>0, <1>5
  <1>7. CASE j = n
    <2>1. key = <<>>
      BY <1>0, <1>1, <1>4, <1>5, <1>7
    <2>2. Kept(key) = {}
      BY <2>1 DEF Kept
    <2>6. key \in Seq(Bytes)
      <3>1. <<>> \in Seq(Bytes)
        OBVIOUS
      <3> QED  BY <2>1, <3>1
    <2>3. trim(key) = <<>>
      BY <2>2, TrimIs
    <2>4. IsPrefix(<<>>, trim(v))
      <3>1. Len(trim(v)) \in Nat
        BY TrimType
      <3>2. <<>> \in Seq(Bytes) /\ Heads(<<>>, trim(v))
        BY <3>1 DEF Heads
      <3> QED  BY <3>2, TrimType, HeadsIsPrefix
    <2>5. ~(n > e)
      BY <1>0, <1>5, <1>6, <1>7
    <2> QED  BY <1>g, <2>3, <2>4, <2>5, <2>6
  <1>8. CASE j < n
    <2>1. j >= i0 + 2
      <3>1. t[j + 1] = T[j + 1] /\ t[j + 1] \notin {Colon, Space}
        BY <1>0, <1>1, <1>5, <1>6, <1>8
      <3>2. j # i0 /\ j # i0 + 1
        <4>1. j # i0
          BY <1>2, <3>1
        <4>2. ASSUME j = i0 + 1 PROVE FALSE
          <5>1. j + 1 = i0 + 2
            BY <1>0, <4>2
          <5> QED  BY <1>2, <3>1, <5>1
        <4> QED  BY <4>1, <4>2
      <3> QED  BY <1>0, <1>6, <3>2
    <2> DEFINE a == j - i0 - 1
               b == k - i0 - 2
    <2>2. a \in 1 .. Len(v) + 1
      BY <1>0, <1>e, <1>6, <2>1
    <2>3. b \in (a - 1) .. Len(v) /\ (n > e => b = Len(v))
      <3>1. b \in (a - 1) .. Len(v)
        BY <1>0, <1>e, <1>6, <2>1
      <3>2. ASSUME n > e PROVE b = Len(v)
        <4>1. k = e
          BY <1>5, <3>2
        <4> QED  BY <1>0, <1>e, <4>1
      <3> QED  BY <3>1, <3>2
    <2>4. ASSUME NEW q \in 1 .. a - 1 PROVE v[q] = Space
      <3>1. /\ i0 + 1 + q \in i0 .. j - 1 /\ i0 + 1 + q + 1 = i0 + 2 + q
            /\ i0 + 2 + q \in 1 .. n /\ q \in 1 .. Len(v)
        BY <1>0, <1>e, <1>6, <2>2
      <3>2. t[i0 + 2 + q] \in {Colon, Space}
        BY <1>5, <3>1
      <3> QED  BY <1>1, <1>2, <3>1, <3>2
    <2>5. ASSUME a <= Len(v) PROVE v[a] # Space
      <3>1. a \in 1 .. Len(v) /\ i0 + 2 + a = j + 1 /\ j + 1 \in 1 .. n
        BY <1>0, <1>6, <1>8, <2>2, <2>5
      <3>2. t[j + 1] = v[a]
        BY <1>1, <1>2, <3>1
      <3> QED  BY <1>5, <1>8, <3>2
    <2>6. key \in Seq(Bytes) /\ Len(key) = k - j /\ \A q \in 1 .. k - j : key[q] = t[j + q]
      <3> DEFINE x == SubSeq(t, j + 1, k)
      <3>1. x \in Seq(Bytes) /\ PieceOf(x, t, j, k)
        BY <1>1, <1>6, PieceIs
      <3> HIDE DEF x
      <3>2. key = x
        BY <1>4 DEF x
      <3> QED  BY <3>1, <3>2 DEF PieceOf
    <2> DEFINE u == SubSeq(v, a, b)
    <2>7. u \in Seq(Bytes) /\ Len(u) = k - j /\ \A q \in 1 .. k - j : u[q] = v[a + q - 1]
      <3>1. b - a + 1 = k - j /\ a \in Nat \ {0} /\ b \in Nat /\ b <= Len(v)
        BY <1>0, <1>6, <2>2, <2>3
      <3> HIDE DEF a, b
      <3>2. u \in Seq(Bytes) /\ Len(u) = b - a + 1 /\ \A q \in 1 .. b - a + 1 : u[q] = v[a + q - 1]
        BY <1>0, <2>3, <3>1
      <3> QED  BY <3>1, <3>2
    <2>8. ASSUME NEW q \in 1 .. k - j PROVE key[q] = u[q]
      <3>1. /\ a + q - 1 \in 1 .. Len(v) /\ i0 + 2 + (a + q - 1) = j + q /\ j + q \in 1 .. n
        BY <1>0, <1>e, <1>6, <2>2, <2>3
      <3>2. t[j + q] = v[a + q - 1]
        BY <1>1, <1>2, <3>1
      <3> HIDE DEF u
      <3> QED  BY <2>6, <2>7, <3>2
    <2>9. key = u
      <3> HIDE DEF u
      <3> QED  BY <2>6, <2>7, <2>8, SeqEqual
    <2>10. IsPrefix(trim(key), trim(v)) /\ (b = Len(v) => trim(key) = trim(v))
      <3>1. b \in (a - 1) .. Len(v)
        BY <2>3
      <3> HIDE DEF a, b
      <3>2. StartsAt(v, a)
        BY <2>4, <2>5 DEF StartsAt
      <3>3. /\ IsPrefix(trim(SubSeq(v, a, b)), trim(v))
            /\ b = Len(v) => trim(SubSeq(v, a, b)) = trim(v)
        BY <2>2, <3>1, <3>2, TrimPiece
      <3> QED  BY <2>9, <3>3
    <2> QED  BY <1>g, <2>3, <2>6, <2>10
  <1> QED  BY <1>0, <1>5, <1>6, <1>7, <1>8

\* The first line with the name, in a request's text.
LEMMA RequestLine ==
  ASSUME NEW r \in PlainRequests, NEW i \in DOMAIN r.headers, r.headers[i].name = r.name,
         \A h \in DOMAIN r.headers : r.headers[h].name = r.name => i <= h
  PROVE  /\ OneLine(RequestText(r.headers), LineStart(r.headers, i), r.name,
                    r.headers[i].value)
         /\ Len(Line(r.headers[i])) = Len(r.name) + 4 + Len(r.headers[i].value)
  <1> DEFINE hs == r.headers
             name == r.name
             T == RequestText(hs)
             s == LineStart(hs, i)
             x == Line(hs[i])
             v == hs[i].value
             L == Len(name)
             i0 == s + L
             e == i0 + 2 + Len(v)
             mine == {h \in DOMAIN hs : hs[h].name = name}
  <1>1. hs \in Seq(HeaderLines) /\ name \in Seq(Bytes)
    BY DEF PlainRequests, HeaderLines
  <1>2. /\ \A m \in L .. Len(T) : SubSeq(T, m - L + 1, m) = name =>
             \E h \in mine : m = LineStart(hs, h) + L
        /\ \A h \in mine : \A q \in DOMAIN hs[h].value : hs[h].value[q] \notin {CR, Colon}
    BY DEF PlainRequests
  <1>3. \A h \in mine : i <= h
    OBVIOUS
  <1>4. i \in mine /\ hs[i].name = name
    OBVIOUS
  <1> HIDE DEF hs, name, mine
  <1>5. DOMAIN hs = 1 .. Len(hs) /\ i \in 1 .. Len(hs) /\ hs[i] \in HeaderLines
    <2>1. DOMAIN hs = 1 .. Len(hs)
      BY <1>1
    <2>2. i \in DOMAIN hs
      BY DEF hs
    <2> QED  BY <1>1, <2>1, <2>2
  <1>6. v \in Seq(Bytes)
    BY <1>5 DEF HeaderLines
  <1>7. s \in Nat /\ Stands(T, s, x)
    BY <1>1, <1>5, LineAt
  <1>8. x \in Seq(Bytes) /\ FourJoined(x, name, <<Colon, Space>>, v, <<CR, LF>>)
    BY <1>4, <1>5, LineIs
  <1>9. T \in Seq(Bytes)
    BY <1>1, TextIs
  <1>10. \A h \in mine : LineStart(hs, i) <= LineStart(hs, h) /\ LineStart(hs, h) \in Nat
    <2> SUFFICES ASSUME NEW h \in mine
                 PROVE  LineStart(hs, i) <= LineStart(hs, h) /\ LineStart(hs, h) \in Nat
      OBVIOUS
    <2>1. h \in 1 .. Len(hs) /\ i \in 1 .. h
      BY <1>3, <1>5 DEF mine
    <2> QED  BY <1>1, <2>1, LineAt
  <1> HIDE DEF T, s, x, v
  <1>11. L \in Nat /\ Len(v) \in Nat /\ Len(T) \in Nat
    BY <1>1, <1>6, <1>9
  <1>12. /\ Len(x) = L + 4 + Len(v)
         /\ \A q \in 1 .. L : x[q] = name[q]
         /\ x[L + 1] = Colon /\ x[L + 2] = Space
         /\ \A q \in 1 .. Len(v) : x[L + 2 + q] = v[q]
         /\ x[L + 2 + Len(v) + 1] = CR /\ x[L + 2 + Len(v) + 2] = LF
    <2> DEFINE c == <<Colon, Space>>
               d == <<CR, LF>>
    <2>1. /\ Len(c) = 2 /\ c[1] = Colon /\ c[2] = Space
          /\ Len(d) = 2 /\ d[1] = CR /\ d[2] = LF
      OBVIOUS
    <2> HIDE DEF c, d
    <2>2. FourJoined(x, name, c, v, d)
      BY <1>8 DEF c, d
    <2>3. Len(x) = L + 4 + Len(v)
      BY <1>11, <2>1, <2>2 DEF FourJoined
    <2>4. /\ x[L + 1] = Colon /\ x[L + 2] = Space
          /\ x[L + 2 + Len(v) + 1] = CR /\ x[L + 2 + Len(v) + 2] = LF
      BY <1>11, <2>1, <2>2 DEF FourJoined
    <2>5. /\ \A q \in 1 .. L : x[q] = name[q]
          /\ \A q \in 1 .. Len(v) : x[L + 2 + q] = v[q]
      BY <1>11, <2>1, <2>2 DEF FourJoined
    <2> QED  BY <2>3, <2>4, <2>5
  <1>13. s + Len(x) <= Len(T) /\ \A q \in 1 .. Len(x) : T[s + q] = x[q]
    BY <1>7 DEF Stands
  <1>14. e + 2 <= Len(T)
    BY <1>7, <1>11, <1>12, <1>13
  <1>15. SubSeq(T, s + 1, i0) = name
    <2>1. \A q \in 1 .. L : T[s + q] = name[q]
      BY <1>11, <1>12, <1>13
    <2>2. s + L <= Len(T)
      BY <1>7, <1>11, <1>12, <1>13
    <2> QED  BY <1>1, <1>7, <1>9, <2>1, <2>2, Piece
  <1>16. \A m \in L .. Len(T) : SubSeq(T, m - L + 1, m) = name => m >= i0
    <2> SUFFICES ASSUME NEW m \in L .. Len(T), SubSeq(T, m - L + 1, m) = name PROVE m >= i0
      OBVIOUS
    <2>1. PICK h \in mine : m = LineStart(hs, h) + L
      BY <1>2 DEF T
    <2>2. LineStart(hs, i) <= LineStart(hs, h) /\ LineStart(hs, h) \in Nat
      BY <1>10
    <2> QED  BY <1>7, <1>11, <2>1, <2>2 DEF s
  <1>17. T[i0 + 1] = Colon /\ T[i0 + 2] = Space
    <2>1. /\ L + 1 \in 1 .. Len(x) /\ L + 2 \in 1 .. Len(x)
          /\ s + (L + 1) = i0 + 1 /\ s + (L + 2) = i0 + 2
      BY <1>7, <1>11, <1>12
    <2>2. T[s + (L + 1)] = x[L + 1] /\ T[s + (L + 2)] = x[L + 2]
      BY <1>13, <2>1
    <2> QED  BY <1>12, <2>1, <2>2
  <1>18. ASSUME NEW q \in 1 .. Len(v) PROVE T[i0 + 2 + q] = v[q] /\ v[q] \notin {CR, Colon}
    <2>1. L + 2 + q \in 1 .. Len(x) /\ s + (L + 2 + q) = i0 + 2 + q
      BY <1>7, <1>11, <1>12
    <2>2. T[s + (L + 2 + q)] = x[L + 2 + q]
      BY <1>13, <2>1
    <2>3. q \in DOMAIN v
      BY <1>6
    <2>4. v[q] \notin {CR, Colon}
      BY <1>2, <1>4, <2>3 DEF v
    <2> QED  BY <1>12, <2>1, <2>2, <2>4
  <1>19. T[e + 1] = CR /\ T[e + 2] = LF
    <2> DEFINE c == L + 2 + Len(v)
    <2>1. /\ c + 1 \in 1 .. Len(x) /\ c + 2 \in 1 .. Len(x)
          /\ s + (c + 1) = e + 1 /\ s + (c + 2) = e + 2
      BY <1>7, <1>11, <1>12
    <2>2. T[s + (c + 1)] = x[c + 1] /\ T[s + (c + 2)] = x[c + 2]
      BY <1>13, <2>1
    <2> QED  BY <1>12, <2>1, <2>2
  <1>20. OneLine(T, s, name, v)
    BY <1>14, <1>15, <1>16, <1>17, <1>18, <1>19 DEF OneLine
  <1> QED  BY <1>12, <1>20 DEF hs, T, s, x, v, name

LEMMA KeysTaken == input \in Inputs => KeyOfPrefix
  <1> SUFFICES ASSUME input \in Inputs, input.fn = "request" PROVE KeyOfPrefix
    BY DEF KeyOfPrefix
  <1> DEFINE r == input.of
             hs == r.headers
             name == r.name
             T == RequestText(hs)
             n == r.come
             t == SubSeq(T, 1, n)
             mine == {i \in DOMAIN hs : hs[i].name = name}
             key == find_header_value(t, name)
             i == Min(mine)
             s == LineStart(hs, i)
             v == hs[i].value
  <1>1. r \in PlainRequests
    <2>1. r \in Requests
      BY DEF Inputs
    <2> QED  BY <2>1, FrameStreamAssumption
  <1>2. /\ hs \in Seq(HeaderLines) /\ name \in Seq(Bytes) /\ n \in 0 .. Len(T)
        /\ name # <<>>
    <2>1. hs \in Seq(HeaderLines) /\ name \in Seq(Bytes) \ {<<>>} /\ n \in Nat /\ n <= Len(T)
      BY <1>1 DEF PlainRequests, HeaderLines
    <2>2. T \in Seq(Bytes)
      BY <2>1, TextIs
    <2>3. Len(T) \in Nat
      BY <2>2
    <2> HIDE DEF T, hs, name, n
    <2> QED  BY <2>1, <2>3
  <1>3. T \in Seq(Bytes)
    BY <1>2, TextIs
  <1>4. \A m \in Len(name) .. Len(T) : SubSeq(T, m - Len(name) + 1, m) = name =>
          \E h \in mine : m = LineStart(hs, h) + Len(name)
    BY <1>1 DEF PlainRequests
  <1>5. KeyOfPrefix <=>
          IF mine = {} THEN key = None
          ELSE /\ key = None <=> Len(t) <= s + Len(name)
               /\ key # None => IsPrefix(trim(key), trim(v))
               /\ Len(t) >= s + Len(Line(hs[i])) - 1 => trim(key) = trim(v)
    BY DEF KeyOfPrefix
  <1>6. t \in Seq(Bytes) /\ Len(t) = n /\ \A q \in 1 .. n : t[q] = T[q]
    <2> HIDE DEF T, n
    <2>1. Len(T) \in Nat
      BY <1>3
    <2> QED  BY <1>2, <1>3, <2>1
  <1>7. CASE mine = {}
    <2>1. Found(t, name) = {}
      <3> SUFFICES ASSUME NEW m \in Found(t, name) PROVE FALSE
        OBVIOUS
      <3> DEFINE L == Len(name)
      <3>a. Len(T) \in Nat /\ L \in Nat
        BY <1>2, <1>3
      <3> HIDE DEF T, n, t, name, mine, hs
      <3>b. m \in L .. n - 1 /\ SubSeq(t, m - L + 1, m) = name
        BY <1>6 DEF Found
      <3>c. n \in Nat /\ n <= Len(T)
        BY <1>2, <3>a
      <3>1. m \in L .. n - 1 /\ SubSeq(t, m - L + 1, m) = name /\ L \in Nat /\ n \in Nat
            /\ n <= Len(T) /\ Len(T) \in Nat
        BY <3>a, <3>b, <3>c
      <3>2. SubSeq(t, m - L + 1, m) = SubSeq(T, m - L + 1, m)
        <4>1. m \in L .. n
          BY <3>1
        <4> QED  BY <1>2, <1>3, <3>1, <4>1, SameBeginning DEF t
      <3>3. m \in L .. Len(T)
        BY <3>1
      <3>4. \E h \in mine : m = LineStart(hs, h) + L
        BY <1>4, <3>1, <3>2, <3>3
      <3> QED  BY <1>7, <3>4
    <2>2. key = None
      BY <2>1, FindIs
    <2> QED  BY <1>5, <1>7, <2>2
  <1>8. CASE mine # {}
    <2>1. i \in mine /\ \A h \in mine : i <= h
      <3>1. DOMAIN hs \subseteq Nat
        <4>1. DOMAIN hs = 1 .. Len(hs)
          BY <1>2
        <4> QED  BY <4>1
      <3>2. mine \subseteq Nat
        BY <3>1
      <3> HIDE DEF mine
      <3> QED  BY <1>8, <3>2, MinIs
    <2>2. i \in DOMAIN hs /\ hs[i].name = name /\ \A h \in DOMAIN hs : hs[h].name = name => i <= h
      BY <2>1
    <2>3. OneLine(T, s, name, v) /\ Len(Line(hs[i])) = Len(name) + 4 + Len(v)
      <3> HIDE DEF i
      <3> QED  BY <1>1, <2>2, RequestLine
    <2>4. s \in Nat /\ v \in Seq(Bytes)
      <3>1. DOMAIN hs = 1 .. Len(hs) /\ hs[i] \in HeaderLines
        <4> HIDE DEF hs, i
        <4>1. hs \in Seq(HeaderLines)
          BY <1>2
        <4>2. DOMAIN hs = 1 .. Len(hs)
          BY <4>1
        <4> QED  BY <2>2, <4>1, <4>2
      <3>2. i \in 1 .. Len(hs)
        BY <2>2, <3>1
      <3> HIDE DEF i, hs
      <3> QED  BY <1>2, <3>1, <3>2, LineAt DEF HeaderLines
    <2>5. Len(name) \in Nat /\ Len(v) \in Nat /\ n \in Nat
      <3>1. Len(T) \in Nat
        BY <1>3
      <3> HIDE DEF T, name, v, n
      <3> QED  BY <1>2, <2>4, <3>1
    <2> HIDE DEF T, n, t, s, v, name, mine, hs, i, key
    <2>6. CASE n <= s + Len(name)
      <3>1. Found(t, name) = {}
        BY <1>2, <1>3, <2>3, <2>4, <2>6, FirstFound DEF t
      <3>2. key = None
        BY <3>1, FindIs DEF key
      <3>3. ~(n >= s + Len(Line(hs[i])) - 1)
        BY <2>3, <2>4, <2>5, <2>6
      <3> QED  BY <1>5, <1>6, <1>8, <2>6, <3>2, <3>3
    <2>7. CASE n > s + Len(name)
      <3>1. /\ key \in Seq(Bytes) /\ IsPrefix(trim(key), trim(v))
            /\ n > s + Len(name) + 2 + Len(v) => trim(key) = trim(v)
        <4>1. t = SubSeq(T, 1, n) /\ key = find_header_value(t, name)
          BY DEF t, key
        <4>2. name \in Seq(Bytes) /\ n \in 0 .. Len(T)
          BY <1>2
        <4>3. OneLine(T, s, name, v)
          BY <2>3
        <4>4. Finds(key, n, s + Len(name) + 2 + Len(v), v)
          BY <1>3, <2>4, <2>7, <4>1, <4>2, <4>3, FoundValue
        <4> QED  BY <4>4 DEF Finds
      <3>2. key # None
        BY <3>1, ParsingAssumption DEF Bytes
      <3>3. ~(n <= s + Len(name))
        BY <2>4, <2>5, <2>7
      <3>4. n >= s + Len(Line(hs[i])) - 1 => trim(key) = trim(v)
        BY <2>3, <2>4, <2>5, <3>1
      <3> QED  BY <1>5, <1>6, <1>8, <3>1, <3>2, <3>3, <3>4
    <2> QED  BY <2>4, <2>5, <2>6, <2>7
  <1> QED  BY <1>7, <1>8

\* From any beginning of a request find_header_value gives the client's key, a
\* beginning of it or nothing, for any header lines and any place where the name stands
\* in front of its values only.
THEOREM KeysAreTheClients == Spec => []KeyOfPrefix
  <1>1. StreamInv => KeyOfPrefix
    BY KeysTaken DEF StreamInv, TypeOK
  <1> QED  BY <1>1, InitInv, StepInv, PTL DEF Spec
=============================================================================
