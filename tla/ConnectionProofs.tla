-------------------------- MODULE ConnectionProofs --------------------------
(***************************************************************************)
(* Proofs about Connection for every length of requests, frames, messages  *)
(* and buffers and any number of frames: what the client receives is the   *)
(* script of its frames, in order, whole and once each.  The first part is *)
(* what the property operators of Connection compute for every sequence of *)
(* frames and messages: how Stream, Pieces, Open, Replies and Script grow  *)
(* by one message or one frame.                                            *)
(***************************************************************************)
EXTENDS Connection, SequenceLaws

-----------------------------------------------------------------------------
(* The stream of a sequence of messages.                                   *)

Msgs    == [kind : MsgKinds, of : Seq(Nat)]
UnitSet == [msg : Msgs, unit : Nat]

\* No message is empty.
LEMMA SizeType == ASSUME NEW m \in Msgs PROVE Size(m) \in Nat \ {0}
  BY ConnectionAssumption DEF Msgs, Size

\* The units of a part of a message.
LEMMA PartType ==
  ASSUME NEW m \in Msgs, NEW a \in Nat, NEW n \in Nat
  PROVE  /\ Part(m, a, n) \in Seq(UnitSet) /\ Len(Part(m, a, n)) = n
         /\ \A i \in 1 .. n : Part(m, a, n)[i] = [msg |-> m, unit |-> a + i]
  <1>1. \A i \in 1 .. n : [msg |-> m, unit |-> a + i] \in UnitSet
    BY DEF UnitSet
  <1> HIDE DEF UnitSet
  <1> QED  BY <1>1 DEF Part

\* A message that is sent in two pieces.
LEMMA PartConcat ==
  ASSUME NEW m \in Msgs, NEW a \in Nat, NEW n \in Nat
  PROVE  Part(m, 0, a) \o Part(m, a, n) = Part(m, 0, a + n)
  <1> DEFINE p == Part(m, 0, a)
             q == Part(m, a, n)
             r == Part(m, 0, a + n)
  <1>1. /\ p \in Seq(UnitSet) /\ Len(p) = a
        /\ \A i \in 1 .. a : p[i] = [msg |-> m, unit |-> 0 + i]
    BY PartType
  <1>2. /\ q \in Seq(UnitSet) /\ Len(q) = n
        /\ \A i \in 1 .. n : q[i] = [msg |-> m, unit |-> a + i]
    BY PartType
  <1>3. /\ r \in Seq(UnitSet) /\ Len(r) = a + n
        /\ \A i \in 1 .. a + n : r[i] = [msg |-> m, unit |-> 0 + i]
    <2> DEFINE k == a + n
    <2>1. k \in Nat
      OBVIOUS
    <2> HIDE DEF k
    <2>2. /\ Part(m, 0, k) \in Seq(UnitSet) /\ Len(Part(m, 0, k)) = k
          /\ \A i \in 1 .. k : Part(m, 0, k)[i] = [msg |-> m, unit |-> 0 + i]
      BY <2>1, PartType
    <2> QED  BY <2>2 DEF k
  <1> HIDE DEF p, q, r
  <1>4. /\ p \o q \in Seq(UnitSet) /\ Len(p \o q) = a + n
        /\ \A i \in 1 .. a + n : (p \o q)[i] = IF i <= a THEN p[i] ELSE q[i - a]
    BY <1>1, <1>2, ConcatProperties
  <1>5. \A i \in 1 .. a + n : (p \o q)[i] = r[i]
    <2> SUFFICES ASSUME NEW i \in 1 .. a + n PROVE (p \o q)[i] = r[i]
      OBVIOUS
    <2>1. CASE i <= a
      BY <1>1, <1>3, <1>4, <2>1
    <2>2. CASE ~(i <= a)
      <3>1. i - a \in 1 .. n /\ a + (i - a) = i /\ 0 + i = i
        BY <2>2
      <3> QED  BY <1>2, <1>3, <1>4, <2>2, <3>1
    <2> QED  BY <2>1, <2>2
  <1>6. p \o q = r
    BY <1>3, <1>4, <1>5, SeqEqual
  <1> QED  BY <1>6 DEF p, q, r

\* A sequence with one element more, told by its elements.
LEMMA OneMore ==
  ASSUME NEW Z, NEW p \in Seq(Z), NEW x \in Z, NEW q \in Seq(Z), NEW n \in Nat,
         Len(p) = n, Len(q) = n + 1, Agree(p, q, n), q[n + 1] = x
  PROVE  q = Append(p, x)
  <1>1. /\ Append(p, x) \in Seq(Z) /\ Len(Append(p, x)) = n + 1
        /\ \A i \in 1 .. n : Append(p, x)[i] = p[i]
        /\ Append(p, x)[n + 1] = x
    BY AppendProperties
  <1>2. \A i \in 1 .. n + 1 : i \in 1 .. n \/ i = n + 1
    OBVIOUS
  <1>3. \A i \in 1 .. n + 1 : q[i] = Append(p, x)[i]
    BY <1>1, <1>2 DEF Agree
  <1> QED  BY <1>1, <1>3, SeqEqual

\* The stream of no message.
LEMMA StreamEmpty == Stream(<<>>) = <<>>
  <1>1. [i \in 1 .. Len(<<>>) |-> Part(<<>>[i], 0, Size(<<>>[i]))] = <<>>
    OBVIOUS
  <1> QED  BY <1>1, FlattenEmpty DEF Stream

\* The parts a stream is put together from.
LEMMA StreamParts ==
  ASSUME NEW ms \in Seq(Msgs)
  PROVE  [i \in 1 .. Len(ms) |-> Part(ms[i], 0, Size(ms[i]))] \in Seq(Seq(UnitSet))
  <1>1. ASSUME NEW i \in 1 .. Len(ms) PROVE Part(ms[i], 0, Size(ms[i])) \in Seq(UnitSet)
    <2>1. ms[i] \in Msgs
      BY ElementOfSeq
    <2> QED  BY <2>1, PartType, SizeType
  <1> DEFINE Z == Seq(UnitSet)
  <1> HIDE DEF Z
  <1>2. \A i \in 1 .. Len(ms) : Part(ms[i], 0, Size(ms[i])) \in Z
    BY <1>1 DEF Z
  <1>3. [i \in 1 .. Len(ms) |-> Part(ms[i], 0, Size(ms[i]))] \in Seq(Z)
    BY <1>2
  <1> QED  BY <1>3 DEF Z

\* A stream is a sequence of units.
LEMMA StreamType ==
  ASSUME NEW ms \in Seq(Msgs)
  PROVE  Stream(ms) \in Seq(UnitSet)
  BY StreamParts, FlattenType DEF Stream

\* One more message comes at the end of the stream.
LEMMA StreamAppend ==
  ASSUME NEW ms \in Seq(Msgs), NEW m \in Msgs
  PROVE  Stream(Append(ms, m)) = Stream(ms) \o Part(m, 0, Size(m))
  <1> DEFINE n == Len(ms)
             p == [i \in 1 .. n |-> Part(ms[i], 0, Size(ms[i]))]
             x == Part(m, 0, Size(m))
             t == Append(ms, m)
             q == [i \in 1 .. Len(t) |-> Part(t[i], 0, Size(t[i]))]
  <1>1. n \in Nat /\ Len(t) = n + 1 /\ t[n + 1] = m /\ \A i \in 1 .. n : t[i] = ms[i]
    OBVIOUS
  <1>2. p \in Seq(Seq(UnitSet))
    BY StreamParts
  <1>3. x \in Seq(UnitSet)
    BY PartType, SizeType
  <1>4. q = Append(p, x)
    <2>1. t \in Seq(Msgs)
      OBVIOUS
    <2>2. q \in Seq(Seq(UnitSet))
      BY <2>1, StreamParts
    <2>3. /\ Len(p) = n /\ Len(q) = n + 1 /\ q[n + 1] = x
          /\ Agree(p, q, n)
      BY <1>1 DEF Agree
    <2> DEFINE Z == Seq(UnitSet)
    <2>4. p \in Seq(Z) /\ q \in Seq(Z) /\ x \in Z /\ n \in Nat
      BY <1>1, <1>2, <1>3, <2>2
    <2> HIDE DEF p, q, x, n, Z
    <2> QED  BY <2>3, <2>4, OneMore
  <1>5. FlattenSeq(Append(p, x)) = FlattenSeq(p) \o x
    BY <1>2, <1>3, FlattenAppend
  <1>6. Stream(t) = FlattenSeq(q) /\ Stream(ms) = FlattenSeq(p)
    BY DEF Stream
  <1> QED  BY <1>4, <1>5, <1>6

-----------------------------------------------------------------------------
(* The script of a sequence of frames.                                     *)

\* The pieces a message is put together from.
LEMMA PieceList ==
  ASSUME NEW fs, Len(fs) \in Nat, NEW s \in 1 .. Len(fs)
  PROVE  [k \in 1 .. Len(fs) - s + 1 |->
            IF k = 1 \/ fs[s + k - 1].op = "cont" THEN <<s + k - 1>> ELSE <<>>]
         \in Seq(Seq(Nat))
  <1> DEFINE Z == Seq(Nat)
             e(k) == IF k = 1 \/ fs[s + k - 1].op = "cont" THEN <<s + k - 1>> ELSE <<>>
  <1>1. \A k \in 1 .. Len(fs) - s + 1 : e(k) \in Z
    OBVIOUS
  <1>2. Len(fs) - s + 1 \in Nat
    OBVIOUS
  <1> HIDE DEF Z, e
  <1>3. [k \in 1 .. Len(fs) - s + 1 |-> e(k)] \in Seq(Z)
    BY <1>1, <1>2
  <1> QED  BY <1>3 DEF Z, e

\* A message is a sequence of frame numbers.
LEMMA PiecesType ==
  ASSUME NEW fs, Len(fs) \in Nat, NEW s \in 1 .. Len(fs)
  PROVE  Pieces(fs, s) \in Seq(Nat)
  BY PieceList, FlattenType DEF Pieces

\* One more frame adds its number to the message, if it is a continuation.
LEMMA PiecesAppend ==
  ASSUME NEW fs \in Seq(Frames), NEW f \in Frames, NEW s \in 1 .. Len(fs)
  PROVE  Pieces(Append(fs, f), s) =
           IF f.op = "cont" THEN Append(Pieces(fs, s), Len(fs) + 1) ELSE Pieces(fs, s)
  <1> DEFINE n == Len(fs) - s + 1
             t == Append(fs, f)
             p == [k \in 1 .. n |->
                     IF k = 1 \/ fs[s + k - 1].op = "cont" THEN <<s + k - 1>> ELSE <<>>]
             q == [k \in 1 .. Len(t) - s + 1 |->
                     IF k = 1 \/ t[s + k - 1].op = "cont" THEN <<s + k - 1>> ELSE <<>>]
             x == IF f.op = "cont" THEN <<Len(fs) + 1>> ELSE <<>>
             Z == Seq(Nat)
  <1>1. /\ Len(fs) \in Nat /\ n \in Nat \ {0} /\ Len(t) = Len(fs) + 1
        /\ Len(t) - s + 1 = n + 1 /\ t[Len(fs) + 1] = f
        /\ \A i \in 1 .. Len(fs) : t[i] = fs[i]
    OBVIOUS
  <1>2. p \in Seq(Z) /\ q \in Seq(Z)
    <2>1. p \in Seq(Seq(Nat))
      BY <1>1, PieceList
    <2>2. q \in Seq(Seq(Nat))
      <3>1. s \in 1 .. Len(t) /\ Len(t) \in Nat
        BY <1>1
      <3> HIDE DEF t
      <3> QED  BY <3>1, PieceList
    <2> QED  BY <2>1, <2>2
  <1>3. x \in Z
    BY <1>1
  <1>4. Len(p) = n /\ Len(q) = n + 1
    BY <1>1
  <1>5. Agree(p, q, n)
    <2> SUFFICES ASSUME NEW k \in 1 .. n PROVE p[k] = q[k]
      BY DEF Agree
    <2>1. s + k - 1 \in 1 .. Len(fs) /\ k \in 1 .. Len(t) - s + 1
      BY <1>1
    <2>2. t[s + k - 1] = fs[s + k - 1]
      BY <1>1, <2>1
    <2> HIDE DEF t
    <2> QED  BY <2>1, <2>2
  <1>6. q[n + 1] = x
    <2>1. s + (n + 1) - 1 = Len(fs) + 1 /\ n + 1 # 1 /\ n + 1 \in 1 .. Len(t) - s + 1
      BY <1>1
    <2> QED  BY <1>1, <2>1
  <1>7. Pieces(t, s) = FlattenSeq(q) /\ Pieces(fs, s) = FlattenSeq(p)
    BY DEF Pieces
  <1>8. FlattenSeq(p) \in Seq(Nat)
    BY <1>2, FlattenType
  <1>9. FlattenSeq(q) = FlattenSeq(p) \o x
    <2>1. q = Append(p, x)
      <3> HIDE DEF p, q, x, n, Z
      <3> QED  BY <1>1, <1>2, <1>3, <1>4, <1>5, <1>6, OneMore
    <2> HIDE DEF p, q, x
    <2> QED  BY <1>2, <1>3, <2>1, FlattenAppend DEF Z
  <1> HIDE DEF p, q, t
  <1>10. f.op = "cont" => FlattenSeq(p) \o x = Append(FlattenSeq(p), Len(fs) + 1)
    BY <1>1, <1>8, AppendIsConcat
  <1>11. f.op # "cont" => FlattenSeq(p) \o x = FlattenSeq(p)
    BY <1>8, ConcatEmptySeq
  <1> QED  BY <1>7, <1>9, <1>10, <1>11 DEF t

\* A message starts with its first frame.
LEMMA PiecesFirst ==
  ASSUME NEW fs \in Seq(Frames), NEW f \in Frames
  PROVE  Pieces(Append(fs, f), Len(fs) + 1) = <<Len(fs) + 1>>
  <1> DEFINE i == Len(fs) + 1
             t == Append(fs, f)
             p == [k \in 1 .. Len(t) - i + 1 |->
                     IF k = 1 \/ t[i + k - 1].op = "cont" THEN <<i + k - 1>> ELSE <<>>]
             x == <<i>>
  <1>1. Len(t) - i + 1 = 1 /\ i \in Nat /\ i + 1 - 1 = i
    OBVIOUS
  <1>2. p = [k \in 1 .. 1 |-> x]
    BY <1>1
  <1>3. p = Append(<<>>, x)
    BY <1>2
  <1>4. x \in Seq(Nat) /\ <<>> \in Seq(Seq(Nat)) /\ <<>> \o x = x
    BY <1>1
  <1> HIDE DEF x
  <1>5. FlattenSeq(Append(<<>>, x)) = FlattenSeq(<<>>) \o x
    BY <1>4, FlattenAppend
  <1>6. FlattenSeq(p) = x
    BY <1>3, <1>4, <1>5, FlattenEmpty
  <1> QED  BY <1>6 DEF Pieces, x

\* At most one message is open.
LEMMA OpenSingle ==
  ASSUME NEW fs \in Seq(Frames), NEW s \in Open(fs), NEW t \in Open(fs)
  PROVE  s = t
  <1>1. s \in 1 .. Len(fs) /\ t \in 1 .. Len(fs) /\ Len(fs) \in Nat
    BY DEF Open
  <1>2. ASSUME NEW a \in Open(fs), NEW b \in Open(fs), a < b PROVE FALSE
    <2>1. a \in 1 .. Len(fs) /\ b \in 1 .. Len(fs)
      BY DEF Open
    <2>2. b \in a + 1 .. Len(fs)
      BY <1>2, <2>1, <1>1
    <2> QED  BY <2>2 DEF Open
  <1> QED  BY <1>1, <1>2

\* What a frame does to the open message.
LEMMA OpenAppend ==
  ASSUME NEW fs \in Seq(Frames), NEW f \in Frames
  PROVE  Open(Append(fs, f)) =
           IF f.op = "data" /\ ~f.fin THEN {Len(fs) + 1}
           ELSE IF f.op = "cont" /\ f.fin THEN {}
           ELSE Open(fs)
  <1> DEFINE t == Append(fs, f)
             n == Len(fs)
             Goes(g) == g.op \in {"data", "cont"} => IF g.op = "data" THEN g.fin ELSE ~g.fin
  <1>1. /\ n \in Nat /\ Len(t) = n + 1 /\ t[n + 1] = f /\ DOMAIN t = 1 .. n + 1
        /\ DOMAIN fs = 1 .. n /\ \A i \in 1 .. n : t[i] = fs[i]
    OBVIOUS
  <1> HIDE DEF t, n
  <1>2. ASSUME NEW s \in 1 .. n
        PROVE  s \in Open(t) <=> s \in Open(fs) /\ Goes(f)
    <2>1. s \in Open(t) <=> /\ fs[s].op = "data" /\ ~fs[s].fin
                            /\ \A j \in s + 1 .. n + 1 : Goes(t[j])
      BY <1>1 DEF Open
    <2>2. s \in Open(fs) <=> /\ fs[s].op = "data" /\ ~fs[s].fin
                             /\ \A j \in s + 1 .. n : Goes(fs[j])
      BY <1>1 DEF Open, n
    <2> HIDE DEF Goes
    <2>3. (\A j \in s + 1 .. n + 1 : Goes(t[j])) <=>
            (\A j \in s + 1 .. n : Goes(fs[j])) /\ Goes(f)
      <3>1. \A j \in s + 1 .. n + 1 : j \in s + 1 .. n \/ j = n + 1
        BY <1>1
      <3>2. n + 1 \in s + 1 .. n + 1 /\ \A j \in s + 1 .. n : j \in s + 1 .. n + 1
        BY <1>1
      <3>3. \A j \in s + 1 .. n : t[j] = fs[j]
        BY <1>1
      <3> QED  BY <1>1, <3>1, <3>2, <3>3
    <2> QED  BY <2>1, <2>2, <2>3
  <1>3. n + 1 \in Open(t) <=> f.op = "data" /\ ~f.fin
    <2>1. (n + 1) + 1 .. n + 1 = {}
      BY <1>1
    <2> QED  BY <1>1, <2>1 DEF Open
  <1>4. Open(t) \subseteq 1 .. n + 1 /\ Open(fs) \subseteq 1 .. n
    BY <1>1 DEF Open
  <1>5. \A s \in 1 .. n + 1 : s \in 1 .. n \/ s = n + 1
    BY <1>1
  <1>6. n + 1 \notin 1 .. n
    BY <1>1
  <1>7. f.op \in {"data", "cont", "ping", "close", "pong"} /\ f.fin \in BOOLEAN
    BY DEF Frames
  <1>8. CASE f.op = "data" /\ ~f.fin
    <2>1. ~Goes(f)
      BY <1>8
    <2> HIDE DEF Goes
    <2>2. Open(t) = {n + 1}
      BY <1>2, <1>3, <1>4, <1>5, <1>8, <2>1
    <2> QED  BY <1>8, <2>2 DEF t, n
  <1>9. CASE f.op = "cont" /\ f.fin
    <2>1. ~Goes(f)
      BY <1>9
    <2> HIDE DEF Goes
    <2>2. Open(t) = {}
      BY <1>2, <1>3, <1>4, <1>5, <1>9, <2>1
    <2> QED  BY <1>9, <2>2 DEF t
  <1>10. CASE ~(f.op = "data" /\ ~f.fin) /\ ~(f.op = "cont" /\ f.fin)
    <2>1. Goes(f)
      BY <1>7, <1>10
    <2> HIDE DEF Goes
    <2>2. Open(t) = Open(fs)
      BY <1>2, <1>3, <1>4, <1>5, <1>6, <1>10, <2>1
    <2> QED  BY <1>10, <2>2 DEF t
  <1> QED  BY <1>8, <1>9, <1>10

\* A frame is answered with no message, one or two.
LEMMA RepliesType ==
  ASSUME NEW fs, Len(fs) \in Nat, DOMAIN fs = 1 .. Len(fs), NEW f
  PROVE  /\ Replies(fs, f) \in Seq(Msgs)
         /\ \/ Replies(fs, f) = <<>>
            \/ \E x \in Msgs : Replies(fs, f) = <<x>>
            \/ \E x, y \in Msgs : Replies(fs, f) = <<x, y>>
  <1> DEFINE i == Len(fs) + 1
             s == CHOOSE s \in Open(fs) : TRUE
  <1>1. i \in Nat
    OBVIOUS
  <1>2. Open(fs) # {} => Pieces(fs, s) \in Seq(Nat)
    <2> SUFFICES ASSUME Open(fs) # {} PROVE Pieces(fs, s) \in Seq(Nat)
      OBVIOUS
    <2>1. s \in Open(fs)
      OBVIOUS
    <2>2. s \in 1 .. Len(fs)
      BY <2>1 DEF Open
    <2> HIDE DEF s
    <2> QED  BY <2>2, PiecesType
  <1> HIDE DEF i, s
  <1>3. Pong(i) \in Msgs /\ Echo(<<i>>) \in Msgs /\ Msg("ping") \in Msgs
    BY <1>1 DEF Pong, Echo, Msg, Msgs, MsgKinds
  <1>4. Open(fs) # {} => Echo(Append(Pieces(fs, s), i)) \in Msgs
    BY <1>1, <1>2 DEF Echo, Msgs, MsgKinds
  <1>5. \/ Replies(fs, f) = <<>>
        \/ Replies(fs, f) = <<Pong(i)>>
        \/ Replies(fs, f) = <<Echo(<<i>>), Msg("ping")>>
        \/ /\ Open(fs) # {}
           /\ Replies(fs, f) = <<Echo(Append(Pieces(fs, s), i)), Msg("ping")>>
    BY DEF Replies, i, s
  <1>6. \/ Replies(fs, f) = <<>>
        \/ \E x \in Msgs : Replies(fs, f) = <<x>>
        \/ \E x, y \in Msgs : Replies(fs, f) = <<x, y>>
    BY <1>3, <1>4, <1>5
  <1>7. \A x, y \in Msgs : <<x>> \in Seq(Msgs) /\ <<x, y>> \in Seq(Msgs)
    <2> HIDE DEF Msgs
    <2> QED  OBVIOUS
  <1>8. Replies(fs, f) \in Seq(Msgs)
    <2> DEFINE r == Replies(fs, f)
    <2> HIDE DEF r, Msgs
    <2>1. \/ r = <<>> \/ (\E x \in Msgs : r = <<x>>) \/ (\E x, y \in Msgs : r = <<x, y>>)
      BY <1>6 DEF r
    <2>2. ASSUME NEW x \in Msgs, r = <<x>> PROVE r \in Seq(Msgs)
      BY <2>2, <1>7
    <2>3. ASSUME NEW x \in Msgs, NEW y \in Msgs, r = <<x, y>> PROVE r \in Seq(Msgs)
      BY <2>3, <1>7
    <2>4. r = <<>> => r \in Seq(Msgs)
      BY EmptySeq
    <2>5. r \in Seq(Msgs)
      BY <2>1, <2>2, <2>3, <2>4
    <2> QED  BY <2>5 DEF r
  <1> QED  BY <1>6, <1>8

\* The replies a script is put together from.
LEMMA RepliesList ==
  ASSUME NEW fs \in Seq(Frames)
  PROVE  [i \in 1 .. Len(fs) |-> Replies(SubSeq(fs, 1, i - 1), fs[i])] \in Seq(Seq(Msgs))
  <1> DEFINE Z == Seq(Msgs)
             e(i) == Replies(SubSeq(fs, 1, i - 1), fs[i])
  <1>1. ASSUME NEW i \in 1 .. Len(fs) PROVE e(i) \in Z
    <2> DEFINE g == SubSeq(fs, 1, i - 1)
    <2>1. Len(g) \in Nat /\ DOMAIN g = 1 .. Len(g)
      OBVIOUS
    <2> HIDE DEF g
    <2>2. Replies(g, fs[i]) \in Seq(Msgs)
      BY <2>1, RepliesType
    <2> QED  BY <2>2 DEF g
  <1>2. Len(fs) \in Nat
    OBVIOUS
  <1> HIDE DEF Z, e
  <1>3. [i \in 1 .. Len(fs) |-> e(i)] \in Seq(Z)
    BY <1>1, <1>2
  <1> QED  BY <1>3 DEF Z, e

\* The answers to a frame go to the end of the script of an upgraded connection.
LEMMA ScriptAppend ==
  ASSUME NEW fs \in Seq(Frames), NEW f \in Frames, NEW a \in Msgs,
         a.kind \notin {"page", "404"}
  PROVE  Script(a, Append(fs, f)) = Script(a, fs) \o Replies(fs, f)
  <1> DEFINE n == Len(fs)
             t == Append(fs, f)
             p == [i \in 1 .. n |-> Replies(SubSeq(fs, 1, i - 1), fs[i])]
             q == [i \in 1 .. Len(t) |-> Replies(SubSeq(t, 1, i - 1), t[i])]
             x == Replies(fs, f)
             h == <<a, Msg("welcome")>>
             Z == Seq(Msgs)
  <1>1. /\ n \in Nat /\ Len(t) = n + 1 /\ t[n + 1] = f /\ \A i \in 1 .. n : t[i] = fs[i]
        /\ t \in Seq(Frames)
    BY AppendProperties
  <1>2. p \in Seq(Z) /\ q \in Seq(Z)
    <2>1. p \in Seq(Seq(Msgs))
      BY RepliesList
    <2>2. q \in Seq(Seq(Msgs))
      <3> HIDE DEF t
      <3> QED  BY <1>1, RepliesList
    <2> QED  BY <2>1, <2>2
  <1>3. x \in Z
    BY RepliesType
  <1>4. ASSUME NEW i \in 1 .. n + 1 PROVE SubSeq(t, 1, i - 1) = SubSeq(fs, 1, i - 1)
    OBVIOUS
  <1>5. Agree(p, q, n)
    <2> SUFFICES ASSUME NEW i \in 1 .. n PROVE p[i] = q[i]
      BY DEF Agree
    <2>1. i \in 1 .. Len(t) /\ SubSeq(t, 1, i - 1) = SubSeq(fs, 1, i - 1) /\ t[i] = fs[i]
      BY <1>1, <1>4
    <2> HIDE DEF t
    <2> QED  BY <2>1
  <1>6. q[n + 1] = x
    <2>1. SubSeq(t, 1, (n + 1) - 1) = fs
      BY <1>1, <1>4, SubSeqFull
    <2>2. n + 1 \in 1 .. Len(t)
      BY <1>1
    <2> HIDE DEF t
    <2> QED  BY <1>1, <2>1, <2>2
  <1>7. Len(p) = n /\ Len(q) = n + 1
    BY <1>1
  <1>8. Script(a, t) = h \o FlattenSeq(q) /\ Script(a, fs) = h \o FlattenSeq(p)
    BY DEF Script
  <1>9. h \in Seq(Msgs)
    <2>1. Msg("welcome") \in Msgs
      BY DEF Msg, Msgs, MsgKinds
    <2> HIDE DEF Msgs
    <2> QED  BY <2>1
  <1>10. FlattenSeq(p) \in Seq(Msgs)
    BY <1>2, FlattenType
  <1> HIDE DEF p, q, x, n, h, Z
  <1>11. q = Append(p, x)
    BY <1>1, <1>2, <1>3, <1>5, <1>6, <1>7, OneMore
  <1>12. FlattenSeq(q) = FlattenSeq(p) \o x
    BY <1>2, <1>3, <1>11, FlattenAppend DEF Z
  <1>13. h \o (FlattenSeq(p) \o x) = (h \o FlattenSeq(p)) \o x
    BY <1>3, <1>9, <1>10, ConcatAssociative, SMTT(30) DEF Z
  <1> QED  BY <1>8, <1>12, <1>13 DEF x

\* A script starts with the answer.
LEMMA ScriptType ==
  ASSUME NEW fs \in Seq(Frames), NEW a \in Msgs
  PROVE  Script(a, fs) \in Seq(Msgs) /\ Script(a, fs) # <<>> /\ Script(a, fs)[1] = a
  <1> DEFINE h == <<a, Msg("welcome")>>
             r == FlattenSeq([i \in 1 .. Len(fs) |-> Replies(SubSeq(fs, 1, i - 1), fs[i])])
  <1>1. r \in Seq(Msgs)
    BY RepliesList, FlattenType
  <1>2. Msg("welcome") \in Msgs
    BY DEF Msg, Msgs, MsgKinds
  <1>3. h \in Seq(Msgs) /\ <<a>> \in Seq(Msgs) /\ Len(h) = 2 /\ h[1] = a
    <2> HIDE DEF Msgs
    <2> QED  BY <1>2
  <1>4. Script(a, fs) = IF a.kind \in {"page", "404"} THEN <<a>> ELSE h \o r
    BY DEF Script
  <1> HIDE DEF h, r, Msgs
  <1>5. /\ h \o r \in Seq(Msgs) /\ Len(h \o r) = 2 + Len(r) /\ Len(r) \in Nat
        /\ (h \o r)[1] = h[1]
    <2>1. Len(r) \in Nat
      BY <1>1, LenProperties
    <2>2. /\ h \o r \in Seq(Msgs) /\ Len(h \o r) = Len(h) + Len(r)
          /\ \A i \in 1 .. Len(h) + Len(r) : (h \o r)[i] =
               IF i <= Len(h) THEN h[i] ELSE r[i - Len(h)]
      BY <1>1, <1>3, ConcatProperties
    <2>3. 1 \in 1 .. Len(h) + Len(r) /\ 1 <= Len(h)
      BY <1>3, <2>1
    <2> QED  BY <1>3, <2>1, <2>2, <2>3
  <1>6. h \o r # <<>> /\ <<a>> # <<>> /\ <<a>>[1] = a
    BY <1>5
  <1> QED  BY <1>3, <1>4, <1>5, <1>6

\* The script before the first frame.
LEMMA ScriptEmpty ==
  ASSUME NEW a
  PROVE  Script(a, <<>>) = IF a.kind \in {"page", "404"} THEN <<a>>
                           ELSE <<a, Msg("welcome")>>
  <1>1. [i \in 1 .. Len(<<>>) |-> Replies(SubSeq(<<>>, 1, i - 1), <<>>[i])] = <<>>
    <2> DEFINE e(i) == Replies(SubSeq(<<>>, 1, i - 1), <<>>[i])
    <2> HIDE DEF e
    <2>1. [i \in 1 .. Len(<<>>) |-> e(i)] = <<>>
      OBVIOUS
    <2> QED  BY <2>1 DEF e
  <1>2. <<a, Msg("welcome")>> \o <<>> = <<a, Msg("welcome")>>
    OBVIOUS
  <1> QED  BY <1>1, <1>2, FlattenEmpty DEF Script

-----------------------------------------------------------------------------
(* Prefixes.                                                               *)

\* A sequence is a prefix of its extensions.
LEMMA PrefixConcat ==
  ASSUME NEW S, NEW s \in Seq(S), NEW t \in Seq(S)
  PROVE  IsPrefix(s, s \o t)
  BY DEF IsPrefix

\* A prefix of a prefix is a prefix.
LEMMA PrefixTrans ==
  ASSUME NEW S, NEW s \in Seq(S), NEW t \in Seq(S), NEW u \in Seq(S),
         IsPrefix(s, t), IsPrefix(t, u)
  PROVE  IsPrefix(s, u)
  BY DEF IsPrefix

\* More messages make a longer stream.
LEMMA StreamGrows ==
  ASSUME NEW ms \in Seq(Msgs), NEW r \in Seq(Msgs)
  PROVE  IsPrefix(Stream(ms), Stream(ms \o r))
  <1> DEFINE Longer(u) == IsPrefix(Stream(ms), Stream(ms \o u))
             S == {n \in Nat : \A u \in Seq(Msgs) : Len(u) = n => Longer(u)}
  <1>1. Stream(ms) \in Seq(UnitSet)
    BY StreamType
  <1>2. 0 \in S
    <2> SUFFICES ASSUME NEW u \in Seq(Msgs), Len(u) = 0 PROVE Longer(u)
      OBVIOUS
    <2>1. u = <<>>
      BY EmptySeq
    <2>2. ms \o u = ms
      BY <2>1, ConcatEmptySeq
    <2>3. IsPrefix(Stream(ms), Stream(ms))
      BY <1>1 DEF IsPrefix
    <2> QED  BY <2>2, <2>3
  <1>3. ASSUME NEW n \in Nat, n \in S PROVE n + 1 \in S
    <2> SUFFICES ASSUME NEW u \in Seq(Msgs), Len(u) = n + 1 PROVE Longer(u)
      OBVIOUS
    <2> HIDE DEF Msgs, UnitSet
    <2>1. u # <<>>
      BY EmptySeq
    <2>2. PICK t \in Seq(Msgs), x \in Msgs : u = Append(t, x)
      BY <2>1, SequenceEmptyOrAppend
    <2>3. Len(t) = n
      BY <2>2, AppendProperties, LenProperties
    <2> DEFINE k == ms \o t
    <2>4. k \in Seq(Msgs) /\ ms \o u = Append(k, x)
      BY <2>2
    <2>5. IsPrefix(Stream(ms), Stream(k))
      BY <1>3, <2>3
    <2> HIDE DEF k
    <2>6. Stream(k) \in Seq(UnitSet) /\ Part(x, 0, Size(x)) \in Seq(UnitSet)
      BY <2>4, StreamType, PartType, SizeType
    <2>7. Stream(Append(k, x)) = Stream(k) \o Part(x, 0, Size(x))
      BY <2>4, StreamAppend
    <2>8. Stream(Append(k, x)) \in Seq(UnitSet) /\ IsPrefix(Stream(k), Stream(Append(k, x)))
      BY <2>6, <2>7, PrefixConcat, ConcatProperties
    <2>9. IsPrefix(Stream(ms), Stream(Append(k, x)))
      BY <1>1, <2>5, <2>6, <2>8, PrefixTrans
    <2> QED  BY <2>4, <2>9
  <1> HIDE DEF S
  <1>4. Nat \subseteq S
    BY <1>2, <1>3, SetInduction
  <1>5. Len(r) \in S
    BY <1>4, LenProperties
  <1> QED  BY <1>5 DEF S

-----------------------------------------------------------------------------
(* The handler's control state, and the types.                             *)

MsgsTo(n)  == [kind : MsgKinds, of : Seq(0 .. n)]
UnitsTo(n) == [msg : MsgsTo(n), unit : Nat]

\* What names the first n frames also names the first n + 1.
LEMMA Widen ==
  ASSUME NEW n \in Nat
  PROVE  /\ Seq(0 .. n) \subseteq Seq(0 .. n + 1) /\ Seq(0 .. n) \subseteq Seq(Nat)
         /\ MsgsTo(n) \subseteq MsgsTo(n + 1) /\ MsgsTo(n) \subseteq Msgs
         /\ UnitsTo(n) \subseteq UnitsTo(n + 1) /\ UnitsTo(n) \subseteq UnitSet
         /\ Seq(MsgsTo(n)) \subseteq Seq(MsgsTo(n + 1))
         /\ Seq(UnitsTo(n)) \subseteq Seq(UnitsTo(n + 1))
         /\ Seq(MsgsTo(n)) \subseteq Seq(Msgs)
         /\ Seq(UnitsTo(n)) \subseteq Seq(UnitSet)
  <1>1. 0 .. n \subseteq 0 .. n + 1 /\ 0 .. n \subseteq Nat
    OBVIOUS
  <1>2. Seq(0 .. n) \subseteq Seq(0 .. n + 1) /\ Seq(0 .. n) \subseteq Seq(Nat)
    BY <1>1, SeqMonotonic
  <1>3. MsgsTo(n) \subseteq MsgsTo(n + 1) /\ MsgsTo(n) \subseteq Msgs
    BY <1>2 DEF MsgsTo, Msgs
  <1>4. UnitsTo(n) \subseteq UnitsTo(n + 1) /\ UnitsTo(n) \subseteq UnitSet
    BY <1>3 DEF UnitsTo, UnitSet
  <1> HIDE DEF MsgsTo, UnitsTo, Msgs, UnitSet
  <1>5. /\ Seq(MsgsTo(n)) \subseteq Seq(MsgsTo(n + 1))
        /\ Seq(UnitsTo(n)) \subseteq Seq(UnitsTo(n + 1))
        /\ Seq(MsgsTo(n)) \subseteq Seq(Msgs)
        /\ Seq(UnitsTo(n)) \subseteq Seq(UnitSet)
    BY <1>3, <1>4, SeqMonotonic
  <1> QED  BY <1>2, <1>3, <1>4, <1>5

Reachable == peer \in {"here", "left"}

\* What is in buf before the request is answered.
RequestStart ==
  /\ pc = "request" => ~whole /\ got = 0
  /\ pc = "extra" => got = RecvCap /\ got < req.len

\* Where the handler is and what it has to send; it has answered before it reads
\* frames, and it reads none before the welcome is sent.
Shape ==
  /\ pc \in {"request", "extra"} => out = <<>> /\ wire = <<>>
  /\ pc = "handshake" => /\ sending \in {<<Msg("101")>>, <<Msg("101bad")>>}
                         /\ wire = <<>> /\ out = Part(sending[1], 0, off)
  /\ pc \in {"handshake", "send"} => sending # <<>> /\ off < Size(sending[1])
  /\ pc \in {"request", "extra", "frames", "parse", "close", "closed"} =>
       sending = <<>> /\ off = 0
  /\ \A i \in DOMAIN sending : sending[i].kind = "welcome" => read = 0
  /\ Reachable /\ pc \in {"frames", "parse"} => out # <<>>
  /\ cut => out # <<>>

\* TypeOK with the sets of messages and units named.
Types ==
  /\ req \in [kind : Kinds, len : ReqLens]
  /\ arrived \in 0 .. req.len /\ got \in 0 .. arrived
  /\ whole \in BOOLEAN /\ blocking \in BOOLEAN /\ cut \in BOOLEAN
  /\ wire \in Seq(Frames) /\ Len(wire) <= MaxFrames
  /\ handled \in 0 .. Len(wire)
  /\ read \in handled * FrameUnits .. Len(wire) * FrameUnits
  /\ late \in Nat /\ stray \in 0 .. late
  /\ frag \in Seq(0 .. handled)
  /\ pc \in {"request", "extra", "handshake", "send", "frames", "parse", "close",
             "closed", "killed"}
  /\ iter \in 0 .. MaxIter
  /\ sending \in Seq(MsgsTo(handled))
  /\ off \in Nat /\ queued \in 0 .. SendBuf
  /\ out \in Seq(UnitsTo(handled))
  /\ peer \in {"here", "left", "reset", "pipe"}
  /\ sigpipe \in {"default", "ignored"}

\* The two forms of the type invariant.
LEMMA TypesAre == TypeOK <=> Types
  BY DEF TypeOK, Types, MsgsTo, UnitsTo

\* One frame more.
LEMMA Times ==
  ASSUME NEW a \in Nat, NEW f \in Nat
  PROVE  a * f \in Nat /\ (a + 1) * f \in Nat /\ (a + 1) * f = a * f + f
  OBVIOUS

\* Numbers the types rest on.
LEMMA Numbers ==
  ASSUME Types
  PROVE  /\ req.len \in Nat /\ req.len >= 5
         /\ req.kind \in Kinds
         /\ RecvCap \in Nat \ {0} /\ ExtraCap \in Nat \ {0} /\ FrameUnits \in Nat \ {0}
         /\ SendBuf \in Nat \ {0} /\ MaxIter \in Nat \ {0}
         /\ Len(wire) \in Nat /\ handled \in Nat /\ arrived \in Nat /\ got \in Nat
         /\ handled * FrameUnits \in Nat /\ Len(wire) * FrameUnits \in Nat /\ read \in Nat
         /\ (handled + 1) * FrameUnits = handled * FrameUnits + FrameUnits
         /\ (Len(wire) + 1) * FrameUnits = Len(wire) * FrameUnits + FrameUnits
         /\ (handled + 1) * FrameUnits \in Nat
         /\ \A m \in MsgsTo(handled) : Size(m) \in Nat \ {0}
  <1>1. req.len \in ReqLens /\ req.kind \in Kinds
    BY DEF Types
  <1>2. /\ RecvCap \in Nat \ {0} /\ ExtraCap \in Nat \ {0} /\ FrameUnits \in Nat \ {0}
        /\ SendBuf \in Nat \ {0} /\ MaxIter \in Nat \ {0}
    BY ConnectionAssumption
  <1>5. req.len \in Nat /\ req.len >= 5
    BY <1>1, ConnectionAssumption
  <1>6. Len(wire) \in Nat /\ handled \in Nat /\ arrived \in Nat /\ got \in Nat
    BY <1>5 DEF Types
  <1>7. FrameUnits \in Nat
    BY <1>2
  <1>8. /\ handled * FrameUnits \in Nat /\ (handled + 1) * FrameUnits \in Nat
        /\ (handled + 1) * FrameUnits = handled * FrameUnits + FrameUnits
        /\ Len(wire) * FrameUnits \in Nat
        /\ (Len(wire) + 1) * FrameUnits = Len(wire) * FrameUnits + FrameUnits
    BY <1>6, <1>7, Times, Zenon
  <1>9. read \in Nat
    <2> DEFINE x == handled * FrameUnits
               y == Len(wire) * FrameUnits
    <2>1. x \in Nat /\ y \in Nat /\ read \in x .. y
      BY <1>8 DEF Types
    <2> HIDE DEF x, y
    <2> QED  BY <2>1
  <1>10. \A m \in MsgsTo(handled) : Size(m) \in Nat \ {0}
    BY <1>6, Widen, SizeType
  <1> QED  BY <1>1, <1>2, <1>5, <1>6, <1>8, <1>9, <1>10, Zenon

\* The same for the numbers that are only added and compared.
LEMMA Counts ==
  ASSUME Types
  PROVE  /\ req.len \in Nat /\ req.len >= 5
         /\ RecvCap \in Nat /\ RecvCap > 0 /\ ExtraCap \in Nat /\ ExtraCap > 0
         /\ SendBuf \in Nat /\ SendBuf > 0 /\ MaxIter \in Nat /\ MaxIter > 0
         /\ arrived \in Nat /\ arrived <= req.len /\ got \in Nat /\ got <= arrived
         /\ Len(wire) \in Nat /\ handled \in Nat /\ handled <= Len(wire)
         /\ iter \in Nat /\ iter <= MaxIter /\ queued \in Nat /\ queued <= SendBuf
         /\ off \in Nat
  <1>1. /\ req.len \in Nat /\ req.len >= 5
        /\ RecvCap \in Nat \ {0} /\ ExtraCap \in Nat \ {0}
        /\ SendBuf \in Nat \ {0} /\ MaxIter \in Nat \ {0}
        /\ Len(wire) \in Nat /\ handled \in Nat /\ arrived \in Nat /\ got \in Nat
    BY Numbers, Zenon
  <1>2. arrived \in 0 .. req.len /\ got \in 0 .. arrived /\ handled \in 0 .. Len(wire)
        /\ iter \in 0 .. MaxIter /\ off \in Nat /\ queued \in 0 .. SendBuf
    BY DEF Types
  <1> QED  BY <1>1, <1>2

\* The first of the messages to send.
LEMMA FirstMessage ==
  ASSUME Types, sending # <<>>
  PROVE  /\ Len(sending) \in Nat /\ Len(sending) > 0
         /\ sending[1] \in MsgsTo(handled) /\ sending[1] \in Msgs
         /\ Size(sending[1]) \in Nat /\ Size(sending[1]) > 0
  <1>1. sending \in Seq(MsgsTo(handled)) /\ handled \in Nat
    BY Counts DEF Types
  <1>2. Len(sending) \in Nat /\ Len(sending) > 0 /\ sending[1] \in MsgsTo(handled)
    <2> DEFINE Z == MsgsTo(handled)
    <2> HIDE DEF Z
    <2> QED  BY <1>1, EmptySeq, LenProperties, ElementOfSeq DEF Z
  <1>3. sending[1] \in Msgs
    BY <1>1, <1>2, Widen
  <1>4. Size(sending[1]) \in Nat \ {0}
    BY <1>3, SizeType
  <1> QED  BY <1>2, <1>3, <1>4

\* What is left of the first message and fits the send buffer.
LEMMA SendRoom ==
  ASSUME Types, sending # <<>>, off < Size(sending[1])
  PROVE  /\ Lesser(Size(sending[1]) - off, SendBuf - queued) \in Nat
         /\ queued + Lesser(Size(sending[1]) - off, SendBuf - queued) <= SendBuf
         /\ queued < SendBuf => Lesser(Size(sending[1]) - off, SendBuf - queued) > 0
         /\ off + Lesser(Size(sending[1]) - off, SendBuf - queued) <= Size(sending[1])
         /\ \A n \in 1 .. Lesser(Size(sending[1]) - off, SendBuf - queued) :
              n \in Nat /\ n > 0 /\ queued + n <= SendBuf /\ off + n <= Size(sending[1])
  <1> DEFINE z == Size(sending[1])
             x == Lesser(z - off, SendBuf - queued)
  <1>1. z \in Nat /\ off \in Nat /\ off < z
    BY FirstMessage, Counts
  <1>2. queued \in Nat /\ SendBuf \in Nat /\ queued <= SendBuf
    BY Counts
  <1> HIDE DEF z
  <1>3. /\ x \in Nat /\ x <= z - off /\ x <= SendBuf - queued
        /\ x = z - off \/ x = SendBuf - queued
    BY <1>1, <1>2 DEF Lesser
  <1> HIDE DEF x
  <1>4. /\ x \in Nat /\ queued + x <= SendBuf
        /\ queued < SendBuf => x > 0
        /\ off + x <= z
        /\ \A n \in 1 .. x : n \in Nat /\ n > 0 /\ queued + n <= SendBuf /\ off + n <= z
    BY <1>1, <1>2, <1>3
  <1> QED  BY <1>4 DEF x, z

\* sendto adds units of the message that is being sent.
LEMMA SendToTypes ==
  ASSUME Types, NEW m \in MsgsTo(handled), NEW n \in Nat, SendTo(m, n),
         queued + n <= SendBuf
  PROVE  /\ out' \in Seq(UnitsTo(handled)) /\ queued' \in 0 .. SendBuf
         /\ n # 0 => out' # <<>>
  <1>1. off \in Nat /\ queued \in Nat /\ SendBuf \in Nat /\ handled \in Nat
    BY Numbers DEF Types
  <1> DEFINE p == Part(m, off, n)
  <1>2. p \in Seq(UnitsTo(handled)) /\ Len(p) = n
    <2>1. \A i \in 1 .. n : [msg |-> m, unit |-> off + i] \in UnitsTo(handled)
      BY <1>1 DEF UnitsTo
    <2> HIDE DEF UnitsTo
    <2> QED  BY <2>1 DEF Part
  <1>3. out' = out \o p /\ queued' = queued + n
    BY DEF SendTo
  <1> HIDE DEF p
  <1>4. out \in Seq(UnitsTo(handled))
    BY DEF Types
  <1>5. /\ out' \in Seq(UnitsTo(handled)) /\ Len(out') = Len(out) + n /\ Len(out) \in Nat
    BY <1>2, <1>3, <1>4, ConcatProperties, LenProperties
  <1> QED  BY <1>1, <1>3, <1>5

\* The answers to a request.
LEMMA RouteType ==
  ASSUME NEW n \in Nat, NEW g
  PROVE  /\ Route(g) \in Seq(MsgsTo(n))
         /\ Route(g) \in {<<>>, <<Msg("404")>>, <<Msg("page")>>, <<Msg("101")>>, <<Msg("101bad")>>}
  <1>1. Route(g) \in {<<>>, <<Msg("404")>>, <<Msg("page")>>, <<Msg("101")>>, <<Msg("101bad")>>}
    BY DEF Route
  <1>2. \A k \in MsgKinds : Msg(k) \in MsgsTo(n)
    BY DEF Msg, MsgsTo
  <1>3. Msg("404") \in MsgsTo(n) /\ Msg("page") \in MsgsTo(n) /\ Msg("101") \in MsgsTo(n)
        /\ Msg("101bad") \in MsgsTo(n)
    BY <1>2 DEF MsgKinds
  <1>4. \A x \in MsgsTo(n) : <<x>> \in Seq(MsgsTo(n))
    <2> DEFINE Z == MsgsTo(n)
    <2> HIDE DEF Z
    <2>1. \A x \in Z : <<x>> \in Seq(Z)
      OBVIOUS
    <2> QED  BY <2>1 DEF Z
  <1>5. <<>> \in Seq(MsgsTo(n))
    OBVIOUS
  <1> HIDE DEF MsgsTo, Msg
  <1> QED  BY <1>1, <1>3, <1>4, <1>5, Zenon

\* A frame that is available has been received in full.
LEMMA ReadEnough ==
  ASSUME Types, Available
  PROVE  read \in (handled + 1) * FrameUnits .. Len(wire) * FrameUnits
  <1> DEFINE x == (handled + 1) * FrameUnits
             y == Len(wire) * FrameUnits
             z == handled * FrameUnits
  <1>1. z \in Nat /\ x \in Nat /\ y \in Nat /\ read \in z .. y
    BY Numbers DEF Types
  <1>2. read >= x
    BY DEF Available
  <1> HIDE DEF x, y, z
  <1>3. read \in x .. y
    BY <1>1, <1>2
  <1> QED  BY <1>3 DEF x, y

\* A frame that is taken out of buf_acc.
LEMMA NextFrameTypes ==
  ASSUME Types, NEW op, NEW ms, NextFrame(op, ms), handled < Len(wire),
         ms \in Seq(MsgsTo(handled + 1)), frag' \in Seq(0 .. handled + 1)
  PROVE  Types'
  <1>1. handled' = handled + 1 /\ handled + 1 \in 0 .. Len(wire)
    BY Counts, SMTT(30) DEF NextFrame
  <1>2. read \in (handled + 1) * FrameUnits .. Len(wire) * FrameUnits
    BY ReadEnough DEF NextFrame
  <1>3. out \in Seq(UnitsTo(handled + 1))
    BY Widen, Numbers DEF Types
  <1>4. pc' \in {"parse", "send"}
    BY DEF NextFrame
  <1> QED  BY <1>1, <1>2, <1>3, <1>4 DEF Types, NextFrame, reqVars

\* The client adds a frame.
LEMMA SomeFrame ==
  ASSUME ClientFrame
  PROVE  \E f \in Frames : wire' = Append(wire, f)
  <1>1. [op |-> "pong", fin |-> TRUE] \in Frames
    BY DEF Frames
  <1> HIDE DEF Frames
  <1> QED  BY <1>1 DEF ClientFrame

\* The messages to a frame parsed out of bytes that are not frames.
LEMMA StrayMessageIs ==
  ASSUME Types, NEW f \in Frames
  PROVE  /\ \/ StrayMessage(f) = <<>>
            \/ \E s \in Seq(0 .. handled) : StrayMessage(f) = <<Echo(s), Msg("ping")>>
            \/ StrayMessage(f) = <<Pong(0)>>
         /\ StrayMessage(f) \in Seq(MsgsTo(handled))
  <1>1. 0 \in 0 .. handled /\ frag \in Seq(0 .. handled)
    BY Counts DEF Types
  <1>2. <<0>> \in Seq(0 .. handled) /\ Append(frag, 0) \in Seq(0 .. handled)
    BY <1>1, AppendProperties
  <1>3. \/ StrayMessage(f) = <<>>
        \/ \E s \in Seq(0 .. handled) : StrayMessage(f) = <<Echo(s), Msg("ping")>>
        \/ StrayMessage(f) = <<Pong(0)>>
    BY <1>2 DEF StrayMessage
  <1>4. /\ \A s \in Seq(0 .. handled) : Echo(s) \in MsgsTo(handled)
        /\ Msg("ping") \in MsgsTo(handled) /\ Pong(0) \in MsgsTo(handled)
    BY <1>2 DEF Echo, Msg, Pong, MsgsTo, MsgKinds
  <1>5. StrayMessage(f) \in Seq(MsgsTo(handled))
    <2> DEFINE Z == MsgsTo(handled)
    <2> HIDE DEF Z
    <2>1. /\ <<>> \in Seq(Z) /\ \A x \in Z : <<x>> \in Seq(Z)
          /\ \A x, y \in Z : <<x, y>> \in Seq(Z)
      OBVIOUS
    <2>2. CASE StrayMessage(f) = <<>>
      BY <2>1, <2>2 DEF Z
    <2>3. ASSUME NEW s \in Seq(0 .. handled), StrayMessage(f) = <<Echo(s), Msg("ping")>>
          PROVE  StrayMessage(f) \in Seq(Z)
      <3>1. Echo(s) \in Z /\ Msg("ping") \in Z
        BY <1>4 DEF Z
      <3>2. <<Echo(s), Msg("ping")>> \in Seq(Z)
        BY <2>1, <3>1, Zenon
      <3> QED  BY <2>3, <3>2
    <2>4. CASE StrayMessage(f) = <<Pong(0)>>
      <3>1. Pong(0) \in Z
        BY <1>4 DEF Z
      <3>2. <<Pong(0)>> \in Seq(Z)
        BY <2>1, <3>1, Zenon
      <3> QED  BY <2>4, <3>2 DEF Z
    <2> HIDE DEF StrayMessage
    <2> QED  BY <1>3, <2>2, <2>3, <2>4, Zenon DEF Z
  <1> QED  BY <1>3, <1>5

\* Every step keeps the types.
LEMMA TypeStep ==
  ASSUME Types, Shape, RequestStart, [Next]_vars
  PROVE  Types'
<1>1. CASE ClientRequest
  <2>1. arrived' \in 0 .. req.len /\ got \in 0 .. arrived'
    BY <1>1, Counts DEF ClientRequest
  <2> QED  BY <1>1, <2>1 DEF Types, ClientRequest, frameVars, sendVars
<1>2. CASE ClientFrame
  <2>1. wire' \in Seq(Frames) /\ Len(wire') = Len(wire) + 1 /\ Len(wire) + 1 <= MaxFrames
    <3>1. \E f \in Frames : wire' = Append(wire, f)
      BY <1>2, SomeFrame
    <3> HIDE DEF Frames
    <3> QED  BY <1>2, <3>1, Numbers, ConnectionAssumption DEF ClientFrame, Types
  <2>2. handled \in 0 .. Len(wire')
    BY <2>1, Numbers DEF Types
  <2>3. read \in handled * FrameUnits .. Len(wire') * FrameUnits
    <3> DEFINE x == handled * FrameUnits
               y == Len(wire) * FrameUnits
               z == (Len(wire) + 1) * FrameUnits
    <3>1. x \in Nat /\ y \in Nat /\ z = y + FrameUnits /\ FrameUnits \in Nat /\ read \in x .. y
      BY Numbers DEF Types
    <3> HIDE DEF x, y, z
    <3>2. read \in x .. z
      BY <3>1
    <3> QED  BY <2>1, <3>2 DEF x, z
  <2> QED  BY <1>2, <2>1, <2>2, <2>3 DEF Types, ClientFrame, reqVars, sendVars
<1>3. CASE ClientRead
  <2>1. queued' \in 0 .. SendBuf
    BY <1>3, Counts DEF ClientRead
  <2> QED  BY <1>3, <2>1 DEF Types, ClientRead, reqVars, frameVars
<1>4. CASE ClientLeave
  BY <1>4 DEF Types, ClientLeave, reqVars, frameVars, sendVars
<1>5. CASE PeerReset
  BY <1>5 DEF Types, PeerReset, reqVars, frameVars, sendVars
<1>6. CASE RecvRequest
  <2>1. got' \in 0 .. arrived
    BY <1>6, Counts DEF RecvRequest, ExtendBuf, Lesser, RequestStart
  <2>2. /\ sending' \in Seq(MsgsTo(handled)) /\ blocking' \in BOOLEAN
        /\ pc' \in {"extra", "close", "handshake", "send"}
    <3> DEFINE n == Lesser(arrived, RecvCap)
    <3>1. CASE pc' = "extra" /\ UNCHANGED <<sending, blocking>>
      BY <3>1 DEF Types
    <3>2. CASE Answer(n)
      BY <3>2, RouteType, Counts DEF Answer
    <3> QED  BY <1>6, <3>1, <3>2 DEF RecvRequest
  <2>3. whole' \in BOOLEAN
    BY <1>6 DEF RecvRequest
  <2> QED  BY <1>6, <2>1, <2>2, <2>3 DEF Types, RecvRequest, frameVars
<1>7. CASE RecvExtra
  <2>1. got' \in 0 .. arrived
    BY <1>7, Counts, SMTT(30) DEF RecvExtra, ExtendBuf, Lesser
  <2>2. /\ sending' \in Seq(MsgsTo(handled)) /\ blocking' \in BOOLEAN
        /\ pc' \in {"close", "handshake", "send"}
    BY <1>7, RouteType, Counts DEF RecvExtra, Answer
  <2> QED  BY <1>7, <2>1, <2>2 DEF Types, RecvExtra, frameVars
<1>8. CASE RecvRequestEmpty
  <2>1. /\ sending' \in Seq(MsgsTo(handled)) /\ blocking' \in BOOLEAN
        /\ pc' \in {"close", "handshake", "send"}
    <3>1. CASE pc' = "close" /\ UNCHANGED <<sending, blocking>>
      BY <3>1 DEF Types
    <3>2. CASE Answer(got)
      BY <3>2, RouteType, Counts DEF Answer
    <3> QED  BY <1>8, <3>1, <3>2 DEF RecvRequestEmpty
  <2>2. peer' \in {"here", "left", "reset", "pipe"}
    BY <1>8 DEF RecvRequestEmpty, Types
  <2> QED  BY <1>8, <2>1, <2>2 DEF Types, RecvRequestEmpty, reqVars, frameVars
<1>9. CASE CloseFd
  BY <1>9 DEF Types, CloseFd, reqVars, frameVars, sendVars
<1>10. CASE HandshakeSend
  <2> DEFINE m == sending[1]
  <2>1. m \in MsgsTo(handled) /\ Size(m) \in Nat /\ off \in Nat /\ off < Size(m)
    <3>1. sending \in Seq(MsgsTo(handled)) /\ sending # <<>> /\ off < Size(m) /\ off \in Nat
      BY <1>10 DEF HandshakeSend, Shape, Types
    <3> QED  BY <3>1, FirstMessage
  <2>2. PICK n \in 1 .. Lesser(Size(m) - off, SendBuf - queued) :
          /\ SendTo(m, n)
          /\ \/ off' = off + n /\ iter' = iter + 1 /\ UNCHANGED <<pc, sending, blocking>>
             \/ /\ off' = 0 /\ iter' = 0 /\ sending' = <<Msg("welcome")>>
                /\ pc' = "send" /\ blocking' = FALSE
    BY <1>10 DEF HandshakeSend, Restore
  <2>3. n \in Nat /\ queued + n <= SendBuf
    BY <1>10, <2>1, <2>2, SendRoom DEF HandshakeSend, Shape
  <2>4. out' \in Seq(UnitsTo(handled)) /\ queued' \in 0 .. SendBuf
    BY <2>1, <2>2, <2>3, SendToTypes
  <2>5. <<Msg("welcome")>> \in Seq(MsgsTo(handled))
    <3>1. Msg("welcome") \in MsgsTo(handled)
      BY DEF Msg, MsgsTo, MsgKinds
    <3> HIDE DEF MsgsTo
    <3> QED  BY <3>1
  <2>6. iter' \in 0 .. MaxIter /\ off' \in Nat
    <3>1. iter < MaxIter
      BY <1>10 DEF HandshakeSend
    <3>2. iter \in Nat /\ MaxIter \in Nat
      BY Counts
    <3> QED  BY <2>1, <2>2, <2>3, <3>1, <3>2
  <2>7. pc' \in {"handshake", "send"} /\ blocking' \in BOOLEAN /\ sending' \in Seq(MsgsTo(handled))
    BY <1>10, <2>2, <2>5 DEF HandshakeSend, Types
  <2>8. peer' = peer
    BY <2>2 DEF SendTo
  <2> QED  BY <1>10, <2>4, <2>6, <2>7, <2>8 DEF Types, HandshakeSend, reqVars, frameVars
<1>11. CASE HandshakeAgain
  <2>1. iter' \in 0 .. MaxIter
    BY <1>11, Counts DEF HandshakeAgain
  <2> QED  BY <1>11, <2>1 DEF Types, HandshakeAgain, reqVars, frameVars, sendVars
<1>12. CASE HandshakeFallback
  <2>1. sending' \in Seq(MsgsTo(handled))
    <3>1. Msg("welcome") \in MsgsTo(handled)
      BY DEF Msg, MsgsTo, MsgKinds
    <3> HIDE DEF MsgsTo
    <3> QED  BY <1>12, <3>1 DEF HandshakeFallback, Types
  <2>2. /\ peer' \in {"here", "left", "reset", "pipe"} /\ UNCHANGED <<out, queued>>
        /\ pc' = "send" /\ blocking' = FALSE /\ iter' = 0
    BY <1>12 DEF HandshakeFallback, SendError, Types, Restore
  <2>3. iter' \in 0 .. MaxIter
    BY <2>2, Counts
  <2> QED  BY <1>12, <2>1, <2>2, <2>3 DEF Types, HandshakeFallback, reqVars, frameVars
<1>13. CASE Send
  <2> DEFINE m == sending[1]
             n == Lesser(Size(m) - off, SendBuf - queued)
  <2>1. sending \in Seq(MsgsTo(handled)) /\ sending # <<>> /\ off < Size(m) /\ off \in Nat
    BY <1>13 DEF Send, Shape, Types
  <2>2. m \in MsgsTo(handled) /\ Size(m) \in Nat
    BY <2>1, FirstMessage
  <2>3. n \in Nat /\ queued + n <= SendBuf
    BY <2>1, SendRoom
  <2>4. SendTo(m, n)
    BY <1>13 DEF Send
  <2>5. out' \in Seq(UnitsTo(handled)) /\ queued' \in 0 .. SendBuf
    BY <2>2, <2>3, <2>4, SendToTypes
  <2>6. /\ sending' \in Seq(MsgsTo(handled)) /\ off' \in Nat
        /\ pc' \in {"send", "close", "frames", "parse"}
    <3>1. CASE off' = off + n /\ UNCHANGED <<pc, sending>>
      BY <1>13, <2>1, <2>3, <3>1 DEF Send
    <3>2. CASE NextMessage
      BY <2>1, <3>2, HeadTailProperties DEF NextMessage
    <3> QED  BY <1>13, <3>1, <3>2 DEF Send
  <2>7. cut' \in BOOLEAN /\ peer' = peer
    BY <1>13, <2>4 DEF Send, SendTo
  <2> QED  BY <1>13, <2>5, <2>6, <2>7 DEF Types, Send, reqVars, frameVars
<1>14. CASE SendFails
  <2>1. sending \in Seq(MsgsTo(handled)) /\ sending # <<>>
    BY <1>14 DEF SendFails, Shape, Types
  <2>2. /\ sending' \in Seq(MsgsTo(handled)) /\ off' \in Nat
        /\ pc' \in {"send", "close", "frames", "parse"}
    BY <1>14, <2>1, HeadTailProperties DEF SendFails, NextMessage
  <2>3. peer' = "pipe" /\ UNCHANGED <<out, queued>>
    BY <1>14 DEF SendFails, SendError
  <2> QED  BY <1>14, <2>2, <2>3 DEF Types, SendFails, reqVars, frameVars
<1>15. CASE Killed
  BY <1>15 DEF Types, Killed, reqVars, frameVars, sendVars
<1>16. CASE RecvFrames
  <2>1. read' \in handled * FrameUnits .. Len(wire) * FrameUnits
    <3> DEFINE x == handled * FrameUnits
               y == Len(wire) * FrameUnits
    <3>1. x \in Nat /\ y \in Nat /\ read \in x .. y /\ read' \in read + 1 .. y
      BY <1>16, Numbers DEF Types, RecvFrames
    <3> HIDE DEF x, y
    <3>2. read' \in x .. y
      BY <3>1
    <3> QED  BY <3>2 DEF x, y
  <2> QED  BY <1>16, <2>1 DEF Types, RecvFrames, reqVars, sendVars
<1>17. CASE RecvLate
  <2>1. late' \in Nat /\ stray \in 0 .. late'
    <3> DEFINE y == Len(wire) * FrameUnits
    <3>1. /\ arrived \in Nat /\ got \in Nat /\ got <= arrived /\ y \in Nat /\ late \in Nat
          /\ stray \in 0 .. late
      BY Counts, Numbers DEF Types
    <3>2. late' \in late + 1 .. arrived - got + y
      BY <1>17 DEF RecvLate, Behind
    <3> HIDE DEF y
    <3> QED  BY <3>1, <3>2
  <2> QED  BY <1>17, <2>1 DEF Types, RecvLate, frameVars, sendVars
<1>18. CASE RecvFramesEmpty
  BY <1>18 DEF Types, RecvFramesEmpty, reqVars, frameVars, sendVars
<1>19. CASE ParseNone
  BY <1>19 DEF Types, ParseNone, reqVars, frameVars, sendVars
<1>20. CASE handled < Len(wire) /\ Continuation(handled + 1)
  <2> DEFINE i == handled + 1
  <2>1. i \in Nat /\ i \in 0 .. i /\ frag \in Seq(0 .. i)
    BY Counts, Widen DEF Types
  <2>2. <<>> \in Seq(MsgsTo(i)) /\ Msg("ping") \in MsgsTo(i)
    BY DEF Msg, MsgsTo, MsgKinds
  <2>3. ASSUME NEW s \in Seq(0 .. i) PROVE <<Echo(s), Msg("ping")>> \in Seq(MsgsTo(i))
    <3>1. Echo(s) \in MsgsTo(i)
      BY DEF Echo, MsgsTo, MsgKinds
    <3> HIDE DEF MsgsTo
    <3> QED  BY <2>2, <3>1
  <2>4. Append(frag, i) \in Seq(0 .. i) /\ <<>> \in Seq(0 .. i)
    BY <2>1, AppendProperties
  <2> HIDE DEF i
  <2>5. \E op, ms : NextFrame(op, ms) /\ ms \in Seq(MsgsTo(i)) /\ frag' \in Seq(0 .. i)
    BY <1>20, <2>1, <2>2, <2>3, <2>4 DEF Continuation, i
  <2> QED  BY <1>20, <2>5, NextFrameTypes DEF i
<1>21. CASE handled < Len(wire) /\ Data(handled + 1)
  <2> DEFINE i == handled + 1
  <2>1. i \in Nat /\ i \in 0 .. i /\ frag \in Seq(0 .. i)
    BY Counts, Widen DEF Types
  <2>2. <<>> \in Seq(MsgsTo(i)) /\ Msg("ping") \in MsgsTo(i)
    BY DEF Msg, MsgsTo, MsgKinds
  <2>3. ASSUME NEW s \in Seq(0 .. i) PROVE <<Echo(s), Msg("ping")>> \in Seq(MsgsTo(i))
    <3>1. Echo(s) \in MsgsTo(i)
      BY DEF Echo, MsgsTo, MsgKinds
    <3> HIDE DEF MsgsTo
    <3> QED  BY <2>2, <3>1
  <2>4. <<i>> \in Seq(0 .. i)
    BY <2>1
  <2> HIDE DEF i
  <2>5. \E op, ms : NextFrame(op, ms) /\ ms \in Seq(MsgsTo(i)) /\ frag' \in Seq(0 .. i)
    BY <1>21, <2>1, <2>2, <2>3, <2>4 DEF Data, i
  <2> QED  BY <1>21, <2>5, NextFrameTypes DEF i
<1>22. CASE handled < Len(wire) /\ Ping(handled + 1)
  <2> DEFINE i == handled + 1
  <2>1. i \in Nat /\ i \in 0 .. i /\ frag \in Seq(0 .. i) /\ <<i>> \in Seq(0 .. i)
    BY Counts, Widen DEF Types
  <2>2. Pong(i) \in MsgsTo(i)
    BY <2>1 DEF Pong, MsgsTo, MsgKinds
  <2>3. <<Pong(i)>> \in Seq(MsgsTo(i))
    <3> HIDE DEF i, MsgsTo
    <3> QED  BY <2>2
  <2>4. NextFrame("ping", <<Pong(i)>>) /\ frag' = frag
    BY <1>22 DEF Ping
  <2> QED  BY <1>22, <2>1, <2>3, <2>4, NextFrameTypes
<1>23. CASE handled < Len(wire) /\ Ignore(handled + 1)
  <2>1. frag \in Seq(0 .. handled + 1) /\ <<>> \in Seq(MsgsTo(handled + 1))
    BY Counts, Widen DEF Types
  <2>2. NextFrame("pong", <<>>) /\ frag' = frag
    BY <1>23 DEF Ignore
  <2> QED  BY <1>23, <2>1, <2>2, NextFrameTypes
<1>24. CASE handled < Len(wire) /\ CloseFrame(handled + 1)
  <2>1. handled' = handled + 1 /\ handled + 1 \in 0 .. Len(wire) /\ handled \in Nat
    BY <1>24, Counts DEF CloseFrame
  <2>2. read \in (handled + 1) * FrameUnits .. Len(wire) * FrameUnits
    BY <1>24, ReadEnough DEF CloseFrame
  <2>3. /\ out \in Seq(UnitsTo(handled + 1)) /\ sending \in Seq(MsgsTo(handled + 1))
        /\ frag \in Seq(0 .. handled + 1)
    BY <2>1, Widen DEF Types
  <2> QED  BY <1>24, <2>1, <2>2, <2>3 DEF Types, CloseFrame, reqVars, sendVars
<1>25. CASE UNCHANGED vars
  BY <1>25 DEF Types, reqVars, frameVars, sendVars, vars
<1>26. CASE StrayFrame
  <2>1. PICK f \in Frames :
          /\ sending' = StrayMessage(f) /\ pc' \in {"close", "parse", "send"}
          /\ frag' \in {<<0>>, <<>>, Append(frag, 0), frag}
    BY <1>26 DEF StrayFrame
  <2>2. sending' \in Seq(MsgsTo(handled))
    BY <2>1, StrayMessageIs
  <2>3. frag' \in Seq(0 .. handled)
    <3>1. 0 \in 0 .. handled /\ frag \in Seq(0 .. handled)
      BY Counts DEF Types
    <3>2. /\ <<0>> \in Seq(0 .. handled) /\ Append(frag, 0) \in Seq(0 .. handled)
          /\ <<>> \in Seq(0 .. handled)
      BY <3>1, AppendProperties
    <3> QED  BY <2>1, <3>1, <3>2
  <2>4. stray' \in 0 .. late
    <3>1. late \in Nat /\ stray \in 0 .. late /\ MaxStray \in Nat
      BY ConnectionAssumption DEF Types
    <3>2. stray < Lesser(late, MaxStray) /\ stray' = stray + 1
      BY <1>26 DEF StrayFrame
    <3> QED  BY <3>1, <3>2 DEF Lesser
  <2> QED  BY <1>26, <2>1, <2>2, <2>3, <2>4 DEF Types, StrayFrame
<1>27. CASE StrayPanic
  BY <1>27 DEF Types, StrayPanic, reqVars, frameVars, sendVars
<1> QED BY <1>1, <1>2, <1>3, <1>4, <1>5, <1>6, <1>7, <1>8, <1>9, <1>10, <1>11, <1>12,
      <1>13, <1>14, <1>15, <1>16, <1>17, <1>18, <1>19, <1>20, <1>21, <1>22, <1>23,
      <1>24, <1>25, <1>26, <1>27 DEF Next, Client, Handler, FrameLoop, Over

\* Nothing is read before there is a frame.
LEMMA NothingRead ==
  ASSUME Types, wire = <<>>
  PROVE  read = 0 /\ handled = 0
  <1>1. Len(wire) = 0 /\ handled = 0
    BY Counts, EmptySeq
  <1>2. 0 * FrameUnits = 0
    BY Numbers
  <1>3. read \in 0 * FrameUnits .. 0 * FrameUnits
    BY <1>1 DEF Types
  <1> QED  BY <1>1, <1>2, <1>3

\* What a request is answered with.
LEMMA AnswerIs ==
  ASSUME NEW g, Answer(g)
  PROVE  /\ sending' = Route(g)
         /\ \/ sending' = <<>> /\ pc' = "close" /\ blocking' = FALSE
            \/ /\ sending' \in {<<Msg("101")>>, <<Msg("101bad")>>}
               /\ pc' = "handshake" /\ blocking' = TRUE
            \/ /\ sending' \in {<<Msg("404")>>, <<Msg("page")>>}
               /\ pc' = "send" /\ blocking' = FALSE
  <1>1. Route(g) \in {<<>>, <<Msg("404")>>, <<Msg("page")>>, <<Msg("101")>>, <<Msg("101bad")>>}
    BY RouteType
  <1>2. \A k : <<Msg(k)>> # <<>> /\ <<Msg(k)>>[1].kind = k
    BY DEF Msg
  <1>3. sending' = Route(g)
    BY DEF Answer
  <1>4. CASE Route(g) = <<>>
    BY <1>3, <1>4 DEF Answer
  <1>5. CASE Route(g) \in {<<Msg("101")>>, <<Msg("101bad")>>}
    <2>1. Route(g) # <<>> /\ Route(g)[1].kind \in {"101", "101bad"}
      BY <1>2, <1>5
    <2> QED  BY <1>3, <1>5, <2>1 DEF Answer
  <1>6. CASE Route(g) \in {<<Msg("404")>>, <<Msg("page")>>}
    <2>1. Route(g) # <<>> /\ Route(g)[1].kind \notin {"101", "101bad"}
      BY <1>2, <1>6
    <2> QED  BY <1>3, <1>6, <2>1 DEF Answer
  <1> QED  BY <1>1, <1>4, <1>5, <1>6

\* No part of a message has been sent.
LEMMA NoPart ==
  ASSUME NEW m
  PROVE  Part(m, 0, 0) = <<>>
  BY DEF Part

\* The control state once the request is answered.
LEMMA AnswerShape ==
  ASSUME Shape, NEW g, Answer(g), UNCHANGED <<off, out, wire, cut, read>>, out = <<>>,
         wire = <<>>, off = 0
  PROVE  Shape'
  <1>1. /\ \/ sending' = <<>> /\ pc' = "close"
           \/ sending' \in {<<Msg("101")>>, <<Msg("101bad")>>} /\ pc' = "handshake"
           \/ sending' \in {<<Msg("404")>>, <<Msg("page")>>} /\ pc' = "send"
    BY AnswerIs
  <1>2. ~cut'
    BY DEF Shape
  <1>3. \A k \in {"101", "101bad", "404", "page"} :
           /\ <<Msg(k)>> # <<>> /\ 0 < Size(<<Msg(k)>>[1])
           /\ \A i \in DOMAIN <<Msg(k)>> : <<Msg(k)>>[i].kind # "welcome"
    BY ConnectionAssumption DEF Msg, Size, MsgKinds
  <1>4. CASE sending' = <<>>
    BY <1>1, <1>2, <1>4 DEF Shape
  <1>5. CASE sending' \in {<<Msg("101")>>, <<Msg("101bad")>>, <<Msg("404")>>, <<Msg("page")>>}
    <2>1. pc' \in {"handshake", "send"}
          /\ (pc' = "handshake" => sending' \in {<<Msg("101")>>, <<Msg("101bad")>>})
      BY <1>1, <1>3, <1>5
    <2>2. /\ sending' # <<>> /\ 0 < Size(sending'[1])
          /\ \A i \in DOMAIN sending' : sending'[i].kind # "welcome"
      BY <1>3, <1>5
    <2> QED  BY <1>2, <2>1, <2>2, NoPart DEF Shape
  <1> QED  BY <1>1, <1>4, <1>5

\* What sendto does.
LEMMA SendToIs ==
  ASSUME Types, NEW m \in Msgs, NEW n \in Nat, SendTo(m, n)
  PROVE  /\ out \in Seq(UnitSet) /\ Part(m, off, n) \in Seq(UnitSet)
         /\ out' = out \o Part(m, off, n) /\ Len(out') = Len(out) + n /\ Len(out) \in Nat
         /\ n > 0 => out' # <<>>
         /\ out # <<>> => out'[1] = out[1]
         /\ out = <<>> /\ n > 0 => out'[1].msg = m
         /\ peer' = peer /\ Reachable
  <1> DEFINE p == Part(m, off, n)
  <1>1. /\ p \in Seq(UnitSet) /\ Len(p) = n
        /\ \A i \in 1 .. n : p[i] = [msg |-> m, unit |-> off + i]
    BY PartType, Counts
  <1>2. out \in Seq(UnitSet)
    BY Widen, Counts DEF Types
  <1>3. out' = out \o p /\ peer' = peer /\ Reachable
    BY DEF SendTo, Reachable
  <1> HIDE DEF p
  <1>4. /\ Len(out') = Len(out) + n /\ Len(out) \in Nat
        /\ \A i \in 1 .. Len(out) + n : out'[i] = IF i <= Len(out) THEN out[i] ELSE p[i - Len(out)]
    BY <1>1, <1>2, <1>3, ConcatProperties, LenProperties
  <1>5. n > 0 => out' # <<>>
    BY <1>4
  <1>6. out # <<>> => out'[1] = out[1]
    <2>1. out # <<>> => Len(out) > 0
      BY <1>2, EmptySeq, LenProperties
    <2> QED  BY <1>4, <2>1
  <1>7. out = <<>> /\ n > 0 => out'[1].msg = m
    <2> SUFFICES ASSUME out = <<>>, n > 0 PROVE out'[1].msg = m
      OBVIOUS
    <2>1. Len(out) = 0
      BY EmptySeq
    <2>2. out'[1] = p[1]
      BY <1>4, <2>1
    <2>3. p[1] = [msg |-> m, unit |-> off + 1]
      BY <1>1
    <2> QED  BY <2>2, <2>3
  <1> QED  BY <1>1, <1>2, <1>3, <1>4, <1>5, <1>6, <1>7 DEF p

\* After a message.
LEMMA NextMessageIs ==
  ASSUME Types, sending # <<>>, NextMessage
  PROVE  /\ sending' = Tail(sending) /\ off' = 0
         /\ pc' \in {"send", "close", "frames", "parse"}
         /\ pc' = "send" <=> sending' # <<>>
         /\ pc' = "close" => sending[1].kind \in {"page", "404"}
         /\ pc' = "frames" => sending[1].kind = "welcome"
         /\ pc' = "parse" => sending[1].kind \notin {"page", "404", "welcome"}
         /\ Len(sending) \in Nat \ {0} /\ Len(sending') = Len(sending) - 1
         /\ \A i \in 1 .. Len(sending') : sending'[i] = sending[i + 1]
         /\ sending = <<sending[1]>> \o sending'
         /\ sending' \in Seq(MsgsTo(handled)) /\ sending' \in Seq(Msgs)
  <1>1. sending \in Seq(MsgsTo(handled)) /\ handled \in Nat
    BY Counts DEF Types
  <1>2. /\ sending' = Tail(sending) /\ off' = 0
        /\ pc' \in {"send", "close", "frames", "parse"}
        /\ pc' = "send" <=> sending' # <<>>
        /\ pc' = "close" => sending[1].kind \in {"page", "404"}
        /\ pc' = "frames" => sending[1].kind = "welcome"
        /\ pc' = "parse" => sending[1].kind \notin {"page", "404", "welcome"}
    BY DEF NextMessage
  <1>3. /\ Len(sending) \in Nat \ {0} /\ Len(Tail(sending)) = Len(sending) - 1
        /\ \A i \in 1 .. Len(Tail(sending)) : Tail(sending)[i] = sending[i + 1]
        /\ sending = <<sending[1]>> \o Tail(sending)
        /\ Tail(sending) \in Seq(MsgsTo(handled))
    <2> DEFINE Z == MsgsTo(handled)
    <2>1. sending \in Seq(Z)
      BY <1>1
    <2> HIDE DEF Z
    <2>2. /\ Len(sending) \in Nat \ {0} /\ Len(Tail(sending)) = Len(sending) - 1
          /\ \A i \in 1 .. Len(Tail(sending)) : Tail(sending)[i] = sending[i + 1]
          /\ Tail(sending) \in Seq(Z)
      BY <2>1
    <2>3. sending = <<sending[1]>> \o Tail(sending)
      BY <2>1, <2>2
    <2> QED  BY <2>2, <2>3 DEF Z
  <1>4. Tail(sending) \in Seq(Msgs)
    BY <1>1, <1>3, Widen
  <1> QED  BY <1>2, <1>3, <1>4

\* The control state after a message.
LEMMA NextMessageShape ==
  ASSUME Types, Shape, sending # <<>>, NextMessage, UNCHANGED read,
         Types', Reachable' /\ pc' \in {"frames", "parse"} => out' # <<>>, cut' => out' # <<>>
  PROVE  Shape'
  <1>1. /\ off' = 0 /\ pc' \in {"send", "close", "frames", "parse"}
        /\ pc' = "send" <=> sending' # <<>>
        /\ Len(sending) \in Nat \ {0} /\ Len(sending') = Len(sending) - 1
        /\ \A i \in 1 .. Len(sending') : sending'[i] = sending[i + 1]
    BY NextMessageIs
  <1>2. DOMAIN sending = 1 .. Len(sending) /\ DOMAIN sending' = 1 .. Len(sending')
    BY NextMessageIs DEF Types
  <1>3. \A i \in DOMAIN sending' : sending'[i].kind = "welcome" => read' = 0
    BY <1>1, <1>2 DEF Shape
  <1>4. pc' = "send" => off' < Size(sending[1])'
    <2> SUFFICES ASSUME sending' # <<>> PROVE 0 < Size(sending'[1])
      BY <1>1
    <2>1. sending' \in Seq(Msgs) /\ 1 \in 1 .. Len(sending')
      BY <1>1, NextMessageIs, EmptySeq
    <2>2. sending'[1] \in Msgs
      BY <2>1, ElementOfSeq
    <2> QED  BY <2>2, SizeType
  <1> QED  BY <1>1, <1>3, <1>4 DEF Shape

\* After a frame.
LEMMA NextFrameShape ==
  ASSUME Shape, Types', NEW op, NEW ms, NextFrame(op, ms),
         \/ ms = <<>>
         \/ \E s : ms = <<Echo(s), Msg("ping")>>
         \/ \E s : ms = <<Pong(s)>>
  PROVE  Shape'
  <1>1. \A i \in DOMAIN ms : ms[i].kind # "welcome"
    BY DEF Echo, Msg, Pong
  <1>2. ms # <<>> => 0 < Size(ms[1])
    BY ConnectionAssumption DEF Echo, Msg, Pong, Size, MsgKinds
  <1>3. /\ sending' = ms /\ pc = "parse" /\ pc' = IF ms = <<>> THEN "parse" ELSE "send"
        /\ UNCHANGED <<wire, read, out, cut, off, peer>>
    BY DEF NextFrame
  <1> QED  BY <1>1, <1>2, <1>3 DEF Shape, Reachable

\* Every step keeps the control state.
LEMMA ShapeStep ==
  ASSUME Types, Shape, RequestStart, Types', [Next]_vars
  PROVE  Shape'
<1>1. CASE ClientRequest
  BY <1>1 DEF Shape, Reachable, Size, Part, ClientRequest, reqVars, frameVars, sendVars
<1>2. CASE ClientFrame
  <2>1. pc \notin {"request", "extra"}
    BY <1>2 DEF ClientFrame, Shape
  <2>2. ASSUME pc = "handshake" PROVE FALSE
    <3>1. PICK k \in {"101", "101bad"} : sending = <<Msg(k)>>
      BY <2>2 DEF Shape
    <3> DEFINE m == sending[1]
    <3>2. m = Msg(k) /\ m \in Msgs /\ sending # <<>>
      BY <3>1, FirstMessage
    <3>3. out = Part(m, 0, off) /\ off < Size(m) /\ off \in Nat
      BY <2>2, Counts DEF Shape
    <3>4. Len(out) = off /\ \A i \in 1 .. off : out[i] = [msg |-> m, unit |-> 0 + i]
      BY <3>2, <3>3, PartType
    <3>5. out # <<>> => off > 0
      BY <3>3, <3>4, PartType, <3>2, EmptySeq
    <3>6. off > 0 /\ out[1].msg = m
      <4>1. out # <<>>
        BY <1>2 DEF ClientFrame
      <4>2. off > 0 /\ 1 \in 1 .. off
        BY <3>3, <3>5, <4>1
      <4>3. out[1] = [msg |-> m, unit |-> 0 + 1]
        BY <3>4, <4>2
      <4> QED  BY <4>2, <4>3
    <3>7. k = "101"
      BY <1>2, <3>2, <3>6 DEF ClientFrame, Msg
    <3>8. Size(m) = Units["101"]
      BY <3>2, <3>7 DEF Size, Msg
    <3>9. off - queued >= Units["101"]
      BY <1>2, <3>4 DEF ClientFrame
    <3> QED  BY <3>3, <3>8, <3>9, Counts, FirstMessage, <3>2
  <2>3. UNCHANGED <<sending, off, out, cut, read, pc, peer>>
    BY <1>2 DEF ClientFrame, sendVars
  <2> QED  BY <2>1, <2>2, <2>3 DEF Shape, Reachable, Size
<1>3. CASE ClientRead
  BY <1>3 DEF Shape, Reachable, Size, Part, ClientRead, reqVars, frameVars, sendVars
<1>4. CASE ClientLeave
  BY <1>4 DEF Shape, Reachable, Size, Part, ClientLeave, reqVars, frameVars, sendVars
<1>5. CASE PeerReset
  BY <1>5 DEF Shape, Reachable, Size, Part, PeerReset, reqVars, frameVars, sendVars
<1>6. CASE RecvRequest
  <2>1. out = <<>> /\ wire = <<>> /\ sending = <<>> /\ off = 0
    BY <1>6 DEF RecvRequest, Shape
  <2>2. UNCHANGED <<off, out, wire, cut, read, peer>>
    BY <1>6 DEF RecvRequest, frameVars
  <2>3. CASE pc' = "extra" /\ UNCHANGED <<sending, blocking>>
    BY <2>1, <2>2, <2>3 DEF Shape
  <2>4. CASE \E g : Answer(g)
    BY <2>1, <2>2, <2>4, AnswerShape
  <2> QED  BY <1>6, <2>3, <2>4 DEF RecvRequest
<1>7. CASE RecvExtra
  <2>1. out = <<>> /\ wire = <<>> /\ off = 0
    BY <1>7 DEF RecvExtra, Shape
  <2>2. UNCHANGED <<off, out, wire, cut, read>>
    BY <1>7 DEF RecvExtra, frameVars
  <2>3. \E g : Answer(g)
    BY <1>7 DEF RecvExtra
  <2> QED  BY <2>1, <2>2, <2>3, AnswerShape
<1>8. CASE RecvRequestEmpty
  <2>1. out = <<>> /\ wire = <<>> /\ sending = <<>> /\ off = 0
    BY <1>8 DEF RecvRequestEmpty, Shape
  <2>2. UNCHANGED <<off, out, wire, cut, read>>
    BY <1>8 DEF RecvRequestEmpty, frameVars
  <2>3. CASE pc' = "close" /\ UNCHANGED <<sending, blocking>>
    BY <2>1, <2>2, <2>3 DEF Shape
  <2>4. CASE Answer(got)
    BY <2>1, <2>2, <2>4, AnswerShape
  <2> QED  BY <1>8, <2>3, <2>4 DEF RecvRequestEmpty
<1>9. CASE CloseFd
  BY <1>9 DEF Shape, Reachable, Size, Part, CloseFd, reqVars, frameVars, sendVars
<1>10. CASE HandshakeSend
  <2> DEFINE m == sending[1]
  <2>1. /\ sending # <<>> /\ sending \in {<<Msg("101")>>, <<Msg("101bad")>>}
        /\ wire = <<>> /\ out = Part(m, 0, off) /\ off < Size(m)
    BY <1>10 DEF HandshakeSend, Shape
  <2>2. PICK n \in 1 .. Lesser(Size(m) - off, SendBuf - queued) :
          /\ SendTo(m, n)
          /\ \/ off + n < Size(m) /\ off' = off + n /\ UNCHANGED <<pc, sending>>
             \/ off' = 0 /\ sending' = <<Msg("welcome")>> /\ pc' = "send"
    BY <1>10 DEF HandshakeSend
  <2>3. n \in Nat /\ n > 0 /\ m \in Msgs /\ off \in Nat
    BY <2>1, <2>2, SendRoom, FirstMessage, Counts
  <2>4. out' = out \o Part(m, off, n) /\ out' # <<>>
    BY <2>2, <2>3, SendToIs
  <2>5. out' = Part(m, 0, off + n)
    BY <2>1, <2>3, <2>4, PartConcat
  <2>6. UNCHANGED <<wire, read, cut>> /\ pc = "handshake"
    BY <1>10 DEF HandshakeSend, frameVars
  <2>7. read = 0
    BY <2>1, NothingRead
  <2>8. CASE off + n < Size(m) /\ off' = off + n /\ UNCHANGED <<pc, sending>>
    <3>1. Size(sending[1])' = Size(m)
      BY <2>8 DEF Size
    <3> QED  BY <2>1, <2>4, <2>5, <2>6, <2>7, <2>8, <3>1 DEF Shape
  <2>9. CASE off' = 0 /\ sending' = <<Msg("welcome")>> /\ pc' = "send"
    <3>1. 0 < Size(<<Msg("welcome")>>[1]) /\ <<Msg("welcome")>> # <<>>
      BY ConnectionAssumption DEF Msg, Size, MsgKinds
    <3> QED  BY <2>4, <2>6, <2>7, <2>9, <3>1 DEF Shape
  <2> QED  BY <2>2, <2>8, <2>9
<1>11. CASE HandshakeAgain
  BY <1>11 DEF Shape, Reachable, Size, Part, HandshakeAgain, reqVars, frameVars, sendVars
<1>12. CASE HandshakeFallback
  <2>1. /\ sending # <<>> /\ off < Size(sending[1]) /\ wire = <<>>
    BY <1>12 DEF HandshakeFallback, Shape
  <2>2. read = 0
    BY <2>1, NothingRead
  <2>3. sending' # <<>> /\ sending'[1] = sending[1]
    <3>1. \E k : sending = <<Msg(k)>>
      BY <1>12 DEF HandshakeFallback, Shape
    <3> QED  BY <1>12, <3>1 DEF HandshakeFallback
  <2>4. pc' = "send" /\ UNCHANGED <<off, out, cut, wire, read>>
    BY <1>12 DEF HandshakeFallback, SendError, frameVars
  <2>5. off' < Size(sending'[1])
    BY <2>1, <2>3, <2>4
  <2> QED  BY <2>2, <2>3, <2>4, <2>5 DEF Shape
<1>13. CASE Send
  <2> DEFINE m == sending[1]
             n == Lesser(Size(m) - off, SendBuf - queued)
  <2>1. sending # <<>> /\ off < Size(m) /\ queued < SendBuf /\ pc = "send"
    BY <1>13 DEF Send, Shape
  <2>2. n \in Nat /\ n > 0 /\ m \in Msgs
    BY <2>1, SendRoom, FirstMessage
  <2>3. SendTo(m, n) /\ UNCHANGED <<wire, read>>
    BY <1>13 DEF Send, frameVars
  <2> HIDE DEF n
  <2>4. out' # <<>>
    BY <2>2, <2>3, SendToIs
  <2>5. CASE off + n < Size(m) /\ off' = off + n /\ UNCHANGED <<pc, sending>>
    <3>1. Size(sending[1])' = Size(m)
      BY <2>5 DEF Size
    <3> QED  BY <2>1, <2>3, <2>4, <2>5, <3>1 DEF Shape
  <2>6. CASE NextMessage
    BY <2>1, <2>3, <2>4, <2>6, NextMessageShape
  <2> QED  BY <1>13, <2>5, <2>6 DEF Send, n
<1>14. CASE SendFails
  <2>1. /\ sending # <<>> /\ ~Reachable' /\ NextMessage
        /\ UNCHANGED <<read, out, cut>>
    BY <1>14 DEF SendFails, Shape, SendError, Reachable, frameVars
  <2>2. cut => out # <<>>
    BY DEF Shape
  <2> QED  BY <2>1, <2>2, NextMessageShape
<1>15. CASE Killed
  BY <1>15 DEF Shape, Reachable, Size, Part, Killed, reqVars, frameVars, sendVars
<1>16. CASE RecvFrames
  BY <1>16 DEF Shape, Reachable, Size, RecvFrames, reqVars, sendVars
<1>17. CASE RecvLate
  BY <1>17 DEF Shape, Reachable, Size, Part, RecvLate, frameVars, sendVars
<1>18. CASE RecvFramesEmpty
  BY <1>18 DEF Shape, Reachable, Size, Part, RecvFramesEmpty, reqVars, frameVars, sendVars
<1>19. CASE ParseNone
  BY <1>19 DEF Shape, Reachable, Size, Part, ParseNone, reqVars, frameVars, sendVars
<1>20. CASE handled < Len(wire) /\ Continuation(handled + 1)
  <2>1. \E op, ms : /\ NextFrame(op, ms)
                    /\ \/ ms = <<>> \/ (\E s : ms = <<Echo(s), Msg("ping")>>)
                       \/ (\E s : ms = <<Pong(s)>>)
    BY <1>20 DEF Continuation
  <2> QED  BY <2>1, NextFrameShape
<1>21. CASE handled < Len(wire) /\ Data(handled + 1)
  <2>1. \E op, ms : /\ NextFrame(op, ms)
                    /\ \/ ms = <<>> \/ (\E s : ms = <<Echo(s), Msg("ping")>>)
                       \/ (\E s : ms = <<Pong(s)>>)
    BY <1>21 DEF Data
  <2> QED  BY <2>1, NextFrameShape
<1>22. CASE handled < Len(wire) /\ Ping(handled + 1)
  <2>1. \E op, ms : /\ NextFrame(op, ms)
                    /\ \/ ms = <<>> \/ (\E s : ms = <<Echo(s), Msg("ping")>>)
                       \/ (\E s : ms = <<Pong(s)>>)
    BY <1>22 DEF Ping
  <2> QED  BY <2>1, NextFrameShape
<1>23. CASE handled < Len(wire) /\ Ignore(handled + 1)
  <2>1. \E op, ms : /\ NextFrame(op, ms)
                    /\ \/ ms = <<>> \/ (\E s : ms = <<Echo(s), Msg("ping")>>)
                       \/ (\E s : ms = <<Pong(s)>>)
    BY <1>23 DEF Ignore
  <2> QED  BY <2>1, NextFrameShape
<1>24. CASE handled < Len(wire) /\ CloseFrame(handled + 1)
  BY <1>24 DEF Shape, Reachable, Size, Part, CloseFrame, reqVars, frameVars, sendVars
<1>25. CASE UNCHANGED vars
  BY <1>25 DEF Shape, Reachable, Size, Part, vars, reqVars, frameVars, sendVars
<1>26. CASE StrayFrame
  <2> PICK f \in Frames : /\ sending' = StrayMessage(f)
                          /\ pc' = CASE f.op = "close" -> "close"
                                     [] f.op # "close" /\ sending' = <<>> -> "parse"
                                     [] OTHER -> "send"
    BY <1>26 DEF StrayFrame
  <2> DEFINE ms == StrayMessage(f)
  <2>1. ms = <<>> \/ (\E s : ms = <<Echo(s), Msg("ping")>>) \/ ms = <<Pong(0)>>
    BY StrayMessageIs
  <2>2. f.op = "close" => ms = <<>>
    BY DEF StrayMessage
  <2> HIDE DEF ms
  <2>3. \A i \in DOMAIN ms : ms[i].kind # "welcome"
    BY <2>1 DEF Echo, Msg, Pong
  <2>4. ms # <<>> => 0 < Size(ms[1])
    BY <2>1, ConnectionAssumption DEF Echo, Msg, Pong, Size, MsgKinds
  <2>5. /\ sending' = ms /\ pc = "parse"
        /\ \/ ms = <<>> /\ pc' \in {"parse", "close"}
           \/ ms # <<>> /\ pc' = "send"
        /\ UNCHANGED <<wire, read, out, cut, off, peer>>
    BY <1>26, <2>2 DEF StrayFrame, ms
  <2> QED  BY <2>3, <2>4, <2>5 DEF Shape, Reachable
<1>27. CASE StrayPanic
  BY <1>27 DEF Shape, Reachable, Size, Part, StrayPanic, reqVars, frameVars, sendVars
<1> QED BY <1>1, <1>2, <1>3, <1>4, <1>5, <1>6, <1>7, <1>8, <1>9, <1>10, <1>11, <1>12,
      <1>13, <1>14, <1>15, <1>16, <1>17, <1>18, <1>19, <1>20, <1>21, <1>22, <1>23,
      <1>24, <1>25, <1>26, <1>27 DEF Next, Client, Handler, FrameLoop, Over

-----------------------------------------------------------------------------
(* The request.                                                            *)

\* A request fits the two reads.
Fits == req.len <= RecvCap + ExtraCap

\* A request that was there in full when it was first read has got, or is about to
\* get, the answer it asks for.
RequestInv ==
  /\ whole => arrived = req.len
  /\ WholeRequestAnswered
  /\ whole /\ Fits /\ out = <<>> /\ Reachable /\ pc \in {"handshake", "send"} =>
       req.kind # "wsNoKey" /\ sending[1].kind = Wanted

\* All of a request in buf.
LEMMA RouteWhole ==
  ASSUME Types
  PROVE  Route(req.len) = IF req.kind = "wsNoKey" THEN <<>> ELSE <<Msg(Wanted)>>
  <1>1. /\ ~(req.len < RouteAt) /\ req.len >= RouteAt /\ req.len >= KeyAt
        /\ ~(req.len < KeyEnd)
    BY Counts DEF RouteAt, KeyAt, KeyEnd
  <1>2. req.kind \in Kinds
    BY DEF Types
  <1> HIDE DEF RouteAt, KeyAt, KeyEnd
  <1> QED  BY <1>1, <1>2 DEF Route, Wanted, Kinds

\* The answer to a request of which all is in buf, or none.
LEMMA AnswerWhole ==
  ASSUME Types, NEW g, Answer(g), UNCHANGED <<req, out, arrived>>, out = <<>>,
         whole' => arrived = req.len, whole' /\ Fits => g = req.len
  PROVE  RequestInv' /\ RequestStart'
  <1>1. /\ sending' = Route(g)
        /\ \/ sending' = <<>> /\ pc' = "close"
           \/ sending' # <<>> /\ pc' \in {"handshake", "send"}
    <2>1. \A k : <<Msg(k)>> # <<>>
      OBVIOUS
    <2> QED  BY <2>1, AnswerIs, Zenon
  <1>2. RequestStart'
    BY <1>1 DEF RequestStart
  <1>3. WholeRequestAnswered'
    BY DEF WholeRequestAnswered
  <1>4. ASSUME whole', Fits, pc' \in {"handshake", "send"}
        PROVE  req.kind # "wsNoKey" /\ sending'[1].kind = Wanted
    <2>1. Route(req.len) # <<>> /\ sending' = Route(req.len)
      BY <1>1, <1>4
    <2>2. req.kind # "wsNoKey" /\ sending' = <<Msg(Wanted)>>
      BY <2>1, RouteWhole
    <2> QED  BY <2>2 DEF Msg
  <1>5. Wanted' = Wanted /\ Fits' = Fits
    BY DEF Wanted, Fits
  <1> QED  BY <1>2, <1>3, <1>4, <1>5 DEF RequestInv

\* sendto takes units of the answer first.
LEMMA SendToRequest ==
  ASSUME Types, RequestInv, sending # <<>>, pc \in {"handshake", "send"}, NEW n \in Nat,
         n > 0, SendTo(sending[1], n), UNCHANGED <<req, whole, arrived, got>>,
         pc' \notin {"request", "extra"}
  PROVE  RequestInv' /\ RequestStart'
  <1>1. /\ out' # <<>> /\ (out # <<>> => out'[1] = out[1])
        /\ (out = <<>> => out'[1].msg = sending[1]) /\ Reachable
    BY SendToIs, FirstMessage
  <1>2. Wanted' = Wanted
    BY DEF Wanted
  <1>3. WholeRequestAnswered'
    BY <1>1, <1>2 DEF RequestInv, WholeRequestAnswered, Fits
  <1> QED  BY <1>1, <1>3 DEF RequestInv, RequestStart

\* A step that leaves the request and the stream.
LEMMA RequestSame ==
  ASSUME RequestInv, RequestStart, UNCHANGED <<req, whole, arrived, got, out, sending>>,
         Reachable' => Reachable,
         pc' = pc \/ pc' \notin {"request", "extra", "handshake", "send"}
  PROVE  RequestInv' /\ RequestStart'
  BY DEF RequestInv, RequestStart, WholeRequestAnswered, Wanted, Fits

\* Frames are parsed after the answer.
LEMMA NextFrameRequest ==
  ASSUME Shape, RequestInv, NEW op, NEW ms, NextFrame(op, ms)
  PROVE  RequestInv' /\ RequestStart'
  <1>1. /\ UNCHANGED <<req, whole, arrived, got, out, peer>> /\ pc' \in {"parse", "send"}
        /\ pc = "parse"
    BY DEF NextFrame, reqVars
  <1>2. Reachable' => out # <<>>
    BY <1>1 DEF Shape, Reachable
  <1> QED  BY <1>1, <1>2 DEF RequestInv, RequestStart, WholeRequestAnswered, Wanted, Fits

\* Every step keeps what is known of the request.
LEMMA RequestStep ==
  ASSUME Types, Shape, RequestStart, RequestInv, [Next]_vars
  PROVE  RequestInv' /\ RequestStart'
<1>1. CASE ClientRequest
  <2>1. ~whole
    BY <1>1, Counts DEF ClientRequest, RequestInv
  <2> QED  BY <1>1, <2>1 DEF ClientRequest, RequestInv, RequestStart, WholeRequestAnswered
<1>2. CASE ClientFrame
  <2>1. /\ UNCHANGED <<req, whole, arrived, got, out, sending>> /\ (Reachable' => Reachable)
        /\ pc' = pc \/ pc' \notin {"request", "extra", "handshake", "send"}
    BY <1>2 DEF ClientFrame, reqVars, sendVars, Reachable
  <2> QED  BY <2>1, RequestSame
<1>3. CASE ClientRead
  <2>1. /\ UNCHANGED <<req, whole, arrived, got, out, sending>> /\ (Reachable' => Reachable)
        /\ pc' = pc \/ pc' \notin {"request", "extra", "handshake", "send"}
    BY <1>3 DEF ClientRead, reqVars, sendVars, Reachable
  <2> QED  BY <2>1, RequestSame
<1>4. CASE ClientLeave
  <2>1. /\ UNCHANGED <<req, whole, arrived, got, out, sending>> /\ (Reachable' => Reachable)
        /\ pc' = pc \/ pc' \notin {"request", "extra", "handshake", "send"}
    BY <1>4 DEF ClientLeave, reqVars, sendVars, Reachable
  <2> QED  BY <2>1, RequestSame
<1>5. CASE PeerReset
  <2>1. /\ UNCHANGED <<req, whole, arrived, got, out, sending>> /\ (Reachable' => Reachable)
        /\ pc' = pc \/ pc' \notin {"request", "extra", "handshake", "send"}
    BY <1>5 DEF PeerReset, reqVars, sendVars, Reachable
  <2> QED  BY <2>1, RequestSame
<1>6. CASE RecvRequest
  <2> DEFINE n == Lesser(arrived, RecvCap)
  <2>1. out = <<>> /\ UNCHANGED <<req, out, arrived>> /\ whole' = (arrived = req.len)
    BY <1>6 DEF RecvRequest, Shape
  <2>2. CASE n < req.len /\ n = RecvCap /\ pc' = "extra"
    <3>1. got' = RecvCap
      BY <1>6, <2>2, Counts DEF RecvRequest, ExtendBuf, RequestStart
    <3> QED  BY <2>1, <2>2, <3>1 DEF RequestInv, RequestStart, WholeRequestAnswered
  <2>3. CASE (n = req.len \/ n < RecvCap) /\ Answer(n)
    <3>1. arrived = req.len => n = req.len
      BY <2>3, Counts DEF Lesser
    <3> QED  BY <2>1, <2>3, <3>1, AnswerWhole
  <2> QED  BY <1>6, <2>2, <2>3 DEF RecvRequest
<1>7. CASE RecvExtra
  <2>1. out = <<>> /\ UNCHANGED <<req, out, arrived, whole>> /\ Answer(got')
    BY <1>7 DEF RecvExtra, Shape
  <2>2. (whole => arrived = req.len) /\ (whole /\ Fits => got' = req.len)
    <3>1. got = RecvCap /\ got < req.len /\ (whole => arrived = req.len)
      BY <1>7 DEF RecvExtra, RequestStart, RequestInv
    <3>2. got' = got + Lesser(arrived - got, ExtraCap)
      BY <1>7 DEF RecvExtra, ExtendBuf
    <3> QED  BY <3>1, <3>2, Counts DEF Lesser, Fits
  <2> QED  BY <2>1, <2>2, AnswerWhole
<1>8. CASE RecvRequestEmpty
  <2>1. out = <<>> /\ UNCHANGED <<req, out, arrived, whole, got>> /\ got = arrived
    BY <1>8 DEF RecvRequestEmpty, Shape, reqVars
  <2>2. CASE pc' = "close"
    BY <2>1, <2>2 DEF RequestInv, RequestStart, WholeRequestAnswered
  <2>3. CASE pc = "extra" /\ Answer(got)
    <3>1. ~whole
      BY <2>1, <2>3, Counts DEF RequestStart, RequestInv
    <3> QED  BY <2>1, <2>3, <3>1, AnswerWhole
  <2> QED  BY <1>8, <2>2, <2>3 DEF RecvRequestEmpty
<1>9. CASE CloseFd
  <2>1. /\ UNCHANGED <<req, whole, arrived, got, out, sending>> /\ (Reachable' => Reachable)
        /\ pc' = pc \/ pc' \notin {"request", "extra", "handshake", "send"}
    BY <1>9 DEF CloseFd, reqVars, sendVars, Reachable
  <2> QED  BY <2>1, RequestSame
<1>10. CASE HandshakeSend
  <2> DEFINE m == sending[1]
  <2>1. sending # <<>> /\ off < Size(m) /\ pc = "handshake"
    BY <1>10 DEF HandshakeSend, Shape
  <2>2. PICK n \in 1 .. Lesser(Size(m) - off, SendBuf - queued) :
          SendTo(m, n) /\ pc' \in {pc, "send"}
    BY <1>10 DEF HandshakeSend
  <2>3. n \in Nat /\ n > 0
    BY <2>1, <2>2, SendRoom
  <2>4. UNCHANGED <<req, whole, arrived, got>> /\ pc' \notin {"request", "extra"}
    BY <1>10, <2>1, <2>2 DEF HandshakeSend, reqVars
  <2> QED  BY <2>1, <2>2, <2>3, <2>4, SendToRequest
<1>11. CASE HandshakeAgain
  <2>1. /\ UNCHANGED <<req, whole, arrived, got, out, sending>> /\ (Reachable' => Reachable)
        /\ pc' = pc \/ pc' \notin {"request", "extra", "handshake", "send"}
    BY <1>11 DEF HandshakeAgain, reqVars, sendVars, Reachable
  <2> QED  BY <2>1, RequestSame
<1>12. CASE HandshakeFallback
  <2>1. sending'[1] = sending[1]
    <3>1. \E k : sending = <<Msg(k)>>
      BY <1>12 DEF HandshakeFallback, Shape
    <3> QED  BY <1>12, <3>1 DEF HandshakeFallback
  <2>2. /\ UNCHANGED <<req, whole, arrived, got, out>> /\ pc' = "send" /\ pc = "handshake"
        /\ peer' \in {peer, "pipe"}
    BY <1>12 DEF HandshakeFallback, SendError, reqVars
  <2> QED  BY <2>1, <2>2 DEF RequestInv, RequestStart, WholeRequestAnswered, Wanted, Fits, Reachable
<1>13. CASE Send
  <2> DEFINE m == sending[1]
             n == Lesser(Size(m) - off, SendBuf - queued)
  <2>1. sending # <<>> /\ off < Size(m) /\ queued < SendBuf /\ pc = "send"
    BY <1>13 DEF Send, Shape
  <2>2. n \in Nat /\ n > 0
    BY <2>1, SendRoom
  <2>3. SendTo(m, n) /\ UNCHANGED <<req, whole, arrived, got>>
    BY <1>13 DEF Send, reqVars
  <2>4. pc' \notin {"request", "extra"}
    BY <1>13, <2>1, NextMessageIs DEF Send
  <2> HIDE DEF n
  <2> QED  BY <2>1, <2>2, <2>3, <2>4, SendToRequest
<1>14. CASE SendFails
  <2>1. sending # <<>> /\ NextMessage /\ ~Reachable' /\ UNCHANGED <<req, whole, arrived, got, out>>
    BY <1>14 DEF SendFails, SendError, Shape, Reachable, reqVars
  <2>2. pc' \notin {"request", "extra"}
    BY <2>1, NextMessageIs
  <2> QED  BY <2>1, <2>2 DEF RequestInv, RequestStart, WholeRequestAnswered, Wanted, Fits
<1>15. CASE Killed
  <2>1. /\ UNCHANGED <<req, whole, arrived, got, out, sending>> /\ (Reachable' => Reachable)
        /\ pc' = pc \/ pc' \notin {"request", "extra", "handshake", "send"}
    BY <1>15 DEF Killed, reqVars, sendVars, Reachable
  <2> QED  BY <2>1, RequestSame
<1>16. CASE RecvFrames
  <2>1. /\ UNCHANGED <<req, whole, arrived, got, out, sending>> /\ (Reachable' => Reachable)
        /\ pc' = pc \/ pc' \notin {"request", "extra", "handshake", "send"}
    BY <1>16 DEF RecvFrames, reqVars, sendVars, Reachable
  <2> QED  BY <2>1, RequestSame
<1>17. CASE RecvLate
  <2>1. /\ UNCHANGED <<req, whole, arrived, got, out, sending>> /\ (Reachable' => Reachable)
        /\ pc' = pc \/ pc' \notin {"request", "extra", "handshake", "send"}
    BY <1>17 DEF RecvLate, sendVars, Reachable
  <2> QED  BY <2>1, RequestSame
<1>18. CASE RecvFramesEmpty
  <2>1. /\ UNCHANGED <<req, whole, arrived, got, out, sending>> /\ (Reachable' => Reachable)
        /\ pc' = pc \/ pc' \notin {"request", "extra", "handshake", "send"}
    BY <1>18 DEF RecvFramesEmpty, reqVars, sendVars, Reachable
  <2> QED  BY <2>1, RequestSame
<1>19. CASE ParseNone
  <2>1. /\ UNCHANGED <<req, whole, arrived, got, out, sending>> /\ (Reachable' => Reachable)
        /\ pc' = pc \/ pc' \notin {"request", "extra", "handshake", "send"}
    BY <1>19 DEF ParseNone, reqVars, sendVars, Reachable
  <2> QED  BY <2>1, RequestSame
<1>20. CASE handled < Len(wire) /\ Continuation(handled + 1)
  <2>1. \E op, ms : NextFrame(op, ms)
    BY <1>20 DEF Continuation
  <2> QED  BY <2>1, NextFrameRequest
<1>21. CASE handled < Len(wire) /\ Data(handled + 1)
  <2>1. \E op, ms : NextFrame(op, ms)
    BY <1>21 DEF Data
  <2> QED  BY <2>1, NextFrameRequest
<1>22. CASE handled < Len(wire) /\ Ping(handled + 1)
  <2>1. \E op, ms : NextFrame(op, ms)
    BY <1>22 DEF Ping
  <2> QED  BY <2>1, NextFrameRequest
<1>23. CASE handled < Len(wire) /\ Ignore(handled + 1)
  <2>1. \E op, ms : NextFrame(op, ms)
    BY <1>23 DEF Ignore
  <2> QED  BY <2>1, NextFrameRequest
<1>24. CASE handled < Len(wire) /\ CloseFrame(handled + 1)
  <2>1. /\ UNCHANGED <<req, whole, arrived, got, out, sending>> /\ (Reachable' => Reachable)
        /\ pc' = pc \/ pc' \notin {"request", "extra", "handshake", "send"}
    BY <1>24 DEF CloseFrame, reqVars, sendVars, Reachable
  <2> QED  BY <2>1, RequestSame
<1>25. CASE UNCHANGED vars
  <2>1. /\ UNCHANGED <<req, whole, arrived, got, out, sending>> /\ (Reachable' => Reachable)
        /\ pc' = pc \/ pc' \notin {"request", "extra", "handshake", "send"}
    BY <1>25 DEF vars, reqVars, sendVars, Reachable
  <2> QED  BY <2>1, RequestSame
<1>26. CASE StrayFrame
  <2>1. /\ UNCHANGED <<req, whole, arrived, got, out, peer>> /\ pc = "parse"
        /\ pc' \in {"parse", "send", "close"}
    BY <1>26 DEF StrayFrame
  <2>2. Reachable' => out # <<>>
    BY <2>1 DEF Shape, Reachable
  <2> QED  BY <2>1, <2>2 DEF RequestInv, RequestStart, WholeRequestAnswered, Wanted, Fits
<1>27. CASE StrayPanic
  <2>1. /\ UNCHANGED <<req, whole, arrived, got, out, sending>> /\ (Reachable' => Reachable)
        /\ pc' = pc \/ pc' \notin {"request", "extra", "handshake", "send"}
    BY <1>27 DEF StrayPanic, reqVars, sendVars, Reachable
  <2> QED  BY <2>1, RequestSame
<1> QED BY <1>1, <1>2, <1>3, <1>4, <1>5, <1>6, <1>7, <1>8, <1>9, <1>10, <1>11, <1>12,
      <1>13, <1>14, <1>15, <1>16, <1>17, <1>18, <1>19, <1>20, <1>21, <1>22, <1>23,
      <1>24, <1>25, <1>26, <1>27 DEF Next, Client, Handler, FrameLoop, Over

-----------------------------------------------------------------------------
(* The frames.                                                             *)

\* The frames that are handled.
Seen == SubSeq(wire, 1, handled)

\* The handled frames are the first ones on the wire.
LEMMA SeenIs ==
  ASSUME Types
  PROVE  /\ Seen \in Seq(Frames) /\ Len(Seen) = handled
         /\ \A i \in 1 .. handled : Seen[i] = wire[i]
  <1>1. wire \in Seq(Frames) /\ handled \in Nat /\ handled <= Len(wire)
    BY Counts DEF Types
  <1> HIDE DEF Frames
  <1> QED  BY <1>1 DEF Seen

\* A frame that the client adds is not handled yet.
LEMMA SeenSame ==
  ASSUME Types, UNCHANGED handled, wire' = wire \/ \E f \in Frames : wire' = Append(wire, f)
  PROVE  Seen' = Seen
  <1>1. wire \in Seq(Frames) /\ handled \in Nat /\ handled <= Len(wire)
    BY Counts DEF Types
  <1> HIDE DEF Frames
  <1>2. CASE wire' = wire
    BY <1>2 DEF Seen
  <1>3. ASSUME NEW f \in Frames, wire' = Append(wire, f) PROVE Seen' = Seen
    <2> DEFINE p == SubSeq(wire, 1, handled)
               q == SubSeq(Append(wire, f), 1, handled)
    <2>1. /\ Append(wire, f) \in Seq(Frames) /\ Len(Append(wire, f)) = Len(wire) + 1
          /\ \A i \in 1 .. Len(wire) : Append(wire, f)[i] = wire[i]
      BY <1>1, AppendProperties
    <2>2. p \in Seq(Frames) /\ Len(p) = handled /\ \A i \in 1 .. handled : p[i] = wire[i]
      BY <1>1
    <2>3. q \in Seq(Frames) /\ Len(q) = handled /\ \A i \in 1 .. handled : q[i] = Append(wire, f)[i]
      BY <1>1, <2>1
    <2> HIDE DEF p, q
    <2>4. \A i \in 1 .. handled : p[i] = q[i]
      BY <1>1, <2>1, <2>2, <2>3
    <2>5. p = q
      BY <2>2, <2>3, <2>4, SeqEqual
    <2> QED  BY <1>3, <2>5 DEF Seen, p, q
  <1> QED  BY <1>2, <1>3

\* The next frame is handled.
LEMMA SeenNext ==
  ASSUME Types, handled < Len(wire), handled' = handled + 1, UNCHANGED wire
  PROVE  wire[handled + 1] \in Frames /\ Seen' = Append(Seen, wire[handled + 1])
  <1>1. wire \in Seq(Frames) /\ handled \in Nat /\ handled + 1 \in 1 .. Len(wire)
    BY Counts DEF Types
  <1> HIDE DEF Frames
  <1>2. wire[handled + 1] \in Frames
    BY <1>1, ElementOfSeq
  <1>3. SubSeq(wire, 1, handled + 1) = Append(SubSeq(wire, 1, handled), wire[handled + 1])
    <2> DEFINE p == SubSeq(wire, 1, handled)
               q == SubSeq(wire, 1, handled + 1)
               x == wire[handled + 1]
    <2>1. p \in Seq(Frames) /\ Len(p) = handled /\ \A i \in 1 .. handled : p[i] = wire[i]
      BY <1>1
    <2>2. /\ q \in Seq(Frames) /\ Len(q) = handled + 1
          /\ \A i \in 1 .. handled + 1 : q[i] = wire[i]
      BY <1>1
    <2> HIDE DEF p, q
    <2>3. Agree(p, q, handled) /\ q[handled + 1] = x
      BY <1>1, <2>1, <2>2 DEF Agree
    <2>4. q = Append(p, x)
      BY <1>1, <1>2, <2>1, <2>2, <2>3, OneMore
    <2> QED  BY <2>4 DEF p, q
  <1> QED  BY <1>2, <1>3 DEF Seen

\* frag_payload is the message that is not finished, put together so far.
FragInv ==
  /\ frag = <<>> => Open(Seen) = {}
  /\ frag # <<>> => \E s \in Open(Seen) : frag = Pieces(Seen, s)

\* A message that is not finished starts with one of the frames.
LEMMA OpenIn ==
  ASSUME NEW fs \in Seq(Frames), NEW s \in Open(fs)
  PROVE  s \in 1 .. Len(fs)
  BY DEF Open

\* What a frame is answered with, from the frames before it.
LEMMA ContinuationReplies ==
  ASSUME Types, FragInv, handled < Len(wire), Continuation(handled + 1)
  PROVE  NextFrame("cont", Replies(Seen, wire[handled + 1])) /\ FragInv'
  <1> DEFINE i == handled + 1
             f == wire[i]
  <1>1. \E ms : NextFrame("cont", ms)
    BY DEF Continuation
  <1>2. handled' = i /\ UNCHANGED wire /\ f.op = "cont"
    BY <1>1 DEF NextFrame
  <1>3. /\ f \in Frames /\ Seen' = Append(Seen, f) /\ Seen \in Seq(Frames)
        /\ Len(Seen) + 1 = i
    BY <1>2, SeenNext, SeenIs
  <1>4. Open(Append(Seen, f)) = IF f.fin THEN {} ELSE Open(Seen)
    BY <1>2, <1>3, OpenAppend
  <1>5. \A s \in Open(Seen) : Pieces(Append(Seen, f), s) = Append(Pieces(Seen, s), i)
    BY <1>2, <1>3, OpenIn, PiecesAppend
  <1> HIDE DEF i, f
  <1>6. CASE /\ frag = <<>> \/ ~f.fin
             /\ NextFrame("cont", <<>>)
             /\ frag' = IF frag = <<>> THEN <<>> ELSE Append(frag, i)
    <2>1. ~(f.fin /\ Open(Seen) # {})
      BY <1>6 DEF FragInv
    <2>2. Replies(Seen, f) = <<>>
      BY <1>2, <2>1 DEF Replies
    <2>3. CASE frag = <<>>
      <3>1. frag' = <<>> /\ Open(Append(Seen, f)) = {}
        BY <1>4, <1>6, <2>3 DEF FragInv
      <3> QED  BY <1>3, <1>6, <2>2, <3>1 DEF FragInv, f, i
    <2>4. CASE frag # <<>>
      <3>1. PICK s \in Open(Seen) : frag = Pieces(Seen, s)
        BY <2>4 DEF FragInv
      <3>2. s \in Open(Append(Seen, f)) /\ frag' = Pieces(Append(Seen, f), s)
        BY <1>4, <1>5, <1>6, <2>4, <3>1
      <3>3. frag' # <<>>
        <4>1. frag \in Seq(Nat) /\ i \in Nat
          BY Counts, Widen DEF Types, i
        <4>2. Append(frag, i) # <<>>
          BY <4>1
        <4> QED  BY <1>6, <2>4, <4>2
      <3> QED  BY <1>3, <1>6, <2>2, <3>2, <3>3 DEF FragInv, f, i
    <2> QED  BY <2>3, <2>4
  <1>7. CASE /\ frag # <<>> /\ f.fin
             /\ NextFrame("cont", <<Echo(Append(frag, i)), Msg("ping")>>)
             /\ frag' = <<>>
    <2>1. PICK s \in Open(Seen) : frag = Pieces(Seen, s)
      BY <1>7 DEF FragInv
    <2>2. (CHOOSE x \in Open(Seen) : TRUE) = s
      BY <1>3, OpenSingle
    <2>3. Replies(Seen, f) = <<Echo(Append(frag, i)), Msg("ping")>>
      <3>1. Open(Seen) # {}
        BY <2>1
      <3> QED  BY <1>2, <1>3, <1>7, <2>1, <2>2, <3>1 DEF Replies
    <2>4. frag' = <<>> /\ Open(Append(Seen, f)) = {}
      BY <1>4, <1>7
    <2> QED  BY <1>3, <1>7, <2>3, <2>4 DEF FragInv, f, i
  <1> QED  BY <1>6, <1>7 DEF Continuation, f, i

\* A frame that is no continuation leaves a message as it is.
LEMMA FragKept ==
  ASSUME Types, FragInv, NEW f \in Frames, f.op # "cont", ~(f.op = "data" /\ ~f.fin),
         Seen' = Append(Seen, f), UNCHANGED frag
  PROVE  FragInv'
  <1>1. Seen \in Seq(Frames)
    BY SeenIs
  <1>2. Open(Append(Seen, f)) = Open(Seen)
    BY <1>1, OpenAppend
  <1>3. \A s \in Open(Seen) : Pieces(Append(Seen, f), s) = Pieces(Seen, s)
    BY <1>1, OpenIn, PiecesAppend
  <1> QED  BY <1>2, <1>3 DEF FragInv

\* A data frame: an echo, or the start of a message.
LEMMA DataReplies ==
  ASSUME Types, FragInv, handled < Len(wire), Data(handled + 1)
  PROVE  NextFrame("data", Replies(Seen, wire[handled + 1])) /\ FragInv'
  <1> DEFINE i == handled + 1
             f == wire[i]
  <1>1. \E ms : NextFrame("data", ms)
    BY DEF Data
  <1>2. handled' = i /\ UNCHANGED wire /\ f.op = "data"
    BY <1>1 DEF NextFrame
  <1>3. /\ f \in Frames /\ Seen' = Append(Seen, f) /\ Seen \in Seq(Frames)
        /\ Len(Seen) + 1 = i
    BY <1>2, SeenNext, SeenIs
  <1> HIDE DEF i, f
  <1>4. CASE f.fin /\ NextFrame("data", <<Echo(<<i>>), Msg("ping")>>) /\ UNCHANGED frag
    <2>1. Replies(Seen, f) = <<Echo(<<i>>), Msg("ping")>>
      BY <1>2, <1>3, <1>4 DEF Replies
    <2>2. FragInv'
      BY <1>2, <1>3, <1>4, FragKept
    <2> QED  BY <1>4, <2>1, <2>2 DEF f, i
  <1>5. CASE ~f.fin /\ NextFrame("data", <<>>) /\ frag' = <<i>>
    <2>1. Replies(Seen, f) = <<>>
      BY <1>2, <1>5 DEF Replies
    <2>2. Open(Append(Seen, f)) = {i}
      BY <1>2, <1>3, <1>5, OpenAppend
    <2>3. Pieces(Append(Seen, f), i) = <<i>>
      BY <1>3, PiecesFirst
    <2>4. FragInv'
      BY <1>3, <1>5, <2>2, <2>3 DEF FragInv
    <2> QED  BY <1>5, <2>1, <2>4 DEF f, i
  <1> QED  BY <1>4, <1>5 DEF Data, f, i

\* A ping is answered by a pong, a pong by nothing.
LEMMA OtherReplies ==
  ASSUME Types, FragInv, handled < Len(wire),
         Ping(handled + 1) \/ Ignore(handled + 1)
  PROVE  (\E op : NextFrame(op, Replies(Seen, wire[handled + 1]))) /\ FragInv'
  <1> DEFINE i == handled + 1
             f == wire[i]
  <1>1. \/ NextFrame("ping", <<Pong(i)>>) /\ f.op = "ping"
        \/ NextFrame("pong", <<>>) /\ f.op = "pong"
    BY DEF Ping, Ignore, NextFrame
  <1>2. handled' = i /\ UNCHANGED wire /\ UNCHANGED frag
    BY DEF NextFrame, Ping, Ignore
  <1>3. /\ f \in Frames /\ Seen' = Append(Seen, f) /\ Seen \in Seq(Frames)
        /\ Len(Seen) + 1 = i
    BY <1>2, SeenNext, SeenIs
  <1> HIDE DEF i, f
  <1>4. /\ f.op = "ping" => Replies(Seen, f) = <<Pong(i)>>
        /\ f.op = "pong" => Replies(Seen, f) = <<>>
    BY <1>3 DEF Replies
  <1>5. FragInv'
    BY <1>1, <1>2, <1>3, FragKept
  <1> QED  BY <1>1, <1>4, <1>5 DEF f, i

\* A close frame is answered by nothing and leaves the fragments.
LEMMA CloseReplies ==
  ASSUME Types, FragInv, handled < Len(wire), CloseFrame(handled + 1)
  PROVE  Replies(Seen, wire[handled + 1]) = <<>> /\ FragInv'
  <1> DEFINE f == wire[handled + 1]
  <1>1. handled' = handled + 1 /\ UNCHANGED <<wire, frag>> /\ f.op = "close"
    BY DEF CloseFrame
  <1>2. f \in Frames /\ Seen' = Append(Seen, f)
    BY <1>1, SeenNext
  <1> HIDE DEF f
  <1>3. Replies(Seen, f) = <<>>
    BY <1>1 DEF Replies
  <1>4. FragInv'
    BY <1>1, <1>2, FragKept
  <1> QED  BY <1>3, <1>4 DEF f

\* A step that handles no frame leaves the message as it is.
LEMMA FragSame ==
  ASSUME Types, FragInv, UNCHANGED <<handled, frag>>,
         wire' = wire \/ \E f \in Frames : wire' = Append(wire, f)
  PROVE  FragInv'
  <1>1. Seen' = Seen
    BY SeenSame
  <1> QED  BY <1>1 DEF FragInv

\* Every step keeps frag the message that is not finished.
LEMMA FragStep ==
  ASSUME Types, FragInv, [Next]_vars, ~StrayFrame
  PROVE  FragInv'
<1>1. CASE ClientRequest
  <2>1. UNCHANGED <<handled, wire, frag>>
    BY <1>1 DEF ClientRequest, frameVars
  <2> QED  BY <2>1, FragSame
<1>2. CASE ClientFrame
  <2>1. UNCHANGED <<handled, frag>> /\ \E f \in Frames : wire' = Append(wire, f)
    BY <1>2, SomeFrame DEF ClientFrame
  <2> QED  BY <2>1, FragSame
<1>3. CASE ClientRead
  <2>1. UNCHANGED <<handled, wire, frag>>
    BY <1>3 DEF ClientRead, frameVars
  <2> QED  BY <2>1, FragSame
<1>4. CASE ClientLeave
  <2>1. UNCHANGED <<handled, wire, frag>>
    BY <1>4 DEF ClientLeave, frameVars
  <2> QED  BY <2>1, FragSame
<1>5. CASE PeerReset
  <2>1. UNCHANGED <<handled, wire, frag>>
    BY <1>5 DEF PeerReset, frameVars
  <2> QED  BY <2>1, FragSame
<1>6. CASE RecvRequest
  <2>1. UNCHANGED <<handled, wire, frag>>
    BY <1>6 DEF RecvRequest, frameVars
  <2> QED  BY <2>1, FragSame
<1>7. CASE RecvExtra
  <2>1. UNCHANGED <<handled, wire, frag>>
    BY <1>7 DEF RecvExtra, frameVars
  <2> QED  BY <2>1, FragSame
<1>8. CASE RecvRequestEmpty
  <2>1. UNCHANGED <<handled, wire, frag>>
    BY <1>8 DEF RecvRequestEmpty, frameVars
  <2> QED  BY <2>1, FragSame
<1>9. CASE CloseFd
  <2>1. UNCHANGED <<handled, wire, frag>>
    BY <1>9 DEF CloseFd, frameVars
  <2> QED  BY <2>1, FragSame
<1>10. CASE HandshakeSend
  <2>1. UNCHANGED <<handled, wire, frag>>
    BY <1>10 DEF HandshakeSend, frameVars
  <2> QED  BY <2>1, FragSame
<1>11. CASE HandshakeAgain
  <2>1. UNCHANGED <<handled, wire, frag>>
    BY <1>11 DEF HandshakeAgain, frameVars
  <2> QED  BY <2>1, FragSame
<1>12. CASE HandshakeFallback
  <2>1. UNCHANGED <<handled, wire, frag>>
    BY <1>12 DEF HandshakeFallback, frameVars
  <2> QED  BY <2>1, FragSame
<1>13. CASE Send
  <2>1. UNCHANGED <<handled, wire, frag>>
    BY <1>13 DEF Send, frameVars
  <2> QED  BY <2>1, FragSame
<1>14. CASE SendFails
  <2>1. UNCHANGED <<handled, wire, frag>>
    BY <1>14 DEF SendFails, frameVars
  <2> QED  BY <2>1, FragSame
<1>15. CASE Killed
  <2>1. UNCHANGED <<handled, wire, frag>>
    BY <1>15 DEF Killed, frameVars
  <2> QED  BY <2>1, FragSame
<1>16. CASE RecvFrames
  <2>1. UNCHANGED <<handled, wire, frag>>
    BY <1>16 DEF RecvFrames, frameVars
  <2> QED  BY <2>1, FragSame
<1>17. CASE RecvLate
  <2>1. UNCHANGED <<handled, wire, frag>>
    BY <1>17 DEF RecvLate, frameVars
  <2> QED  BY <2>1, FragSame
<1>18. CASE RecvFramesEmpty
  <2>1. UNCHANGED <<handled, wire, frag>>
    BY <1>18 DEF RecvFramesEmpty, frameVars
  <2> QED  BY <2>1, FragSame
<1>19. CASE ParseNone
  <2>1. UNCHANGED <<handled, wire, frag>>
    BY <1>19 DEF ParseNone, frameVars
  <2> QED  BY <2>1, FragSame
<1>20. CASE handled < Len(wire) /\ Continuation(handled + 1)
  BY <1>20, ContinuationReplies
<1>21. CASE handled < Len(wire) /\ Data(handled + 1)
  BY <1>21, DataReplies
<1>22. CASE handled < Len(wire) /\ Ping(handled + 1)
  BY <1>22, OtherReplies
<1>23. CASE handled < Len(wire) /\ Ignore(handled + 1)
  BY <1>23, OtherReplies
<1>24. CASE handled < Len(wire) /\ CloseFrame(handled + 1)
  BY <1>24, CloseReplies
<1>25. CASE UNCHANGED vars
  <2>1. UNCHANGED <<handled, wire, frag>>
    BY <1>25 DEF vars, frameVars
  <2> QED  BY <2>1, FragSame
<1>27. CASE StrayPanic
  <2>1. UNCHANGED <<handled, wire, frag>>
    BY <1>27 DEF StrayPanic, frameVars
  <2> QED  BY <2>1, FragSame
<1> QED BY <1>1, <1>2, <1>3, <1>4, <1>5, <1>6, <1>7, <1>8, <1>9, <1>10, <1>11, <1>12,
      <1>13, <1>14, <1>15, <1>16, <1>17, <1>18, <1>19, <1>20, <1>21, <1>22, <1>23,
      <1>24, <1>25, <1>27 DEF Next, Client, Handler, FrameLoop, Over

-----------------------------------------------------------------------------
(* The stream.                                                             *)

\* Every sendto so far has been a success and a whole message.
Live == Reachable /\ ~cut

\* The answer is a, the messages in done are sent, and off units of the next one.
Sent(a, done) ==
  /\ Script(a, Seen) = done \o sending
  /\ out = Stream(done) \o Part(sending[1], 0, off)
  /\ out # <<>> => out[1].msg = a
  /\ out = <<>> => done = <<>>
  /\ a.kind \in {"page", "404", "101", "101bad"}

\* What has been sent is exactly what was to be sent so far.
Exact ==
  Live =>
    /\ pc = "send" => \E a \in Msgs, done \in Seq(Msgs) : Sent(a, done)
    /\ pc \in {"frames", "parse"} => out[1].msg.kind \in {"101", "101bad"}
    /\ pc \in {"frames", "parse", "close", "closed", "killed"} => out = Stream(Owed(handled))

\* What is owed is the script of the answer and the handled frames.
LEMMA OwedIs == Owed(handled) = IF out = <<>> THEN <<>> ELSE Script(out[1].msg, Seen)
  BY DEF Owed, Seen

\* The message of a unit.
LEMMA FirstUnit ==
  ASSUME Types, out # <<>>
  PROVE  out[1].msg \in Msgs
  <1>1. out \in Seq(UnitSet)
    BY Widen, Counts DEF Types
  <1>2. out[1] \in UnitSet
    <2> HIDE DEF UnitSet
    <2> QED  BY <1>1, EmptySeq, ElementOfSeq
  <1> QED  BY <1>2 DEF UnitSet

\* The answers are messages.
LEMMA MsgIn ==
  ASSUME NEW k \in MsgKinds
  PROVE  Msg(k) \in Msgs /\ Msg(k).kind = k
  BY DEF Msg, Msgs

\* Nothing is sent and nothing is owed before the answer.
LEMMA AnswerExact ==
  ASSUME Types, NEW g, Answer(g), UNCHANGED <<off, out, wire, handled>>, out = <<>>,
         wire = <<>>, off = 0
  PROVE  Exact'
  <1>1. Seen' = <<>>
    BY NothingRead DEF Seen
  <1>2. \/ sending' = <<>> /\ pc' = "close"
        \/ sending' \in {<<Msg("101")>>, <<Msg("101bad")>>} /\ pc' = "handshake"
        \/ sending' \in {<<Msg("404")>>, <<Msg("page")>>} /\ pc' = "send"
    BY AnswerIs
  <1>3. CASE pc' = "close"
    <2>1. Owed(handled)' = <<>>
      BY DEF Owed
    <2> QED  BY <1>3, <2>1, StreamEmpty DEF Exact
  <1>4. CASE pc' = "handshake"
    BY <1>4 DEF Exact
  <1>5. CASE sending' \in {<<Msg("404")>>, <<Msg("page")>>} /\ pc' = "send"
    <2>1. PICK k \in {"404", "page"} : sending' = <<Msg(k)>>
      BY <1>5
    <2> DEFINE a == Msg(k)
    <2>2. a \in Msgs /\ a.kind = k
      BY MsgIn DEF MsgKinds
    <2> HIDE DEF a
    <2>3. sending' = <<a>> /\ sending'[1] = a
      BY <2>1 DEF a
    <2>4. Script(a, <<>>) = <<a>>
      BY <2>2, ScriptEmpty
    <2>5. <<>> \o sending' = <<a>>
      BY <2>2, <2>3
    <2>6. Stream(<<>>) \o Part(a, 0, 0) = <<>>
      BY StreamEmpty, NoPart
    <2>7. Sent(a, <<>>)'
      BY <1>1, <2>2, <2>3, <2>4, <2>5, <2>6 DEF Sent
    <2>8. <<>> \in Seq(Msgs)
      OBVIOUS
    <2> QED  BY <1>5, <2>2, <2>7, <2>8 DEF Exact
  <1> QED  BY <1>2, <1>3, <1>4, <1>5

\* A step that leaves the stream and the frames that are handled.
LEMMA ExactSame ==
  ASSUME Types, Exact, UNCHANGED <<out, sending, off, handled, cut>>, Reachable' => Reachable,
         wire' = wire \/ \E f \in Frames : wire' = Append(wire, f),
         \/ pc' = pc
         \/ pc' \in {"frames", "parse", "close", "closed"} /\ pc \in {"frames", "parse"}
         \/ pc' = "closed" /\ pc = "close"
         \/ pc' = "killed" /\ pc = "parse"
  PROVE  Exact'
  <1>1. Seen' = Seen
    BY SeenSame
  <1>2. Owed(handled)' = Owed(handled)
    <2>1. Owed(handled)' = IF out' = <<>> THEN <<>> ELSE Script(out'[1].msg, Seen')
      BY DEF Owed, Seen
    <2> QED  BY <1>1, <2>1, OwedIs
  <1>3. \A a, done : Sent(a, done)' <=> Sent(a, done)
    BY <1>1 DEF Sent
  <1>4. Live' => Live
    BY DEF Live
  <1> QED  BY <1>2, <1>3, <1>4 DEF Exact

\* Short sequences.
LEMMA Pair ==
  ASSUME NEW Z, NEW a \in Z, NEW w \in Z
  PROVE  /\ <<>> \in Seq(Z) /\ <<a>> \in Seq(Z) /\ <<w>> \in Seq(Z) /\ <<a, w>> \in Seq(Z)
         /\ <<a>> \o <<w>> = <<a, w>> /\ Append(<<a>>, w) = <<a, w>>
         /\ Append(<<>>, a) = <<a>> /\ <<>> \o <<a, w>> = <<a, w>> /\ <<a, w>>[1] = a
  <1>1. <<>> \in Seq(Z) /\ <<a>> \in Seq(Z) /\ <<w>> \in Seq(Z) /\ <<a, w>> \in Seq(Z)
    OBVIOUS
  <1>2. Append(<<a>>, w) = <<a, w>>
    <2> DEFINE p == <<a>>
               q == <<a, w>>
    <2>1. p \in Seq(Z) /\ q \in Seq(Z) /\ Len(p) = 1 /\ Len(q) = 1 + 1 /\ q[1 + 1] = w
      OBVIOUS
    <2>2. Agree(p, q, 1)
      BY DEF Agree
    <2> HIDE DEF p, q
    <2>3. q = Append(p, w)
      BY <2>1, <2>2, OneMore
    <2> QED  BY <2>3 DEF p, q
  <1>3. <<a>> \o <<w>> = <<a, w>>
    BY <1>1, <1>2, AppendIsConcat
  <1>4. Append(<<>>, a) = <<a>>
    OBVIOUS
  <1>5. <<>> \o <<a, w>> = <<a, w>>
    BY <1>1, ConcatEmptySeq
  <1>6. <<a, w>>[1] = a
    OBVIOUS
  <1> QED  BY <1>1, <1>2, <1>3, <1>4, <1>5, <1>6

\* The answer is sent and the welcome follows.
LEMMA HandshakeExact ==
  ASSUME Types, Shape, pc = "handshake", NEW n \in Nat, n > 0, SendTo(sending[1], n),
         off + n = Size(sending[1]), off' = 0, sending' = <<Msg("welcome")>>,
         pc' = "send", UNCHANGED <<wire, handled>>
  PROVE  Exact'
  <1> PICK a \in Msgs : a = sending[1]
    BY FirstMessage DEF Shape
  <1> DEFINE w == Msg("welcome")
  <1>1. /\ sending # <<>> /\ out = Part(a, 0, off) /\ wire = <<>> /\ off \in Nat
        /\ a.kind \in {"101", "101bad"} /\ a \in Msgs
    <2>1. sending # <<>> /\ out = Part(a, 0, off) /\ wire = <<>>
      BY DEF Shape
    <2>2. a.kind \in {"101", "101bad"}
      BY DEF Shape, Msg
    <2> QED  BY <2>1, <2>2, Counts
  <1>2. Seen' = <<>>
    BY <1>1, NothingRead DEF Seen
  <1>3. out' = out \o Part(a, off, n) /\ out' # <<>>
    BY <1>1, SendToIs
  <1>4. out' = Part(a, 0, Size(a))
    BY <1>1, <1>3, PartConcat
  <1>5. out'[1].msg = a
    <2>1. Size(a) \in Nat /\ 1 \in 1 .. Size(a)
      BY SizeType
    <2>2. Part(a, 0, Size(a))[1] = [msg |-> a, unit |-> 0 + 1]
      BY <2>1, PartType
    <2>3. out'[1] = [msg |-> a, unit |-> 0 + 1]
      BY <1>4, <2>2
    <2> QED  BY <2>3
  <1>6. w \in Msgs
    BY MsgIn DEF MsgKinds
  <1> HIDE DEF w
  <1>7. Script(a, <<>>) = <<a, w>>
    BY <1>1, ScriptEmpty DEF w
  <1>8. /\ <<a>> \o <<w>> = <<a, w>> /\ <<a>> \in Seq(Msgs)
        /\ Append(<<>>, a) = <<a>> /\ <<>> \in Seq(Msgs)
    <2>1. a \in Msgs /\ w \in Msgs
      BY <1>6
    <2> QED  BY <2>1, Pair
  <1>9. Stream(<<a>>) = out'
    <2>1. Stream(<<a>>) = Stream(<<>>) \o Part(a, 0, Size(a))
      BY <1>1, <1>8, StreamAppend
    <2>2. out' \in Seq(UnitSet)
      BY <1>1, <1>4, PartType, SizeType
    <2> QED  BY <1>4, <2>1, <2>2, StreamEmpty, ConcatEmptySeq
  <1>10. out' \o Part(sending'[1], 0, 0) = out'
    <2>1. out' \in Seq(UnitSet)
      BY <1>1, <1>4, PartType, SizeType
    <2> QED  BY <2>1, NoPart, ConcatEmptySeq
  <1>11. sending' = <<w>>
    BY DEF w
  <1>12. Sent(a, <<a>>)'
    BY <1>1, <1>2, <1>3, <1>5, <1>7, <1>8, <1>9, <1>10, <1>11 DEF Sent
  <1> QED  BY <1>1, <1>8, <1>12 DEF Exact

\* The rest of the answer and the welcome are left to futures.
LEMMA FallbackExact ==
  ASSUME Types, Shape, HandshakeFallback
  PROVE  Exact'
  <1> PICK a \in Msgs : a = sending[1]
    BY FirstMessage DEF Shape, HandshakeFallback
  <1> DEFINE w == Msg("welcome")
  <1>1. /\ sending = <<a>> /\ out = Part(a, 0, off) /\ wire = <<>> /\ off \in Nat
        /\ a.kind \in {"101", "101bad"} /\ a \in Msgs
    <2>1. sending # <<>> /\ out = Part(a, 0, off) /\ wire = <<>>
      BY DEF Shape, HandshakeFallback
    <2>2. sending = <<a>> /\ a.kind \in {"101", "101bad"}
      <3>1. \E k \in {"101", "101bad"} : sending = <<Msg(k)>>
        BY DEF Shape, HandshakeFallback
      <3> QED  BY <3>1 DEF Msg
    <2> QED  BY <2>1, <2>2, Counts
  <1>2. w \in Msgs
    BY MsgIn DEF MsgKinds
  <1>3. /\ pc' = "send" /\ UNCHANGED <<wire, handled, off, out>> /\ sending' = Append(sending, w)
    BY DEF HandshakeFallback, SendError, frameVars
  <1>4. Seen' = <<>>
    BY <1>1, <1>3, NothingRead DEF Seen
  <1> HIDE DEF w
  <1>5. /\ sending' = <<a, w>> /\ <<>> \o sending' = <<a, w>> /\ sending'[1] = a
        /\ <<>> \in Seq(Msgs)
    <2>1. sending' = Append(<<a>>, w)
      BY <1>1, <1>3
    <2>2. Append(<<a>>, w) = <<a, w>> /\ <<>> \o <<a, w>> = <<a, w>> /\ <<>> \in Seq(Msgs)
      BY <1>2, Pair
    <2>3. <<a, w>>[1] = a
      OBVIOUS
    <2> HIDE DEF Msgs
    <2> QED  BY <2>1, <2>2, <2>3, Zenon
  <1>6. Script(a, <<>>) = <<a, w>>
    BY <1>1, ScriptEmpty DEF w
  <1>7. out \in Seq(UnitSet) /\ (out # <<>> => out[1].msg = a)
    <2>1. /\ out \in Seq(UnitSet) /\ Len(out) = off
          /\ \A i \in 1 .. off : out[i] = [msg |-> a, unit |-> 0 + i]
      BY <1>1, PartType
    <2>2. out # <<>> => 1 \in 1 .. off
      BY <2>1, EmptySeq
    <2> QED  BY <2>1, <2>2
  <1>8. Stream(<<>>) \o Part(a, 0, off) = out
    BY <1>1, <1>7, StreamEmpty, ConcatEmptySeq
  <1>9. Sent(a, <<>>)'
    BY <1>1, <1>3, <1>4, <1>5, <1>6, <1>7, <1>8 DEF Sent
  <1> QED  BY <1>1, <1>3, <1>5, <1>9 DEF Exact

\* Owed after a step.
LEMMA OwedNext ==
  ASSUME out' # <<>>
  PROVE  Owed(handled)' = Script(out'[1].msg, Seen')
  BY DEF Owed, Seen

\* A send of a SendFuture, a part or the whole of what is left.
LEMMA SendExact ==
  ASSUME Types, Shape, Exact, Send
  PROVE  Exact'
  <1> SUFFICES ASSUME Live'
               PROVE  /\ pc' # "killed"
                      /\ pc' = "send" => \E a \in Msgs, done \in Seq(Msgs) : Sent(a, done)'
                      /\ pc' \in {"frames", "parse"} => out'[1].msg.kind \in {"101", "101bad"}
                      /\ pc' \in {"frames", "parse", "close", "closed"} =>
                           out' = Stream(Owed(handled)')
    BY DEF Exact
  <1>1. sending # <<>> /\ off < Size(sending[1]) /\ queued < SendBuf /\ pc = "send"
    BY DEF Send, Shape
  <1> PICK m \in Msgs : m = sending[1]
    BY <1>1, FirstMessage
  <1>2. PICK n \in Nat : /\ n > 0 /\ off + n <= Size(m) /\ SendTo(m, n)
                         /\ \/ off + n < Size(m) /\ off' = off + n /\ UNCHANGED <<pc, sending>>
                            \/ (off + n = Size(m) \/ ~Resumed(m)) /\ NextMessage
                         /\ cut' = (cut \/ (off + n < Size(m) /\ ~Resumed(m)))
    <2> DEFINE k == Lesser(Size(m) - off, SendBuf - queued)
    <2>1. k \in Nat /\ k > 0 /\ off + k <= Size(m)
      BY <1>1, SendRoom
    <2>2. /\ SendTo(m, k)
          /\ \/ off + k < Size(m) /\ off' = off + k /\ UNCHANGED <<pc, sending>>
             \/ (off + k = Size(m) \/ ~Resumed(m)) /\ NextMessage
          /\ cut' = (cut \/ (off + k < Size(m) /\ ~Resumed(m)))
      BY DEF Send
    <2> HIDE DEF k
    <2> QED  BY <2>1, <2>2
  <1>3. /\ out \in Seq(UnitSet) /\ Part(m, off, n) \in Seq(UnitSet)
        /\ out' = out \o Part(m, off, n) /\ out' # <<>>
        /\ (out # <<>> => out'[1] = out[1]) /\ (out = <<>> => out'[1].msg = m)
        /\ peer' = peer
    BY <1>2, SendToIs
  <1>4. UNCHANGED <<wire, handled>> /\ Seen' = Seen
    BY SeenSame DEF Send, frameVars
  <1>5. Live /\ ~cut'
    BY <1>2, <1>3 DEF Live, Reachable
  <1>6. PICK a \in Msgs, done \in Seq(Msgs) : Sent(a, done)
    BY <1>1, <1>5 DEF Exact
  <1>7. /\ Script(a, Seen) = done \o sending /\ out = Stream(done) \o Part(m, 0, off)
        /\ a.kind \in {"page", "404", "101", "101bad"}
    BY <1>6 DEF Sent
  <1>8. off \in Nat /\ Seen \in Seq(Frames) /\ sending \in Seq(Msgs) /\ Size(m) \in Nat
    BY Counts, SeenIs, Widen, SizeType DEF Types
  <1>9. out' = Stream(done) \o Part(m, 0, off + n)
    <2>1. Stream(done) \in Seq(UnitSet) /\ Part(m, 0, off) \in Seq(UnitSet)
      BY <1>8, StreamType, PartType
    <2>2. (Stream(done) \o Part(m, 0, off)) \o Part(m, off, n)
            = Stream(done) \o (Part(m, 0, off) \o Part(m, off, n))
      <3>1. \A x, y, z \in Seq(UnitSet) : (x \o y) \o z = x \o (y \o z)
        BY ConcatAssociative
      <3> QED  BY <1>3, <2>1, <3>1, ZenonT(30)
    <2>3. Part(m, 0, off) \o Part(m, off, n) = Part(m, 0, off + n)
      BY <1>8, PartConcat
    <2> QED  BY <1>3, <1>7, <2>2, <2>3, Zenon
  <1>10. out'[1].msg = a
    <2>1. CASE out # <<>>
      BY <1>3, <1>6, <2>1 DEF Sent
    <2>2. CASE out = <<>>
      <3>1. done = <<>>
        BY <1>6, <2>2 DEF Sent
      <3>2. Script(a, Seen) = sending
        BY <1>7, <1>8, <3>1, ConcatEmptySeq
      <3>3. m = a
        BY <1>8, <3>2, ScriptType
      <3> QED  BY <1>3, <2>2, <3>3
    <2> QED  BY <2>1, <2>2
  <1>11. CASE off + n < Size(m) /\ off' = off + n /\ UNCHANGED <<pc, sending>>
    <2>1. Sent(a, done)'
      BY <1>3, <1>4, <1>7, <1>9, <1>10, <1>11 DEF Sent
    <2> QED  BY <1>1, <1>11, <2>1
  <1>12. CASE NextMessage /\ off + n = Size(m)
    <2> DEFINE d == Append(done, m)
    <2>1. /\ sending' = Tail(sending) /\ off' = 0 /\ sending' \in Seq(Msgs)
          /\ pc' \in {"send", "close", "frames", "parse"} /\ (pc' = "send" <=> sending' # <<>>)
          /\ sending = <<m>> \o sending'
          /\ pc' \in {"frames", "parse"} => m.kind \notin {"page", "404"}
      BY <1>1, <1>12, NextMessageIs
    <2>2. d \in Seq(Msgs) /\ out' = Stream(d)
      BY <1>9, <1>12, StreamAppend, AppendProperties
    <2>3. Script(a, Seen) = d \o sending'
      <3>1. d = done \o <<m>> /\ <<m>> \in Seq(Msgs)
        BY AppendIsConcat, Pair
      <3>2. (done \o <<m>>) \o sending' = done \o (<<m>> \o sending')
        BY <2>1, <3>1, ConcatAssociative
      <3> QED  BY <1>7, <2>1, <3>1, <3>2
    <2>4. d # <<>>
      BY AppendProperties
    <2> HIDE DEF d
    <2>5. CASE pc' = "send"
      <3>1. out' = Stream(d) \o Part(sending'[1], 0, 0)
        <4>1. Stream(d) \in Seq(UnitSet)
          BY <2>2, StreamType
        <4> QED  BY <2>2, <4>1, NoPart, ConcatEmptySeq
      <3>2. Sent(a, d)'
        BY <1>3, <1>4, <1>7, <1>10, <2>1, <2>3, <3>1 DEF Sent
      <3> QED  BY <2>2, <2>5, <3>2
    <2>6. CASE pc' # "send"
      <3>1. Script(a, Seen) = d
        BY <2>1, <2>2, <2>3, <2>6, ConcatEmptySeq
      <3>2. out' = Stream(Owed(handled)')
        BY <1>3, <1>4, <1>10, <2>2, <3>1, OwedNext
      <3>3. pc' \in {"frames", "parse"} => a.kind \in {"101", "101bad"}
        <4> SUFFICES ASSUME a.kind \in {"page", "404"} PROVE m = a
          BY <1>7, <2>1
        <4>1. Script(a, Seen) = Append(<<>>, a)
          BY Pair DEF Script
        <4>2. Append(done, m) = Append(<<>>, a)
          BY <3>1, <4>1 DEF d
        <4>3. <<>> \in Seq(Msgs)
          OBVIOUS
        <4>4. \A s, t \in Seq(Msgs) : \A x, y \in Msgs : Append(s, x) = Append(t, y) => x = y
          BY AppendInjective
        <4> QED  BY <4>2, <4>3, <4>4, Zenon
      <3> QED  BY <1>10, <2>1, <2>6, <3>2, <3>3
    <2> QED  BY <2>5, <2>6
  <1>13. \/ off + n < Size(m) /\ off' = off + n /\ UNCHANGED <<pc, sending>>
         \/ NextMessage /\ off + n = Size(m)
    <2>1. off + n < Size(m) \/ off + n = Size(m)
      BY <1>2, <1>8
    <2> QED  BY <1>2, <1>5, <2>1, Zenon
  <1> QED  BY <1>11, <1>12, <1>13

\* The frame is handled and its replies are to be sent.
LEMMA NextFrameExact ==
  ASSUME Types, Shape, Exact, handled < Len(wire), NEW op,
         NextFrame(op, Replies(Seen, wire[handled + 1]))
  PROVE  Exact'
  <1> PICK f \in Frames : f = wire[handled + 1]
    BY SeenNext DEF NextFrame
  <1> PICK ms \in Seq(Msgs) : ms = Replies(Seen, f)
    <2>1. Seen \in Seq(Frames)
      BY SeenIs
    <2>2. Len(Seen) \in Nat /\ DOMAIN Seen = 1 .. Len(Seen)
      BY <2>1, LenProperties
    <2> QED  BY <2>2, RepliesType
  <1>1. /\ pc = "parse" /\ handled' = handled + 1 /\ sending' = ms
        /\ pc' = IF ms = <<>> THEN "parse" ELSE "send"
        /\ UNCHANGED <<wire, out, off, cut, peer>>
    BY DEF NextFrame
  <1> SUFFICES ASSUME Live'
               PROVE  /\ pc' = "send" => \E a \in Msgs, done \in Seq(Msgs) : Sent(a, done)'
                      /\ pc' = "parse" => /\ out'[1].msg.kind \in {"101", "101bad"}
                                          /\ out' = Stream(Owed(handled)')
    BY <1>1 DEF Exact
  <1>2. Live
    BY <1>1 DEF Live, Reachable
  <1>3. off = 0 /\ out # <<>>
    BY <1>1, <1>2 DEF Shape, Live
  <1> PICK a \in Msgs : a = out[1].msg
    BY <1>3, FirstUnit
  <1>4. a.kind \in {"101", "101bad"} /\ out = Stream(Owed(handled))
    BY <1>1, <1>2 DEF Exact
  <1>5. Seen' = Append(Seen, f) /\ Seen \in Seq(Frames)
    BY <1>1, SeenNext, SeenIs
  <1> PICK d \in Seq(Msgs) : d = Script(a, Seen)
    BY <1>5, ScriptType
  <1>6. out = Stream(d)
    BY <1>3, <1>4, OwedIs
  <1>7. Script(a, Seen') = d \o ms
    BY <1>4, <1>5, ScriptAppend
  <1>8. CASE ms = <<>>
    <2>1. Script(a, Seen') = d
      BY <1>7, <1>8, ConcatEmptySeq
    <2>2. out' = Stream(Owed(handled)')
      BY <1>1, <1>3, <1>6, <2>1, OwedNext
    <2> QED  BY <1>1, <1>4, <1>8, <2>2
  <1>9. CASE ms # <<>>
    <2>1. out = Stream(d) \o Part(ms[1], 0, 0)
      <3>1. Stream(d) \in Seq(UnitSet)
        BY StreamType
      <3> QED  BY <1>6, <3>1, NoPart, ConcatEmptySeq
    <2>2. Sent(a, d)'
      BY <1>1, <1>3, <1>4, <1>7, <2>1 DEF Sent
    <2> QED  BY <1>1, <1>9, <2>2
  <1> QED  BY <1>8, <1>9

\* A close frame is answered by nothing.
LEMMA CloseExact ==
  ASSUME Types, Shape, FragInv, Exact, handled < Len(wire), CloseFrame(handled + 1)
  PROVE  Exact'
  <1> PICK f \in Frames : f = wire[handled + 1]
    BY SeenNext DEF CloseFrame
  <1>1. /\ pc = "parse" /\ handled' = handled + 1 /\ pc' = "close"
        /\ UNCHANGED <<wire, out, off, cut, peer>>
    BY DEF CloseFrame, sendVars
  <1> SUFFICES ASSUME Live' PROVE out' = Stream(Owed(handled)')
    BY <1>1 DEF Exact
  <1>2. Live
    BY <1>1 DEF Live, Reachable
  <1>3. out # <<>>
    BY <1>1, <1>2 DEF Shape, Live
  <1> PICK a \in Msgs : a = out[1].msg
    BY <1>3, FirstUnit
  <1>4. a.kind \in {"101", "101bad"} /\ out = Stream(Owed(handled))
    BY <1>1, <1>2 DEF Exact
  <1>5. Seen' = Append(Seen, f) /\ Seen \in Seq(Frames)
    BY <1>1, SeenNext, SeenIs
  <1>6. Replies(Seen, f) = <<>>
    BY CloseReplies
  <1>7. Script(a, Seen') = Script(a, Seen) \o <<>>
    BY <1>4, <1>5, <1>6, ScriptAppend
  <1>8. Script(a, Seen') = Script(a, Seen)
    BY <1>5, <1>7, ScriptType, ConcatEmptySeq
  <1> QED  BY <1>1, <1>3, <1>4, <1>8, OwedIs, OwedNext

\* Every step keeps the stream exact.
LEMMA ExactStep ==
  ASSUME Types, Shape, FragInv, Exact, [Next]_vars, ~StrayFrame
  PROVE  Exact'
<1>1. CASE ClientRequest
  <2>1. /\ UNCHANGED <<out, sending, off, handled, cut, wire>> /\ (Reachable' => Reachable)
        /\ \/ pc' = pc
           \/ pc' \in {"frames", "parse", "close", "closed"} /\ pc \in {"frames", "parse"}
           \/ pc' = "closed" /\ pc = "close"
    BY <1>1 DEF ClientRequest, frameVars, sendVars, Reachable
  <2> QED  BY <2>1, ExactSame
<1>2. CASE ClientFrame
  <2>1. /\ UNCHANGED <<out, sending, off, handled, cut>> /\ (Reachable' => Reachable)
        /\ pc' = pc /\ \E f \in Frames : wire' = Append(wire, f)
    BY <1>2, SomeFrame DEF ClientFrame, sendVars, Reachable
  <2> QED  BY <2>1, ExactSame
<1>3. CASE ClientRead
  <2>1. /\ UNCHANGED <<out, sending, off, handled, cut, wire>> /\ (Reachable' => Reachable)
        /\ \/ pc' = pc
           \/ pc' \in {"frames", "parse", "close", "closed"} /\ pc \in {"frames", "parse"}
           \/ pc' = "closed" /\ pc = "close"
    BY <1>3 DEF ClientRead, frameVars, sendVars, Reachable
  <2> QED  BY <2>1, ExactSame
<1>4. CASE ClientLeave
  <2>1. /\ UNCHANGED <<out, sending, off, handled, cut, wire>> /\ (Reachable' => Reachable)
        /\ \/ pc' = pc
           \/ pc' \in {"frames", "parse", "close", "closed"} /\ pc \in {"frames", "parse"}
           \/ pc' = "closed" /\ pc = "close"
    BY <1>4 DEF ClientLeave, frameVars, sendVars, Reachable
  <2> QED  BY <2>1, ExactSame
<1>5. CASE PeerReset
  <2>1. /\ UNCHANGED <<out, sending, off, handled, cut, wire>> /\ (Reachable' => Reachable)
        /\ \/ pc' = pc
           \/ pc' \in {"frames", "parse", "close", "closed"} /\ pc \in {"frames", "parse"}
           \/ pc' = "closed" /\ pc = "close"
    BY <1>5 DEF PeerReset, frameVars, sendVars, Reachable
  <2> QED  BY <2>1, ExactSame
<1>6. CASE RecvRequest
  <2>1. out = <<>> /\ wire = <<>> /\ off = 0
    BY <1>6 DEF RecvRequest, Shape
  <2>2. UNCHANGED <<off, out, wire, handled>>
    BY <1>6 DEF RecvRequest, frameVars
  <2>3. CASE pc' = "extra"
    BY <2>3 DEF Exact
  <2>4. CASE \E g : Answer(g)
    BY <2>1, <2>2, <2>4, AnswerExact
  <2> QED  BY <1>6, <2>3, <2>4 DEF RecvRequest
<1>7. CASE RecvExtra
  <2>1. out = <<>> /\ wire = <<>> /\ off = 0
    BY <1>7 DEF RecvExtra, Shape
  <2>2. UNCHANGED <<off, out, wire, handled>> /\ \E g : Answer(g)
    BY <1>7 DEF RecvExtra, frameVars
  <2> QED  BY <2>1, <2>2, AnswerExact
<1>8. CASE RecvRequestEmpty
  <2>1. out = <<>> /\ wire = <<>> /\ off = 0
    BY <1>8 DEF RecvRequestEmpty, Shape
  <2>2. UNCHANGED <<off, out, wire, handled>>
    BY <1>8 DEF RecvRequestEmpty, frameVars
  <2>3. CASE pc' = "close"
    <3>1. Owed(handled)' = <<>>
      BY <2>1, <2>2 DEF Owed
    <3> QED  BY <2>1, <2>2, <2>3, <3>1, StreamEmpty DEF Exact
  <2>4. CASE Answer(got)
    BY <2>1, <2>2, <2>4, AnswerExact
  <2> QED  BY <1>8, <2>3, <2>4 DEF RecvRequestEmpty
<1>9. CASE CloseFd
  <2>1. /\ UNCHANGED <<out, sending, off, handled, cut, wire>> /\ (Reachable' => Reachable)
        /\ \/ pc' = pc
           \/ pc' \in {"frames", "parse", "close", "closed"} /\ pc \in {"frames", "parse"}
           \/ pc' = "closed" /\ pc = "close"
    BY <1>9 DEF CloseFd, frameVars, sendVars, Reachable
  <2> QED  BY <2>1, ExactSame
<1>10. CASE HandshakeSend
  <2>1. sending # <<>> /\ off < Size(sending[1]) /\ pc = "handshake" /\ UNCHANGED <<wire, handled>>
    BY <1>10 DEF HandshakeSend, Shape, frameVars
  <2>2. PICK n \in 1 .. Lesser(Size(sending[1]) - off, SendBuf - queued) :
          \/ pc' = pc
          \/ /\ SendTo(sending[1], n) /\ off + n = Size(sending[1]) /\ off' = 0
             /\ sending' = <<Msg("welcome")>> /\ pc' = "send"
    BY <1>10 DEF HandshakeSend
  <2>3. n \in Nat /\ n > 0
    BY <2>1, <2>2, SendRoom
  <2>4. CASE pc' = pc
    BY <2>1, <2>4 DEF Exact
  <2>5. CASE pc' # pc
    BY <2>1, <2>2, <2>3, <2>5, HandshakeExact
  <2> QED  BY <2>4, <2>5
<1>11. CASE HandshakeAgain
  BY <1>11 DEF HandshakeAgain, Exact
<1>12. CASE HandshakeFallback
  BY <1>12, FallbackExact
<1>13. CASE Send
  BY <1>13, SendExact
<1>14. CASE SendFails
  <2>1. ~Reachable'
    BY <1>14 DEF SendFails, SendError, Reachable
  <2> QED  BY <2>1 DEF Exact, Live
<1>15. CASE Killed
  <2>1. ~Reachable'
    BY <1>15 DEF Killed, SendError, Reachable
  <2> QED  BY <2>1 DEF Exact, Live
<1>16. CASE RecvFrames
  <2>1. /\ UNCHANGED <<out, sending, off, handled, cut, wire>> /\ (Reachable' => Reachable)
        /\ \/ pc' = pc
           \/ pc' \in {"frames", "parse", "close", "closed"} /\ pc \in {"frames", "parse"}
           \/ pc' = "closed" /\ pc = "close"
    BY <1>16 DEF RecvFrames, frameVars, sendVars, Reachable
  <2> QED  BY <2>1, ExactSame
<1>17. CASE RecvLate
  <2>1. /\ UNCHANGED <<out, sending, off, handled, cut, wire>> /\ (Reachable' => Reachable)
        /\ \/ pc' = pc
           \/ pc' \in {"frames", "parse", "close", "closed"} /\ pc \in {"frames", "parse"}
           \/ pc' = "closed" /\ pc = "close"
    BY <1>17 DEF RecvLate, frameVars, sendVars, Reachable
  <2> QED  BY <2>1, ExactSame
<1>18. CASE RecvFramesEmpty
  <2>1. /\ UNCHANGED <<out, sending, off, handled, cut, wire>> /\ (Reachable' => Reachable)
        /\ \/ pc' = pc
           \/ pc' \in {"frames", "parse", "close", "closed"} /\ pc \in {"frames", "parse"}
           \/ pc' = "closed" /\ pc = "close"
    BY <1>18 DEF RecvFramesEmpty, frameVars, sendVars, Reachable
  <2> QED  BY <2>1, ExactSame
<1>19. CASE ParseNone
  <2>1. /\ UNCHANGED <<out, sending, off, handled, cut, wire>> /\ (Reachable' => Reachable)
        /\ \/ pc' = pc
           \/ pc' \in {"frames", "parse", "close", "closed"} /\ pc \in {"frames", "parse"}
           \/ pc' = "closed" /\ pc = "close"
    BY <1>19 DEF ParseNone, frameVars, sendVars, Reachable
  <2> QED  BY <2>1, ExactSame
<1>20. CASE handled < Len(wire) /\ Continuation(handled + 1)
  BY <1>20, ContinuationReplies, NextFrameExact
<1>21. CASE handled < Len(wire) /\ Data(handled + 1)
  BY <1>21, DataReplies, NextFrameExact
<1>22. CASE handled < Len(wire) /\ Ping(handled + 1)
  BY <1>22, OtherReplies, NextFrameExact
<1>23. CASE handled < Len(wire) /\ Ignore(handled + 1)
  BY <1>23, OtherReplies, NextFrameExact
<1>24. CASE handled < Len(wire) /\ CloseFrame(handled + 1)
  BY <1>24, CloseExact
<1>25. CASE UNCHANGED vars
  <2>1. /\ UNCHANGED <<out, sending, off, handled, cut, wire>> /\ (Reachable' => Reachable)
        /\ \/ pc' = pc
           \/ pc' \in {"frames", "parse", "close", "closed"} /\ pc \in {"frames", "parse"}
           \/ pc' = "closed" /\ pc = "close"
    BY <1>25 DEF vars, frameVars, sendVars, Reachable
  <2> QED  BY <2>1, ExactSame
<1>27. CASE StrayPanic
  <2>1. /\ UNCHANGED <<out, sending, off, handled, cut, wire>> /\ (Reachable' => Reachable)
        /\ pc' = "killed" /\ pc = "parse"
    BY <1>27 DEF StrayPanic, frameVars, sendVars, Reachable
  <2> QED  BY <2>1, ExactSame
<1> QED BY <1>1, <1>2, <1>3, <1>4, <1>5, <1>6, <1>7, <1>8, <1>9, <1>10, <1>11, <1>12,
      <1>13, <1>14, <1>15, <1>16, <1>17, <1>18, <1>19, <1>20, <1>21, <1>22, <1>23,
      <1>24, <1>25, <1>27 DEF Next, Client, Handler, FrameLoop, Over

-----------------------------------------------------------------------------
(* What follows for the client.                                            *)

\* The handler waits for frames only when it has none left to parse.
FramesDone == pc = "frames" => ~Available

\* Before anything is read no frame is available.
LEMMA WelcomeFirst ==
  ASSUME Types, read = 0
  PROVE  ~Available
  <1> DEFINE x == (handled + 1) * FrameUnits
             y == handled * FrameUnits
  <1>1. x = y + FrameUnits /\ y \in Nat /\ FrameUnits \in Nat \ {0}
    BY Numbers, Zenon
  <1> HIDE DEF x, y
  <1>2. ~(0 >= x)
    BY <1>1
  <1> QED  BY <1>2 DEF Available, x

\* Every step that starts to wait for frames has parsed the ones before.
LEMMA FramesDoneStep ==
  ASSUME Types, Shape, FramesDone, [Next]_vars
  PROVE  FramesDone'
<1>1. CASE ClientRequest
  <2>1. UNCHANGED <<read, handled, req, got>> /\ (pc' = "frames" => pc = "frames")
    BY <1>1 DEF ClientRequest, frameVars, reqVars
  <2> QED  BY <2>1 DEF FramesDone, Available, InStep
<1>2. CASE ClientFrame
  <2>1. UNCHANGED <<read, handled, req, got>> /\ (pc' = "frames" => pc = "frames")
    BY <1>2 DEF ClientFrame, frameVars, reqVars
  <2> QED  BY <2>1 DEF FramesDone, Available, InStep
<1>3. CASE ClientRead
  <2>1. UNCHANGED <<read, handled, req, got>> /\ (pc' = "frames" => pc = "frames")
    BY <1>3 DEF ClientRead, frameVars, reqVars
  <2> QED  BY <2>1 DEF FramesDone, Available, InStep
<1>4. CASE ClientLeave
  <2>1. UNCHANGED <<read, handled, req, got>> /\ (pc' = "frames" => pc = "frames")
    BY <1>4 DEF ClientLeave, frameVars, reqVars
  <2> QED  BY <2>1 DEF FramesDone, Available, InStep
<1>5. CASE PeerReset
  <2>1. UNCHANGED <<read, handled, req, got>> /\ (pc' = "frames" => pc = "frames")
    BY <1>5 DEF PeerReset, frameVars, reqVars
  <2> QED  BY <2>1 DEF FramesDone, Available, InStep
<1>6. CASE RecvRequest
  <2>1. pc' # "frames"
    BY <1>6, AnswerIs DEF RecvRequest
  <2> QED  BY <2>1 DEF FramesDone
<1>7. CASE RecvExtra
  <2>1. pc' # "frames"
    BY <1>7, AnswerIs DEF RecvExtra
  <2> QED  BY <2>1 DEF FramesDone
<1>8. CASE RecvRequestEmpty
  <2>1. pc' # "frames"
    BY <1>8, AnswerIs DEF RecvRequestEmpty
  <2> QED  BY <2>1 DEF FramesDone
<1>9. CASE CloseFd
  <2>1. UNCHANGED <<read, handled, req, got>> /\ (pc' = "frames" => pc = "frames")
    BY <1>9 DEF CloseFd, frameVars, reqVars
  <2> QED  BY <2>1 DEF FramesDone, Available, InStep
<1>10. CASE HandshakeSend
  <2>1. pc' # "frames"
    BY <1>10 DEF HandshakeSend
  <2> QED  BY <2>1 DEF FramesDone
<1>11. CASE HandshakeAgain
  <2>1. UNCHANGED <<read, handled, req, got>> /\ (pc' = "frames" => pc = "frames")
    BY <1>11 DEF HandshakeAgain, frameVars, reqVars
  <2> QED  BY <2>1 DEF FramesDone, Available, InStep
<1>12. CASE HandshakeFallback
  <2>1. pc' # "frames"
    BY <1>12 DEF HandshakeFallback
  <2> QED  BY <2>1 DEF FramesDone
<1>13. CASE Send
  <2>1. sending # <<>> /\ UNCHANGED <<read, handled, req, got>>
    BY <1>13 DEF Send, Shape, frameVars, reqVars
  <2> SUFFICES ASSUME pc' = "frames" PROVE ~Available
    BY <2>1 DEF FramesDone, Available, InStep
  <2>2. NextMessage
    BY <1>13 DEF Send
  <2>3. sending[1].kind = "welcome" /\ 1 \in DOMAIN sending
    BY <2>1, <2>2, NextMessageIs, FirstMessage DEF Types
  <2>4. read = 0
    BY <2>3 DEF Shape
  <2> QED  BY <2>4, WelcomeFirst
<1>14. CASE SendFails
  <2>1. sending # <<>> /\ UNCHANGED <<read, handled, req, got>>
    BY <1>14 DEF SendFails, Shape, frameVars, reqVars
  <2> SUFFICES ASSUME pc' = "frames" PROVE ~Available
    BY <2>1 DEF FramesDone, Available, InStep
  <2>2. NextMessage
    BY <1>14 DEF SendFails
  <2>3. sending[1].kind = "welcome" /\ 1 \in DOMAIN sending
    BY <2>1, <2>2, NextMessageIs, FirstMessage DEF Types
  <2>4. read = 0
    BY <2>3 DEF Shape
  <2> QED  BY <2>4, WelcomeFirst
<1>15. CASE Killed
  <2>1. UNCHANGED <<read, handled, req, got>> /\ (pc' = "frames" => pc = "frames")
    BY <1>15 DEF Killed, frameVars, reqVars
  <2> QED  BY <2>1 DEF FramesDone, Available, InStep
<1>16. CASE RecvFrames
  <2>1. pc' # "frames"
    BY <1>16 DEF RecvFrames
  <2> QED  BY <2>1 DEF FramesDone
<1>17. CASE RecvLate
  <2>1. pc' # "frames"
    BY <1>17 DEF RecvLate
  <2> QED  BY <2>1 DEF FramesDone
<1>18. CASE RecvFramesEmpty
  <2>1. UNCHANGED <<read, handled, req, got>> /\ (pc' = "frames" => pc = "frames")
    BY <1>18 DEF RecvFramesEmpty, frameVars, reqVars
  <2> QED  BY <2>1 DEF FramesDone, Available, InStep
<1>19. CASE ParseNone
  BY <1>19 DEF ParseNone, frameVars, reqVars, FramesDone, Available, InStep
<1>20. CASE handled < Len(wire) /\ Continuation(handled + 1)
  <2>1. pc' # "frames"
    BY <1>20 DEF Continuation, NextFrame
  <2> QED  BY <2>1 DEF FramesDone
<1>21. CASE handled < Len(wire) /\ Data(handled + 1)
  <2>1. pc' # "frames"
    BY <1>21 DEF Data, NextFrame
  <2> QED  BY <2>1 DEF FramesDone
<1>22. CASE handled < Len(wire) /\ Ping(handled + 1)
  <2>1. pc' # "frames"
    BY <1>22 DEF Ping, NextFrame
  <2> QED  BY <2>1 DEF FramesDone
<1>23. CASE handled < Len(wire) /\ Ignore(handled + 1)
  <2>1. pc' # "frames"
    BY <1>23 DEF Ignore, NextFrame
  <2> QED  BY <2>1 DEF FramesDone
<1>24. CASE handled < Len(wire) /\ CloseFrame(handled + 1)
  <2>1. pc' # "frames"
    BY <1>24 DEF CloseFrame
  <2> QED  BY <2>1 DEF FramesDone
<1>25. CASE UNCHANGED vars
  <2>1. UNCHANGED <<read, handled, req, got>> /\ (pc' = "frames" => pc = "frames")
    BY <1>25 DEF vars, frameVars, reqVars
  <2> QED  BY <2>1 DEF FramesDone, Available, InStep
<1>26. CASE StrayFrame
  <2>1. pc' # "frames"
    BY <1>26 DEF StrayFrame
  <2> QED  BY <2>1 DEF FramesDone
<1>27. CASE StrayPanic
  <2>1. pc' # "frames"
    BY <1>27 DEF StrayPanic
  <2> QED  BY <2>1 DEF FramesDone
<1> QED BY <1>1, <1>2, <1>3, <1>4, <1>5, <1>6, <1>7, <1>8, <1>9, <1>10, <1>11, <1>12,
      <1>13, <1>14, <1>15, <1>16, <1>17, <1>18, <1>19, <1>20, <1>21, <1>22, <1>23,
      <1>24, <1>25, <1>26, <1>27 DEF Next, Client, Handler, FrameLoop, Over

\* While every sendto succeeds, the stream is a prefix of what is owed.
LEMMA ExactPrefix ==
  ASSUME Types, Shape, Exact, Live
  PROVE  StreamWellFormed
  <1>1. out \in Seq(UnitSet) /\ Seen \in Seq(Frames) /\ off \in Nat /\ sending \in Seq(Msgs)
    BY Counts, SeenIs, Widen DEF Types
  <1>2. \A x \in Seq(UnitSet) : IsPrefix(x, x)
    BY DEF IsPrefix
  <1>3. CASE out = <<>>
    <2>1. Owed(handled) = <<>>
      BY <1>3, OwedIs
    <2>2. Stream(Owed(handled)) = out
      BY <1>3, <2>1, StreamEmpty
    <2> QED  BY <1>1, <1>2, <2>2 DEF StreamWellFormed
  <1>4. ASSUME NEW a \in Msgs, NEW done \in Seq(Msgs), sending # <<>>, off < Size(sending[1]),
               out # <<>>, out[1].msg = a, Script(a, Seen) = done \o sending,
               out = Stream(done) \o Part(sending[1], 0, off)
        PROVE  StreamWellFormed
    <2> PICK m \in Msgs : m = sending[1]
      BY <1>4, FirstMessage
    <2> DEFINE d == Append(done, m)
               r == Tail(sending)
               n == Size(m) - off
    <2>1. n \in Nat /\ off + n = Size(m)
      <3>1. Size(m) \in Nat /\ off < Size(m) /\ off \in Nat
        BY <1>1, <1>4, SizeType
      <3> QED  BY <3>1
    <2>2. /\ d = done \o <<m>> /\ d \in Seq(Msgs) /\ <<m>> \in Seq(Msgs)
          /\ r \in Seq(Msgs) /\ sending = <<m>> \o r
      <3>1. d = done \o <<m>> /\ d \in Seq(Msgs) /\ <<m>> \in Seq(Msgs)
        BY AppendIsConcat, AppendProperties, Pair
      <3>2. r \in Seq(Msgs) /\ sending = <<m>> \o r
        <4> HIDE DEF Msgs
        <4> QED  BY <1>1, <1>4
      <3> QED  BY <3>1, <3>2
    <2> HIDE DEF d, r, n
    <2>3. Script(a, Seen) = d \o r
      <3>1. \A x, y, z \in Seq(Msgs) : (x \o y) \o z = x \o (y \o z)
        BY ConcatAssociative, SMTT(30)
      <3>2. (done \o <<m>>) \o r = done \o (<<m>> \o r)
        BY <2>2, <3>1, Zenon
      <3>3. Script(a, Seen) = done \o sending
        BY <1>4
      <3> QED  BY <2>2, <3>2, <3>3
    <2>4. Stream(d) = out \o Part(m, off, n)
      <3>1. Stream(d) = Stream(done) \o Part(m, 0, off + n)
        BY <2>1, StreamAppend DEF d
      <3>2. Part(m, 0, off + n) = Part(m, 0, off) \o Part(m, off, n)
        BY <1>1, <2>1, PartConcat
      <3>3. /\ Stream(done) \in Seq(UnitSet) /\ Part(m, 0, off) \in Seq(UnitSet)
            /\ Part(m, off, n) \in Seq(UnitSet)
        BY <1>1, <2>1, StreamType, PartType
      <3>4. \A x, y, z \in Seq(UnitSet) : (x \o y) \o z = x \o (y \o z)
        BY ConcatAssociative
      <3>5. out = Stream(done) \o Part(m, 0, off)
        BY <1>4
      <3>6. (Stream(done) \o Part(m, 0, off)) \o Part(m, off, n)
              = Stream(done) \o (Part(m, 0, off) \o Part(m, off, n))
        BY <3>3, <3>4, Zenon
      <3> QED  BY <3>1, <3>2, <3>5, <3>6
    <2>5. Part(m, off, n) \in Seq(UnitSet) /\ Stream(d) \in Seq(UnitSet)
          /\ d \o r \in Seq(Msgs)
      BY <1>1, <2>1, <2>2, PartType, StreamType, ConcatProperties
    <2>6. IsPrefix(out, Stream(d))
      BY <1>1, <2>4, <2>5, PrefixConcat
    <2>7. IsPrefix(Stream(d), Stream(d \o r)) /\ Stream(d \o r) \in Seq(UnitSet)
      BY <2>2, <2>5, StreamGrows, StreamType
    <2>8. IsPrefix(out, Stream(d \o r))
      BY <1>1, <2>5, <2>6, <2>7, PrefixTrans
    <2>9. Owed(handled) = d \o r
      BY <1>4, <2>3, OwedIs
    <2> QED  BY <2>8, <2>9 DEF StreamWellFormed
  <1>5. CASE pc = "handshake" /\ out # <<>>
    <2>1. sending # <<>> /\ off < Size(sending[1]) /\ out = Part(sending[1], 0, off) /\ wire = <<>>
      BY <1>5 DEF Shape
    <2> PICK a \in Msgs : a = sending[1]
      BY <2>1, FirstMessage
    <2>2. sending = <<a>> /\ a.kind \in {"101", "101bad"}
      BY <1>5 DEF Shape, Msg
    <2>3. Seen = <<>>
      BY <2>1, NothingRead DEF Seen
    <2> DEFINE w == Msg("welcome")
    <2>4. w \in Msgs
      BY MsgIn DEF MsgKinds
    <2>5. Script(a, Seen) = <<a, w>>
      BY <2>2, <2>3, ScriptEmpty
    <2> HIDE DEF w
    <2>6. Len(out) = off /\ \A i \in 1 .. off : out[i] = [msg |-> a, unit |-> 0 + i]
      BY <1>1, <2>1, PartType
    <2>7. out[1].msg = a
      <3>1. 1 \in 1 .. off
        BY <1>1, <1>5, <2>6, EmptySeq
      <3> QED  BY <2>6, <3>1
    <2>8. /\ <<a>> \in Seq(Msgs) /\ <<w>> \in Seq(Msgs) /\ <<a>> \o <<w>> = <<a, w>>
          /\ Append(<<>>, a) = <<a>> /\ <<>> \in Seq(Msgs)
      BY <2>4, Pair
    <2>9. Stream(<<a>>) = Part(a, 0, Size(a))
      <3>1. Stream(<<a>>) = Stream(<<>>) \o Part(a, 0, Size(a))
        BY <2>8, StreamAppend
      <3>2. Part(a, 0, Size(a)) \in Seq(UnitSet)
        BY PartType, SizeType
      <3> QED  BY <3>1, <3>2, StreamEmpty, ConcatEmptySeq
    <2> DEFINE n == Size(a) - off
    <2>10. n \in Nat /\ off + n = Size(a)
      BY <1>1, <2>1, SizeType
    <2>11. Stream(<<a>>) = out \o Part(a, off, n)
      BY <1>1, <2>1, <2>9, <2>10, PartConcat
    <2>12. Part(a, off, n) \in Seq(UnitSet) /\ Stream(<<a>>) \in Seq(UnitSet)
           /\ Stream(<<a>> \o <<w>>) \in Seq(UnitSet)
      BY <1>1, <2>8, <2>10, PartType, StreamType, ConcatProperties
    <2>13. IsPrefix(out, Stream(<<a>>))
      BY <1>1, <2>11, <2>12, PrefixConcat
    <2>14. IsPrefix(Stream(<<a>>), Stream(<<a>> \o <<w>>))
      BY <2>8, StreamGrows
    <2>15. IsPrefix(out, Stream(<<a>> \o <<w>>))
      BY <1>1, <2>12, <2>13, <2>14, PrefixTrans
    <2>16. Owed(handled) = <<a>> \o <<w>>
      BY <1>5, <2>5, <2>7, <2>8, OwedIs
    <2> QED  BY <2>15, <2>16 DEF StreamWellFormed
  <1>6. CASE pc = "send" /\ out # <<>>
    <2>1. PICK a \in Msgs, done \in Seq(Msgs) : Sent(a, done)
      BY <1>6 DEF Exact
    <2>2. sending # <<>> /\ off < Size(sending[1])
      BY <1>6 DEF Shape
    <2> QED  BY <1>4, <1>6, <2>1, <2>2 DEF Sent
  <1>7. CASE pc \in {"frames", "parse", "close", "closed", "killed"}
    BY <1>1, <1>2, <1>7 DEF Exact, StreamWellFormed
  <1>8. pc \in {"request", "extra"} => out = <<>>
    BY DEF Shape
  <1>9. pc \in {"request", "extra", "handshake", "send", "frames", "parse", "close", "closed",
               "killed"}
    BY DEF Types
  <1> QED  BY <1>3, <1>5, <1>6, <1>7, <1>8, <1>9

\* The same after a step.
LEMMA ExactPrefixNext == (Types /\ Shape /\ Exact /\ Live => StreamWellFormed)'
  <1>1. Types /\ Shape /\ Exact /\ Live => StreamWellFormed
    BY ExactPrefix
  <1> QED  BY <1>1, PTL

\* Nothing is sent to a client that is gone.
LEMMA QuietStep ==
  ASSUME Types, [Next]_vars, ~StrayFrame, ~Reachable'
  PROVE  /\ out' = out /\ (cut => cut')
         /\ Seen' = Seen \/ \E f \in Frames : Seen' = Append(Seen, f)
<1>1. CASE ClientRequest
  <2>1. out' = out /\ UNCHANGED <<cut, handled, wire>>
    BY <1>1 DEF ClientRequest, frameVars, sendVars
  <2> QED  BY <2>1, SeenSame
<1>2. CASE ClientFrame
  <2>1. UNCHANGED <<out, cut, handled>> /\ \E f \in Frames : wire' = Append(wire, f)
    BY <1>2, SomeFrame DEF ClientFrame, sendVars
  <2> QED  BY <2>1, SeenSame
<1>3. CASE ClientRead
  <2>1. out' = out /\ UNCHANGED <<cut, handled, wire>>
    BY <1>3 DEF ClientRead, frameVars, sendVars
  <2> QED  BY <2>1, SeenSame
<1>4. CASE ClientLeave
  <2>1. out' = out /\ UNCHANGED <<cut, handled, wire>>
    BY <1>4 DEF ClientLeave, frameVars, sendVars
  <2> QED  BY <2>1, SeenSame
<1>5. CASE PeerReset
  <2>1. out' = out /\ UNCHANGED <<cut, handled, wire>>
    BY <1>5 DEF PeerReset, frameVars, sendVars
  <2> QED  BY <2>1, SeenSame
<1>6. CASE RecvRequest
  <2>1. out' = out /\ UNCHANGED <<cut, handled, wire>>
    BY <1>6 DEF RecvRequest, frameVars, sendVars
  <2> QED  BY <2>1, SeenSame
<1>7. CASE RecvExtra
  <2>1. out' = out /\ UNCHANGED <<cut, handled, wire>>
    BY <1>7 DEF RecvExtra, frameVars, sendVars
  <2> QED  BY <2>1, SeenSame
<1>8. CASE RecvRequestEmpty
  <2>1. out' = out /\ UNCHANGED <<cut, handled, wire>>
    BY <1>8 DEF RecvRequestEmpty, frameVars, sendVars
  <2> QED  BY <2>1, SeenSame
<1>9. CASE CloseFd
  <2>1. out' = out /\ UNCHANGED <<cut, handled, wire>>
    BY <1>9 DEF CloseFd, frameVars, sendVars
  <2> QED  BY <2>1, SeenSame
<1>10. CASE HandshakeSend
  <2>1. Reachable'
    BY <1>10 DEF HandshakeSend, SendTo, Reachable
  <2> QED  BY <2>1
<1>11. CASE HandshakeAgain
  <2>1. out' = out /\ UNCHANGED <<cut, handled, wire>>
    BY <1>11 DEF HandshakeAgain, frameVars, sendVars
  <2> QED  BY <2>1, SeenSame
<1>12. CASE HandshakeFallback
  <2>1. out' = out /\ UNCHANGED <<cut, handled, wire>>
    BY <1>12 DEF HandshakeFallback, SendError, frameVars, sendVars
  <2> QED  BY <2>1, SeenSame
<1>13. CASE Send
  <2>1. Reachable'
    BY <1>13 DEF Send, SendTo, Reachable
  <2> QED  BY <2>1
<1>14. CASE SendFails
  <2>1. out' = out /\ UNCHANGED <<cut, handled, wire>>
    BY <1>14 DEF SendFails, SendError, frameVars, sendVars
  <2> QED  BY <2>1, SeenSame
<1>15. CASE Killed
  <2>1. out' = out /\ UNCHANGED <<cut, handled, wire>>
    BY <1>15 DEF Killed, frameVars, sendVars
  <2> QED  BY <2>1, SeenSame
<1>16. CASE RecvFrames
  <2>1. out' = out /\ UNCHANGED <<cut, handled, wire>>
    BY <1>16 DEF RecvFrames, frameVars, sendVars
  <2> QED  BY <2>1, SeenSame
<1>17. CASE RecvLate
  <2>1. out' = out /\ UNCHANGED <<cut, handled, wire>>
    BY <1>17 DEF RecvLate, frameVars, sendVars
  <2> QED  BY <2>1, SeenSame
<1>18. CASE RecvFramesEmpty
  <2>1. out' = out /\ UNCHANGED <<cut, handled, wire>>
    BY <1>18 DEF RecvFramesEmpty, frameVars, sendVars
  <2> QED  BY <2>1, SeenSame
<1>19. CASE ParseNone
  <2>1. out' = out /\ UNCHANGED <<cut, handled, wire>>
    BY <1>19 DEF ParseNone, frameVars, sendVars
  <2> QED  BY <2>1, SeenSame
<1>20. CASE handled < Len(wire) /\ Continuation(handled + 1)
  <2>1. out' = out /\ cut' = cut /\ handled' = handled + 1 /\ UNCHANGED wire
    BY <1>20 DEF Continuation, NextFrame
  <2> QED  BY <1>20, <2>1, SeenNext
<1>21. CASE handled < Len(wire) /\ Data(handled + 1)
  <2>1. out' = out /\ cut' = cut /\ handled' = handled + 1 /\ UNCHANGED wire
    BY <1>21 DEF Data, NextFrame
  <2> QED  BY <1>21, <2>1, SeenNext
<1>22. CASE handled < Len(wire) /\ Ping(handled + 1)
  <2>1. out' = out /\ cut' = cut /\ handled' = handled + 1 /\ UNCHANGED wire
    BY <1>22 DEF Ping, NextFrame
  <2> QED  BY <1>22, <2>1, SeenNext
<1>23. CASE handled < Len(wire) /\ Ignore(handled + 1)
  <2>1. out' = out /\ cut' = cut /\ handled' = handled + 1 /\ UNCHANGED wire
    BY <1>23 DEF Ignore, NextFrame
  <2> QED  BY <1>23, <2>1, SeenNext
<1>24. CASE handled < Len(wire) /\ CloseFrame(handled + 1)
  <2>1. out' = out /\ cut' = cut /\ handled' = handled + 1 /\ UNCHANGED wire
    BY <1>24 DEF CloseFrame, sendVars
  <2> QED  BY <1>24, <2>1, SeenNext
<1>25. CASE UNCHANGED vars
  <2>1. out' = out /\ UNCHANGED <<cut, handled, wire>>
    BY <1>25 DEF vars, frameVars, sendVars
  <2> QED  BY <2>1, SeenSame
<1>27. CASE StrayPanic
  <2>1. out' = out /\ UNCHANGED <<cut, handled, wire>>
    BY <1>27 DEF StrayPanic, frameVars, sendVars
  <2> QED  BY <2>1, SeenSame
<1> QED BY <1>1, <1>2, <1>3, <1>4, <1>5, <1>6, <1>7, <1>8, <1>9, <1>10, <1>11, <1>12,
      <1>13, <1>14, <1>15, <1>16, <1>17, <1>18, <1>19, <1>20, <1>21, <1>22, <1>23,
      <1>24, <1>25, <1>27 DEF Next, Client, Handler, FrameLoop, Over

\* A step without a client, or after a cut, keeps the stream in order.
LEMMA StreamStep ==
  ASSUME Types, StreamWellFormed, stray = 0, [Next]_vars, ~StrayFrame, ~Live'
  PROVE  StreamWellFormed'
  <1>1. CASE cut'
    BY <1>1 DEF StreamWellFormed
  <1>2. CASE ~cut' /\ out = <<>>
    <2>1. out' = <<>>
      BY <1>2, QuietStep DEF Live
    <2>2. Owed(handled)' = <<>>
      BY <2>1 DEF Owed
    <2>3. IsPrefix(out', Stream(Owed(handled)'))
      BY <2>1, <2>2, StreamEmpty DEF IsPrefix
    <2> QED  BY <2>3 DEF StreamWellFormed
  <1>3. CASE ~cut' /\ out # <<>>
    <2>1. /\ out' = out /\ ~cut
          /\ Seen' = Seen \/ \E f \in Frames : Seen' = Append(Seen, f)
      BY <1>3, QuietStep DEF Live
    <2> PICK a \in Msgs : a = out[1].msg
      BY <1>3, FirstUnit
    <2>2. Owed(handled) = Script(a, Seen) /\ Owed(handled)' = Script(a, Seen')
      BY <1>3, <2>1, OwedIs, OwedNext
    <2>3. out \in Seq(UnitSet) /\ Seen \in Seq(Frames)
      BY Counts, SeenIs, Widen DEF Types
    <2> PICK d \in Seq(Msgs) : d = Script(a, Seen)
      BY <2>3, ScriptType
    <2>4. IsPrefix(out, Stream(d))
      <3>1. ~(stray > 0)
        OBVIOUS
      <3> QED  BY <2>1, <2>2, <3>1 DEF StreamWellFormed
    <2>5. \E r \in Seq(Msgs) : Script(a, Seen') = d \o r
      <3>1. d = d \o <<>> /\ <<>> \in Seq(Msgs)
        BY ConcatEmptySeq, EmptySeq
      <3>2. CASE Seen' = Seen
        BY <3>1, <3>2
      <3>3. ASSUME NEW f \in Frames, Seen' = Append(Seen, f)
            PROVE  \E r \in Seq(Msgs) : Script(a, Seen') = d \o r
        <4>1. CASE a.kind \in {"page", "404"}
          <5>1. Script(a, Seen') = d
            BY <4>1 DEF Script
          <5> QED  BY <3>1, <5>1
        <4>2. CASE a.kind \notin {"page", "404"}
          <5>1. Script(a, Seen') = d \o Replies(Seen, f)
            BY <2>3, <3>3, <4>2, ScriptAppend
          <5>2. Len(Seen) \in Nat /\ DOMAIN Seen = 1 .. Len(Seen)
            BY <2>3, LenProperties
          <5> QED  BY <5>1, <5>2, RepliesType
        <4> QED  BY <4>1, <4>2
      <3> QED  BY <2>1, <3>2, <3>3
    <2>6. PICK r \in Seq(Msgs) : Script(a, Seen') = d \o r
      BY <2>5
    <2>7. /\ Stream(d) \in Seq(UnitSet) /\ Stream(d \o r) \in Seq(UnitSet)
          /\ IsPrefix(Stream(d), Stream(d \o r))
      BY StreamType, StreamGrows, ConcatProperties
    <2>8. IsPrefix(out, Stream(d \o r))
      BY <2>3, <2>4, <2>7, PrefixTrans
    <2>9. IsPrefix(out', Stream(Owed(handled)'))
      BY <2>1, <2>2, <2>6, <2>8
    <2> QED  BY <2>9 DEF StreamWellFormed
  <1> QED  BY <1>1, <1>2, <1>3

\* Every step keeps O_NONBLOCK where it is.
LEMMA NonBlockingStep ==
  ASSUME Types, NonBlockingFutures, [Next]_vars
  PROVE  NonBlockingFutures'
<1>1. CASE ClientRequest
  BY <1>1 DEF NonBlockingFutures, ClientRequest
<1>2. CASE ClientFrame
  BY <1>2 DEF NonBlockingFutures, ClientFrame
<1>3. CASE ClientRead
  BY <1>3 DEF NonBlockingFutures, ClientRead
<1>4. CASE ClientLeave
  BY <1>4 DEF NonBlockingFutures, ClientLeave
<1>5. CASE PeerReset
  BY <1>5 DEF NonBlockingFutures, PeerReset
<1>6. CASE RecvRequest
  BY <1>6, AnswerIs DEF NonBlockingFutures, RecvRequest
<1>7. CASE RecvExtra
  BY <1>7, AnswerIs DEF NonBlockingFutures, RecvExtra
<1>8. CASE RecvRequestEmpty
  BY <1>8, AnswerIs DEF NonBlockingFutures, RecvRequestEmpty
<1>9. CASE CloseFd
  BY <1>9 DEF NonBlockingFutures, CloseFd
<1>10. CASE HandshakeSend
  BY <1>10 DEF NonBlockingFutures, HandshakeSend, Restore
<1>11. CASE HandshakeAgain
  BY <1>11 DEF NonBlockingFutures, HandshakeAgain
<1>12. CASE HandshakeFallback
  BY <1>12 DEF NonBlockingFutures, HandshakeFallback, Restore
<1>13. CASE Send
  BY <1>13 DEF NonBlockingFutures, Send
<1>14. CASE SendFails
  BY <1>14 DEF NonBlockingFutures, SendFails
<1>15. CASE Killed
  BY <1>15 DEF NonBlockingFutures, Killed
<1>16. CASE RecvFrames
  BY <1>16 DEF NonBlockingFutures, RecvFrames
<1>17. CASE RecvLate
  BY <1>17 DEF NonBlockingFutures, RecvLate
<1>18. CASE RecvFramesEmpty
  BY <1>18 DEF NonBlockingFutures, RecvFramesEmpty
<1>19. CASE ParseNone
  BY <1>19 DEF NonBlockingFutures, ParseNone
<1>20. CASE handled < Len(wire) /\ Continuation(handled + 1)
  BY <1>20 DEF NonBlockingFutures, Continuation, NextFrame
<1>21. CASE handled < Len(wire) /\ Data(handled + 1)
  BY <1>21 DEF NonBlockingFutures, Data, NextFrame
<1>22. CASE handled < Len(wire) /\ Ping(handled + 1)
  BY <1>22 DEF NonBlockingFutures, Ping, NextFrame
<1>23. CASE handled < Len(wire) /\ Ignore(handled + 1)
  BY <1>23 DEF NonBlockingFutures, Ignore, NextFrame
<1>24. CASE handled < Len(wire) /\ CloseFrame(handled + 1)
  BY <1>24 DEF NonBlockingFutures, CloseFrame
<1>25. CASE UNCHANGED vars
  BY <1>25 DEF NonBlockingFutures, vars
<1>26. CASE StrayFrame
  BY <1>26 DEF NonBlockingFutures, StrayFrame
<1>27. CASE StrayPanic
  BY <1>27 DEF NonBlockingFutures, StrayPanic
<1> QED BY <1>1, <1>2, <1>3, <1>4, <1>5, <1>6, <1>7, <1>8, <1>9, <1>10, <1>11, <1>12,
      <1>13, <1>14, <1>15, <1>16, <1>17, <1>18, <1>19, <1>20, <1>21, <1>22, <1>23,
      <1>24, <1>25, <1>26, <1>27 DEF Next, Client, Handler, FrameLoop, Over

-----------------------------------------------------------------------------
(* The theorems.                                                           *)

\* Only a stray frame is counted as one.
LEMMA StrayStep ==
  ASSUME [Next]_vars, ~StrayFrame
  PROVE  UNCHANGED stray
  BY DEF Next, Client, ClientRequest, ClientFrame, ClientRead, ClientLeave, PeerReset, Handler,
         RecvRequest, RecvExtra, RecvRequestEmpty, CloseFd, HandshakeSend, HandshakeAgain,
         HandshakeFallback, Send, SendFails, Killed, FrameLoop, RecvFrames, RecvLate,
         RecvFramesEmpty, ParseNone, StrayPanic, Continuation, Data, Ping, Ignore, NextFrame,
         CloseFrame, Over, vars, reqVars

\* The inductive invariant.
IInv ==
  /\ Types
  /\ Shape
  /\ RequestStart
  /\ RequestInv
  /\ stray = 0 => FragInv /\ Exact
  /\ FramesDone
  /\ StreamWellFormed
  /\ NonBlockingFutures

\* It holds at first ...
LEMMA InitIInv == Init => IInv
  <1> SUFFICES ASSUME Init PROVE IInv
    OBVIOUS
  <1>1. /\ req \in [kind : Kinds, len : ReqLens] /\ req.len \in ReqLens
        /\ arrived = 0 /\ got = 0 /\ whole = FALSE /\ late = 0 /\ stray = 0 /\ wire = <<>> /\ read = 0 /\ handled = 0
        /\ frag = <<>> /\ pc = "request" /\ blocking = FALSE /\ iter = 0 /\ sending = <<>>
        /\ off = 0 /\ out = <<>> /\ queued = 0 /\ cut = FALSE
        /\ peer = "here" /\ sigpipe \in {"default", "ignored"}
    BY DEF Init
  <1>2. Types
    <2>1. req.len \in Nat /\ req.len >= 5
      BY <1>1, ConnectionAssumption
    <2>2. arrived \in 0 .. req.len /\ got \in 0 .. arrived
      BY <1>1, <2>1
    <2>3. iter \in 0 .. MaxIter /\ queued \in 0 .. SendBuf /\ Len(wire) <= MaxFrames
          /\ handled \in 0 .. Len(wire) /\ off \in Nat
      BY <1>1, ConnectionAssumption
    <2>4. 0 * FrameUnits = 0 /\ Len(wire) = 0
      BY <1>1, ConnectionAssumption
    <2>5. read \in handled * FrameUnits .. Len(wire) * FrameUnits
      BY <1>1, <2>4
    <2>6. \A S : <<>> \in Seq(S)
      BY EmptySeq
    <2> QED  BY <1>1, <2>2, <2>3, <2>5, <2>6 DEF Types
  <1>3. Shape /\ RequestStart /\ FramesDone /\ NonBlockingFutures
    BY <1>1 DEF Shape, RequestStart, FramesDone, NonBlockingFutures
  <1>4. RequestInv
    BY <1>1 DEF RequestInv, WholeRequestAnswered
  <1>5. FragInv
    <2>1. Seen = <<>>
      BY <1>1, <1>2, NothingRead DEF Seen
    <2>2. Open(<<>>) = {}
      BY DEF Open
    <2> QED  BY <1>1, <2>1, <2>2 DEF FragInv
  <1>6. Exact
    BY <1>1 DEF Exact
  <1>7. StreamWellFormed
    <2>1. Live
      BY <1>1 DEF Live, Reachable
    <2> QED  BY <1>2, <1>3, <1>6, <2>1, ExactPrefix
  <1> QED  BY <1>2, <1>3, <1>4, <1>5, <1>6, <1>7 DEF IInv

\* ... and after every step.
LEMMA NextIInv == IInv /\ [Next]_vars => IInv'
  <1> SUFFICES ASSUME IInv, [Next]_vars PROVE IInv'
    OBVIOUS
  <1> USE DEF IInv
  <1>1. Types'
    BY TypeStep
  <1>2. Shape'
    BY <1>1, ShapeStep
  <1>3. RequestInv' /\ RequestStart'
    BY RequestStep
  <1>4. StrayFrame => stray' > 0 /\ stray' # 0
    BY DEF Types, StrayFrame
  <1>5. ~StrayFrame => UNCHANGED stray
    BY StrayStep
  <1>9. stray' = 0 => stray = 0 /\ ~StrayFrame /\ FragInv' /\ Exact'
    BY <1>4, <1>5, FragStep, ExactStep
  <1>6. FramesDone'
    BY FramesDoneStep
  <1>7. StreamWellFormed'
    <2>1. CASE stray' = 0
      BY <1>1, <1>2, <1>9, <2>1, ExactPrefixNext, StreamStep
    <2>2. CASE stray' # 0
      <3>1. stray' > 0
        BY <1>1, <2>2 DEF Types
      <3> QED  BY <3>1 DEF StreamWellFormed
    <2> QED  BY <2>1, <2>2
  <1>8. NonBlockingFutures'
    BY NonBlockingStep
  <1> QED  BY <1>1, <1>2, <1>3, <1>6, <1>7, <1>8, <1>9

\* So it always holds.
LEMMA Invariant == Spec => []IInv
  BY InitIInv, NextIInv, PTL DEF Spec

\* Type correctness of handle_http_connection, accept_and_run and the socket, among
\* it that no more is read than the client has sent, that the send buffer is never
\* overfilled and that fragments and echoes only name frames that were handled.
THEOREM TypeCorrect == Spec => []TypeOK
  <1>1. IInv => TypeOK
    BY TypesAre DEF IInv
  <1> QED  BY <1>1, Invariant, PTL

\* O_NONBLOCK is cleared in the handshake's loop only, whatever the peer does.
THEOREM FuturesDoNotBlock == Spec => []NonBlockingFutures
  <1>1. IInv => NonBlockingFutures
    BY DEF IInv
  <1> QED  BY <1>1, Invariant, PTL

\* A request that is there in full when handle_http_connection first reads gets the
\* answer it asks for, for every length that fits the two reads.
THEOREM RequestsAnswered == Spec => []WholeRequestAnswered
  <1>1. IInv => WholeRequestAnswered
    BY DEF IInv, RequestInv
  <1> QED  BY <1>1, Invariant, PTL

\* What accept_and_run and send_ws_payload send is a prefix of the stream the
\* client's frames ask for: in order, whole and once each, for any frames, message
\* sizes, send buffer and cutting of the bytes, until a sendto of a single SendFuture is
\* short or the rest of a request is parsed as a frame.
THEOREM StreamInOrder == Spec => []StreamWellFormed
  <1>1. IInv => StreamWellFormed
    BY DEF IInv
  <1> QED  BY <1>1, Invariant, PTL

\* accept_and_run waits for input only when every frame it has is answered.
THEOREM NoFrameWaits == Spec => []NothingLeftBehind
  <1>1. IInv => NothingLeftBehind
    BY DEF IInv, NothingLeftBehind, FramesDone, Exact, Live, Reachable, Types
  <1> QED  BY <1>1, Invariant, PTL

\* The socket of a client that is there is closed only after its whole answer.
THEOREM AnswerBeforeClose == Spec => []ClosesAfterAnswer
  <1>1. IInv => ClosesAfterAnswer
    BY DEF IInv, ClosesAfterAnswer, Exact, Live, Reachable, Types
  <1> QED  BY <1>1, Invariant, PTL
=============================================================================
