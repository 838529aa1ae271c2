--------------------------- MODULE MCPureFunctions ---------------------------
(* FrameStream and the pure functions on small inputs. *)
EXTENDS PureFunctions

Pattern(n) == [i \in 1 .. n |-> (i * 37) % 256]
MaskKey == <<7, 255, 0, 129>>

Ping == [fin |-> TRUE, opcode |-> 9, key |-> <<>>, payload |-> <<>>]
Part(n) == [fin |-> FALSE, opcode |-> 1, key |-> MaskKey, payload |-> Pattern(n)]
Final(n) == [fin |-> TRUE, opcode |-> 0, key |-> MaskKey, payload |-> Pattern(n)]

\* Short frames in every order, masked and not, final and not; and the three forms
\* of a length.
MCStreams ==
  UNION {[1 .. n -> {Ping, Part(5), Final(0), Final(1)}] : n \in 1 .. 4}
  \cup {<<Final(125), Ping>>, <<Part(126), Ping>>, <<Ping, Final(255)>>,
        <<Part(256), Final(1)>>}

\* The beginning of a frame that announces the length l.
Announces(l, masked) ==
  <<130, IF masked THEN 255 ELSE 127>> \o BytesOf(l, LongBytes) \o IF masked THEN MaskKey ELSE <<>>

\* Any short bytes; and lengths up to the largest usize, before and after the one where
\* the sum wraps, alone, with bytes behind them, and behind a frame.
MCAnyBytes ==
  UNION {[1 .. n -> {0, 1, 127, 130, 255}] : n \in 0 .. 5}
  \cup {a \o Announces(2 ^ 24 - d, m) \o b :
          a \in {<<>>, WireBytes(Final(1))}, b \in {<<>>, Pattern(4)},
          d \in {1, 5, 6, 9, 10, 2 ^ 23, 2 ^ 24 - 3}, m \in BOOLEAN}

MCChunkSizes == {1, 2, 3, 5, 130, 250}

MCReplies == [opcode : {9, 10},
              payload : {Pattern(n) : n \in {0, 1, 125, 126, 127, 255, 256, 300}}]

\* Lengths up to half of a usize.
MCLengths == [len : {0, 1, 6, 255, 65529, 65536, 2 ^ 23 - 14, 2 ^ 23 - 1}, bytes : 0 .. 7]

Ky == <<75, 121>>
Values == UNION {[1 .. n -> {118, 32}] : n \in 0 .. 2}
Headers == [name : {Ky, <<72>>}, value : Values]
MCRequests ==
  {r \in [headers : UNION {[1 .. n -> Headers] : n \in 0 .. 2}, name : {Ky},
          come : 0 .. 21] : r.come <= Len(RequestText(r.headers))}

MCNumbers == 0 .. 120 \cup {255, 256, 999, 1000, 65535, 65536, 1000000, 2 ^ 24 - 1}

Arg(ps, junk) == [parts |-> ps, junk |-> junk]
Workers == {Arg(<<n>>, j) : n \in {0, 4, 64}, j \in BOOLEAN}
Addresses == {Arg(ps, j) : ps \in UNION {[1 .. n -> {0, 42, 255, 256}] : n \in 1 .. 5},
                           j \in BOOLEAN}
Ports == {Arg(<<p>>, FALSE) : p \in {80, 8080, 65535}}
MCArgvs ==
  {<<>>} \cup {<<w>> : w \in Workers} \cup {<<Arg(<<2>>, FALSE), a>> : a \in Addresses}
  \cup {<<w, Arg(<<127, 0, 0, 1>>, FALSE), p>> : w \in Workers, p \in Ports}

\* The key of RFC 6455, section 1.3; the others take one, two or three chunks, and
\* end before and at the byte where the padding needs one more.
SampleKey ==
  <<100, 71, 104, 108, 73, 72, 78, 104, 98, 88, 66, 115, 90, 83, 66,
    117, 98, 50, 53, 106, 90, 81, 61, 61>>

MCHandshakes ==
  { [key |-> SampleKey, accept |->
       <<44, 55, 41, 15, 11, 12, 1, 34, 19, 49, 26, 16, 61, 36, 24, 6,
         51, 51, 33, 25, 17, 27, 10, 62, 49, 14, 40, 64>>],
    [key |-> Pattern(0), accept |->
       <<10, 31, 33, 61, 16, 8, 44, 12, 21, 25, 28, 37, 58, 49, 4, 15,
         24, 49, 15, 7, 51, 22, 60, 18, 25, 60, 48, 64>>],
    [key |-> Pattern(19), accept |->
       <<22, 61, 2, 6, 8, 0, 58, 22, 13, 28, 51, 62, 30, 52, 7, 54, 59,
         35, 61, 55, 10, 30, 52, 54, 36, 54, 24, 64>>],
    [key |-> Pattern(20), accept |->
       <<12, 56, 8, 51, 22, 3, 1, 49, 54, 37, 0, 8, 62, 13, 37, 10, 23,
         55, 23, 33, 61, 9, 28, 59, 35, 11, 52, 64>>],
    [key |-> Pattern(28), accept |->
       <<62, 63, 26, 17, 62, 54, 9, 59, 42, 7, 11, 36, 14, 10, 46, 22,
         40, 51, 40, 20, 0, 56, 46, 13, 49, 30, 40, 64>>],
    [key |-> Pattern(83), accept |->
       <<62, 25, 20, 60, 22, 53, 49, 36, 43, 33, 19, 55, 49, 3, 51, 45,
         48, 50, 63, 3, 38, 48, 33, 7, 14, 9, 40, 64>>],
    [key |-> Pattern(84), accept |->
       <<38, 4, 42, 59, 42, 8, 57, 25, 2, 2, 31, 21, 25, 23, 58, 23, 44,
         34, 2, 44, 3, 52, 52, 63, 53, 37, 12, 64>>] }

MCSources == UNION {[1 .. n -> {0, 1, 127, 128, 255}] : n \in 0 .. 4} \cup {Pattern(20)}
=============================================================================
