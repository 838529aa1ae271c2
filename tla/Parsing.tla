------------------------------- MODULE Parsing -------------------------------
(***************************************************************************)
(* utils/parsing.rs, frames and headers, and the frame of send_ws_payload  *)
(* (websocket), on bytes.                                                  *)
(*                                                                         *)
(* Bytes and characters are numbers.  The two long forms of a frame's      *)
(* length have ExtBytes (2) and LongBytes (8) bytes, and a usize has       *)
(* LongBytes bytes and wraps, as in a release build.                       *)
(***************************************************************************)
EXTENDS Integers, SequencesExt, FiniteSetsExt

CONSTANTS
  ExtBytes,     \* 2
  LongBytes,    \* 8
  None          \* Option::None

ASSUME ParsingAssumption ==
  /\ ExtBytes \in Nat \ {0} /\ LongBytes \in Nat
  /\ ExtBytes < LongBytes
  /\ None \notin Seq(0 .. 255)

Bytes == 0 .. 255

\* What n bytes can hold.
Pow256[n \in Nat] == IF n = 0 THEN 1 ELSE 256 * Pow256[n - 1]

UsizeSpan == Pow256[LongBytes]

\* Characters by their ASCII codes.
LF    == 10
CR    == 13
Space == 32
Colon == 58

\* Highest byte first, and back.
BytesOf(v, n) == [i \in 1 .. n |-> (v \div Pow256[n - i]) % 256]

ValueOf(s) ==
  LET v[i \in 0 .. Len(s)] == IF i = 0 THEN 0 ELSE (v[i - 1] * 256 + s[i]) % UsizeSpan
  IN v[Len(s)]

-----------------------------------------------------------------------------
(* Frames.                                                                 *)

\* Exclusive or of two bytes, bit by bit.
ByteXor(a, b) ==
  LET Bit(x, p) == (x \div p) % 2
      Place(p)  == p * ((Bit(a, p) + Bit(b, p)) % 2)
  IN Place(1) + Place(2) + Place(4) + Place(8)
     + Place(16) + Place(32) + Place(64) + Place(128)

Unmask(s, key) == [i \in DOMAIN s |-> ByteXor(s[i], key[((i - 1) % 4) + 1])]

\* Fault: the sum is kept in a word half as long.
FrameTotalShort(pos, len) == (pos + len) % (UsizeSpan \div 256)

\* pos + payload_len, unchecked.
FrameTotal(pos, len) == (pos + len) % UsizeSpan

\* The bytes of a long length, and the whole header with the mask key.
ExtOf(buf) ==
  IF buf[2] % 128 = 126 THEN ExtBytes ELSE IF buf[2] % 128 = 127 THEN LongBytes ELSE 0
Masked(buf) == buf[2] >= 128
HeaderSize(buf) == 2 + ExtOf(buf) + IF Masked(buf) THEN 4 ELSE 0
payload_len(buf) ==
  IF ExtOf(buf) = 0 THEN buf[2] % 128 ELSE ValueOf(SubSeq(buf, 3, 2 + ExtOf(buf)))

NoFrame == [kind |-> "none"]
Panic   == [kind |-> "panic"]
Frame(total, fin, opcode, payload) ==
  [kind |-> "frame", consumed |-> total, fin |-> fin, opcode |-> opcode,
   payload |-> payload]

\* NoFrame while the buffer is shorter than the header or the frame.  A sum that
\* has wrapped makes a slice that ends before it starts.
parse_websocket_frame(buf) ==
  IF Len(buf) < 2 THEN NoFrame
  ELSE LET pos   == HeaderSize(buf)
           total == FrameTotal(pos, payload_len(buf))
           data  == SubSeq(buf, pos + 1, total)
       IN IF Len(buf) < pos THEN NoFrame
          ELSE IF Len(buf) < total THEN NoFrame
          ELSE IF total < pos THEN Panic
          ELSE Frame(total, buf[1] >= 128, buf[1] % 16,
                     IF Masked(buf) THEN Unmask(data, SubSeq(buf, pos - 3, pos)) ELSE data)

\* Fault: 126 is written in the short form.
LengthBytesOneMore(l) ==
  IF l <= 126 THEN <<l>>
  ELSE IF l < Pow256[ExtBytes] THEN <<126>> \o BytesOf(l, ExtBytes)
  ELSE <<127>> \o BytesOf(l, LongBytes)

LengthBytes(l) ==
  IF l < 126 THEN <<l>>
  ELSE IF l < Pow256[ExtBytes] THEN <<126>> \o BytesOf(l, ExtBytes)
  ELSE <<127>> \o BytesOf(l, LongBytes)

build_websocket_frame(opcode, payload) ==
  <<128 + opcode>> \o LengthBytes(Len(payload)) \o payload

\* The frame send_ws_payload builds: binary, whatever the message was.
ws_payload_frame(payload) == build_websocket_frame(2, payload)

-----------------------------------------------------------------------------
(* Headers.                                                                *)

\* Fault: the name is looked for from the end.
FirstOfLast(S) == Max(S)

FirstOf(S) == Min(S)

\* The value behind the first place where the name stands, colons and spaces
\* skipped, up to CR LF; without CR LF the last byte of the request is left out.
find_header_value(req, name) ==
  LET n     == Len(req)
      found == {i \in Len(name) .. n - 1 : SubSeq(req, i - Len(name) + 1, i) = name}
  IN IF found = {} THEN None
     ELSE LET i    == FirstOf(found)
              j    == Min({m \in i .. n : m = n \/ req[m + 1] \notin {Colon, Space}})
              ends == {m \in j .. n - 2 : req[m + 1] = CR /\ req[m + 2] = LF}
              k    == IF ends = {} THEN Max({j, n - 1}) ELSE Min(ends)
          IN SubSeq(req, j + 1, k)

\* accept_and_run takes the spaces off both ends.
trim(s) ==
  LET kept == {i \in DOMAIN s : s[i] # Space}
  IN IF kept = {} THEN <<>> ELSE SubSeq(s, Min(kept), Max(kept))
=============================================================================
