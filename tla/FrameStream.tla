----------------------------- MODULE FrameStream -----------------------------
(***************************************************************************)
(* The receiving side of accept_and_run on real bytes: chunks of any size  *)
(* extend buf_acc and frames are parsed off its front.  The functions of   *)
(* Parsing are put to their inputs here too: input is either a stream of   *)
(* frames, or any bytes a client may send, or the argument of one of them. *)
(***************************************************************************)
EXTENDS Parsing

CONSTANTS
  Streams,      \* sequences of client frames
  AnyBytes,     \* byte strings of clients that need not keep to RFC 6455
  ChunkSizes,   \* what a recvfrom may return
  Replies,      \* opcodes and payloads of frames to the client
  Lengths,      \* lengths a frame's header may announce, and bytes that follow
  Requests      \* header lines of a request, and how much of it has come

\* The top bit of a length is clear, as RFC 6455 demands.
LegalLength == UsizeSpan \div 2

\* Frames of a client that keeps to RFC 6455, masked when there is a key.  Lengths that
\* announce anything else are in AnyBytes.
ClientFrames ==
  {f \in [fin : BOOLEAN, opcode : 0 .. 15, key : {<<>>} \cup [1 .. 4 -> Bytes],
          payload : Seq(Bytes)] : Len(f.payload) < LegalLength}

\* A request with the header lines hs, and where line i starts.
Line(h) == h.name \o <<Colon, Space>> \o h.value \o <<CR, LF>>
RequestText(hs) ==
  <<71, CR, LF>> \o FlattenSeq([i \in DOMAIN hs |-> Line(hs[i])]) \o <<CR, LF>>
LineStart(hs, i) == 3 + Len(FlattenSeq([j \in 1 .. i - 1 |-> Line(hs[j])]))

\* Requests of which come bytes are there.  find_header_value looks for the name
\* everywhere and skips every colon: here it stands in front of its values only, and
\* these have no colon.
PlainRequests ==
  {r \in [headers : Seq([name : Seq(Bytes), value : Seq(Bytes)]),
          name : Seq(Bytes) \ {<<>>}, come : Nat] :
     LET hs   == r.headers
         text == RequestText(hs)
         mine == {h \in DOMAIN hs : hs[h].name = r.name}
     IN /\ r.come <= Len(text)
        /\ \A i \in Len(r.name) .. Len(text) :
             SubSeq(text, i - Len(r.name) + 1, i) = r.name =>
               \E h \in mine : i = LineStart(hs, h) + Len(r.name)
        /\ \A h \in mine : \A i \in DOMAIN hs[h].value : hs[h].value[i] \notin {CR, Colon}}

ASSUME FrameStreamAssumption ==
  /\ Streams \subseteq Seq(ClientFrames)
  /\ AnyBytes \subseteq Seq(Bytes)
  /\ Replies \subseteq [opcode : 0 .. 15, payload : Seq(Bytes)]
  /\ Lengths \subseteq [len : 0 .. LegalLength - 1, bytes : Nat]
  /\ Requests \subseteq PlainRequests

VARIABLES
  input,
  rest,         \* bytes of the stream that are still to come
  buf_acc,
  seen,         \* frames parsed
  pc

vars == <<input, rest, buf_acc, seen, pc>>

\* A frame on the wire, by RFC 6455: the shortest form of its length, and the
\* payload masked when there is a key.
WireLength(l) ==
  IF l <= 125 THEN [mark |-> l, ext |-> <<>>]
  ELSE IF l < Pow256[ExtBytes] THEN [mark |-> 126, ext |-> BytesOf(l, ExtBytes)]
  ELSE [mark |-> 127, ext |-> BytesOf(l, LongBytes)]

WireBytes(f) ==
  LET l == WireLength(Len(f.payload))
  IN <<(IF f.fin THEN 128 ELSE 0) + f.opcode, (IF f.key = <<>> THEN 0 ELSE 128) + l.mark>>
     \o l.ext \o f.key
     \o IF f.key = <<>> THEN f.payload
        ELSE [i \in DOMAIN f.payload |-> ByteXor(f.payload[i], f.key[((i - 1) % 4) + 1])]

WireOf(fs) == FlattenSeq([i \in DOMAIN fs |-> WireBytes(fs[i])])

Init ==
  /\ input \in [fn : {"stream"}, of : Streams] \cup [fn : {"wire"}, of : AnyBytes]
               \cup [fn : {"reply"}, of : Replies] \cup [fn : {"length"}, of : Lengths]
               \cup [fn : {"request"}, of : Requests]
  /\ rest = CASE input.fn = "stream" -> WireOf(input.of)
              [] input.fn = "wire" -> input.of
              [] OTHER -> <<>>
  /\ buf_acc = <<>> /\ seen = <<>>
  /\ pc = "recv"

Recv ==
  /\ pc = "recv"
  /\ \E n \in ChunkSizes \cap 1 .. Len(rest) :
       /\ buf_acc' = buf_acc \o SubSeq(rest, 1, n)
       /\ rest' = SubSeq(rest, n + 1, Len(rest))
  /\ pc' = "parse"
  /\ UNCHANGED <<input, seen>>

\* Fault: one byte too few is drained.
DrainShort(n) == SubSeq(buf_acc, n, Len(buf_acc))

Drain(n) == SubSeq(buf_acc, n + 1, Len(buf_acc))

\* while let Some(frame): the frame leaves buf_acc.  The panic handler exits, and
\* the thread with its connections is gone.
Parse ==
  /\ pc = "parse"
  /\ LET p == parse_websocket_frame(buf_acc)
     IN \/ /\ p.kind = "none"
           /\ pc' = "recv"
           /\ UNCHANGED <<buf_acc, seen>>
        \/ /\ p.kind = "frame"
           /\ buf_acc' = Drain(p.consumed)
           /\ seen' = Append(seen, p)
           /\ UNCHANGED pc
        \/ /\ p.kind = "panic"
           /\ pc' = "dead"
           /\ UNCHANGED <<buf_acc, seen>>
  /\ UNCHANGED <<input, rest>>

\* The stream is at its end, or nobody reads it; the argument of a function has none.
Over ==
  /\ (pc = "recv" /\ rest = <<>>) \/ pc = "dead"
  /\ UNCHANGED vars

Next == Recv \/ Parse \/ Over

Spec == Init /\ [][Next]_vars

-----------------------------------------------------------------------------
(* Properties.                                                             *)

\* However the stream is cut into chunks, the frames parsed are the client's
\* frames, unmasked, in order; a frame is parsed as soon as its last byte is there,
\* and no byte is lost or read twice.
DecodesWhatWasSent ==
  input.fn = "stream" =>
    LET fs == input.of
        n  == Len(seen)
    IN /\ n <= Len(fs)
       /\ \A i \in 1 .. n : /\ seen[i].fin = fs[i].fin
                            /\ seen[i].opcode = fs[i].opcode
                            /\ seen[i].payload = fs[i].payload
       /\ buf_acc \o rest = WireOf(SubSeq(fs, n + 1, Len(fs)))
       /\ pc = "recv" /\ n < Len(fs) => Len(buf_acc) < Len(WireBytes(fs[n + 1]))
       /\ pc # "dead"

\* The length announced at the front of buf is so near to the largest usize that the
\* sum with the header's size wraps.
Wraps(buf) ==
  /\ Len(buf) >= 2 /\ Len(buf) >= HeaderSize(buf)
  /\ HeaderSize(buf) + payload_len(buf) >= UsizeSpan

\* Whatever bytes a client sends and however they are cut, a panic ends the thread
\* exactly when a header announces such a length; before that every frame takes at
\* least its two first bytes off buf_acc, so that the while loop ends, and what is left
\* is the end of what was sent.
AnyBytesParsed ==
  input.fn = "wire" =>
    LET sent == input.of
    IN /\ pc = "dead" => Wraps(buf_acc)
       /\ pc = "recv" => ~Wraps(buf_acc)
       /\ \A i \in DOMAIN seen : seen[i].consumed >= 2
       /\ \E k \in 0 .. Len(sent) : buf_acc \o rest = SubSeq(sent, k + 1, Len(sent))

\* The frames the server builds are RFC 6455's for their opcode and payload, with
\* the shortest form of the length, at 125, 126 and the limit of the 16-bit form.
ServerFramesValid ==
  input.fn = "reply" =>
    LET f == [fin |-> TRUE, opcode |-> input.of.opcode, key |-> <<>>,
              payload |-> input.of.payload]
    IN /\ build_websocket_frame(f.opcode, f.payload) = WireBytes(f)
       /\ ws_payload_frame(f.payload) = WireBytes([f EXCEPT !.opcode = 2])

\* A length with its top bit clear, as RFC 6455 demands, never wraps when the
\* header's size is added: the parser waits until so many bytes have come.
LegalLengthsWait ==
  input.fn = "length" =>
    LET buf == <<130, 255>> \o BytesOf(input.of.len, LongBytes)
               \o [i \in 1 .. 4 + input.of.bytes |-> 0]
        p == parse_websocket_frame(buf)
    IN IF input.of.bytes < input.of.len THEN p = NoFrame
       ELSE p.kind = "frame" /\ Len(p.payload) = input.of.len

\* From any beginning of a request accept_and_run takes no key, the whole key once
\* the header's CR is there, or else the key cut off: never other bytes.
KeyOfPrefix ==
  input.fn = "request" =>
    LET hs   == input.of.headers
        name == input.of.name
        text == SubSeq(RequestText(hs), 1, input.of.come)
        mine == {i \in DOMAIN hs : hs[i].name = name}
        key  == find_header_value(text, name)
    IN IF mine = {} THEN key = None
       ELSE LET i     == Min(mine)
                start == LineStart(hs, i)
                value == trim(hs[i].value)
            IN /\ key = None <=> Len(text) <= start + Len(name)
               /\ key # None => IsPrefix(trim(key), value)
               /\ Len(text) >= start + Len(Line(hs[i])) - 1 => trim(key) = value
=============================================================================
