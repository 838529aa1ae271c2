----------------------------- MODULE Connection -----------------------------
(***************************************************************************)
(* One connection from its first byte to its close: handle_http_connection *)
(* (http), accept_and_run and send_ws_payload (websocket) over a socket    *)
(* that cuts the client's bytes into arbitrary pieces, takes the server's  *)
(* bytes as its buffer has room, and loses its peer at any time.           *)
(*                                                                         *)
(* Bytes are counted in units: a request is a number of units with marks   *)
(* where its route and its key can be recognised, a frame is FrameUnits    *)
(* units, a message to the client Units[kind] units.  A frame's payload is *)
(* its number.  Waiting (EAGAIN, Pending) is a step that is not enabled;   *)
(* how a handler is woken again is the subject of Reactor, what the bytes  *)
(* of a frame mean that of Parsing.                                        *)
(***************************************************************************)
EXTENDS Naturals, Sequences, SequencesExt

CONSTANTS
  ReqLens,      \* lengths a request can have
  RecvCap,      \* 2048: the first read of a request
  ExtraCap,     \* 1024: the second read
  FrameUnits,   \* units of a client frame
  Units,        \* units of a message to the client, by kind
  SendBuf,      \* units the socket's send buffer holds
  MaxIter,      \* 1000: iterations of the handshake's send loop
  MaxFrames,    \* bound: frames the client sends
  MaxStray      \* bound: frames parsed out of bytes that are not frames

Kinds    == {"index", "ws", "wsNoKey", "other"}
MsgKinds == {"page", "404", "101", "101bad", "welcome", "echo", "ping", "pong"}
Frames   == [op : {"data", "cont"}, fin : BOOLEAN]
            \cup [op : {"ping", "close", "pong"}, fin : {TRUE}]

\* An answer fits the empty send buffer.
ASSUME ConnectionAssumption ==
  /\ ReqLens \subseteq {n \in Nat : n >= 5}
  /\ {RecvCap, ExtraCap, FrameUnits, SendBuf, MaxIter} \subseteq Nat \ {0}
  /\ Units \in [MsgKinds -> Nat \ {0}]
  /\ Units["page"] <= SendBuf /\ Units["404"] <= SendBuf
  /\ MaxFrames \in Nat /\ MaxStray \in Nat

VARIABLES
  req,          \* the client's request: kind and length
  arrived,      \* units of it the client has sent
  got,          \* units of it in buf
  whole,        \* history: it was there in full when buf was first read
  late,         \* units behind got that the frame loop has received
  stray,        \* history: frames it has parsed out of them
  wire,         \* frames the client has sent
  read,         \* units of them the handler has received
  handled,      \* frames parsed out of buf_acc
  frag,         \* frag_payload; empty when frag_opcode is None
  pc,
  blocking,     \* O_NONBLOCK is cleared
  iter,         \* iteration of the handshake's send loop
  sending, off, \* the messages to send, and the units of the first that are
  out,          \* units sendto has taken
  queued,       \* those still in the send buffer
  cut,          \* history: sendto took part of a message and the rest was dropped
  peer,         \* here, left (FIN), reset (error pending), pipe (no connection)
  sigpipe       \* the disposition of SIGPIPE the process was started with

reqVars   == <<req, arrived, got, whole, late, stray>>
frameVars == <<wire, read, handled, frag>>
sendVars  == <<sending, off, out, queued, cut>>
vars == <<reqVars, frameVars, pc, blocking, iter, sendVars, peer, sigpipe>>

Init ==
  /\ req \in [kind : Kinds, len : ReqLens]
  /\ arrived = 0 /\ got = 0 /\ whole = FALSE /\ late = 0 /\ stray = 0
  /\ wire = <<>> /\ read = 0 /\ handled = 0 /\ frag = <<>>
  /\ pc = "request"
  /\ blocking = FALSE /\ iter = 0
  /\ sending = <<>> /\ off = 0 /\ out = <<>> /\ queued = 0 /\ cut = FALSE
  /\ peer = "here"
  /\ sigpipe \in {"default", "ignored"}

Lesser(a, b) == IF a < b THEN a ELSE b
Ended == pc \in {"closed", "killed"}

Msg(k) == [kind |-> k, of |-> <<>>]
Echo(s) == [kind |-> "echo", of |-> s]
Pong(i) == [kind |-> "pong", of |-> <<i>>]
Size(m) == Units[m.kind]
Part(m, from, n) == [i \in 1..n |-> [msg |-> m, unit |-> from + i]]

-----------------------------------------------------------------------------
(* The client and the kernel's side of the socket.                         *)

\* Every byte of the request was in buf when it was answered: the frame loop starts at
\* the start of a frame.
InStep == got = req.len

ClientRequest ==
  /\ peer = "here" /\ ~Ended
  /\ \E n \in arrived + 1 .. req.len : arrived' = n
  /\ UNCHANGED <<req, got, whole, late, stray, frameVars, pc, blocking, iter, sendVars,
                 peer, sigpipe>>

\* The client speaks frames once it has sent its request and read a 101 answer to
\* its key, and says no more after a close frame.  Out of step it does not matter
\* which frames it sends: they are read as any (StrayFrame).
ClientFrame ==
  /\ peer = "here" /\ ~Ended
  /\ arrived = req.len
  /\ out # <<>> /\ out[1].msg.kind = "101"
  /\ Len(out) - queued >= Units["101"]
  /\ Len(wire) < MaxFrames
  /\ \A i \in DOMAIN wire : wire[i].op # "close"
  /\ \E f \in IF InStep THEN Frames ELSE {[op |-> "pong", fin |-> TRUE]} :
       wire' = Append(wire, f)
  /\ UNCHANGED <<reqVars, read, handled, frag, pc, blocking, iter, sendVars, peer,
                 sigpipe>>

ClientRead ==
  /\ peer = "here" /\ queued > 0 /\ ~Ended
  /\ queued' = queued - 1
  /\ UNCHANGED <<reqVars, frameVars, pc, blocking, iter, sending, off, out, cut,
                 peer, sigpipe>>

\* The client closes its socket, in order or (with unread input) by a reset.
ClientLeave ==
  /\ peer = "here" /\ ~Ended
  /\ peer' \in {"left", "reset"}
  /\ UNCHANGED <<reqVars, frameVars, pc, blocking, iter, sendVars, sigpipe>>

\* Bytes sent to a client that has left are answered by a reset.
PeerReset ==
  /\ peer = "left" /\ queued > 0 /\ ~Ended
  /\ peer' = "pipe"
  /\ UNCHANGED <<reqVars, frameVars, pc, blocking, iter, sendVars, sigpipe>>

\* sendto takes n of the units that are left of m.
SendTo(m, n) ==
  /\ peer \in {"here", "left"}
  /\ out' = out \o Part(m, off, n)
  /\ queued' = queued + n
  /\ UNCHANGED peer

\* sendto fails: a pending error is reported once; after that the connection is
\* gone and sendto raises SIGPIPE, and returns if SIGPIPE is ignored.
SendError ==
  /\ peer = "reset" \/ (peer = "pipe" /\ sigpipe = "ignored")
  /\ peer' = "pipe"
  /\ UNCHANGED <<out, queued>>

\* flags are 0 in every sendto and SIGPIPE has no handler: the process ends.
Killed ==
  /\ peer = "pipe" /\ sigpipe = "default"
  /\ pc = "send" \/ (pc = "handshake" /\ iter < MaxIter)
  /\ pc' = "killed"
  /\ UNCHANGED <<reqVars, frameVars, blocking, iter, sendVars, peer, sigpipe>>

-----------------------------------------------------------------------------
(* handle_http_connection.                                                 *)

\* Fault: what the second read brings is not added to buf.
ExtraDropped(n) == IF pc = "extra" THEN UNCHANGED got ELSE got' = got + n

\* buf = the first read, then extended by the second.
ExtendBuf(n) == got' = got + n

\* Where in a request its route, the header's name and its value end.
RouteAt == 2
KeyAt   == req.len - 2
KeyEnd  == req.len - 1

\* The messages a request is answered with, from the first g units of it: the
\* start of a request line is no known route; a key whose line is not complete is
\* cut off where the buffer ends, and gives a wrong accept value.
Route(g) ==
  CASE g < RouteAt \/ req.kind = "other" -> <<Msg("404")>>
    [] g >= RouteAt /\ req.kind = "index" -> <<Msg("page")>>
    [] g >= KeyAt /\ req.kind = "ws" -> <<Msg(IF g < KeyEnd THEN "101bad" ELSE "101")>>
    [] OTHER -> <<>>

\* The request is answered; an upgrade first clears O_NONBLOCK, and without a key
\* the socket is closed.
Answer(g) ==
  LET ms == Route(g)
      upgrade == ms # <<>> /\ ms[1].kind \in {"101", "101bad"}
  IN /\ sending' = ms
     /\ pc' = IF ms = <<>> THEN "close" ELSE IF upgrade THEN "handshake" ELSE "send"
     /\ blocking' = upgrade

RecvRequest ==
  /\ pc = "request" /\ got < arrived
  /\ LET n == Lesser(arrived, RecvCap)
     IN /\ ExtendBuf(n)
        /\ \/ /\ n < req.len /\ n = RecvCap
              /\ pc' = "extra"
              /\ UNCHANGED <<sending, blocking>>
           \/ /\ n = req.len \/ n < RecvCap
              /\ Answer(n)
  /\ whole' = (arrived = req.len)
  /\ UNCHANGED <<req, arrived, late, stray, frameVars, iter, off, out, queued, cut, peer,
                 sigpipe>>

RecvExtra ==
  /\ pc = "extra" /\ got < arrived
  /\ ExtendBuf(Lesser(arrived - got, ExtraCap))
  /\ Answer(got')
  /\ UNCHANGED <<req, arrived, whole, late, stray, frameVars, iter, off, out, queued, cut,
                 peer, sigpipe>>

\* Nothing more comes: an empty request is closed, a longer one is answered.
RecvRequestEmpty ==
  /\ peer # "here" /\ got = arrived
  /\ \/ /\ pc = "request"
        /\ pc' = "close"
        /\ UNCHANGED <<sending, blocking>>
     \/ pc = "extra" /\ Answer(got)
  /\ peer' = IF peer = "reset" THEN "pipe" ELSE peer
  /\ UNCHANGED <<reqVars, frameVars, iter, off, out, queued, cut, sigpipe>>

\* unregister_fd and close, and the handler returns.
CloseFd ==
  /\ pc = "close"
  /\ pc' = "closed"
  /\ UNCHANGED <<reqVars, frameVars, blocking, iter, sendVars, peer, sigpipe>>

-----------------------------------------------------------------------------
(* accept_and_run: the 101 answer in blocking mode, then the welcome.      *)

\* Fault: the loop's end does not restore O_NONBLOCK.
RestoreOnErrorOnly == IF sending' = <<Msg("welcome")>> THEN UNCHANGED blocking
                                                       ELSE blocking' = FALSE

\* fcntl(fd, F_SETFL, O_NONBLOCK)
Restore == blocking' = FALSE

HandshakeSend ==
  /\ pc = "handshake" /\ iter < MaxIter
  /\ LET m == sending[1]
     IN \E n \in 1 .. Lesser(Size(m) - off, SendBuf - queued) :
          /\ SendTo(m, n)
          /\ \/ /\ off + n < Size(m)
                /\ off' = off + n
                /\ iter' = iter + 1
                /\ UNCHANGED <<pc, sending, blocking>>
             \/ /\ off + n = Size(m)
                /\ off' = 0
                /\ iter' = 0
                /\ sending' = <<Msg("welcome")>>
                /\ pc' = "send"
                /\ Restore
  /\ UNCHANGED <<reqVars, frameVars, cut, sigpipe>>

\* r == -11: the loop continues.
HandshakeAgain ==
  /\ pc = "handshake" /\ iter < MaxIter
  /\ peer \in {"here", "left"}
  /\ iter' = iter + 1
  /\ UNCHANGED <<reqVars, frameVars, pc, blocking, sendVars, peer, sigpipe>>

\* An error, or too many iterations: non-blocking mode and one SendFuture with the
\* rest of the answer.  (wrote == 0 goes the same way; sendto does not return 0 for a
\* length that is not 0.)
HandshakeFallback ==
  /\ pc = "handshake"
  /\ \/ iter < MaxIter /\ SendError
     \/ iter = MaxIter /\ UNCHANGED <<peer, out, queued>>
  /\ sending' = Append(sending, Msg("welcome"))
  /\ pc' = "send"
  /\ iter' = 0
  /\ Restore
  /\ UNCHANGED <<reqVars, frameVars, off, cut, sigpipe>>

-----------------------------------------------------------------------------
(* send_ws_payload, and the single SendFutures.                            *)

\* send_ws_payload goes on after a partial write; nothing else does.
Resumed(m) == m.kind \in {"welcome", "echo"}

\* The first of the messages is done with: the next one, or what follows them.
NextMessage ==
  LET k == sending[1].kind
  IN /\ sending' = Tail(sending)
     /\ off' = 0
     /\ pc' = CASE Tail(sending) # <<>> -> "send"
                [] Tail(sending) = <<>> /\ k \in {"page", "404"} -> "close"
                [] Tail(sending) = <<>> /\ k = "welcome" -> "frames"
                [] OTHER -> "parse"

\* sendto takes what the buffer has room for.
Send ==
  /\ pc = "send" /\ queued < SendBuf
  /\ LET m == sending[1]
         n == Lesser(Size(m) - off, SendBuf - queued)
     IN /\ SendTo(m, n)
        /\ \/ /\ off + n < Size(m) /\ Resumed(m)
              /\ off' = off + n
              /\ UNCHANGED <<pc, sending>>
           \/ (off + n = Size(m) \/ ~Resumed(m)) /\ NextMessage
        /\ cut' = (cut \/ (off + n < Size(m) /\ ~Resumed(m)))
  /\ UNCHANGED <<reqVars, frameVars, blocking, iter, sigpipe>>

\* Fault: a full send buffer is taken for an error.
SendFailsWhenFull ==
  /\ pc = "send"
  /\ SendError \/ (queued = SendBuf /\ UNCHANGED <<peer, out, queued>>)
  /\ NextMessage
  /\ UNCHANGED <<reqVars, frameVars, blocking, iter, cut, sigpipe>>

\* send_ws_payload breaks, the others ignore the result.
SendFails ==
  /\ pc = "send"
  /\ SendError
  /\ NextMessage
  /\ UNCHANGED <<reqVars, frameVars, blocking, iter, cut, sigpipe>>

-----------------------------------------------------------------------------
(* The frame loop.                                                         *)

\* Otherwise it starts in front of this many units.
Behind == arrived - got + Len(wire) * FrameUnits

RecvFrames ==
  /\ pc = "frames" /\ InStep
  /\ \E n \in read + 1 .. Len(wire) * FrameUnits : read' = n
  /\ pc' = "parse"
  /\ UNCHANGED <<reqVars, wire, handled, frag, blocking, iter, sendVars, peer,
                 sigpipe>>

\* The request was answered before all of it had come: the rest of it, and
\* the frames behind it, are received as frame bytes.
RecvLate ==
  /\ pc = "frames" /\ ~InStep
  /\ \E n \in late + 1 .. Behind : late' = n
  /\ pc' = "parse"
  /\ UNCHANGED <<req, arrived, got, whole, stray, frameVars, blocking, iter, sendVars, peer,
                 sigpipe>>

\* Fault: an empty chunk is read as one with nothing in it.
RecvFramesEmptyGoesOn ==
  /\ pc = "frames" /\ peer # "here"
  /\ read + late = Behind
  /\ pc' = "parse"
  /\ UNCHANGED <<reqVars, frameVars, blocking, iter, sendVars, peer, sigpipe>>

RecvFramesEmpty ==
  /\ pc = "frames" /\ peer # "here"
  /\ read + late = Behind
  /\ pc' = "close"
  /\ UNCHANGED <<reqVars, frameVars, blocking, iter, sendVars, peer, sigpipe>>

\* Fault: a frame is parsed when only its header is there.
AvailableEarly == InStep /\ read > handled * FrameUnits

\* parse_websocket_frame: None while the next frame is not complete.
Available == InStep /\ read >= (handled + 1) * FrameUnits

ParseNone ==
  /\ pc = "parse" /\ ~Available
  /\ pc' = "frames"
  /\ UNCHANGED <<reqVars, frameVars, blocking, iter, sendVars, peer, sigpipe>>

\* Fault: one frame is parsed for each chunk.
NextFrameOnce(op, ms) ==
  /\ pc = "parse" /\ Available
  /\ wire[handled + 1].op = op
  /\ handled' = handled + 1
  /\ sending' = ms
  /\ pc' = IF ms = <<>> THEN "frames" ELSE "send"
  /\ UNCHANGED <<reqVars, wire, read, blocking, iter, off, out, queued, cut, peer,
                 sigpipe>>

\* The next frame has opcode op: it leaves buf_acc and ms is sent.
NextFrame(op, ms) ==
  /\ pc = "parse" /\ Available
  /\ wire[handled + 1].op = op
  /\ handled' = handled + 1
  /\ sending' = ms
  /\ pc' = IF ms = <<>> THEN "parse" ELSE "send"
  /\ UNCHANGED <<reqVars, wire, read, blocking, iter, off, out, queued, cut, peer,
                 sigpipe>>

\* Fault: the fragment state is not taken when a message is complete.
ContinuationKeeps(i) ==
  \/ /\ frag = <<>> \/ ~wire[i].fin
     /\ NextFrame("cont", <<>>)
     /\ frag' = IF frag = <<>> THEN <<>> ELSE Append(frag, i)
  \/ /\ frag # <<>> /\ wire[i].fin
     /\ NextFrame("cont", <<Echo(Append(frag, i)), Msg("ping")>>)
     /\ frag' = Append(frag, i)

\* A continuation extends the message; one without a message is ignored.
Continuation(i) ==
  \/ /\ frag = <<>> \/ ~wire[i].fin
     /\ NextFrame("cont", <<>>)
     /\ frag' = IF frag = <<>> THEN <<>> ELSE Append(frag, i)
  \/ /\ frag # <<>> /\ wire[i].fin
     /\ NextFrame("cont", <<Echo(Append(frag, i)), Msg("ping")>>)
     /\ frag' = <<>>

\* A single-frame message is echoed, whatever frag holds; any other data frame
\* starts a fragmented message and drops the one before it.
Data(i) ==
  \/ /\ wire[i].fin
     /\ NextFrame("data", <<Echo(<<i>>), Msg("ping")>>)
     /\ UNCHANGED frag
  \/ /\ ~wire[i].fin
     /\ NextFrame("data", <<>>)
     /\ frag' = <<i>>

Ping(i) ==
  /\ NextFrame("ping", <<Pong(i)>>)
  /\ UNCHANGED frag

Ignore(i) ==
  /\ NextFrame("pong", <<>>)
  /\ UNCHANGED frag

CloseFrame(i) ==
  /\ pc = "parse" /\ Available
  /\ wire[i].op = "close"
  /\ handled' = i
  /\ pc' = "close"
  /\ UNCHANGED <<reqVars, wire, read, frag, blocking, iter, sendVars, peer, sigpipe>>

\* Out of step, the bytes behind got are parsed as whatever frame they happen to be,
\* with some of them for its payload.
StrayMessage(f) ==
  CASE f.op = "data" /\ f.fin -> <<Echo(<<0>>), Msg("ping")>>
    [] f.op = "cont" /\ f.fin /\ frag # <<>> -> <<Echo(Append(frag, 0)), Msg("ping")>>
    [] f.op = "ping" -> <<Pong(0)>>
    [] OTHER -> <<>>

StrayFrame ==
  /\ pc = "parse" /\ stray < Lesser(late, MaxStray)
  /\ stray' = stray + 1
  /\ \E f \in Frames :
       /\ sending' = StrayMessage(f)
       /\ pc' = CASE f.op = "close" -> "close"
                  [] f.op # "close" /\ sending' = <<>> -> "parse"
                  [] OTHER -> "send"
       /\ frag' = CASE f.op = "data" /\ ~f.fin -> <<0>>
                    [] f.op = "cont" /\ frag # <<>> ->
                         IF f.fin THEN <<>> ELSE Append(frag, 0)
                    [] OTHER -> frag
  /\ UNCHANGED <<req, arrived, got, whole, late, wire, read, handled, blocking, iter, off,
                 out, queued, cut, peer, sigpipe>>

\* Or their length wraps and the parser panics, which ends the thread.
StrayPanic ==
  /\ pc = "parse" /\ late > 0
  /\ pc' = "killed"
  /\ UNCHANGED <<reqVars, frameVars, blocking, iter, sendVars, peer, sigpipe>>

-----------------------------------------------------------------------------

Client == ClientRequest \/ ClientFrame \/ ClientRead \/ ClientLeave

FrameLoop ==
  \/ RecvFrames \/ RecvLate \/ RecvFramesEmpty \/ ParseNone \/ StrayFrame \/ StrayPanic
  \/ /\ handled < Len(wire)
     /\ LET i == handled + 1
        IN Continuation(i) \/ Data(i) \/ Ping(i) \/ Ignore(i) \/ CloseFrame(i)

Handler ==
  \/ RecvRequest \/ RecvExtra \/ RecvRequestEmpty \/ CloseFd
  \/ HandshakeSend \/ HandshakeAgain \/ HandshakeFallback
  \/ Send \/ SendFails \/ Killed
  \/ FrameLoop

\* The connection is over.
Over == Ended /\ UNCHANGED vars

Next == Client \/ PeerReset \/ Handler \/ Over

Spec == Init /\ [][Next]_vars

\* The handler is run while it can go on, and resets arrive.  Reactor shows when a
\* suspended handler is woken: with one worker and as long as no send buffer fills
\* (OneWorkerForgetsNone).  With several workers, or when a SendFuture has had to wait, a
\* wake-up can be lost (reactor_stale, reactor_events): nothing is claimed of these.
Fairness == WF_vars(Handler) /\ WF_vars(PeerReset)

FairSpec == Spec /\ Fairness

-----------------------------------------------------------------------------
(* Properties.                                                             *)

\* The types of the variables.
TypeOK ==
  /\ req \in [kind : Kinds, len : ReqLens]
  /\ arrived \in 0 .. req.len /\ got \in 0 .. arrived
  /\ {whole, blocking, cut} \subseteq BOOLEAN
  /\ wire \in Seq(Frames) /\ Len(wire) <= MaxFrames
  /\ handled \in 0 .. Len(wire)
  /\ read \in handled * FrameUnits .. Len(wire) * FrameUnits
  /\ late \in Nat /\ stray \in 0 .. late
  /\ frag \in Seq(0 .. handled)
  /\ pc \in {"request", "extra", "handshake", "send", "frames", "parse", "close",
             "closed", "killed"}
  /\ iter \in 0 .. MaxIter
  /\ sending \in Seq([kind : MsgKinds, of : Seq(0 .. handled)])
  /\ off \in Nat /\ queued \in 0 .. SendBuf
  /\ out \in Seq([msg : [kind : MsgKinds, of : Seq(0 .. handled)], unit : Nat])
  /\ peer \in {"here", "left", "reset", "pipe"}
  /\ sigpipe \in {"default", "ignored"}

\* O_NONBLOCK is cleared for the handshake's own loop only: no future of net is
\* ever polled on a blocking socket, where its sendto or recvfrom would hold the
\* worker, and with it every other connection.
NonBlockingFutures == blocking => pc \in {"handshake", "killed"}

\* The answer a request asks for.
Wanted ==
  CASE req.kind = "index" -> "page"
    [] req.kind = "ws" -> "101"
    [] OTHER -> "404"

\* A request that has come in full when it is first read, and fits the two reads, gets
\* the answer it asks for, and none when it is an upgrade without a key, also when the
\* handler has to read twice: with all of it in buf the route and the whole key are seen.
WholeRequestAnswered ==
  whole /\ req.len <= RecvCap + ExtraCap /\ out # <<>> =>
    req.kind # "wsNoKey" /\ out[1].msg.kind = Wanted

\* "read request - may need multiple reads for WebSocket handshake": whichever way
\* a request is cut into segments, it gets the answer it asks for.
RequestUnderstood ==
  out # <<>> => req.kind # "wsNoKey" /\ out[1].msg.kind = Wanted

\* The frame that starts the message still unfinished after the frames fs.
Open(fs) ==
  {s \in DOMAIN fs :
     /\ fs[s].op = "data" /\ ~fs[s].fin
     /\ \A j \in s + 1 .. Len(fs) : fs[j].op \in {"data", "cont"} =>
          IF fs[j].op = "data" THEN fs[j].fin ELSE ~fs[j].fin}

\* The fragments of the message that frame s of fs starts, put together.
Pieces(fs, s) ==
  FlattenSeq([k \in 1 .. Len(fs) - s + 1 |->
                IF k = 1 \/ fs[s + k - 1].op = "cont" THEN <<s + k - 1>> ELSE <<>>])

\* What frame f is to be answered with after the frames fs, told from the frames
\* alone: a message ends with its last fragment and is echoed as the fragments put
\* together, whatever stands between them.
Replies(fs, f) ==
  LET i == Len(fs) + 1
  IN CASE f.op = "ping" -> <<Pong(i)>>
       [] f.op = "data" /\ f.fin -> <<Echo(<<i>>), Msg("ping")>>
       [] f.op = "cont" /\ f.fin /\ Open(fs) # {} ->
            <<Echo(Append(Pieces(fs, CHOOSE s \in Open(fs) : TRUE), i)), Msg("ping")>>
       [] OTHER -> <<>>

\* Everything the server sends when its answer is a and the client's frames are fs.
Script(a, fs) ==
  IF a.kind \in {"page", "404"} THEN <<a>>
  ELSE <<a, Msg("welcome")>>
         \o FlattenSeq([i \in 1 .. Len(fs) |-> Replies(SubSeq(fs, 1, i - 1), fs[i])])

\* The units of ms, one message after the other, as the client expects them.
Stream(ms) == FlattenSeq([i \in 1 .. Len(ms) |-> Part(ms[i], 0, Size(ms[i]))])

\* Everything the server owes the client for the first n frames.
Owed(n) == IF out = <<>> THEN <<>> ELSE Script(out[1].msg, SubSeq(wire, 1, n))

\* "Ensure we send the entire frame, handling partial writes": what the client
\* receives is the 101 answer, the welcome, an echo with a ping for each message
\* and a pong for each ping, in order, whole and once each, however chunks and
\* partial writes fall.  There are two exceptions: an answer, ping or pong whose
\* single sendto was short (cut), and a request that was answered before all of it was
\* read, whose rest the frame loop has parsed as frames (stray > 0).
StreamWellFormed == cut \/ stray > 0 \/ IsPrefix(out, Stream(Owed(handled)))

\* The handler waits for input only when every frame it has received in full is
\* handled and answered: a second frame in a chunk never waits for the next chunk.
\* (The exceptions are those of StreamWellFormed.)
NothingLeftBehind ==
  pc = "frames" /\ peer = "here" =>
    /\ ~Available
    /\ cut \/ stray > 0 \/ out = Stream(Owed(handled))

\* When the server closes on a client that is still there, the client gets its
\* whole answer, or every answer up to its close frame, with the same exceptions.
ClosesAfterAnswer ==
  pc = "closed" /\ peer = "here" => cut \/ stray > 0 \/ out = Stream(Owed(handled))

\* A handler that never meets a full send buffer (Fairness) handles every frame of a
\* client whose request it read in full, unless the connection ends.
FramesAnswered ==
  [](queued < SendBuf) =>
    (InStep /\ handled < Len(wire) ~> handled = Len(wire) \/ Ended)

\* When the client has gone, a handler that never meets a full send buffer closes its
\* socket, in whichever step of the request, the handshake or the frame loop it was (or
\* its process or thread has ended).
ConnectionEnds == [](queued < SendBuf) => (peer # "here" ~> Ended)
=============================================================================
