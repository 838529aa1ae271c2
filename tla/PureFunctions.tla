---------------------------- MODULE PureFunctions ----------------------------
(***************************************************************************)
(* FrameStream together with the functions of Arguments and Crypto: input  *)
(* may also be the argument of one of these.  sha1 takes a step per turn   *)
(* of its loops.                                                           *)
(***************************************************************************)
EXTENDS FrameStream, Arguments, Crypto

CONSTANTS
  Numbers,
  Argvs,        \* arguments as the user means them (Text gives their characters)
  Handshakes,   \* Sec-WebSocket-Keys with the accept value of RFC 6455
  Sources       \* byte strings to encode

\* Numbers joined by dots, then perhaps something else; the third is a port.
Meant ==
  {args \in Seq([parts : Seq(0 .. UsizeSpan - 1) \ {<<>>}, junk : BOOLEAN]) :
     Len(args) >= 3 => args[3].parts[1] \in 0 .. PortSpan - 1}

\* A word has 8 bytes at most.
ASSUME PureFunctionsAssumption ==
  /\ LongBytes <= 8
  /\ None \notin Nat /\ None \notin [parts : Seq(Nat), acc : Nat]
  /\ Numbers \subseteq 0 .. UsizeSpan - 1
  /\ Argvs \subseteq Meant
  /\ Sources \subseteq Seq(Bytes)

\* Nothing is received while a function is at work.
FunctionInit ==
  /\ input \in [fn : {"number"}, of : Numbers] \cup [fn : {"argv"}, of : Argvs]
               \cup [fn : {"key"}, of : Handshakes] \cup [fn : {"base64"}, of : Sources]
  /\ rest = <<>> /\ buf_acc = <<>> /\ seen = <<>> /\ pc = "recv"
  /\ sha = IF input.fn = "key" THEN Sha1Start(AcceptInput(input.of.key))
           ELSE Chunk(H0, <<>>)

\* sha1, loop by loop.
Hash == (Sha1Word \/ Sha1Round \/ Sha1Add) /\ UNCHANGED vars

BytesInit == (Init /\ sha = Chunk(H0, <<>>)) \/ FunctionInit

BytesNext ==
  \/ (Recv \/ Parse) /\ UNCHANGED sha
  \/ Hash
  \/ Over /\ Sha1Done /\ UNCHANGED sha

BytesSpec == BytesInit /\ [][BytesNext]_<<vars, sha>>

-----------------------------------------------------------------------------
(* Properties.                                                             *)

\* What a number's digits in the base 16 stand for.
HexValue(s) ==
  LET v[i \in 0 .. Len(s)] ==
        IF i = 0 THEN 0 ELSE v[i - 1] * 16 + IF s[i] \in Digits THEN s[i] - Zero ELSE s[i] - 87
  IN v[Len(s)]

\* Decimal and hexadecimal output reads back as the number, without leading zeros,
\* also when other characters follow, and fits the buffer of 20 bytes.
NumbersReadBack ==
  input.fn = "number" =>
    LET n == input.of
    IN /\ parse_cstring_usize(content_length(n)) = n
       /\ parse_cstring_usize(format_usize(n) \o <<Dot, Zero>>) = n
       /\ n > 0 => Head(format_usize(n)) # Zero /\ Head(write_hex(n)) # Zero
       /\ HexValue(write_hex(n)) = n
       /\ Len(format_usize(n)) <= 20
       /\ n > 0 => write_isize(-n) = <<Minus>> \o format_usize(n)

\* The characters of an argument: numbers joined by dots, then perhaps an x.
Text(a) ==
  LET Piece(i) == (IF i = 1 THEN <<>> ELSE <<Dot>>) \o format_usize(a.parts[i])
  IN FlattenSeq([i \in DOMAIN a.parts |-> Piece(i)]) \o IF a.junk THEN <<120>> ELSE <<>>

\* The server binds the address and port its arguments name, in network order, and
\* starts so many workers; what is not an address (four numbers up to 255) is
\* 0.0.0.0, a missing number is the default.
ListensWhereAsked ==
  input.fn = "argv" =>
    LET args == input.of
        got  == main_trampoline([i \in DOMAIN args |-> Text(args[i])])
        IsAddress(a) == /\ Len(a.parts) = 4 /\ ~a.junk
                        /\ \A i \in 1 .. 4 : a.parts[i] <= 255
        addr == SockAddr(got.ip, got.port)
    IN /\ got.workers = IF Len(args) < 1 THEN 16 ELSE args[1].parts[1]
       /\ addr.sin_addr = IF Len(args) >= 2 /\ IsAddress(args[2]) THEN args[2].parts
                     ELSE <<0, 0, 0, 0>>
       /\ addr.sin_port[1] * 256 + addr.sin_port[2] =
            IF Len(args) < 3 THEN DefaultPort ELSE args[3].parts[1]

\* The accept value of the handshake is the one RFC 6455 asks for: SHA-1 and base64
\* of the key and the GUID, also for keys whose padding takes another chunk.
AcceptsAsTheStandard ==
  input.fn = "key" /\ Sha1Done => base64_encode(Digest) = input.of.accept

Places == <<1, 2, 4, 8, 16, 32, 64, 128>>
Bits(s, w) ==
  [i \in 1 .. w * Len(s) |-> (s[((i - 1) \div w) + 1] \div Places[w - ((i - 1) % w)]) % 2]

\* base64_encode writes the bits of its input six by six, filled up with zeros to a
\* character and with '=' to a group of four.
Base64Faithful ==
  input.fn = "base64" =>
    LET out  == base64_encode(input.of)
        used == Max({i \in 0 .. Len(out) : \A j \in 1 .. i : out[j] # Pad})
        data == SubSeq(out, 1, used)
        bits == Bits(input.of, 8)
    IN /\ \A i \in used + 1 .. Len(out) : out[i] = Pad
       /\ Len(out) % 4 = 0 /\ Len(out) - used < 3
       /\ IsPrefix(bits, Bits(data, 6)) /\ 6 * used - Len(bits) < 6
       /\ \A i \in Len(bits) + 1 .. 6 * used : Bits(data, 6)[i] = 0
=============================================================================
