------------------------------ MODULE Arguments ------------------------------
(***************************************************************************)
(* Numbers and addresses (runtime, syscall, http) and the program's        *)
(* arguments (runtime, main).  A C string ends where its sequence does.    *)
(***************************************************************************)
EXTENDS Parsing

Minus == 45
Dot   == 46
Zero  == 48
Digits == Zero .. Zero + 9

\* Digits above 9 are written a to f.
Digit(d) == IF d < 10 THEN Zero + d ELSE 87 + d

\* The loop: a digit is taken off until nothing is left.
LowFirst(n, base) ==
  LET low[m \in Nat] ==
        IF m = 0 THEN <<>> ELSE <<Digit(m % base)>> \o low[m \div base]
  IN low[n]

\* Fault: the digits are left as they come, lowest first.
Unreversed(s) == s

InOrder(s) == Reverse(s)

format_usize(n) == IF n = 0 THEN <<Zero>> ELSE InOrder(LowFirst(n, 10))

\* http_response_headers has a copy of it.
content_length(n) == format_usize(n)

write_isize(n) == IF n < 0 THEN <<Minus>> \o format_usize(-n) ELSE format_usize(n)

\* The digits fill the buffer from its end; idx, one before the last digit written,
\* wraps below zero when a number fills the buffer, and idx + 1 wraps back.
write_hex(n) ==
  LET low  == LowFirst(n, 16)
      size == 2 * LongBytes
      buf  == [i \in 1 .. size |-> IF size - i < Len(low) THEN low[size - i + 1] ELSE 0]
      idx  == (size - 1 - Len(low)) % UsizeSpan
  IN IF n = 0 THEN <<Zero>> ELSE SubSeq(buf, ((idx + 1) % UsizeSpan) + 1, size)

\* How many digits a string begins with, 64 at most, and their number.
DigitCount(s) ==
  Max({i \in 0 .. 64 : i <= Len(s) /\ \A j \in 1 .. i : s[j] \in Digits})
parse_cstring_usize(s) ==
  LET acc[i \in 0 .. Len(s)] ==
        IF i = 0 THEN 0 ELSE (acc[i - 1] * 10 + (s[i] - Zero)) % UsizeSpan
  IN IF DigitCount(s) = 0 THEN None ELSE acc[DigitCount(s)]

\* Fault: an octet is only looked at when its dot is reached.
OctetStepLate(st, c) ==
  IF st = None THEN None
  ELSE IF c = Dot THEN IF Len(st.parts) >= 3 \/ st.acc > 255 THEN None
                       ELSE [parts |-> Append(st.parts, st.acc), acc |-> 0]
  ELSE IF c \in Digits THEN [st EXCEPT !.acc = @ * 10 + c - Zero]
  ELSE None

\* One character of an address.
OctetStep(st, c) ==
  IF st = None THEN None
  ELSE IF c = Dot THEN IF Len(st.parts) >= 3 THEN None
                       ELSE [parts |-> Append(st.parts, st.acc), acc |-> 0]
  ELSE IF c \in Digits
       THEN IF st.acc * 10 + c - Zero > 255 THEN None
            ELSE [st EXCEPT !.acc = @ * 10 + c - Zero]
  ELSE None

\* The four bytes of the u32 as they lie in memory; an octet may be empty.
parse_cstring_ip(s) ==
  LET st[i \in 0 .. Len(s)] ==
        IF i = 0 THEN [parts |-> <<>>, acc |-> 0] ELSE OctetStep(st[i - 1], s[i])
      end == st[Len(s)]
  IN IF Len(s) >= 128 \/ end = None THEN None
     ELSE IF Len(end.parts) # 3 THEN None
     ELSE Append(end.parts, end.acc)

\* Argument i of argv; one that is missing reads like an empty one.
Argument(argv, i) == IF i \in DOMAIN argv THEN argv[i] ELSE <<>>

OrDefault(v, default) == IF v = None THEN default ELSE v

\* htons(port as u16), as it lies in memory
PortSpan == 65536
PortBytes(p) == BytesOf(p % PortSpan, 2)

DefaultPort == 8000

\* The arguments of main.
main_trampoline(argv) ==
  [workers |-> OrDefault(parse_cstring_usize(Argument(argv, 1)), 16),
   ip      |-> OrDefault(parse_cstring_ip(Argument(argv, 2)), <<0, 0, 0, 0>>),
   port    |-> OrDefault(parse_cstring_usize(Argument(argv, 3)), DefaultPort)]

\* What create_listening_socket binds, as it lies in memory.
SockAddr(ip, port) == [sin_addr |-> ip, sin_port |-> PortBytes(port)]
=============================================================================
