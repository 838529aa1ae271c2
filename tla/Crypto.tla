------------------------------- MODULE Crypto -------------------------------
(***************************************************************************)
(* utils/crypto.rs: sha1 and base64_encode.  A 32-bit word is the pair of  *)
(* its 16-bit halves, high half first, as TLC's integers have 32 bits with *)
(* a sign; a base64 character is its index in TABLE, or Pad.               *)
(***************************************************************************)
EXTENDS Integers, SequencesExt

Half == 65536

\* The bits that two halves have in common.
Common(a, b) ==
  LET and[k \in 0 .. 16] ==
        IF k = 0 THEN 0
        ELSE and[k - 1] + 2 ^ (k - 1) * ((a \div 2 ^ (k - 1)) % 2) * ((b \div 2 ^ (k - 1)) % 2)
  IN and[16]

WAnd(x, y) == [i \in 1 .. 2 |-> Common(x[i], y[i])]
WOr(x, y)  == [i \in 1 .. 2 |-> x[i] + y[i] - Common(x[i], y[i])]
WXor(x, y) == [i \in 1 .. 2 |-> x[i] + y[i] - 2 * Common(x[i], y[i])]
WNot(x)    == <<Half - 1 - x[1], Half - 1 - x[2]>>

wrapping_add(x, y) ==
  LET low == x[2] + y[2]
  IN <<(x[1] + y[1] + (low \div Half)) % Half, low % Half>>

\* rotate_left, by 16 or more with the halves exchanged first.
rol(v, s) ==
  LET w == IF s < 16 THEN v ELSE <<v[2], v[1]>>
      r == s % 16
      Shift(a, b) == ((a * 2 ^ r) % Half) + (b \div 2 ^ (16 - r))
  IN <<Shift(w[1], w[2]), Shift(w[2], w[1])>>

BitLength(n) == n * 8

\* The message with its padding: 0x80, zeros up to 56 modulo 64, 8 bytes of length.
Padded(input) ==
  LET n     == Len(input)
      zeros == CHOOSE z \in 0 .. 63 : (n + 1 + z) % 64 = 56
  IN input \o <<128>> \o [i \in 1 .. zeros |-> 0] \o <<0, 0, 0, 0>>
     \o [i \in 1 .. 4 |-> (BitLength(n) \div 256 ^ (4 - i)) % 256]

H0 == << <<26437, 8961>>, <<61389, 43913>>, <<39098, 56574>>, <<4146, 21622>>,
         <<50130, 57840>> >>

\* f and k of round i (from 0).
RoundF(i, b, c, d) ==
  CASE i < 20 -> WOr(WAnd(b, c), WAnd(WNot(b), d))
    [] i \in 40 .. 59 -> WOr(WOr(WAnd(b, c), WAnd(b, d)), WAnd(c, d))
    [] OTHER -> WXor(WXor(b, c), d)

RoundK(i) ==
  CASE i < 20 -> <<23170, 31129>>
    [] i \in 20 .. 39 -> <<28377, 60321>>
    [] i \in 40 .. 59 -> <<36635, 48348>>
    [] OTHER -> <<51810, 49622>>

VARIABLE
  sha           \* the locals of sha1: h0..h4, w, a..e, the round, the chunks that are left

\* The first 16 words of a chunk; w[i] of the code is w[i + 1].
WordsOf(msg) ==
  [i \in 1 .. 16 |-> <<msg[4 * i - 3] * 256 + msg[4 * i - 2],
                       msg[4 * i - 1] * 256 + msg[4 * i]>>]

Chunk(h, left) ==
  [h |-> h, left |-> SubSeq(left, 65, Len(left)), abcde |-> h, i |-> 0,
   w |-> IF left = <<>> THEN <<>> ELSE WordsOf(left)]

Sha1Start(input) == Chunk(H0, Padded(input))

Sha1Done == sha.w = <<>>

\* Fault: the words are mixed without the rotation (SHA-0).
MixedUnrotated(w, n) == WXor(WXor(w[n - 3], w[n - 8]), WXor(w[n - 14], w[n - 16]))

Mixed(w, n) == rol(WXor(WXor(w[n - 3], w[n - 8]), WXor(w[n - 14], w[n - 16])), 1)

\* One turn of the loop over w[16..80].
Sha1Word ==
  /\ Len(sha.w) \in 16 .. 79
  /\ sha' = [sha EXCEPT !.w = Append(@, Mixed(sha.w, Len(sha.w) + 1))]

\* One turn of the loop of 80 rounds.
Sha1Round ==
  /\ Len(sha.w) = 80 /\ sha.i < 80
  /\ LET s == sha.abcde
         temp == wrapping_add(
           wrapping_add(rol(s[1], 5), RoundF(sha.i, s[2], s[3], s[4])),
           wrapping_add(wrapping_add(s[5], RoundK(sha.i)), sha.w[sha.i + 1]))
     IN sha' = [sha EXCEPT !.abcde = <<temp, s[1], rol(s[2], 30), s[3], s[4]>>,
                           !.i = @ + 1]

\* The end of a chunk.
Sha1Add ==
  /\ Len(sha.w) = 80 /\ sha.i = 80
  /\ sha' = Chunk([i \in 1 .. 5 |-> wrapping_add(sha.h[i], sha.abcde[i])], sha.left)

\* The 20 bytes returned.
Digest ==
  [n \in 1 .. 20 |->
     LET half == sha.h[((n - 1) \div 4) + 1][(((n - 1) % 4) \div 2) + 1]
     IN IF n % 2 = 1 THEN half \div 256 ELSE half % 256]

-----------------------------------------------------------------------------

Pad == 64     \* '='

\* Fault: two bytes at the end are encoded like one.
TailCharsOne(rem) == 2

\* The characters of the last group that carry data.
TailChars(rem) == rem + 1

\* The four indices of a group of three bytes, the missing ones zero.
Sextets(a, b, c) ==
  <<a \div 4, (a % 4) * 16 + (b \div 16), (b % 16) * 4 + (c \div 64), c % 64>>

base64_encode(src) ==
  LET full == Len(src) \div 3
      rem  == Len(src) % 3
      Byte(i) == IF i <= Len(src) THEN src[i] ELSE 0
      Group(g) == Sextets(Byte(3 * g + 1), Byte(3 * g + 2), Byte(3 * g + 3))
      last == IF rem = 0 THEN <<>>
              ELSE [i \in 1 .. 4 |-> IF i <= TailChars(rem) THEN Group(full)[i] ELSE Pad]
  IN FlattenSeq([g \in 1 .. full |-> Group(g - 1)]) \o last

\* WS_GUID
GUID ==
  <<50, 53, 56, 69, 65, 70, 65, 53, 45, 69, 57, 49, 52, 45, 52, 55, 68, 65, 45,
    57, 53, 67, 65, 45, 67, 53, 65, 66, 48, 68, 67, 56, 53, 66, 49, 49>>

\* What accept_and_run hashes.
AcceptInput(key) == key \o GUID
=============================================================================
