-------------------------------- MODULE Bits --------------------------------
(***************************************************************************)
(* Machine integers for the modules of codes, ciphers and frames: bits and  *)
(* bytes of natural numbers, exclusive or, and words as sequences of bits.  *)
(* The operators of C they stand for are named beside them.  A sequence of  *)
(* bits or bytes is written with its first transmitted element first.       *)
(*                                                                          *)
(* The tables of AES follow.                                                *)
(***************************************************************************)
EXTENDS Integers, Sequences, SequencesExt, TLC

Bit == {0, 1}
Byte == 0 .. 255

(* (x >> i) & 1 *)
BitOf(x, i) == (x \div 2 ^ i) % 2

(* A function or a sequence, written out element by element. *)
Tabulated(f) == f @@ <<>>
Stored(s) == s \o <<>>

(* x & y and x ^ y on bytes, tabulated once; entry x + 1 is that of x. *)
Overlap[x \in Byte] ==
  [y \in Byte |-> IF x = 0 THEN 0 ELSE 2 * Overlap[x \div 2][y \div 2] + (x % 2) * (y % 2)]
AndTable == Stored([x \in 1 .. 256 |-> Stored([y \in 1 .. 256 |-> Overlap[x - 1][y - 1]])])
XorTable == Stored([x \in 1 .. 256 |-> Stored([y \in 1 .. 256 |-> x + y - 2 - 2 * Overlap[x - 1][y - 1]])])
XorByte(x, y) == XorTable[x + 1][y + 1]
AndByte(x, y) == AndTable[x + 1][y + 1]
OrByte(x, y) == x + y - AndByte(x, y)

(* ... and on 16 bits. *)
Bytewise(t, x, y) == 256 * t[(x \div 256) + 1][(y \div 256) + 1] + t[(x % 256) + 1][(y % 256) + 1]
Xor16(x, y) == Bytewise(XorTable, x, y)
And16(x, y) == Bytewise(AndTable, x, y)

(* A parity bit: the exclusive or of the bits of a sequence. *)
Parity(bits) == FoldLeft(LAMBDA p, b : (p + b) % 2, 0, bits)

(* Bitwise exclusive or of two sequences, as long as the shorter one. *)
XorBits(u, v) == [i \in 1 .. IF Len(u) < Len(v) THEN Len(u) ELSE Len(v) |-> (u[i] + v[i]) % 2]
XorBytes(u, v) == [i \in 1 .. IF Len(u) < Len(v) THEN Len(u) ELSE Len(v) |-> XorByte(u[i], v[i])]

(* A number as n bits, most or least significant first, and back. *)
Msb(x, n) == [i \in 1 .. n |-> BitOf(x, n - i)]
Lsb(x, n) == [i \in 1 .. n |-> BitOf(x, i - 1)]
FromMsb(bits) == FoldLeft(LAMBDA x, b : 2 * x + b, 0, bits)
FromLsb(bits) == FromMsb(Reverse(bits))

(* A number below 2^31 as n bytes, little or big endian. *)
PowersOf256 == <<1, 256, 65536, 16777216>>
LittleEndian(x, n) == [i \in 1 .. n |-> IF i > 4 THEN 0 ELSE (x \div PowersOf256[i]) % 256]
BigEndian(x, n) == [i \in 1 .. n |-> IF n - i > 3 THEN 0 ELSE (x \div PowersOf256[n - i + 1]) % 256]

(* The steps of a loop, to fold over. *)
UpTo(n) == [i \in 1 .. n |-> i]

(* memset(b, 0, n) *)
Zeros(n) == [i \in 1 .. n |-> 0]

(* The rounds of a loop from one to another, over an accumulator; Step is
   given the number of the round.  The one-element sets make TLC evaluate
   the start and every round once, and in this order. *)
Rounds(Step(_, _), base, from, to) ==
  CHOOSE result \in {LET after[i \in from - 1 .. to] ==
                          IF i = from - 1 THEN start
                          ELSE CHOOSE value \in {Step(before, i) : before \in {after[i - 1]}} : TRUE
                    IN  after[to] : start \in {base}} : TRUE

(* Op of a value that TLC evaluates once. *)
Once(Op(_), value) == CHOOSE y \in {Op(x) : x \in {value}} : TRUE

(* A loop of n rounds, from 1; taken in sixteens to keep the recursion flat. *)
Iterate(Step(_, _), base, n) ==
  Rounds(LAMBDA s, b : Rounds(Step, s, 16 * b - 15, IF 16 * b < n THEN 16 * b ELSE n),
         base, 1, (n + 15) \div 16)

(* Words of 32 bits: their upper and their lower 16 bits. *)
Carried(hi, lo) == <<(hi + (lo \div 65536)) % 65536, lo % 65536>>
Add32(x, y) == Carried(x[1] + y[1], x[2] + y[2])
Wordwise(t, x, y) == <<Bytewise(t, x[1], y[1]), Bytewise(t, x[2], y[2])>>
Xor32(x, y) == Wordwise(XorTable, x, y)
And32(x, y) == Wordwise(AndTable, x, y)
Not32(x) == <<65535 - x[1], 65535 - x[2]>>

(* x >> n for n below 16, and the rotation to the right for n below 32. *)
Shr32(x, n) == <<x[1] \div 2 ^ n, (x[2] \div 2 ^ n) + ((x[1] % 2 ^ n) * 2 ^ (16 - n))>>
Rotated(a, b, n) == <<(a \div 2 ^ n) + ((b % 2 ^ n) * 2 ^ (16 - n)), (b \div 2 ^ n) + ((a % 2 ^ n) * 2 ^ (16 - n))>>
Rotr32(x, n) == IF n < 16 THEN Rotated(x[1], x[2], n) ELSE Rotated(x[2], x[1], n - 16)

(* Big-endian bytes of a word and back. *)
Bytes32(x) == <<x[1] \div 256, x[1] % 256, x[2] \div 256, x[2] % 256>>
Word32(b) == <<256 * b[1] + b[2], 256 * b[3] + b[4]>>

(* One element of a sequence changed by a channel. *)
Flip(bits, i) == [j \in 1 .. Len(bits) |-> IF j = i THEN 1 - bits[j] ELSE bits[j]]

-----------------------------------------------------------------------------
(***************************************************************************)
(* The substitution boxes and the round constants of AES, which both        *)
(* libraries that encrypt keep in tables of their own: wireless_crypto.c of  *)
(* mini-wireless-security and bluetooth_ble.c of mini-wifi-bluetooth hold    *)
(* the same entries.                                                        *)
(***************************************************************************)

aes_sbox ==
  <<99, 124, 119, 123, 242, 107, 111, 197, 48, 1, 103, 43, 254, 215, 171, 118, 202, 130, 201, 125, 250, 89, 71, 240,
    173, 212, 162, 175, 156, 164, 114, 192, 183, 253, 147, 38, 54, 63, 247, 204, 52, 165, 229, 241, 113, 216, 49, 21,
    4, 199, 35, 195, 24, 150, 5, 154, 7, 18, 128, 226, 235, 39, 178, 117, 9, 131, 44, 26, 27, 110, 90, 160,
    82, 59, 214, 179, 41, 227, 47, 132, 83, 209, 0, 237, 32, 252, 177, 91, 106, 203, 190, 57, 74, 76, 88, 207,
    208, 239, 170, 251, 67, 77, 51, 133, 69, 249, 2, 127, 80, 60, 159, 168, 81, 163, 64, 143, 146, 157, 56, 245,
    188, 182, 218, 33, 16, 255, 243, 210, 205, 12, 19, 236, 95, 151, 68, 23, 196, 167, 126, 61, 100, 93, 25, 115,
    96, 129, 79, 220, 34, 42, 144, 136, 70, 238, 184, 20, 222, 94, 11, 219, 224, 50, 58, 10, 73, 6, 36, 92,
    194, 211, 172, 98, 145, 149, 228, 121, 231, 200, 55, 109, 141, 213, 78, 169, 108, 86, 244, 234, 101, 122, 174, 8,
    186, 120, 37, 46, 28, 166, 180, 198, 232, 221, 116, 31, 75, 189, 139, 138, 112, 62, 181, 102, 72, 3, 246, 14,
    97, 53, 87, 185, 134, 193, 29, 158, 225, 248, 152, 17, 105, 217, 142, 148, 155, 30, 135, 233, 206, 85, 40, 223,
    140, 161, 137, 13, 191, 230, 66, 104, 65, 153, 45, 15, 176, 84, 187, 22>>

aes_inv_sbox ==
  <<82, 9, 106, 213, 48, 54, 165, 56, 191, 64, 163, 158, 129, 243, 215, 251, 124, 227, 57, 130, 155, 47, 255, 135,
    52, 142, 67, 68, 196, 222, 233, 203, 84, 123, 148, 50, 166, 194, 35, 61, 238, 76, 149, 11, 66, 250, 195, 78,
    8, 46, 161, 102, 40, 217, 36, 178, 118, 91, 162, 73, 109, 139, 209, 37, 114, 248, 246, 100, 134, 104, 152, 22,
    212, 164, 92, 204, 93, 101, 182, 146, 108, 112, 72, 80, 253, 237, 185, 218, 94, 21, 70, 87, 167, 141, 157, 132,
    144, 216, 171, 0, 140, 188, 211, 10, 247, 228, 88, 5, 184, 179, 69, 6, 208, 44, 30, 143, 202, 63, 15, 2,
    193, 175, 189, 3, 1, 19, 138, 107, 58, 145, 17, 65, 79, 103, 220, 234, 151, 242, 207, 206, 240, 180, 230, 115,
    150, 172, 116, 34, 231, 173, 53, 133, 226, 249, 55, 232, 28, 117, 223, 110, 71, 241, 26, 113, 29, 41, 197, 137,
    111, 183, 98, 14, 170, 24, 190, 27, 252, 86, 62, 75, 198, 210, 121, 32, 154, 219, 192, 254, 120, 205, 90, 244,
    31, 221, 168, 51, 136, 7, 199, 49, 177, 18, 16, 89, 39, 128, 236, 95, 96, 81, 127, 169, 25, 181, 74, 13,
    45, 229, 122, 159, 147, 201, 156, 239, 160, 224, 59, 77, 174, 42, 245, 176, 200, 235, 187, 60, 131, 83, 153, 97,
    23, 43, 4, 126, 186, 119, 214, 38, 225, 105, 20, 99, 85, 33, 12, 125>>

aes_rcon == <<1, 2, 4, 8, 16, 32, 64, 128, 27, 54>>
=============================================================================
