-------------------------- MODULE LoraPacket_proofs --------------------------
(***************************************************************************)
(* The LoRa packet pipeline from end to end: LpSpec => []PacketSound, for   *)
(* every validated configuration and every payload of 255 bytes at most.    *)
(*                                                                         *)
(* Sending is a composition of stages, nibbles, Hamming code, diagonal      *)
(* interleaver, whitening, rows of sf bits and Gray map, and receiving one  *)
(* of their inverses; each is shown to undo the other bit by bit, which     *)
(* gives the packet that arrives untouched.  A symbol that is changed       *)
(* reaches one row of the interleaver, so one codeword or a few neighbours: *)
(* four half bytes at most, a burst of 16 bits.  What the decoder makes of  *)
(* such a burst is not the sender's payload with a checksum that fits: the  *)
(* CRC-16 of two messages of one length that differ in four neighbouring    *)
(* half bytes is never the same.  That is proved by running the register    *)
(* back from the end, half byte by half byte.                               *)
(***************************************************************************)
EXTENDS LoraFrames, Bits_proofs
-----------------------------------------------------------------------------
(***************************************************************************)
(* The CRC, bit by bit: the register is a word of sixteen digits, which are *)
(* moved up by one, with a digit fed into three of them.                    *)
(***************************************************************************)

(* The register empty, moved up by a digit, and with a digit fed into it. *)
ZeroWord == [i \in Places |-> 0]
Up(b) == [i \in Places |-> IF i = 0 THEN 0 ELSE b[i - 1]]
Fed(b, t) == [i \in Places |-> IF i = 0 THEN t ELSE IF i \in {5, 12} THEN Digit(b[i - 1], t) ELSE b[i - 1]]

(* The register after one more bit of the message. *)
Shifted(b, w) == Fed(b, Digit(b[15], w))

(* Exclusive or of digits is a group, and its digits are their own inverses. *)
LEMMA DigitLaws ==
  /\ \A a, b \in Bit : Digit(a, b) \in Bit /\ Digit(a, b) = Digit(b, a)
  /\ \A a \in Bit : Digit(a, 0) = a /\ Digit(0, a) = a /\ Digit(a, a) = 0
  /\ \A a, b, c \in Bit : Digit(Digit(a, b), c) = Digit(a, Digit(b, c))
  /\ \A a, b, c \in Bit : Digit(a, b) = Digit(a, c) => b = c
  /\ 0 \in Bit /\ 1 \in Bit
BY DEF Digit, Bit

LEMMA DigitOnce ==
  ASSUME NEW a \in Bit, NEW b \in Bit, NEW c \in Bit, Digit(a, c) = Digit(b, c)
  PROVE  a = b
BY DEF Digit, Bit

(* The digits of a word, and of the word moved up. *)
LEMMA WideAt ==
  ASSUME NEW b \in Wide, NEW i \in Places
  PROVE  b[i] \in Bit /\ (i # 0 => i - 1 \in Places /\ b[i - 1] \in Bit)
BY DEF Wide, Places

LEMMA UpIs ==
  ASSUME NEW b \in Wide
  PROVE  Up(b) \in Wide /\ Up(b)[0] = 0 /\ \A i \in Places : i # 0 => Up(b)[i] = b[i - 1]
<1>1. \A i \in Places : (IF i = 0 THEN 0 ELSE b[i - 1]) \in Bit
  BY WideAt, DigitLaws
<1>2. 0 \in Places
  BY DEF Places
<1> QED BY <1>1, <1>2 DEF Up, Wide

(* The digits of a register that is fed. *)
LEMMA FedIs ==
  ASSUME NEW b \in Wide, NEW t \in Bit
  PROVE  /\ Fed(b, t) \in Wide
         /\ \A i \in Places : Fed(b, t)[i] = IF i = 0 THEN t ELSE IF i \in {5, 12} THEN Digit(b[i - 1], t) ELSE b[i - 1]
<1>1. \A i \in Places : (IF i = 0 THEN t ELSE IF i \in {5, 12} THEN Digit(b[i - 1], t) ELSE b[i - 1]) \in Bit
  <2> SUFFICES ASSUME NEW i \in Places, i # 0 PROVE Digit(b[i - 1], t) \in Bit /\ b[i - 1] \in Bit
    BY Zenon
  <2> QED BY WideAt, DigitLaws
<1> QED BY <1>1 DEF Fed, Wide

(* One round of the register keeps its width. *)
LEMMA ShiftedIs ==
  ASSUME NEW b \in Wide, NEW w \in Bit
  PROVE  Shifted(b, w) \in Wide /\ Digit(b[15], w) \in Bit /\ b[15] \in Bit
<1>1. b[15] \in Bit
  BY DigitsIn
<1>2. Digit(b[15], w) \in Bit
  BY <1>1, DigitLaws
<1> QED BY <1>1, <1>2, FedIs DEF Shifted

(* Twice a number, and its highest digit. *)
LEMMA TwiceIs ==
  ASSUME NEW b \in Wide
  PROVE  2 * Number(b) = Number(Up(b)) + 65536 * b[15] /\ b[15] \in Bit
<1> DEFINE u == Up(b)
<1>1. /\ u[0] = 0 /\ u[1] = b[0] /\ u[2] = b[1] /\ u[3] = b[2] /\ u[4] = b[3] /\ u[5] = b[4] /\ u[6] = b[5]
      /\ u[7] = b[6] /\ u[8] = b[7] /\ u[9] = b[8] /\ u[10] = b[9] /\ u[11] = b[10] /\ u[12] = b[11]
      /\ u[13] = b[12] /\ u[14] = b[13] /\ u[15] = b[14]
  BY DEF Up, Places
<1> HIDE DEF u
<1>2. PICK b0, b1, b2, b3, b4, b5, b6, b7, b8, b9, b10, b11, b12, b13, b14, b15 :
        /\ b0 = b[0] /\ b1 = b[1] /\ b2 = b[2] /\ b3 = b[3] /\ b4 = b[4] /\ b5 = b[5] /\ b6 = b[6] /\ b7 = b[7]
        /\ b8 = b[8] /\ b9 = b[9] /\ b10 = b[10] /\ b11 = b[11] /\ b12 = b[12] /\ b13 = b[13] /\ b14 = b[14]
        /\ b15 = b[15]
  BY Zenon
<1>3. /\ Number(b) = Weighed(b0, b1, b2, b3, b4, b5, b6, b7) + 256 * Weighed(b8, b9, b10, b11, b12, b13, b14, b15)
      /\ Number(u) = Weighed(0, b0, b1, b2, b3, b4, b5, b6) + 256 * Weighed(b7, b8, b9, b10, b11, b12, b13, b14)
  <2>1. /\ Eight(b, 0) = Weighed(b[0], b[1], b[2], b[3], b[4], b[5], b[6], b[7])
        /\ Eight(b, 8) = Weighed(b[8], b[9], b[10], b[11], b[12], b[13], b[14], b[15])
        /\ Eight(u, 0) = Weighed(u[0], u[1], u[2], u[3], u[4], u[5], u[6], u[7])
        /\ Eight(u, 8) = Weighed(u[8], u[9], u[10], u[11], u[12], u[13], u[14], u[15])
    BY EightIs, Zenon
  <2>2. Eight(u, 0) = Weighed(0, b[0], b[1], b[2], b[3], b[4], b[5], b[6])
    BY <1>1, <2>1
  <2>3. Eight(u, 8) = Weighed(b[7], b[8], b[9], b[10], b[11], b[12], b[13], b[14])
    BY <1>1, <2>1
  <2> QED BY <1>2, <2>1, <2>2, <2>3 DEF Number
<1>4. /\ b0 \in Int /\ b1 \in Int /\ b2 \in Int /\ b3 \in Int /\ b4 \in Int /\ b5 \in Int /\ b6 \in Int /\ b7 \in Int
      /\ b8 \in Int /\ b9 \in Int /\ b10 \in Int /\ b11 \in Int /\ b12 \in Int /\ b13 \in Int /\ b14 \in Int
      /\ b15 \in Int
  <2>1. \A x \in Bit : x \in Int
    BY DEF Bit
  <2> QED BY <1>2, <2>1, DigitsIn, Zenon
<1>5. 2 * Number(b) = Number(u) + 65536 * b15
  <2>1. Number(b) = b0 + 2 * b1 + 4 * b2 + 8 * b3 + 16 * b4 + 32 * b5 + 64 * b6 + 128 * b7
          + 256 * (b8 + 2 * b9 + 4 * b10 + 8 * b11 + 16 * b12 + 32 * b13 + 64 * b14 + 128 * b15)
    BY <1>3, Zenon DEF Weighed
  <2>2. Number(u) = 0 + 2 * b0 + 4 * b1 + 8 * b2 + 16 * b3 + 32 * b4 + 64 * b5 + 128 * b6
          + 256 * (b7 + 2 * b8 + 4 * b9 + 8 * b10 + 16 * b11 + 32 * b12 + 64 * b13 + 128 * b14)
    BY <1>3, Zenon DEF Weighed
  <2> QED BY <1>4, <2>1, <2>2
<1> QED BY <1>2, <1>5, DigitsIn DEF u

(* The polynomial of the CRC. *)
Poly == [i \in Places |-> IF i \in {0, 5, 12} THEN 1 ELSE 0]

(* The polynomial, 0x1021. *)
LEMMA PolyIs == Poly \in Wide /\ Number(Poly) = 4129
<1>1. Poly \in Wide
  BY DEF Poly, Wide, Bit
<1>2. /\ Poly[0] = 1 /\ Poly[1] = 0 /\ Poly[2] = 0 /\ Poly[3] = 0 /\ Poly[4] = 0 /\ Poly[5] = 1 /\ Poly[6] = 0
      /\ Poly[7] = 0 /\ Poly[8] = 0 /\ Poly[9] = 0 /\ Poly[10] = 0 /\ Poly[11] = 0 /\ Poly[12] = 1
      /\ Poly[13] = 0 /\ Poly[14] = 0 /\ Poly[15] = 0
  BY DEF Poly, Places
<1>3. Number(Poly) = Weighed(1, 0, 0, 0, 0, 1, 0, 0) + 256 * Weighed(0, 0, 0, 0, 1, 0, 0, 0)
  BY <1>2, EightIs, Zenon DEF Number
<1>4. Weighed(1, 0, 0, 0, 0, 1, 0, 0) = 33 /\ Weighed(0, 0, 0, 0, 1, 0, 0, 0) = 16
  BY DEF Weighed
<1>5. 33 + 256 * 16 = 4129
  OBVIOUS
<1> QED BY <1>1, <1>3, <1>4, <1>5

(* A step of the CRC. *)
LEMMA CrcBitNumber ==
  ASSUME NEW b \in Wide
  PROVE  CrcBit(Number(b)) = Number(Fed(b, b[15])) /\ Fed(b, b[15]) \in Wide
<1>1. /\ 2 * Number(b) = Number(Up(b)) + 65536 * b[15] /\ b[15] \in Bit
      /\ Number(b) \in Word16 /\ Number(Up(b)) \in Word16 /\ Up(b) \in Wide
  BY TwiceIs, UpIs, NumberIs
<1>2. Fed(b, b[15]) \in Wide
  BY <1>1, FedIs
<1>3. CASE b[15] = 0
  <2>1. 2 * Number(b) = Number(Up(b)) /\ ~(Number(b) >= 32768)
    BY <1>1, <1>3 DEF Word16
  <2>2. Fed(b, b[15]) = Up(b)
    <3>1. \A i \in Places : i # 0 => Digit(b[i - 1], 0) = b[i - 1]
      BY WideAt, DigitLaws
    <3> QED BY <1>3, <3>1 DEF Fed, Up
  <2> QED BY <1>2, <2>1, <2>2 DEF CrcBit
<1>4. CASE b[15] = 1
  <2>1. 2 * Number(b) = Number(Up(b)) + 65536 /\ Number(b) >= 32768 /\ (2 * Number(b)) % 65536 = Number(Up(b))
    BY <1>1, <1>4 DEF Word16
  <2>2. CrcBit(Number(b)) = Xor16(Number(Up(b)), Number(Poly))
    BY <2>1, PolyIs DEF CrcBit
  <2>3. Xor16(Number(Up(b)), Number(Poly)) = Number(Added(Up(b), Poly))
    BY <1>1, PolyIs, AddedIs
  <2>4. Added(Up(b), Poly) = Fed(b, b[15])
    <3>1. \A i \in Places : Digit(Up(b)[i], Poly[i]) = IF i = 0 THEN 1 ELSE IF i \in {5, 12} THEN Digit(b[i - 1], 1) ELSE b[i - 1]
      <4>1. ASSUME NEW i \in Places
            PROVE Digit(Up(b)[i], Poly[i]) = IF i = 0 THEN 1 ELSE IF i \in {5, 12} THEN Digit(b[i - 1], 1) ELSE b[i - 1]
        <5>1. Poly[i] = IF i \in {0, 5, 12} THEN 1 ELSE 0
          BY DEF Poly
        <5>2. Up(b)[i] = IF i = 0 THEN 0 ELSE b[i - 1]
          BY DEF Up
        <5>3. Digit(0, 1) = 1 /\ (i # 0 => Digit(b[i - 1], 0) = b[i - 1])
          BY WideAt, DigitLaws
        <5> QED BY <5>1, <5>2, <5>3
      <4> QED BY <4>1
    <3> QED BY <1>4, <3>1, Zenon DEF Added, Fed
  <2> QED BY <1>2, <2>2, <2>3, <2>4
<1> QED BY <1>1, <1>3, <1>4 DEF Bit

(* A step by one bit stays within 16 bits. *)
LEMMA CrcBitIs == \A x \in Word16 : CrcBit(x) \in Word16
<1> SUFFICES ASSUME NEW x \in Word16 PROVE CrcBit(x) \in Word16
  OBVIOUS
<1>1. PICK b \in Wide : x = Number(b)
  BY NumberIs
<1> QED BY <1>1, CrcBitNumber, NumberIs

(* A step with what is still to come added to the register: the bit that
   comes next is fed, the others move up. *)
LEMMA CrcBitAdded ==
  ASSUME NEW b \in Wide, NEW u \in Wide
  PROVE  /\ CrcBit(Number(Added(b, u))) = Number(Added(Shifted(b, u[15]), Up(u)))
         /\ Added(b, u) \in Wide /\ Shifted(b, u[15]) \in Wide /\ Up(u) \in Wide
<1>1. /\ Added(b, u) \in Wide /\ u[15] \in Bit /\ Shifted(b, u[15]) \in Wide /\ Up(u) \in Wide
      /\ b[15] \in Bit /\ Digit(b[15], u[15]) \in Bit
  <2>1. u[15] \in Bit
    BY DigitsIn
  <2> QED BY <2>1, AddedIs, UpIs, ShiftedIs
<1> DEFINE t == Digit(b[15], u[15])
<1>2. Added(b, u)[15] = t
  <2>1. 15 \in Places
    BY DEF Places
  <2> QED BY <2>1 DEF Added
<1>3. \A i \in Places : Fed(Added(b, u), t)[i] = Added(Fed(b, t), Up(u))[i]
  <2> SUFFICES ASSUME NEW i \in Places PROVE Fed(Added(b, u), t)[i] = Added(Fed(b, t), Up(u))[i]
    OBVIOUS
  <2> HIDE DEF t
  <2>0. t \in Bit
    BY <1>1 DEF t
  <2>1. Added(Fed(b, t), Up(u))[i] = Digit(Fed(b, t)[i], Up(u)[i])
    BY DEF Added
  <2>2. /\ Fed(b, t)[i] = IF i = 0 THEN t ELSE IF i \in {5, 12} THEN Digit(b[i - 1], t) ELSE b[i - 1]
        /\ Fed(Added(b, u), t)[i] = IF i = 0 THEN t ELSE IF i \in {5, 12} THEN Digit(Added(b, u)[i - 1], t)
                                                    ELSE Added(b, u)[i - 1]
    BY DEF Fed
  <2>3. Up(u)[i] = IF i = 0 THEN 0 ELSE u[i - 1]
    BY DEF Up
  <2>4. CASE i = 0
    BY <2>0, <2>1, <2>2, <2>3, <2>4, DigitLaws
  <2>5. CASE i # 0
    <3>1. b[i - 1] \in Bit /\ u[i - 1] \in Bit /\ i - 1 \in Places
      BY <2>5, WideAt
    <3>2. Added(b, u)[i - 1] = Digit(b[i - 1], u[i - 1])
      BY <3>1 DEF Added
    <3> DEFINE x == b[i - 1]
               y == u[i - 1]
    <3>3. Digit(Digit(x, y), t) = Digit(Digit(x, t), y)
      <4> HIDE DEF x, y
      <4>1. x \in Bit /\ y \in Bit
        BY <3>1 DEF x, y
      <4> QED BY <2>0, <4>1 DEF Digit, Bit
    <3> QED BY <2>1, <2>2, <2>3, <2>5, <3>2, <3>3
  <2> QED BY <2>4, <2>5
<1>4. Fed(Added(b, u), t) = Added(Fed(b, t), Up(u))
  <2> HIDE DEF t
  <2>1. Fed(Added(b, u), t) \in Wide /\ Fed(b, t) \in Wide
    BY <1>1, FedIs DEF t
  <2>2. Added(Fed(b, t), Up(u)) \in Wide
    BY <1>1, <2>1, AddedIs
  <2> QED BY <1>3, <2>1, <2>2 DEF Wide
<1> QED BY <1>1, <1>2, <1>4, CrcBitNumber, Zenon DEF Shifted

(* Four steps, with the bits p, q, r and s fed one after the other. *)
Four(b, p, q, r, s) == Shifted(Shifted(Shifted(Shifted(b, p), q), r), s)

(* Four rounds at a time, which take half a byte. *)
UpFour(u) == Up(Up(Up(Up(u))))
CrcBits(x) == CrcBit(CrcBit(CrcBit(CrcBit(x))))

(* The register after half a byte of the message. *)
Nibble == 0 .. 15
NibbleStep(crc, n) == CrcBits(Xor16(crc, 4096 * n))

(* The digits of a register moved up by four. *)
LEMMA UpFourIs ==
  ASSUME NEW u \in Wide
  PROVE  /\ UpFour(u) \in Wide
         /\ \A i \in Places : UpFour(u)[i] = IF i < 4 THEN 0 ELSE u[i - 4]
         /\ Up(u)[15] = u[14] /\ Up(Up(u))[15] = u[13] /\ Up(Up(Up(u)))[15] = u[12]
<1>1. Up(u) \in Wide /\ \A i \in Places : Up(u)[i] = IF i = 0 THEN 0 ELSE u[i - 1]
  BY UpIs DEF Up
<1> DEFINE v == Up(u)
<1> HIDE DEF v
<1>2. Up(v) \in Wide /\ \A i \in Places : Up(v)[i] = IF i = 0 THEN 0 ELSE v[i - 1]
  BY <1>1, UpIs DEF Up, v
<1> DEFINE w == Up(v)
<1> HIDE DEF w
<1>3. Up(w) \in Wide /\ \A i \in Places : Up(w)[i] = IF i = 0 THEN 0 ELSE w[i - 1]
  BY <1>2, UpIs DEF Up, w
<1> DEFINE z == Up(w)
<1> HIDE DEF z
<1>4. Up(z) \in Wide /\ \A i \in Places : Up(z)[i] = IF i = 0 THEN 0 ELSE z[i - 1]
  BY <1>3, UpIs DEF Up, z
<1>5. \A i \in Places : v[i] = IF i < 1 THEN 0 ELSE u[i - 1]
  BY <1>1 DEF v, Places
<1>6. \A i \in Places : w[i] = IF i < 2 THEN 0 ELSE u[i - 2]
  <2> SUFFICES ASSUME NEW i \in Places PROVE w[i] = IF i < 2 THEN 0 ELSE u[i - 2]
    OBVIOUS
  <2>1. w[i] = IF i = 0 THEN 0 ELSE v[i - 1]
    BY <1>2 DEF w
  <2>2. i # 0 => i - 1 \in Places /\ (i - 1) - 1 = i - 2
    BY DEF Places
  <2>3. i # 0 => v[i - 1] = IF i - 1 < 1 THEN 0 ELSE u[i - 2]
    BY <1>5, <2>2
  <2> QED BY <2>1, <2>3 DEF Places
<1>7. \A i \in Places : z[i] = IF i < 3 THEN 0 ELSE u[i - 3]
  <2> SUFFICES ASSUME NEW i \in Places PROVE z[i] = IF i < 3 THEN 0 ELSE u[i - 3]
    OBVIOUS
  <2>1. z[i] = IF i = 0 THEN 0 ELSE w[i - 1]
    BY <1>3 DEF z
  <2>2. i # 0 => i - 1 \in Places /\ (i - 1) - 2 = i - 3
    BY DEF Places
  <2>3. i # 0 => w[i - 1] = IF i - 1 < 2 THEN 0 ELSE u[i - 3]
    BY <1>6, <2>2
  <2> QED BY <2>1, <2>3 DEF Places
<1>8. \A i \in Places : Up(z)[i] = IF i < 4 THEN 0 ELSE u[i - 4]
  <2> SUFFICES ASSUME NEW i \in Places PROVE Up(z)[i] = IF i < 4 THEN 0 ELSE u[i - 4]
    OBVIOUS
  <2>1. Up(z)[i] = IF i = 0 THEN 0 ELSE z[i - 1]
    BY <1>4
  <2>2. i # 0 => i - 1 \in Places /\ (i - 1) - 3 = i - 4
    BY DEF Places
  <2>3. i # 0 => z[i - 1] = IF i - 1 < 3 THEN 0 ELSE u[i - 4]
    BY <1>7, <2>2
  <2> QED BY <2>1, <2>3 DEF Places
<1>9. v[15] = u[14] /\ w[15] = u[13] /\ z[15] = u[12]
  BY <1>5, <1>6, <1>7 DEF Places
<1> QED BY <1>4, <1>8, <1>9, Zenon DEF UpFour, v, w, z

(* Four rounds keep the width of the register. *)
LEMMA FourIs ==
  ASSUME NEW b \in Wide, NEW p \in Bit, NEW q \in Bit, NEW r \in Bit, NEW s \in Bit
  PROVE  Four(b, p, q, r, s) \in Wide
BY ShiftedIs DEF Four

(* Four steps of a register to which what is to come is added. *)
LEMMA CrcBitsAdded ==
  ASSUME NEW b \in Wide, NEW u \in Wide
  PROVE  /\ CrcBits(Number(Added(b, u))) = Number(Added(Four(b, u[15], u[14], u[13], u[12]), UpFour(u)))
         /\ Four(b, u[15], u[14], u[13], u[12]) \in Wide
<1> DEFINE v == Up(u)
           w == Up(v)
           z == Up(w)
           b1 == Shifted(b, u[15])
           b2 == Shifted(b1, v[15])
           b3 == Shifted(b2, w[15])
           b4 == Shifted(b3, z[15])
<1> HIDE DEF v, w, z, b1, b2, b3, b4
<1>1. CrcBit(Number(Added(b, u))) = Number(Added(b1, v)) /\ b1 \in Wide /\ v \in Wide
  BY CrcBitAdded DEF b1, v
<1>2. CrcBit(Number(Added(b1, v))) = Number(Added(b2, w)) /\ b2 \in Wide /\ w \in Wide
  BY <1>1, CrcBitAdded DEF b2, w
<1>3. CrcBit(Number(Added(b2, w))) = Number(Added(b3, z)) /\ b3 \in Wide /\ z \in Wide
  BY <1>2, CrcBitAdded DEF b3, z
<1>4. CrcBit(Number(Added(b3, z))) = Number(Added(b4, Up(z))) /\ b4 \in Wide
  BY <1>3, CrcBitAdded DEF b4
<1>5. v[15] = u[14] /\ w[15] = u[13] /\ z[15] = u[12]
  BY UpFourIs DEF v, w, z
<1>6. Four(b, u[15], u[14], u[13], u[12]) = b4
  BY <1>5, Zenon DEF b1, b2, b3, b4, Four
<1>7. UpFour(u) = Up(z)
  BY Zenon DEF UpFour, v, w, z
<1>8. CrcBits(Number(Added(b, u))) = Number(Added(b4, Up(z)))
  BY <1>1, <1>2, <1>3, <1>4, Zenon DEF CrcBits
<1> QED BY <1>4, <1>6, <1>7, <1>8, Zenon

(* The highest digits of a number. *)
LEMMA SixteenTimes ==
  ASSUME NEW b \in Wide
  PROVE  /\ 16 * Number(b) = Number(UpFour(b)) + 65536 * (b[12] + 2 * b[13] + 4 * b[14] + 8 * b[15])
         /\ Number(b) \div 4096 = b[12] + 2 * b[13] + 4 * b[14] + 8 * b[15]
         /\ (16 * Number(b)) % 65536 = Number(UpFour(b))
<1> DEFINE v == Up(b)
           w == Up(v)
           z == Up(w)
<1> HIDE DEF v, w, z
<1>1. 2 * Number(b) = Number(v) + 65536 * b[15] /\ v \in Wide
  BY TwiceIs, UpIs DEF v
<1>2. 2 * Number(v) = Number(w) + 65536 * v[15] /\ w \in Wide
  BY <1>1, TwiceIs, UpIs DEF w
<1>3. 2 * Number(w) = Number(z) + 65536 * w[15] /\ z \in Wide
  BY <1>2, TwiceIs, UpIs DEF z
<1>4. 2 * Number(z) = Number(Up(z)) + 65536 * z[15] /\ Up(z) \in Wide
  BY <1>3, TwiceIs, UpIs
<1>5. v[15] = b[14] /\ w[15] = b[13] /\ z[15] = b[12] /\ UpFour(b) = Up(z)
  BY UpFourIs DEF v, w, z, UpFour
<1>6. PICK n, n1, n2, n3, n4, p, q, r, s :
        /\ n = Number(b) /\ n1 = Number(v) /\ n2 = Number(w) /\ n3 = Number(z) /\ n4 = Number(UpFour(b))
        /\ p = b[15] /\ q = b[14] /\ r = b[13] /\ s = b[12]
  BY Zenon
<1>7. /\ n \in Word16 /\ n1 \in Word16 /\ n2 \in Word16 /\ n3 \in Word16 /\ n4 \in Word16
      /\ p \in Bit /\ q \in Bit /\ r \in Bit /\ s \in Bit
  BY <1>1, <1>2, <1>3, <1>4, <1>5, <1>6, DigitsIn, NumberIs
<1>8. 2 * n = n1 + 65536 * p /\ 2 * n1 = n2 + 65536 * q /\ 2 * n2 = n3 + 65536 * r /\ 2 * n3 = n4 + 65536 * s
  BY <1>1, <1>2, <1>3, <1>4, <1>5, <1>6
<1> HIDE <1>1, <1>2, <1>3, <1>4, <1>5
<1>9. 16 * n = n4 + 65536 * (s + 2 * r + 4 * q + 8 * p)
  BY <1>7, <1>8 DEF Word16, Bit
<1>10. n \div 4096 = s + 2 * r + 4 * q + 8 * p /\ (16 * n) % 65536 = n4
  <2>1. PICK t : t = s + 2 * r + 4 * q + 8 * p
    OBVIOUS
  <2>2. t \in Int /\ 16 * n = n4 + 65536 * t /\ n \in Int /\ n4 \in Int /\ 0 <= n4 /\ n4 < 65536
    BY <1>7, <1>9, <2>1 DEF Word16, Bit
  <2>3. n \div 4096 = t /\ (16 * n) % 65536 = n4
    BY <2>2
  <2> QED BY <2>1, <2>3
<1> QED BY <1>6, <1>9, <1>10

(* A nibble in the highest digits. *)
Topped(n) == [i \in Places |-> IF i = 12 THEN n % 2 ELSE IF i = 13 THEN (n \div 2) % 2
                               ELSE IF i = 14 THEN (n \div 4) % 2 ELSE IF i = 15 THEN n \div 8 ELSE 0]

(* The digits of half a byte. *)
LEMMA NibbleDigits ==
  ASSUME NEW n \in Nibble
  PROVE  /\ n % 2 \in Bit /\ (n \div 2) % 2 \in Bit /\ (n \div 4) % 2 \in Bit /\ n \div 8 \in Bit
         /\ n = (n % 2) + 2 * ((n \div 2) % 2) + 4 * ((n \div 4) % 2) + 8 * (n \div 8)
BY DEF Nibble, Bit

(* Half a byte in the highest digits of a register, which four rounds move out. *)
LEMMA ToppedIs ==
  ASSUME NEW n \in Nibble
  PROVE  /\ Topped(n) \in Wide /\ Number(Topped(n)) = 4096 * n /\ UpFour(Topped(n)) = ZeroWord
         /\ Topped(n)[12] = n % 2 /\ Topped(n)[13] = (n \div 2) % 2
         /\ Topped(n)[14] = (n \div 4) % 2 /\ Topped(n)[15] = n \div 8
<1> DEFINE u == Topped(n)
<1>1. u \in Wide
  <2>1. n % 2 \in Bit /\ (n \div 2) % 2 \in Bit /\ (n \div 4) % 2 \in Bit /\ n \div 8 \in Bit /\ 0 \in Bit
    BY NibbleDigits, DigitLaws
  <2> QED BY <2>1, Zenon DEF Topped, Wide
<1>2. /\ u[12] = n % 2 /\ u[13] = (n \div 2) % 2 /\ u[14] = (n \div 4) % 2 /\ u[15] = n \div 8
      /\ \A i \in 0 .. 11 : u[i] = 0
  BY DEF Topped, Places
<1> HIDE DEF u
<1>3. u[0] = 0 /\ u[1] = 0 /\ u[2] = 0 /\ u[3] = 0 /\ u[4] = 0 /\ u[5] = 0 /\ u[6] = 0 /\ u[7] = 0
      /\ u[8] = 0 /\ u[9] = 0 /\ u[10] = 0 /\ u[11] = 0
  BY <1>2
<1>4. UpFour(u) = ZeroWord
  <2>1. \A i \in Places : i >= 4 => i - 4 \in 0 .. 11
    BY DEF Places
  <2>2. \A i \in Places : UpFour(u)[i] = 0
    BY <1>1, <1>2, <2>1, UpFourIs DEF Places
  <2>3. UpFour(u) \in Wide
    BY <1>1, UpFourIs
  <2> QED BY <2>2, <2>3 DEF Wide, ZeroWord
<1>5. Number(u) = 4096 * n
  <2>1. Number(u) = Weighed(0, 0, 0, 0, 0, 0, 0, 0) + 256 * Weighed(0, 0, 0, 0, u[12], u[13], u[14], u[15])
    BY <1>3, EightIs, Zenon DEF Number
  <2>2. PICK p, q, r, s \in Int : p = u[12] /\ q = u[13] /\ r = u[14] /\ s = u[15]
    BY <1>1, DigitsIn DEF Bit
  <2>3. n = p + 2 * q + 4 * r + 8 * s
    BY <1>2, <2>2, NibbleDigits
  <2>4. Weighed(0, 0, 0, 0, 0, 0, 0, 0) = 0 /\ Weighed(0, 0, 0, 0, p, q, r, s) = 16 * p + 32 * q + 64 * r + 128 * s
    BY DEF Weighed
  <2>5. Number(u) = 0 + 256 * (16 * p + 32 * q + 64 * r + 128 * s)
    BY <2>1, <2>2, <2>4, Zenon
  <2> QED BY <2>3, <2>5
<1> QED BY <1>1, <1>2, <1>4, <1>5 DEF u

(* The empty register is the number 0, and adds nothing. *)
LEMMA ZeroIs ==
  /\ ZeroWord \in Wide /\ Number(ZeroWord) = 0 /\ 0 \in Word16
  /\ \A b \in Wide : Added(b, ZeroWord) = b
<1>1. ZeroWord \in Wide
  BY DEF ZeroWord, Wide, Bit
<1>2. \A b \in Wide : Added(b, ZeroWord) = b
  <2> SUFFICES ASSUME NEW b \in Wide PROVE Added(b, ZeroWord) = b
    OBVIOUS
  <2>1. \A i \in Places : Digit(b[i], ZeroWord[i]) = b[i]
    BY WideAt, DigitLaws DEF ZeroWord
  <2> QED BY <2>1 DEF Added, Wide
<1>3. Number(ZeroWord) = 0
  <2>1. \A i \in Places : ZeroWord[i] = 0
    BY DEF ZeroWord
  <2>2. Number(ZeroWord) = Weighed(0, 0, 0, 0, 0, 0, 0, 0) + 256 * Weighed(0, 0, 0, 0, 0, 0, 0, 0)
    <3>1. ZeroWord[0] = 0 /\ ZeroWord[1] = 0 /\ ZeroWord[2] = 0 /\ ZeroWord[3] = 0 /\ ZeroWord[4] = 0
          /\ ZeroWord[5] = 0 /\ ZeroWord[6] = 0 /\ ZeroWord[7] = 0 /\ ZeroWord[8] = 0 /\ ZeroWord[9] = 0
          /\ ZeroWord[10] = 0 /\ ZeroWord[11] = 0 /\ ZeroWord[12] = 0 /\ ZeroWord[13] = 0 /\ ZeroWord[14] = 0
          /\ ZeroWord[15] = 0
      BY <2>1 DEF Places
    <3> QED BY <3>1, EightIs, Zenon DEF Number
  <2>3. Weighed(0, 0, 0, 0, 0, 0, 0, 0) = 0
    BY DEF Weighed
  <2> QED BY <2>2, <2>3
<1> QED BY <1>1, <1>2, <1>3 DEF Word16

(* Half a byte feeds its four bits. *)
LEMMA NibbleStepIs ==
  ASSUME NEW b \in Wide, NEW n \in Nibble
  PROVE  /\ NibbleStep(Number(b), n) = Number(Four(b, n \div 8, (n \div 4) % 2, (n \div 2) % 2, n % 2))
         /\ Four(b, n \div 8, (n \div 4) % 2, (n \div 2) % 2, n % 2) \in Wide
<1> DEFINE u == Topped(n)
           f == Four(b, n \div 8, (n \div 4) % 2, (n \div 2) % 2, n % 2)
<1> HIDE DEF u, f
<1>1. /\ u \in Wide /\ Number(u) = 4096 * n /\ UpFour(u) = ZeroWord
      /\ u[12] = n % 2 /\ u[13] = (n \div 2) % 2 /\ u[14] = (n \div 4) % 2 /\ u[15] = n \div 8
  BY ToppedIs DEF u
<1>2. Xor16(Number(b), 4096 * n) = Number(Added(b, u))
  BY <1>1, AddedIs
<1>3. f = Four(b, u[15], u[14], u[13], u[12])
  BY <1>1 DEF f
<1>4. CrcBits(Number(Added(b, u))) = Number(Added(f, UpFour(u))) /\ f \in Wide
  BY <1>1, <1>3, CrcBitsAdded
<1>5. Added(f, UpFour(u)) = f
  BY <1>1, <1>4, ZeroIs
<1>6. NibbleStep(Number(b), n) = Number(f)
  BY <1>2, <1>4, <1>5 DEF NibbleStep
<1> QED BY <1>4, <1>6 DEF f

(* Half a byte leads from 16 bits to 16 bits. *)
LEMMA NibbleStepIn == \A c \in Word16, n \in Nibble : NibbleStep(c, n) \in Word16
<1> SUFFICES ASSUME NEW c \in Word16, NEW n \in Nibble PROVE NibbleStep(c, n) \in Word16
  OBVIOUS
<1>1. PICK b \in Wide : c = Number(b)
  BY NumberIs
<1> QED BY <1>1, NibbleStepIs, NumberIs

(* A byte in the highest digits. *)
LEMMA HighByte ==
  ASSUME NEW x \in Byte
  PROVE  \E u \in Wide : /\ Number(u) = 256 * x /\ UpFour(u) = Topped(x % 16)
                         /\ u[12] = (x \div 16) % 2 /\ u[13] = ((x \div 16) \div 2) % 2
                         /\ u[14] = ((x \div 16) \div 4) % 2 /\ u[15] = (x \div 16) \div 8
<1> DEFINE h == x \div 16
           l == x % 16
           u == [i \in Places |-> IF i = 8 THEN l % 2 ELSE IF i = 9 THEN (l \div 2) % 2
                                  ELSE IF i = 10 THEN (l \div 4) % 2 ELSE IF i = 11 THEN l \div 8
                                  ELSE IF i = 12 THEN h % 2 ELSE IF i = 13 THEN (h \div 2) % 2
                                  ELSE IF i = 14 THEN (h \div 4) % 2 ELSE IF i = 15 THEN h \div 8 ELSE 0]
<1>1. h \in Nibble /\ l \in Nibble /\ x = 16 * h + l
  BY DEF Byte, Nibble
<1> HIDE DEF h, l
<1>2. /\ h % 2 \in Bit /\ (h \div 2) % 2 \in Bit /\ (h \div 4) % 2 \in Bit /\ h \div 8 \in Bit
      /\ l % 2 \in Bit /\ (l \div 2) % 2 \in Bit /\ (l \div 4) % 2 \in Bit /\ l \div 8 \in Bit /\ 0 \in Bit
  BY <1>1, NibbleDigits, DigitLaws
<1>3. u \in Wide
  BY <1>2, Zenon DEF Wide
<1>4. /\ u[12] = h % 2 /\ u[13] = (h \div 2) % 2 /\ u[14] = (h \div 4) % 2 /\ u[15] = h \div 8
      /\ u[8] = l % 2 /\ u[9] = (l \div 2) % 2 /\ u[10] = (l \div 4) % 2 /\ u[11] = l \div 8
      /\ \A i \in 0 .. 7 : u[i] = 0
  BY DEF Places
<1> HIDE DEF u
<1>5. UpFour(u) = Topped(l)
  <2>1. \A i \in Places : UpFour(u)[i] = IF i < 4 THEN 0 ELSE u[i - 4]
    BY <1>3, UpFourIs
  <2>2. \A i \in Places : UpFour(u)[i] = Topped(l)[i]
    <3> SUFFICES ASSUME NEW i \in Places PROVE UpFour(u)[i] = Topped(l)[i]
      OBVIOUS
    <3>1. Topped(l)[i] = IF i = 12 THEN l % 2 ELSE IF i = 13 THEN (l \div 2) % 2
                         ELSE IF i = 14 THEN (l \div 4) % 2 ELSE IF i = 15 THEN l \div 8 ELSE 0
      BY DEF Topped
    <3>2. /\ i < 4 \/ i - 4 \in 0 .. 7 \/ i \in 12 .. 15
          /\ i = 12 => i - 4 = 8 /\ ~(i < 4)
          /\ i = 13 => i - 4 = 9 /\ ~(i < 4)
          /\ i = 14 => i - 4 = 10 /\ ~(i < 4)
          /\ i = 15 => i - 4 = 11 /\ ~(i < 4)
      BY DEF Places
    <3>3. i \in 12 .. 15 => i = 12 \/ i = 13 \/ i = 14 \/ i = 15
      BY DEF Places
    <3>4. CASE i = 12 \/ i = 13 \/ i = 14 \/ i = 15
      BY <1>4, <2>1, <3>1, <3>2, <3>4
    <3>5. CASE i \notin 12 .. 15
      BY <1>4, <2>1, <3>1, <3>2, <3>5
    <3> QED BY <3>3, <3>4, <3>5
  <2>3. UpFour(u) \in Wide /\ Topped(l) \in Wide
    BY <1>1, <1>3, UpFourIs, ToppedIs
  <2> QED BY <2>2, <2>3 DEF Wide
<1>6. Number(u) = 256 * x
  <2>1. u[0] = 0 /\ u[1] = 0 /\ u[2] = 0 /\ u[3] = 0 /\ u[4] = 0 /\ u[5] = 0 /\ u[6] = 0 /\ u[7] = 0
    BY <1>4
  <2>2. /\ Number(u) = Eight(u, 0) + 256 * Eight(u, 8)
        /\ Eight(u, 0) = Weighed(0, 0, 0, 0, 0, 0, 0, 0)
        /\ Eight(u, 8) = Weighed(u[8], u[9], u[10], u[11], u[12], u[13], u[14], u[15])
    BY <2>1, EightIs, Zenon DEF Number
  <2>3. Weighed(0, 0, 0, 0, 0, 0, 0, 0) = 0
    BY DEF Weighed
  <2>4. PICK a, b, c, d, e, f, g, k \in Int : /\ a = u[8] /\ b = u[9] /\ c = u[10] /\ d = u[11]
                                              /\ e = u[12] /\ f = u[13] /\ g = u[14] /\ k = u[15]
    <3>1. \A i \in Bit : i \in Int
      BY DEF Bit
    <3> QED BY <1>3, <3>1, DigitsIn, Zenon
  <2>5. l = a + 2 * b + 4 * c + 8 * d /\ h = e + 2 * f + 4 * g + 8 * k
    BY <1>1, <1>4, <2>4, NibbleDigits
  <2>6. Eight(u, 8) = a + 2 * b + 4 * c + 8 * d + 16 * e + 32 * f + 64 * g + 128 * k
    BY <2>2, <2>4, Zenon DEF Weighed
  <2> HIDE <1>2, <1>3, <1>4, <1>5
  <2>7. Eight(u, 8) = x
    BY <1>1, <2>5, <2>6
  <2> QED BY <2>2, <2>3, <2>7 DEF Byte
<1> QED BY <1>3, <1>4, <1>5, <1>6 DEF h, l

(* The step of a byte is that of its two halves. *)
LEMMA EightBits ==
  ASSUME NEW b \in Wide, NEW x \in Byte
  PROVE  CrcBits(CrcBits(Xor16(Number(b), 256 * x))) = NibbleStep(NibbleStep(Number(b), x \div 16), x % 16)
<1> DEFINE h == x \div 16
           l == x % 16
<1>1. h \in Nibble /\ l \in Nibble
  BY DEF Byte, Nibble
<1> HIDE DEF h, l
<1>2. PICK u \in Wide : /\ Number(u) = 256 * x /\ UpFour(u) = Topped(l)
                        /\ u[12] = h % 2 /\ u[13] = (h \div 2) % 2
                        /\ u[14] = (h \div 4) % 2 /\ u[15] = h \div 8
  BY HighByte DEF h, l
<1> DEFINE f == Four(b, h \div 8, (h \div 4) % 2, (h \div 2) % 2, h % 2)
<1>3. f = Four(b, u[15], u[14], u[13], u[12])
  BY <1>2
<1> HIDE DEF f
<1>4. Xor16(Number(b), 256 * x) = Number(Added(b, u))
  BY <1>2, AddedIs
<1>5. CrcBits(Number(Added(b, u))) = Number(Added(f, Topped(l))) /\ f \in Wide
  BY <1>2, <1>3, CrcBitsAdded
<1>6. NibbleStep(Number(b), h) = Number(f)
  BY <1>1, NibbleStepIs DEF f
<1>7. Xor16(Number(f), 4096 * l) = Number(Added(f, Topped(l)))
  BY <1>1, <1>5, ToppedIs, AddedIs
<1>8. NibbleStep(Number(f), l) = CrcBits(Number(Added(f, Topped(l))))
  BY <1>7 DEF NibbleStep
<1> QED BY <1>4, <1>5, <1>6, <1>8 DEF h, l

(* The register of a CRC after eight steps, and after a byte. *)
Steps(crc, seq) == FoldLeft(LAMBDA c, i : CrcBit(c), crc, seq)

(* One byte, as the code takes it: eight rounds. *)
ByteStep(crc, byte) == Steps(Xor16(crc, 256 * byte), UpTo(8))

(* Step after step. *)
LEMMA StepsIs ==
  ASSUME NEW n \in Nat, NEW seq \in [1 .. n -> Nat], NEW base \in Word16
  PROVE  \E c \in [0 .. n -> Word16] : /\ c[0] = base /\ c[n] = Steps(base, seq)
                                 /\ \A i \in 1 .. n : c[i] = CrcBit(c[i - 1])
<1> DEFINE T == [x \in Word16 |-> [y \in Nat |-> CrcBit(x)]]
           Is(f) == f = [s \in SUBSET DOMAIN seq |->
                           IF s = {} THEN base ELSE CrcBit(f[s \ {Max(s)}])]
<1>1. base \in Word16 /\ \A x \in Word16, y \in Nat : CrcBit(x) \in Word16
  BY CrcBitIs, Zenon
<1>2. T \in [Word16 -> [Nat -> Word16]] /\ \A x \in Word16, y \in Nat : T[x][y] = CrcBit(x)
  BY <1>1
<1> HIDE DEF T
<1>3. PICK f \in [SUBSET (1 .. n) -> Word16] : Folded(T, base, seq, n, f)
  BY <1>1, <1>2, FoldExists
<1>4. DOMAIN seq = 1 .. n
  OBVIOUS
<1>5. ASSUME NEW s \in SUBSET (1 .. n)
      PROVE  f[s] = IF s = {} THEN base ELSE CrcBit(f[s \ {Max(s)}])
  <2>1. CASE s = {}
    BY <1>3, <2>1 DEF Folded
  <2>2. CASE s # {}
    <3>1. Max(s) \in 1 .. n
      BY <2>2, MaxIs
    <3>2. f[s \ {Max(s)}] \in Word16 /\ seq[Max(s)] \in Nat
      BY <3>1
    <3>3. f[s] = T[f[s \ {Max(s)}]][seq[Max(s)]]
      BY <1>3, <2>2, Zenon DEF Folded
    <3>4. T[f[s \ {Max(s)}]][seq[Max(s)]] = CrcBit(f[s \ {Max(s)}])
      BY <1>2, <3>2, Zenon
    <3> QED BY <2>2, <3>3, <3>4, Zenon
  <2> QED BY <2>1, <2>2
<1>6. Is(f)
  BY <1>4, <1>5, Zenon
<1>7. Steps(base, seq) = (CHOOSE g : Is(g))[DOMAIN seq]
  BY Zenon DEF Steps, FoldLeft, MapThenFoldSet
<1>8. PICK g : Is(g) /\ Steps(base, seq) = g[DOMAIN seq]
  BY <1>6, <1>7, Zenon
<1>9. \A s \in SUBSET (1 .. n) : g[s] = IF s = {} THEN base ELSE CrcBit(g[s \ {Max(s)}])
  BY <1>4, <1>8, Zenon
<1> HIDE DEF Is
<1> DEFINE c == [i \in 0 .. n |-> g[1 .. i]]
<1>10. c[0] = base
  <2>1. 1 .. 0 = {} /\ {} \in SUBSET (1 .. n) /\ 0 \in 0 .. n
    OBVIOUS
  <2> QED BY <1>9, <2>1, Zenon
<1>11. ASSUME NEW i \in 1 .. n PROVE c[i] = CrcBit(c[i - 1])
  <2>1. i \in 0 .. n /\ i - 1 \in 0 .. n
    OBVIOUS
  <2>2. Max(1 .. i) = i /\ (1 .. i) \ {i} = 1 .. i - 1 /\ 1 .. i # {} /\ 1 .. i \in SUBSET (1 .. n)
    BY MaxOfFirst
  <2>3. g[1 .. i] = CrcBit(g[(1 .. i) \ {Max(1 .. i)}])
    BY <1>9, <2>2, Zenon
  <2>4. c[i] = g[1 .. i] /\ c[i - 1] = g[1 .. i - 1]
    BY <2>1
  <2> HIDE DEF c
  <2> QED BY <2>2, <2>3, <2>4, Zenon
<1>12. n \in 0 .. n /\ c[n] = Steps(base, seq)
  BY <1>4, <1>8
<1> HIDE DEF c
<1>13. \A i \in 0 .. n : c[i] \in Word16
  <2> DEFINE S == {i \in 0 .. n : c[i] \in Word16}
  <2>1. 0 \in S
    BY <1>1, <1>10
  <2>2. ASSUME NEW i \in 1 .. n, i - 1 \in S PROVE i \in S
    <3>1. c[i - 1] \in Word16 /\ seq[i] \in Nat /\ i \in 0 .. n
      BY <2>2
    <3>2. CrcBit(c[i - 1]) \in Word16
      BY <1>1, <3>1, Zenon
    <3>3. c[i] = CrcBit(c[i - 1])
      BY <1>11
    <3> QED BY <3>1, <3>2, <3>3
  <2> HIDE DEF S
  <2>3. \A i \in 0 .. n : i \in S
    BY <2>1, <2>2, ByRounds
  <2> QED BY <2>3 DEF S
<1>14. c \in [0 .. n -> Word16]
  BY <1>13 DEF c
<1> QED BY <1>10, <1>11, <1>12, <1>14, Zenon

(* It is taken as its two halves. *)
LEMMA ByteStepIs ==
  ASSUME NEW c \in Word16, NEW x \in Byte
  PROVE  ByteStep(c, x) = NibbleStep(NibbleStep(c, x \div 16), x % 16) /\ ByteStep(c, x) \in Word16
<1>1. PICK b \in Wide : c = Number(b)
  BY NumberIs
<1>2. PICK u \in Wide : Number(u) = 256 * x
  BY HighByte
<1>3. Xor16(c, 256 * x) \in Word16
  <2>1. Xor16(c, 256 * x) = Number(Added(b, u)) /\ Added(b, u) \in Wide
    BY <1>1, <1>2, AddedIs
  <2> QED BY <2>1, NumberIs
<1> DEFINE base == Xor16(c, 256 * x)
<1>4. UpTo(8) \in [1 .. 8 -> Nat]
  BY DEF UpTo
<1> HIDE DEF base
<1>5. PICK s \in [0 .. 8 -> Word16] : /\ s[0] = base /\ s[8] = Steps(base, UpTo(8))
                                     /\ \A i \in 1 .. 8 : s[i] = CrcBit(s[i - 1])
  BY <1>3, <1>4, StepsIs DEF base
<1>6. /\ s[1] = CrcBit(s[0]) /\ s[2] = CrcBit(s[1]) /\ s[3] = CrcBit(s[2]) /\ s[4] = CrcBit(s[3])
      /\ s[5] = CrcBit(s[4]) /\ s[6] = CrcBit(s[5]) /\ s[7] = CrcBit(s[6]) /\ s[8] = CrcBit(s[7])
  <2>1. 1 - 1 = 0 /\ 2 - 1 = 1 /\ 3 - 1 = 2 /\ 4 - 1 = 3 /\ 5 - 1 = 4 /\ 6 - 1 = 5 /\ 7 - 1 = 6 /\ 8 - 1 = 7
    OBVIOUS
  <2>2. /\ 1 \in 1 .. 8 /\ 2 \in 1 .. 8 /\ 3 \in 1 .. 8 /\ 4 \in 1 .. 8 /\ 5 \in 1 .. 8 /\ 6 \in 1 .. 8
        /\ 7 \in 1 .. 8 /\ 8 \in 1 .. 8
    OBVIOUS
  <2> QED BY <1>5, <2>1, <2>2
<1>7. Steps(base, UpTo(8)) = CrcBits(CrcBits(base))
  BY <1>5, <1>6 DEF CrcBits
<1>8. ByteStep(c, x) = CrcBits(CrcBits(base))
  BY <1>7 DEF ByteStep, base
<1>9. ByteStep(c, x) \in Word16
  BY <1>5, <1>7, <1>8
<1> QED BY <1>1, <1>8, <1>9, EightBits DEF base

(* Byte after byte. *)
LEMMA CrcIs ==
  ASSUME NEW n \in Nat, NEW seq \in [1 .. n -> Byte]
  PROVE  \E c \in [0 .. n -> Word16] : /\ c[0] = 0 /\ c[n] = lora_crc16(seq)
                                 /\ \A i \in 1 .. n : c[i] = ByteStep(c[i - 1], seq[i])
<1> DEFINE T == [x \in Word16 |-> [y \in Byte |-> ByteStep(x, y)]]
           Is(f) == f = [s \in SUBSET DOMAIN seq |->
                           IF s = {} THEN 0 ELSE ByteStep(f[s \ {Max(s)}], seq[Max(s)])]
<1>1. 0 \in Word16 /\ \A x \in Word16, y \in Byte : ByteStep(x, y) \in Word16
  BY ByteStepIs, ZeroIs, Zenon
<1>2. T \in [Word16 -> [Byte -> Word16]] /\ \A x \in Word16, y \in Byte : T[x][y] = ByteStep(x, y)
  BY <1>1
<1> HIDE DEF T
<1>3. PICK f \in [SUBSET (1 .. n) -> Word16] : Folded(T, 0, seq, n, f)
  BY <1>1, <1>2, FoldExists
<1>4. DOMAIN seq = 1 .. n
  OBVIOUS
<1>5. ASSUME NEW s \in SUBSET (1 .. n)
      PROVE  f[s] = IF s = {} THEN 0 ELSE ByteStep(f[s \ {Max(s)}], seq[Max(s)])
  <2>1. CASE s = {}
    BY <1>3, <2>1 DEF Folded
  <2>2. CASE s # {}
    <3>1. Max(s) \in 1 .. n
      BY <2>2, MaxIs
    <3>2. f[s \ {Max(s)}] \in Word16 /\ seq[Max(s)] \in Byte
      BY <3>1
    <3>3. f[s] = T[f[s \ {Max(s)}]][seq[Max(s)]]
      BY <1>3, <2>2, Zenon DEF Folded
    <3>4. T[f[s \ {Max(s)}]][seq[Max(s)]] = ByteStep(f[s \ {Max(s)}], seq[Max(s)])
      BY <1>2, <3>2, Zenon
    <3> QED BY <2>2, <3>3, <3>4, Zenon
  <2> QED BY <2>1, <2>2
<1>6. Is(f)
  BY <1>4, <1>5, Zenon
<1>7. lora_crc16(seq) = (CHOOSE g : Is(g))[DOMAIN seq]
  BY Zenon DEF lora_crc16, ByteStep, Steps, FoldLeft, MapThenFoldSet
<1>8. PICK g : Is(g) /\ lora_crc16(seq) = g[DOMAIN seq]
  BY <1>6, <1>7, Zenon
<1>9. \A s \in SUBSET (1 .. n) : g[s] = IF s = {} THEN 0 ELSE ByteStep(g[s \ {Max(s)}], seq[Max(s)])
  BY <1>4, <1>8, Zenon
<1> HIDE DEF Is
<1> DEFINE c == [i \in 0 .. n |-> g[1 .. i]]
<1>10. c[0] = 0
  <2>1. 1 .. 0 = {} /\ {} \in SUBSET (1 .. n) /\ 0 \in 0 .. n
    OBVIOUS
  <2> QED BY <1>9, <2>1, Zenon
<1>11. ASSUME NEW i \in 1 .. n PROVE c[i] = ByteStep(c[i - 1], seq[i])
  <2>1. i \in 0 .. n /\ i - 1 \in 0 .. n
    OBVIOUS
  <2>2. Max(1 .. i) = i /\ (1 .. i) \ {i} = 1 .. i - 1 /\ 1 .. i # {} /\ 1 .. i \in SUBSET (1 .. n)
    BY MaxOfFirst
  <2>3. g[1 .. i] = ByteStep(g[(1 .. i) \ {Max(1 .. i)}], seq[Max(1 .. i)])
    BY <1>9, <2>2, Zenon
  <2>4. c[i] = g[1 .. i] /\ c[i - 1] = g[1 .. i - 1]
    BY <2>1
  <2> HIDE DEF c
  <2> QED BY <2>2, <2>3, <2>4, Zenon
<1>12. n \in 0 .. n /\ c[n] = lora_crc16(seq)
  BY <1>4, <1>8
<1> HIDE DEF c
<1>13. \A i \in 0 .. n : c[i] \in Word16
  <2> DEFINE S == {i \in 0 .. n : c[i] \in Word16}
  <2>1. 0 \in S
    BY <1>1, <1>10
  <2>2. ASSUME NEW i \in 1 .. n, i - 1 \in S PROVE i \in S
    <3>1. c[i - 1] \in Word16 /\ seq[i] \in Byte /\ i \in 0 .. n
      BY <2>2
    <3>2. ByteStep(c[i - 1], seq[i]) \in Word16
      BY <1>1, <3>1, Zenon
    <3>3. c[i] = ByteStep(c[i - 1], seq[i])
      BY <1>11
    <3> QED BY <3>1, <3>2, <3>3
  <2> HIDE DEF S
  <2>3. \A i \in 0 .. n : i \in S
    BY <2>1, <2>2, ByRounds
  <2> QED BY <2>3 DEF S
<1>14. c \in [0 .. n -> Word16]
  BY <1>13 DEF c
<1> QED BY <1>10, <1>11, <1>12, <1>14, Zenon

(* Registers that agree in their lowest digits. *)
Agree(x, y, k) == \A i \in Places : i < k => x[i] = y[i]
Alike(c, d, k) == \E x, y \in Wide : c = Number(x) /\ d = Number(y) /\ Agree(x, y, k)

(* Where registers agree after a step, they agreed in one digit less before
   it, and the same was fed. *)
LEMMA BackOne ==
  ASSUME NEW x \in Wide, NEW y \in Wide, NEW w \in Bit, NEW v \in Bit, NEW k \in 1 .. 16,
         Agree(Shifted(x, w), Shifted(y, v), k)
  PROVE  /\ Agree(x, y, k - 1)
         /\ Digit(x[15], w) = Digit(y[15], v)
         /\ x = y => w = v
<1> DEFINE t == Digit(x[15], w)
           u == Digit(y[15], v)
<1>1. t \in Bit /\ u \in Bit /\ x[15] \in Bit
  BY ShiftedIs
<1>2. x = y /\ t = u => w = v
  BY <1>1, DigitLaws
<1> HIDE DEF t, u
<1>3. /\ \A i \in Places : Fed(x, t)[i] = IF i = 0 THEN t ELSE IF i \in {5, 12} THEN Digit(x[i - 1], t) ELSE x[i - 1]
      /\ \A i \in Places : Fed(y, u)[i] = IF i = 0 THEN u ELSE IF i \in {5, 12} THEN Digit(y[i - 1], u) ELSE y[i - 1]
  <2>1. \A b \in Wide, f \in Bit : \A i \in Places :
          Fed(b, f)[i] = IF i = 0 THEN f ELSE IF i \in {5, 12} THEN Digit(b[i - 1], f) ELSE b[i - 1]
    BY FedIs
  <2>2. t \in Bit /\ u \in Bit
    BY <1>1
  <2> QED BY <2>1, <2>2
<1>4. \A i \in Places : i < k => Fed(x, t)[i] = Fed(y, u)[i]
  BY DEF Agree, Shifted, t, u
<1>5. t = u
  <2>1. 0 \in Places /\ 0 < k
    BY DEF Places
  <2> QED BY <1>3, <1>4, <2>1
<1>6. ASSUME NEW i \in Places, i < k - 1 PROVE x[i] = y[i]
  <2> DEFINE j == i + 1
  <2>1. j \in Places /\ j # 0 /\ j < k /\ j - 1 = i
    BY <1>6 DEF Places
  <2> HIDE DEF j
  <2>2. (IF j \in {5, 12} THEN Digit(x[i], t) ELSE x[i]) = IF j \in {5, 12} THEN Digit(y[i], t) ELSE y[i]
    BY <1>3, <1>4, <1>5, <2>1
  <2>3. x[i] \in Bit /\ y[i] \in Bit
    BY WideAt
  <2>4. Digit(x[i], t) = Digit(y[i], t) => x[i] = y[i]
    <3>1. t \in Bit
      BY <1>1
    <3> QED BY <2>3, <3>1, DigitOnce
  <2> QED BY <2>2, <2>4
<1> QED BY <1>2, <1>5, <1>6 DEF Agree, t, u

(* Half a byte as four digits that are fed. *)
Half(b, n) == Four(b, n \div 8, (n \div 4) % 2, (n \div 2) % 2, n % 2)

(* Registers that agree in their lowest k digits after half a byte agreed in
   their lowest k - 4 before it; if they were equal, so were the halves. *)
LEMMA BackFour ==
  ASSUME NEW x \in Wide, NEW y \in Wide, NEW n \in Nibble, NEW m \in Nibble, NEW k \in 4 .. 16,
         Agree(Half(x, n), Half(y, m), k)
  PROVE  Agree(x, y, k - 4) /\ (x = y => n = m)
<1>11. PICK p, q, r, s \in Bit : p = n \div 8 /\ q = (n \div 4) % 2 /\ r = (n \div 2) % 2 /\ s = n % 2
  BY NibbleDigits
<1>12. PICK p2, q2, r2, s2 \in Bit : p2 = m \div 8 /\ q2 = (m \div 4) % 2 /\ r2 = (m \div 2) % 2 /\ s2 = m % 2
  BY NibbleDigits
<1>13. p = p2 /\ q = q2 /\ r = r2 /\ s = s2 => n = m
  <2>1. n = (n % 2) + 2 * ((n \div 2) % 2) + 4 * ((n \div 4) % 2) + 8 * (n \div 8)
    BY NibbleDigits
  <2>2. m = (m % 2) + 2 * ((m \div 2) % 2) + 4 * ((m \div 4) % 2) + 8 * (m \div 8)
    BY NibbleDigits
  <2>3. n = s + 2 * r + 4 * q + 8 * p /\ m = s2 + 2 * r2 + 4 * q2 + 8 * p2
    BY <1>11, <1>12, <2>1, <2>2
  <2> QED BY <2>3
<1> DEFINE x1 == Shifted(x, p)
           x2 == Shifted(x1, q)
           x3 == Shifted(x2, r)
           y1 == Shifted(y, p2)
           y2 == Shifted(y1, q2)
           y3 == Shifted(y2, r2)
<1>1. x1 \in Wide /\ y1 \in Wide
  BY ShiftedIs
<1>2. x2 \in Wide /\ y2 \in Wide
  BY <1>1, ShiftedIs
<1>3. x3 \in Wide /\ y3 \in Wide
  BY <1>2, ShiftedIs
<1>4. Agree(Shifted(x3, s), Shifted(y3, s2), k)
  <2>1. Agree(Four(x, p, q, r, s), Four(y, p2, q2, r2, s2), k)
    BY <1>11, <1>12 DEF Half
  <2> QED BY <2>1 DEF Four
<1>10. k \in 1 .. 16 /\ k - 1 \in 1 .. 16 /\ k - 2 \in 1 .. 16 /\ k - 3 \in 1 .. 16
       /\ (k - 1) - 1 = k - 2 /\ (k - 2) - 1 = k - 3 /\ (k - 3) - 1 = k - 4
  OBVIOUS
<1> HIDE DEF x1, x2, x3, y1, y2, y3
<1>5. Agree(x3, y3, k - 1) /\ (x3 = y3 => s = s2)
  BY <1>3, <1>4, <1>10, BackOne
<1>6. Agree(x2, y2, k - 2) /\ (x2 = y2 => r = r2)
  <2>1. Agree(Shifted(x2, r), Shifted(y2, r2), k - 1)
    BY <1>5 DEF x3, y3
  <2> QED BY <1>2, <2>1, <1>10, BackOne
<1>7. Agree(x1, y1, k - 3) /\ (x1 = y1 => q = q2)
  <2>1. Agree(Shifted(x1, q), Shifted(y1, q2), k - 2)
    BY <1>6 DEF x2, y2
  <2> QED BY <1>1, <2>1, <1>10, BackOne
<1>8. Agree(x, y, k - 4) /\ (x = y => p = p2)
  <2>1. Agree(Shifted(x, p), Shifted(y, p2), k - 3)
    BY <1>7 DEF x1, y1
  <2> QED BY <2>1, <1>10, BackOne
<1>9. x = y => x1 = y1 /\ x2 = y2 /\ x3 = y3
  BY <1>5, <1>6, <1>7, <1>8 DEF x1, x2, x3, y1, y2, y3
<1> QED BY <1>5, <1>6, <1>7, <1>8, <1>9, <1>13

(* The same of numbers, and half bytes. *)
LEMMA AlikeIs ==
  /\ \A c \in Word16 : Alike(c, c, 16)
  /\ \A c, d : Alike(c, d, 16) => c = d
<1>1. \A c \in Word16 : Alike(c, c, 16)
  BY NumberIs DEF Alike, Agree
<1>2. ASSUME NEW c, NEW d, Alike(c, d, 16) PROVE c = d
  <2>1. PICK x, y \in Wide : c = Number(x) /\ d = Number(y) /\ Agree(x, y, 16)
    BY <1>2 DEF Alike
  <2>2. \A i \in Places : x[i] = y[i]
    BY <2>1 DEF Agree, Places
  <2>3. x = y
    BY <2>2 DEF Wide
  <2> QED BY <2>1, <2>3
<1> QED BY <1>1, <1>2

LEMMA NibbleBack ==
  ASSUME NEW c \in Word16, NEW d \in Word16, NEW n \in Nibble, NEW m \in Nibble, NEW k \in 4 .. 16,
         Alike(NibbleStep(c, n), NibbleStep(d, m), k)
  PROVE  Alike(c, d, k - 4) /\ (c = d => n = m)
<1>1. PICK a, b \in Wide : c = Number(a) /\ d = Number(b)
  BY NumberIs
<1>2. PICK x, y \in Wide : NibbleStep(c, n) = Number(x) /\ NibbleStep(d, m) = Number(y) /\ Agree(x, y, k)
  BY DEF Alike
<1>3. x = Half(a, n) /\ y = Half(b, m)
  <2>1. /\ NibbleStep(c, n) = Number(Half(a, n)) /\ Half(a, n) \in Wide
        /\ NibbleStep(d, m) = Number(Half(b, m)) /\ Half(b, m) \in Wide
    BY <1>1, NibbleStepIs DEF Half
  <2> QED BY <1>2, <2>1, NumberOnce
<1>4. Agree(a, b, k - 4) /\ (a = b => n = m)
  BY <1>2, <1>3, BackFour
<1>5. c = d => a = b
  BY <1>1, NumberOnce
<1> QED BY <1>1, <1>4, <1>5 DEF Alike

(* A half byte does not make registers equal that are not. *)
LEMMA NibbleOnce ==
  ASSUME NEW c \in Word16, NEW d \in Word16, NEW n \in Nibble, NibbleStep(c, n) = NibbleStep(d, n)
  PROVE  c = d
<1>1. PICK a, b \in Wide : c = Number(a) /\ d = Number(b)
  BY NumberIs
<1>2. PICK p, q, r, s \in Bit : p = n \div 8 /\ q = (n \div 4) % 2 /\ r = (n \div 2) % 2 /\ s = n % 2
  BY NibbleDigits
<1>3. /\ NibbleStep(c, n) = Number(Four(a, p, q, r, s)) /\ Four(a, p, q, r, s) \in Wide
      /\ NibbleStep(d, n) = Number(Four(b, p, q, r, s)) /\ Four(b, p, q, r, s) \in Wide
  BY <1>1, <1>2, NibbleStepIs
<1>4. Four(a, p, q, r, s) = Four(b, p, q, r, s)
  BY <1>3, NumberOnce
<1>5. ASSUME NEW x \in Wide, NEW y \in Wide, NEW w \in Bit, Shifted(x, w) = Shifted(y, w) PROVE x = y
  <2>1. Agree(Shifted(x, w), Shifted(y, w), 16) /\ 16 \in 1 .. 16
    BY <1>5 DEF Agree
  <2>2. Agree(x, y, 16 - 1) /\ Digit(x[15], w) = Digit(y[15], w)
    BY <2>1, BackOne
  <2>3. x[15] \in Bit /\ y[15] \in Bit
    BY DigitsIn
  <2>4. x[15] = y[15]
    BY <2>2, <2>3, DigitOnce
  <2>5. \A i \in Places : i < 16 - 1 \/ i = 15
    BY DEF Places
  <2>6. \A i \in Places : x[i] = y[i]
    BY <2>2, <2>4, <2>5 DEF Agree
  <2> QED BY <2>6 DEF Wide
<1> DEFINE a1 == Shifted(a, p)
           a2 == Shifted(a1, q)
           a3 == Shifted(a2, r)
           b1 == Shifted(b, p)
           b2 == Shifted(b1, q)
           b3 == Shifted(b2, r)
<1>6. a1 \in Wide /\ b1 \in Wide
  BY ShiftedIs
<1>7. a2 \in Wide /\ b2 \in Wide
  BY <1>6, ShiftedIs
<1>8. a3 \in Wide /\ b3 \in Wide
  BY <1>7, ShiftedIs
<1>9. Shifted(a3, s) = Shifted(b3, s)
  BY <1>4 DEF Four
<1>10. a3 = b3
  BY <1>5, <1>8, <1>9
<1>11. a2 = b2
  BY <1>5, <1>7, <1>10
<1>12. a1 = b1
  BY <1>5, <1>6, <1>11
<1>13. a = b
  BY <1>5, <1>12
<1> QED BY <1>1, <1>13

(* A message that ends with the register it has led to ends with an empty one. *)
LEMMA TopOff ==
  ASSUME NEW c \in Word16
  PROVE  NibbleStep(c, c \div 4096) = (16 * c) % 65536 /\ c \div 4096 \in Nibble /\ (16 * c) % 65536 \in Word16
<1>1. PICK b \in Wide : c = Number(b)
  BY NumberIs
<1> DEFINE n == c \div 4096
<1>2. n \in Nibble /\ (16 * c) % 65536 \in Word16
  BY DEF Word16, Nibble
<1> HIDE DEF n
<1>3. n = b[12] + 2 * b[13] + 4 * b[14] + 8 * b[15] /\ (16 * c) % 65536 = Number(UpFour(b))
  BY <1>1, SixteenTimes DEF n
<1>4. n \div 8 = b[15] /\ (n \div 4) % 2 = b[14] /\ (n \div 2) % 2 = b[13] /\ n % 2 = b[12]
  <2>1. PICK p, q, r, s \in Bit : p = b[15] /\ q = b[14] /\ r = b[13] /\ s = b[12]
    BY DigitsIn
  <2>2. n = s + 2 * r + 4 * q + 8 * p
    BY <1>3, <2>1
  <2>3. n \div 8 = p /\ (n \div 4) % 2 = q /\ (n \div 2) % 2 = r /\ n % 2 = s
    BY <2>2 DEF Bit
  <2> QED BY <2>1, <2>3
<1>5. NibbleStep(c, n) = Number(Four(b, b[15], b[14], b[13], b[12]))
  <2>1. NibbleStep(c, n) = Number(Four(b, n \div 8, (n \div 4) % 2, (n \div 2) % 2, n % 2))
    BY <1>1, <1>2, NibbleStepIs
  <2> QED BY <1>4, <2>1
<1>6. ASSUME NEW x \in Wide PROVE Shifted(x, x[15]) = Up(x)
  <2>1. x[15] \in Bit
    BY DigitsIn
  <2>2. Digit(x[15], x[15]) = 0 /\ \A i \in Places : i # 0 => Digit(x[i - 1], 0) = x[i - 1]
    BY <2>1, WideAt, DigitLaws
  <2> QED BY <2>2 DEF Shifted, Fed, Up
<1>7. Four(b, b[15], b[14], b[13], b[12]) = UpFour(b)
  <2> DEFINE v == Up(b)
             w == Up(v)
             z == Up(w)
  <2>1. v \in Wide /\ v[15] = b[14] /\ w[15] = b[13] /\ z[15] = b[12]
    BY UpIs, UpFourIs
  <2>2. w \in Wide
    BY <2>1, UpIs
  <2>3. z \in Wide
    BY <2>2, UpIs
  <2> HIDE DEF v, w, z
  <2>4. /\ Shifted(b, b[15]) = v /\ Shifted(v, b[14]) = w /\ Shifted(w, b[13]) = z /\ Shifted(z, b[12]) = Up(z)
    BY <1>6, <2>1, <2>2, <2>3 DEF v, w, z
  <2> QED BY <2>4, Zenon DEF Four, UpFour, v, w, z
<1> QED BY <1>2, <1>3, <1>5, <1>7 DEF n

(***************************************************************************)
(* Two messages of one length whose half bytes differ in four neighbours at *)
(* most lead to different registers.                                        *)
(***************************************************************************)

(* G is what the register holds after each half byte of N. *)
Registers(G, N, n) == /\ N \in [1 .. n -> Nibble] /\ G \in [0 .. n -> Word16] /\ G[0] = 0
                      /\ \A j \in 1 .. n : G[j] = NibbleStep(G[j - 1], N[j])

(* Two messages whose half bytes differ in four neighbours at most and lead to
   one register are equal: going back from the end, the registers agree in
   sixteen, twelve, eight and four digits, and before the first difference in
   all of them. *)
SameBut(N, M, n, k) == \A j \in 1 .. n : j \notin k + 1 .. k + 4 => N[j] = M[j]

LEMMA Burst ==
  ASSUME NEW n \in Nat, NEW N, NEW M, NEW G, NEW K, Registers(G, N, n), Registers(K, M, n), G[n] = K[n],
         NEW k \in 0 .. n - 4, SameBut(N, M, n, k)
  PROVE  N = M
<1>0. /\ N \in [1 .. n -> Nibble] /\ M \in [1 .. n -> Nibble]
      /\ G \in [0 .. n -> Word16] /\ K \in [0 .. n -> Word16]
      /\ G[0] = K[0] /\ G[n] = K[n]
      /\ \A j \in 1 .. n : G[j] = NibbleStep(G[j - 1], N[j])
      /\ \A j \in 1 .. n : K[j] = NibbleStep(K[j - 1], M[j])
      /\ \A j \in 1 .. n : j \notin k + 1 .. k + 4 => N[j] = M[j]
  BY DEF Registers, SameBut
<1> USE <1>0
<1>1. ASSUME NEW j \in 1 .. n, G[j - 1] = K[j - 1], N[j] = M[j] PROVE G[j] = K[j]
  BY <1>1
<1>2. ASSUME NEW j \in 1 .. n, G[j] = K[j], N[j] = M[j] PROVE G[j - 1] = K[j - 1]
  <2>1. G[j - 1] \in Word16 /\ K[j - 1] \in Word16 /\ N[j] \in Nibble
    OBVIOUS
  <2>2. NibbleStep(G[j - 1], N[j]) = NibbleStep(K[j - 1], N[j])
    BY <1>2
  <2> QED BY <2>1, <2>2, NibbleOnce
(* Up to the difference the registers are equal. *)
<1>3. G[k] = K[k]
  <2> DEFINE S == {i \in 0 .. k : G[i] = K[i]}
  <2>1. 0 \in S
    OBVIOUS
  <2>2. ASSUME NEW i \in 1 .. k, i - 1 \in S PROVE i \in S
    <3>1. i \in 1 .. n /\ i \notin k + 1 .. k + 4
      OBVIOUS
    <3> QED BY <1>1, <2>2, <3>1
  <2> HIDE DEF S
  <2>3. k \in Nat
    OBVIOUS
  <2>4. \A i \in 0 .. k : i \in S
    BY <2>1, <2>2, <2>3, ByRounds
  <2>5. k \in S
    BY <2>3, <2>4
  <2> QED BY <2>5 DEF S
(* ... and from its end on. *)
<1>4. G[k + 4] = K[k + 4]
  <2> DEFINE S == {i \in 0 .. n - (k + 4) : G[n - i] = K[n - i]}
  <2>1. 0 \in S
    OBVIOUS
  <2>2. ASSUME NEW i \in 1 .. n - (k + 4), i - 1 \in S PROVE i \in S
    <3> DEFINE j == n - (i - 1)
    <3>1. j \in 1 .. n /\ j \notin k + 1 .. k + 4 /\ j - 1 = n - i
      OBVIOUS
    <3>2. G[j] = K[j]
      BY <2>2
    <3> HIDE DEF j
    <3>3. N[j] = M[j]
      BY <3>1
    <3>4. G[j - 1] = K[j - 1]
      BY <1>2, <3>1, <3>2, <3>3
    <3>5. i \in 0 .. n - (k + 4)
      OBVIOUS
    <3>6. G[n - i] = K[n - i]
      BY <3>1, <3>4, Zenon
    <3> QED BY <3>5, <3>6
  <2> HIDE DEF S
  <2>3. n - (k + 4) \in Nat
    OBVIOUS
  <2>4. \A i \in 0 .. n - (k + 4) : i \in S
    BY <2>1, <2>2, <2>3, ByRounds
  <2>5. n - (k + 4) \in S
    BY <2>3, <2>4
  <2> QED BY <2>5 DEF S
<1>5. /\ k + 1 \in 1 .. n /\ k + 2 \in 1 .. n /\ k + 3 \in 1 .. n /\ k + 4 \in 1 .. n
      /\ (k + 1) - 1 = k /\ (k + 2) - 1 = k + 1 /\ (k + 3) - 1 = k + 2 /\ (k + 4) - 1 = k + 3
      /\ k \in 0 .. n /\ k + 1 \in 0 .. n /\ k + 2 \in 0 .. n /\ k + 3 \in 0 .. n
  OBVIOUS
<1>6. /\ G[k + 1] = NibbleStep(G[k], N[k + 1]) /\ G[k + 2] = NibbleStep(G[k + 1], N[k + 2])
      /\ G[k + 3] = NibbleStep(G[k + 2], N[k + 3]) /\ G[k + 4] = NibbleStep(G[k + 3], N[k + 4])
  BY <1>5
<1>7. /\ K[k + 1] = NibbleStep(K[k], M[k + 1]) /\ K[k + 2] = NibbleStep(K[k + 1], M[k + 2])
      /\ K[k + 3] = NibbleStep(K[k + 2], M[k + 3]) /\ K[k + 4] = NibbleStep(K[k + 3], M[k + 4])
  BY <1>5
<1>8. /\ G[k] \in Word16 /\ G[k + 1] \in Word16 /\ G[k + 2] \in Word16 /\ G[k + 3] \in Word16 /\ G[k + 4] \in Word16
      /\ K[k] \in Word16 /\ K[k + 1] \in Word16 /\ K[k + 2] \in Word16 /\ K[k + 3] \in Word16 /\ K[k + 4] \in Word16
      /\ N[k + 1] \in Nibble /\ N[k + 2] \in Nibble /\ N[k + 3] \in Nibble /\ N[k + 4] \in Nibble
      /\ M[k + 1] \in Nibble /\ M[k + 2] \in Nibble /\ M[k + 3] \in Nibble /\ M[k + 4] \in Nibble
  BY <1>5
<1>9. Alike(G[k + 4], K[k + 4], 16) /\ 16 \in 4 .. 16 /\ 16 - 4 = 12
  BY <1>4, <1>8, AlikeIs
<1>10. Alike(G[k + 3], K[k + 3], 12) /\ (G[k + 3] = K[k + 3] => N[k + 4] = M[k + 4])
  BY <1>6, <1>7, <1>8, <1>9, NibbleBack
<1>11. Alike(G[k + 2], K[k + 2], 8) /\ (G[k + 2] = K[k + 2] => N[k + 3] = M[k + 3])
  <2>1. 12 \in 4 .. 16 /\ 12 - 4 = 8
    OBVIOUS
  <2> QED BY <1>6, <1>7, <1>8, <1>10, <2>1, NibbleBack
<1>12. Alike(G[k + 1], K[k + 1], 4) /\ (G[k + 1] = K[k + 1] => N[k + 2] = M[k + 2])
  <2>1. 8 \in 4 .. 16 /\ 8 - 4 = 4
    OBVIOUS
  <2> QED BY <1>6, <1>7, <1>8, <1>11, <2>1, NibbleBack
<1>13. N[k + 1] = M[k + 1]
  <2>1. 4 \in 4 .. 16
    OBVIOUS
  <2> QED BY <1>3, <1>6, <1>7, <1>8, <1>12, <2>1, NibbleBack
<1>14. N[k + 2] = M[k + 2] /\ N[k + 3] = M[k + 3] /\ N[k + 4] = M[k + 4]
  <2>1. G[k + 1] = K[k + 1]
    BY <1>3, <1>6, <1>7, <1>13
  <2>2. N[k + 2] = M[k + 2] /\ G[k + 2] = K[k + 2]
    BY <1>6, <1>7, <1>12, <2>1
  <2>3. N[k + 3] = M[k + 3] /\ G[k + 3] = K[k + 3]
    BY <1>6, <1>7, <1>11, <2>2
  <2> QED BY <1>10, <2>2, <2>3
<1>15. \A j \in k + 1 .. k + 4 : j = k + 1 \/ j = k + 2 \/ j = k + 3 \/ j = k + 4
  OBVIOUS
<1>16. \A j \in 1 .. n : N[j] = M[j]
  BY <1>13, <1>14, <1>15
<1> QED BY <1>16

(* Carrying a byte's halves through a word. *)
LEMMA WordCut ==
  \A h, z \in Int : 0 <= z /\ z < 65536 => (65536 * h + z) % 65536 = z
  OBVIOUS

(* A number cut into its halves. *)
LEMMA TopCut ==
  \A h, z \in Int : 0 <= z /\ z < 4096 => (4096 * h + z) \div 4096 = h
  OBVIOUS

LEMMA ByteCut ==
  \A x \in Byte : /\ x \div 16 \in Nibble /\ x % 16 \in Nibble /\ x = 16 * (x \div 16) + (x % 16)
  BY DEF Byte, Nibble

(* The half bytes of a message. *)
HalfOf(d, j) == IF j % 2 = 1 THEN d[(j + 1) \div 2] \div 16 ELSE d[j \div 2] % 16

(* Two messages whose half bytes agree, but for four that follow each other. *)
Near(d, e, t) == \E k \in 0 .. t - 4 : \A j \in 1 .. t : j \notin k + 1 .. k + 4 => HalfOf(d, j) = HalfOf(e, j)

(* The registers after each of them. *)
LEMMA Halves ==
  ASSUME NEW n \in Nat, NEW d \in [1 .. n -> Byte]
  PROVE  \E G \in [0 .. 2 * n -> Word16] :
            /\ G[0] = 0 /\ G[2 * n] = lora_crc16(d)
            /\ \A j \in 1 .. 2 * n : HalfOf(d, j) \in Nibble /\ G[j] = NibbleStep(G[j - 1], HalfOf(d, j))
<1>1. PICK c \in [0 .. n -> Word16] : /\ c[0] = 0 /\ c[n] = lora_crc16(d)
                                      /\ \A i \in 1 .. n : c[i] = ByteStep(c[i - 1], d[i])
  BY CrcIs
<1> DEFINE G == [j \in 0 .. 2 * n |-> IF j % 2 = 0 THEN c[j \div 2] ELSE NibbleStep(c[j \div 2], HalfOf(d, j))]
<1>2. \A j \in 1 .. 2 * n : HalfOf(d, j) \in Nibble
  <2> SUFFICES ASSUME NEW j \in 1 .. 2 * n PROVE HalfOf(d, j) \in Nibble
    OBVIOUS
  <2>1. j % 2 = 1 => (j + 1) \div 2 \in 1 .. n
    OBVIOUS
  <2>2. j % 2 # 1 => j \div 2 \in 1 .. n
    OBVIOUS
  <2>3. \A x \in Byte : x \div 16 \in Nibble /\ x % 16 \in Nibble
    BY DEF Byte, Nibble
  <2> QED BY <2>1, <2>2, <2>3 DEF HalfOf
<1>3. \A j \in 0 .. 2 * n : j \div 2 \in 0 .. n
  OBVIOUS
<1>4. G \in [0 .. 2 * n -> Word16]
  <2> SUFFICES ASSUME NEW j \in 0 .. 2 * n
               PROVE  (IF j % 2 = 0 THEN c[j \div 2] ELSE NibbleStep(c[j \div 2], HalfOf(d, j))) \in Word16
    OBVIOUS
  <2>1. c[j \div 2] \in Word16
    BY <1>3
  <2>2. j % 2 # 0 => j \in 1 .. 2 * n
    OBVIOUS
  <2> QED BY <1>2, <2>1, <2>2, NibbleStepIn
<1>5. G[0] = 0 /\ G[2 * n] = lora_crc16(d)
  <2>1. 0 \in 0 .. 2 * n /\ 2 * n \in 0 .. 2 * n /\ 0 % 2 = 0 /\ (2 * n) % 2 = 0 /\ 0 \div 2 = 0 /\ (2 * n) \div 2 = n
    OBVIOUS
  <2> QED BY <1>1, <2>1
<1>6. ASSUME NEW j \in 1 .. 2 * n PROVE G[j] = NibbleStep(G[j - 1], HalfOf(d, j))
  <2>1. j \in 0 .. 2 * n /\ j - 1 \in 0 .. 2 * n
    OBVIOUS
  <2>2. CASE j % 2 = 1
    <3>1. (j - 1) % 2 = 0 /\ (j - 1) \div 2 = j \div 2
      BY <2>2
    <3> QED BY <2>1, <2>2, <3>1
  <2>3. CASE j % 2 = 0
    <3> DEFINE i == j \div 2
    <3>1. i \in 1 .. n /\ (j - 1) % 2 = 1 /\ (j - 1) \div 2 = i - 1 /\ ((j - 1) + 1) \div 2 = i
      BY <2>3
    <3> HIDE DEF i
    <3>2. c[i] = ByteStep(c[i - 1], d[i])
      BY <1>1, <3>1
    <3>3. c[i - 1] \in Word16 /\ d[i] \in Byte
      BY <3>1
    <3>4. c[i] = NibbleStep(NibbleStep(c[i - 1], d[i] \div 16), d[i] % 16)
      BY <3>2, <3>3, ByteStepIs
    <3>5. HalfOf(d, j - 1) = d[i] \div 16 /\ HalfOf(d, j) = d[i] % 16
      BY <2>3, <3>1 DEF HalfOf, i
    <3>6. G[j - 1] = NibbleStep(c[i - 1], d[i] \div 16)
      BY <2>1, <3>1, <3>5
    <3>7. G[j] = c[i]
      BY <2>1, <2>3 DEF i
    <3> QED BY <3>4, <3>5, <3>6, <3>7
  <2> QED BY <2>2, <2>3
<1> HIDE DEF G
<1> QED BY <1>2, <1>4, <1>5, <1>6

(* The checksum of messages of bytes finds any such difference. *)
THEOREM CrcFindsBursts ==
  \A n \in Nat : \A d, e \in [1 .. n -> Byte] :
    lora_crc16(d) = lora_crc16(e) /\ Near(d, e, 2 * n) => d = e
<1> SUFFICES ASSUME NEW n \in Nat, NEW d \in [1 .. n -> Byte], NEW e \in [1 .. n -> Byte],
                    lora_crc16(d) = lora_crc16(e), Near(d, e, 2 * n)
             PROVE  d = e
  BY Zenon
<1>0. PICK k \in 0 .. 2 * n - 4 : \A j \in 1 .. 2 * n : j \notin k + 1 .. k + 4 => HalfOf(d, j) = HalfOf(e, j)
  BY Zenon DEF Near
<1>1. PICK G \in [0 .. 2 * n -> Word16] :
         /\ G[0] = 0 /\ G[2 * n] = lora_crc16(d)
         /\ \A j \in 1 .. 2 * n : HalfOf(d, j) \in Nibble /\ G[j] = NibbleStep(G[j - 1], HalfOf(d, j))
  BY Halves
<1>2. PICK K \in [0 .. 2 * n -> Word16] :
         /\ K[0] = 0 /\ K[2 * n] = lora_crc16(e)
         /\ \A j \in 1 .. 2 * n : HalfOf(e, j) \in Nibble /\ K[j] = NibbleStep(K[j - 1], HalfOf(e, j))
  BY Halves
<1> DEFINE N == [j \in 1 .. 2 * n |-> HalfOf(d, j)]
           M == [j \in 1 .. 2 * n |-> HalfOf(e, j)]
           m == 2 * n
<1>3. /\ N \in [1 .. m -> Nibble] /\ M \in [1 .. m -> Nibble] /\ m \in Nat
      /\ \A j \in 1 .. m : N[j] = HalfOf(d, j) /\ M[j] = HalfOf(e, j)
  BY <1>1, <1>2
<1> HIDE DEF N, M
<1>4. /\ \A j \in 1 .. m : G[j] = NibbleStep(G[j - 1], N[j])
      /\ \A j \in 1 .. m : K[j] = NibbleStep(K[j - 1], M[j])
      /\ \A j \in 1 .. m : j \notin k + 1 .. k + 4 => N[j] = M[j]
  BY <1>0, <1>1, <1>2, <1>3
<1>5. G[0] = 0 /\ K[0] = 0 /\ G[m] = K[m] /\ G \in [0 .. m -> Word16] /\ K \in [0 .. m -> Word16] /\ k \in 0 .. m - 4
  BY <1>1, <1>2
<1> HIDE DEF m
<1>8. Registers(G, N, m) /\ Registers(K, M, m) /\ SameBut(N, M, m, k)
  BY <1>3, <1>4, <1>5 DEF Registers, SameBut
<1>6. N = M
  BY <1>3, <1>5, <1>8, Burst
<1>7. ASSUME NEW i \in 1 .. n PROVE d[i] = e[i]
  <2>1. 2 * i \in 1 .. m /\ 2 * i - 1 \in 1 .. m /\ (2 * i) % 2 = 0 /\ (2 * i - 1) % 2 = 1
        /\ ((2 * i - 1) + 1) \div 2 = i /\ (2 * i) \div 2 = i
    BY DEF m
  <2>4. HalfOf(d, 2 * i) = HalfOf(e, 2 * i) /\ HalfOf(d, 2 * i - 1) = HalfOf(e, 2 * i - 1)
    BY <1>3, <1>6, <2>1
  <2>5. 0 # 1
    OBVIOUS
  <2>2. d[i] \div 16 = e[i] \div 16 /\ d[i] % 16 = e[i] % 16
    BY <2>1, <2>4, <2>5, Zenon DEF HalfOf
  <2>3. d[i] \in Byte /\ e[i] \in Byte
    OBVIOUS
  <2> QED BY <2>2, <2>3, ByteCut, Zenon
<1> QED BY <1>7

(* A message followed by its own CRC has a CRC of zero. *)
Closed(d, p, n) == (\A i \in 1 .. n : d[i] = p[i]) /\ lora_crc16(p) = 256 * d[n + 1] + d[n + 2]

(* A message with its own checksum behind it has the checksum 0. *)
LEMMA CrcEnds ==
  ASSUME NEW n \in Nat, NEW p \in [1 .. n -> Byte], NEW d \in [1 .. n + 2 -> Byte], Closed(d, p, n)
  PROVE  lora_crc16(d) = 0
<1> USE DEF Closed
<1>1. PICK c \in [0 .. n -> Word16] : /\ c[0] = 0 /\ c[n] = lora_crc16(p)
                                      /\ \A i \in 1 .. n : c[i] = ByteStep(c[i - 1], p[i])
  BY CrcIs
<1>2. PICK e \in [0 .. n + 2 -> Word16] : /\ e[0] = 0 /\ e[n + 2] = lora_crc16(d)
                                          /\ \A i \in 1 .. n + 2 : e[i] = ByteStep(e[i - 1], d[i])
  <2>1. n + 2 \in Nat
    OBVIOUS
  <2> QED BY <2>1, CrcIs
<1>3. e[n] = c[n]
  <2> DEFINE S == {i \in 0 .. n : e[i] = c[i]}
  <2>1. 0 \in S
    BY <1>1, <1>2
  <2>2. ASSUME NEW i \in 1 .. n, i - 1 \in S PROVE i \in S
    <3>1. i \in 1 .. n + 2 /\ i \in 0 .. n
      OBVIOUS
    <3>2. c[i] = ByteStep(c[i - 1], p[i]) /\ e[i] = ByteStep(e[i - 1], d[i]) /\ d[i] = p[i]
      BY <1>1, <1>2, <3>1
    <3> QED BY <2>2, <3>1, <3>2
  <2> HIDE DEF S
  <2>3. \A i \in 0 .. n : i \in S
    BY <2>1, <2>2, ByRounds
  <2> QED BY <2>3 DEF S
<1> DEFINE C == c[n]
           hi == d[n + 1]
           lo == d[n + 2]
<1>4. C \in Word16 /\ hi \in Byte /\ lo \in Byte /\ C = 256 * hi + lo
  BY <1>1
<1>5. lora_crc16(d) = ByteStep(ByteStep(C, hi), lo)
  <2>1. n + 1 \in 1 .. n + 2 /\ n + 2 \in 1 .. n + 2 /\ (n + 1) - 1 = n /\ (n + 2) - 1 = n + 1
    OBVIOUS
  <2> QED BY <1>2, <1>3, <2>1
<1> HIDE DEF C, hi, lo
<1> DEFINE A == (16 * C) % 65536
           B == (16 * A) % 65536
           D == (16 * B) % 65536
<1>6. A \in Word16 /\ NibbleStep(C, C \div 4096) = A
  <2>1. C \in Word16
    BY <1>4
  <2> QED BY ONLY <2>1, TopOff
<1>7. B \in Word16 /\ NibbleStep(A, A \div 4096) = B
  <2> HIDE DEF A
  <2> QED BY <1>6, TopOff
<1>8. D \in Word16 /\ NibbleStep(B, B \div 4096) = D
  <2> HIDE DEF A, B
  <2> QED BY <1>7, TopOff
<1>9. NibbleStep(D, D \div 4096) = (16 * D) % 65536
  <2> HIDE DEF A, B, D
  <2> QED BY <1>8, TopOff
<1>10. A = (16 * C) % 65536 /\ B = (16 * A) % 65536 /\ D = (16 * B) % 65536
  OBVIOUS
<1> HIDE DEF A, B, D
<1>11. C \div 4096 = hi \div 16 /\ A \div 4096 = hi % 16 /\ B = 256 * lo
  <2> DEFINE h == hi \div 16
             l == hi % 16
  <2>1. h \in Nibble /\ l \in Nibble /\ hi = 16 * h + l
    BY <1>4, ByteCut
  <2> HIDE DEF h, l
  <2>2. h \in Int /\ l \in Int /\ lo \in Int /\ 0 <= l /\ l < 16 /\ 0 <= lo /\ lo < 256
    BY <1>4, <2>1 DEF Byte, Nibble
  <2> DEFINE z == 256 * l + lo
             y == 4096 * l + 16 * lo
             x == 256 * lo
  <2>3. /\ z \in Int /\ 0 <= z /\ z < 4096 /\ C = 4096 * h + z
        /\ y \in Int /\ 0 <= y /\ y < 65536 /\ 16 * C = 65536 * h + y /\ 16 * y = 65536 * l + x
        /\ x \in Int /\ 0 <= x /\ x < 65536
        /\ 16 * lo \in Int /\ 0 <= 16 * lo /\ 16 * lo < 4096
    BY <1>4, <2>1, <2>2
  <2>4. y = 4096 * l + 16 * lo /\ x = 256 * lo
    OBVIOUS
  <2> HIDE DEF x, y, z
  <2>5. C \div 4096 = h
    BY <2>2, <2>3, TopCut
  <2>6. A = y
    BY <1>10, <2>2, <2>3, WordCut
  <2>7. A \div 4096 = l
    BY <2>2, <2>3, <2>4, <2>6, TopCut
  <2>8. B = x
    BY <1>10, <2>2, <2>3, <2>6, WordCut
  <2> QED BY <2>4, <2>5, <2>7, <2>8 DEF h, l
<1>12. B \div 4096 = lo \div 16 /\ D \div 4096 = lo % 16 /\ (16 * D) % 65536 = 0
  <2> DEFINE h == lo \div 16
             l == lo % 16
  <2>1. h \in Nibble /\ l \in Nibble /\ lo = 16 * h + l
    BY <1>4, ByteCut
  <2> HIDE DEF h, l
  <2>2. h \in Int /\ l \in Int /\ 0 <= l /\ l < 16
    BY <2>1 DEF Nibble
  <2> DEFINE z == 256 * l
             y == 4096 * l
  <2>3. /\ z \in Int /\ 0 <= z /\ z < 4096 /\ B = 4096 * h + z
        /\ y \in Int /\ 0 <= y /\ y < 65536 /\ 16 * B = 65536 * h + y /\ 16 * y = 65536 * l + 0
        /\ y = 4096 * l + 0 /\ 0 <= 0 /\ 0 < 65536 /\ 0 < 4096 /\ 0 \in Int
    BY <1>11, <2>1, <2>2
  <2> HIDE DEF y, z
  <2>5. B \div 4096 = h
    BY <2>2, <2>3, TopCut
  <2>6. D = y
    <3>1. 16 * B = 65536 * h + y
      BY <2>3
    <3>2. (65536 * h + y) % 65536 = y
      BY <2>2, <2>3, WordCut
    <3> QED BY <1>10, <3>1, <3>2
  <2>7. D \div 4096 = l
    BY <2>2, <2>3, <2>6, TopCut
  <2>8. (16 * D) % 65536 = 0
    BY <2>2, <2>3, <2>6, WordCut
  <2> QED BY <2>5, <2>7, <2>8 DEF h, l
<1>13. ByteStep(C, hi) = B
  <2>1. ByteStep(C, hi) = NibbleStep(NibbleStep(C, hi \div 16), hi % 16)
    BY <1>4, ByteStepIs
  <2> QED BY <1>6, <1>7, <1>11, <2>1
<1>14. ByteStep(B, lo) = 0
  <2>1. ByteStep(B, lo) = NibbleStep(NibbleStep(B, lo \div 16), lo % 16)
    BY <1>4, <1>7, ByteStepIs
  <2> QED BY <1>8, <1>9, <1>12, <2>1
<1> QED BY <1>5, <1>13, <1>14
-----------------------------------------------------------------------------
(***************************************************************************)
(* The Hamming code.                                                        *)
(***************************************************************************)

(* Four bits, and three, as a number. *)
LEMMA FourBits ==
  ASSUME NEW x \in [1 .. 4 -> Bit]
  PROVE  FromMsb(x) = 8 * x[1] + 4 * x[2] + 2 * x[3] + x[4]
<1>1. PICK c \in [0 .. 4 -> Nat] : /\ c[0] = 0 /\ c[4] = FromMsb(x)
                                   /\ \A i \in 1 .. 4 : c[i] = 2 * c[i - 1] + x[i]
  BY FromMsbIs
<1>2. c[1] = 2 * c[1 - 1] + x[1] /\ c[2] = 2 * c[2 - 1] + x[2] /\ c[3] = 2 * c[3 - 1] + x[3] /\ c[4] = 2 * c[4 - 1] + x[4]
  BY <1>1
<1>3. x[1] \in Int /\ x[2] \in Int /\ x[3] \in Int /\ x[4] \in Int
  BY DEF Bit
<1> QED BY <1>1, <1>2, <1>3

(* Three bits, the lowest first. *)
LEMMA ThreeBits ==
  ASSUME NEW x \in [1 .. 3 -> Bit]
  PROVE  FromLsb(x) = x[1] + 2 * x[2] + 4 * x[3]
<1> DEFINE y == Reverse(x)
<1>1. Len(x) = 3
  BY ArraySeq
<1>2. y \in [1 .. 3 -> Bit] /\ y[1] = x[3] /\ y[2] = x[2] /\ y[3] = x[1]
  BY <1>1 DEF Reverse
<1> HIDE DEF y
<1>3. PICK c \in [0 .. 3 -> Nat] : /\ c[0] = 0 /\ c[3] = FromMsb(y)
                                   /\ \A i \in 1 .. 3 : c[i] = 2 * c[i - 1] + y[i]
  BY <1>2, FromMsbIs
<1>4. c[1] = 2 * c[1 - 1] + y[1] /\ c[2] = 2 * c[2 - 1] + y[2] /\ c[3] = 2 * c[3 - 1] + y[3]
  BY <1>3
<1>5. x[1] \in Int /\ x[2] \in Int /\ x[3] \in Int
  BY DEF Bit
<1>6. FromMsb(y) = x[1] + 2 * x[2] + 4 * x[3]
  BY <1>2, <1>3, <1>4, <1>5
<1> QED BY <1>6 DEF FromLsb, y

(* The exclusive or of four bits. *)
FourOdd(a, b, c, d) == (a + b + c + d) % 2

LEMMA FourOddIs == \A a, b, c, d \in Bit : FourOdd(a, b, c, d) \in Bit
  BY DEF FourOdd, Bit

(* The syndrome is the number that the three parities are. *)
LEMMA SyndromeIs ==
  ASSUME NEW w \in [1 .. 7 -> Bit]
  PROVE  /\ FourOdd(w[1], w[3], w[5], w[7]) \in Bit /\ FourOdd(w[2], w[3], w[6], w[7]) \in Bit
         /\ FourOdd(w[4], w[5], w[6], w[7]) \in Bit
         /\ Syndrome(w) = FourOdd(w[1], w[3], w[5], w[7]) + 2 * FourOdd(w[2], w[3], w[6], w[7])
                            + 4 * FourOdd(w[4], w[5], w[6], w[7])
         /\ Syndrome(w) \in 0 .. 7
<1> DEFINE a == FourOdd(w[1], w[3], w[5], w[7])
           b == FourOdd(w[2], w[3], w[6], w[7])
           c == FourOdd(w[4], w[5], w[6], w[7])
<1>1. a \in Bit /\ b \in Bit /\ c \in Bit
  <2>1. w[1] \in Bit /\ w[2] \in Bit /\ w[3] \in Bit /\ w[4] \in Bit /\ w[5] \in Bit /\ w[6] \in Bit /\ w[7] \in Bit
    OBVIOUS
  <2> QED BY <2>1, FourOddIs, Zenon
<1>2. Syndrome(w) = FromLsb(<<a, b, c>>)
  BY Zenon DEF Syndrome, FourOdd
<1> HIDE DEF a, b, c
<1> DEFINE x == <<a, b, c>>
<1>3. x \in [1 .. 3 -> Bit] /\ x[1] = a /\ x[2] = b /\ x[3] = c
  BY <1>1
<1> HIDE DEF x
<1>4. FromLsb(x) = a + 2 * b + 4 * c
  BY <1>3, ThreeBits
<1>5. a + 2 * b + 4 * c \in 0 .. 7
  BY <1>1 DEF Bit
<1> QED BY <1>1, <1>2, <1>4, <1>5 DEF a, b, c, x

(* The data bits of a codeword, and the half byte they are. *)
LEMMA DataIs ==
  ASSUME NEW w \in [1 .. 7 -> Bit]
  PROVE  DataBits(w) = 8 * w[3] + 4 * w[5] + 2 * w[6] + w[7] /\ DataBits(w) \in Nibble
<1> DEFINE x == <<w[3], w[5], w[6], w[7]>>
<1>1. x \in [1 .. 4 -> Bit] /\ x[1] = w[3] /\ x[2] = w[5] /\ x[3] = w[6] /\ x[4] = w[7]
  OBVIOUS
<1>2. DataBits(w) = FromMsb(x)
  BY DEF DataBits
<1> HIDE DEF x
<1>3. FromMsb(x) = 8 * w[3] + 4 * w[5] + 2 * w[6] + w[7]
  BY <1>1, FourBits
<1>4. w[3] \in Bit /\ w[5] \in Bit /\ w[6] \in Bit /\ w[7] \in Bit
  OBVIOUS
<1> QED BY <1>2, <1>3, <1>4 DEF Bit, Nibble

(* Whatever word was completed, the outcome is four bits; they are those of
   the word where its parities are right. *)
WordNibble(w) == DataBits(Corrected(w, Syndrome(w)))

(* What a codeword of seven bits is decoded to. *)
LEMMA WordNibbleIs ==
  ASSUME NEW w \in [1 .. 7 -> Bit]
  PROVE  WordNibble(w) \in Nibble /\ (Syndrome(w) = 0 => WordNibble(w) = 8 * w[3] + 4 * w[5] + 2 * w[6] + w[7])
<1>1. Len(w) = 7
  BY ArraySeq
<1>2. Corrected(w, Syndrome(w)) \in [1 .. 7 -> Bit]
  <2>1. CASE Syndrome(w) = 0
    BY <2>1 DEF Corrected
  <2>2. CASE Syndrome(w) # 0
    <3>1. \A j \in 1 .. 7 : w[j] \in Bit /\ 1 - w[j] \in Bit
      BY DEF Bit
    <3>2. Flip(w, Syndrome(w)) \in [1 .. 7 -> Bit]
      BY <1>1, <3>1 DEF Flip
    <3> QED BY <2>2, <3>2 DEF Corrected
  <2> QED BY <2>1, <2>2
<1>3. WordNibble(w) \in Nibble
  BY <1>2, DataIs DEF WordNibble
<1>4. Syndrome(w) = 0 => WordNibble(w) = DataBits(w)
  BY DEF WordNibble, Corrected
<1> QED BY <1>3, <1>4, DataIs

(* The decoder completes what it got to seven bits first. *)
LEMMA DecodeIs == \A c, cr : lora_hamming_decode(c, cr) = WordNibble(Completed(c, cr))
<1> SUFFICES ASSUME NEW c, NEW cr PROVE lora_hamming_decode(c, cr) = WordNibble(Completed(c, cr))
  OBVIOUS
<1> DEFINE v == Completed(c, cr)
<1>1. lora_hamming_decode(c, cr) = (CHOOSE y \in {WordNibble(x) : x \in {v}} : TRUE)
  BY Zenon DEF lora_hamming_decode, Once, WordNibble
<1> HIDE DEF v
<1>2. {WordNibble(x) : x \in {v}} = {WordNibble(v)}
  OBVIOUS
<1>3. (CHOOSE y \in {WordNibble(v)} : TRUE) = WordNibble(v)
  BY OnlyOne, Zenon
<1> QED BY <1>1, <1>2, <1>3, Zenon DEF v

(* The codeword of a nibble, cut off. *)
Codes(r, cr, a, b, c, d) ==
  /\ r \in [1 .. 4 + cr -> Bit]
  /\ r[1] = (a + b + d) % 2 /\ r[2] = (a + c + d) % 2 /\ r[3] = a /\ r[4] = (b + c + d) % 2 /\ r[5] = b
  /\ (cr >= 2 => r[6] = c) /\ (cr >= 3 => r[7] = d)

(* Seven bits with the parity behind them. *)
LEMMA EighthBit ==
  \A v \in [1 .. 7 -> Bit], f \in Bit :
    \E w \in [1 .. 7 + 1 -> Bit] : w = Append(v, f) /\ (\A i \in 1 .. 7 : w[i] = v[i]) /\ w[7 + 1] = f
<1> SUFFICES ASSUME NEW v \in [1 .. 7 -> Bit], NEW f \in Bit
             PROVE  \E w \in [1 .. 7 + 1 -> Bit] : w = Append(v, f) /\ (\A i \in 1 .. 7 : w[i] = v[i]) /\ w[7 + 1] = f
  OBVIOUS
<1>1. 7 \in Nat
  OBVIOUS
<1> QED BY <1>1, OneMore

(* The encoder makes the codeword of the half byte, cut to 4 + cr bits. *)
LEMMA EncodeIs ==
  ASSUME NEW n \in Nibble, NEW cr \in 1 .. 4
  PROVE  \E a, b, c, d \in Bit : n = 8 * a + 4 * b + 2 * c + d /\ Codes(lora_hamming_encode(n, cr), cr, a, b, c, d)
<1> DEFINE m == Msb(n, 4)
<1>1. m = [i \in 1 .. 4 |-> BitOf(n, 4 - i)]
  BY DEF Msb
<1>2. m[1] = (n \div 8) % 2 /\ m[2] = (n \div 4) % 2 /\ m[3] = (n \div 2) % 2 /\ m[4] = n % 2
  <2>1. 4 - 1 = 3 /\ 4 - 2 = 2 /\ 4 - 3 = 1 /\ 4 - 4 = 0 /\ 2 ^ 3 = 8 /\ 2 ^ 2 = 4 /\ 2 ^ 1 = 2 /\ 2 ^ 0 = 1 /\ n \div 1 = n
    BY DEF Nibble
  <2>2. m[1] = BitOf(n, 4 - 1) /\ m[2] = BitOf(n, 4 - 2) /\ m[3] = BitOf(n, 4 - 3) /\ m[4] = BitOf(n, 4 - 4)
    BY <1>1
  <2> HIDE DEF m
  <2> QED BY <2>1, <2>2, Zenon DEF BitOf
<1>3. n = 8 * ((n \div 8) % 2) + 4 * ((n \div 4) % 2) + 2 * ((n \div 2) % 2) + (n % 2)
      /\ (n \div 8) % 2 \in Bit /\ (n \div 4) % 2 \in Bit /\ (n \div 2) % 2 \in Bit /\ n % 2 \in Bit
  BY DEF Nibble, Bit
<1> HIDE DEF m
<1>4. PICK a, b, c, d \in Bit : n = 8 * a + 4 * b + 2 * c + d /\ m[1] = a /\ m[2] = b /\ m[3] = c /\ m[4] = d
  BY <1>2, <1>3, Zenon
<1> DEFINE p1 == (a + b + d) % 2
           p2 == (a + c + d) % 2
           p3 == (b + c + d) % 2
           word == <<p1, p2, a, p3, b, c, d>>
           e == Parity(word)
           full == Append(word, e)
<1>5. p1 \in Bit /\ p2 \in Bit /\ p3 \in Bit
  BY DEF Bit
<1>6. lora_hamming_encode(n, cr) = SubSeq(full, 1, 4 + cr)
  BY <1>4, Zenon DEF lora_hamming_encode, m
<1> HIDE DEF p1, p2, p3
<1>7. /\ word \in [1 .. 7 -> Bit] /\ word[1] = p1 /\ word[2] = p2 /\ word[3] = a /\ word[4] = p3 /\ word[5] = b
      /\ word[6] = c /\ word[7] = d
  BY <1>5
<1> HIDE DEF word
<1>8. e \in Bit
  <2>1. PICK f \in [0 .. 7 -> Bit] : f[7] = Parity(word)
    BY <1>7, ParityIs
  <2> QED BY <2>1
<1> HIDE DEF e
<1>9. full = Append(word, e)
  OBVIOUS
<1> HIDE DEF full
<1>10. PICK w \in [1 .. 7 + 1 -> Bit] : w = Append(word, e) /\ (\A i \in 1 .. 7 : w[i] = word[i]) /\ w[7 + 1] = e
  BY <1>7, <1>8, EighthBit, Zenon
<1> DEFINE k == 4 + cr
<1>11. k \in 0 .. 8 /\ 8 \in Nat /\ w \in [1 .. 8 -> Bit] /\ 5 <= k /\ (cr >= 2 => 6 <= k) /\ (cr >= 3 => 7 <= k)
  OBVIOUS
<1> HIDE DEF k
<1>12. PICK r \in [1 .. k -> Bit] : r = SubSeq(w, 1, k) /\ \A i \in 1 .. k : r[i] = w[i]
  BY <1>11, FirstBits
<1>13. lora_hamming_encode(n, cr) = r
  BY <1>6, <1>9, <1>10, <1>12 DEF k
<1>15. /\ r[1] = p1 /\ r[2] = p2 /\ r[3] = a /\ r[4] = p3 /\ r[5] = b /\ (cr >= 2 => r[6] = c) /\ (cr >= 3 => r[7] = d)
  BY <1>7, <1>10, <1>11, <1>12
<1>14. Codes(r, cr, a, b, c, d)
  BY <1>12, <1>15, Zenon DEF Codes, p1, p2, p3, k
<1> QED BY <1>4, <1>13, <1>14, Zenon

(* Words that the guesses of the missing bits complete. *)
LEMMA BadIs == BadParities(0) = 0 /\ \A s \in 0 .. 7 : BadParities(s) \in Nat /\ (BadParities(s) = 0 => s = 0)
<1>1. 2 ^ 0 = 1 /\ 2 ^ 1 = 2 /\ 2 ^ 2 = 4
  OBVIOUS
<1> DEFINE Bad(s) == {i \in 0 .. 2 : BitOf(s, i) = 1}
<1>2. \A s : Bad(s) \subseteq 0 .. 2
  OBVIOUS
<1>3. IsFiniteSet(0 .. 2)
  <2>1. 0 \in Int /\ 2 \in Int
    OBVIOUS
  <2> QED BY <2>1, FS_Interval
<1>4. ASSUME NEW s \in 0 .. 7 PROVE BadParities(s) \in Nat /\ (BadParities(s) = 0 => s = 0)
  <2>1. IsFiniteSet(Bad(s))
    BY <1>2, <1>3, FS_Subset
  <2>2. Cardinality(Bad(s)) \in Nat /\ (Cardinality(Bad(s)) = 0 => Bad(s) = {})
    BY <2>1, FS_CardinalityType, FS_EmptySet
  <2>3. BitOf(s, 0) = s % 2 /\ BitOf(s, 1) = (s \div 2) % 2 /\ BitOf(s, 2) = (s \div 4) % 2
    BY <1>1 DEF BitOf
  <2>4. Bad(s) = {} => BitOf(s, 0) # 1 /\ BitOf(s, 1) # 1 /\ BitOf(s, 2) # 1
    <3>1. 0 \in 0 .. 2 /\ 1 \in 0 .. 2 /\ 2 \in 0 .. 2
      OBVIOUS
    <3> QED BY <3>1, Zenon
  <2>5. s % 2 # 1 /\ (s \div 2) % 2 # 1 /\ (s \div 4) % 2 # 1 => s = 0
    OBVIOUS
  <2>6. BadParities(s) = Cardinality(Bad(s))
    BY DEF BadParities
  <2> HIDE DEF Bad
  <2> QED BY <2>2, <2>3, <2>4, <2>5, <2>6
<1>5. BadParities(0) = 0
  <2>1. \A i \in 0 .. 2 : i = 0 \/ i = 1 \/ i = 2
    OBVIOUS
  <2>2. BitOf(0, 0) = 0 /\ BitOf(0, 1) = 0 /\ BitOf(0, 2) = 0
    BY <1>1 DEF BitOf
  <2>3. Bad(0) = {}
    BY <2>1, <2>2
  <2>4. BadParities(0) = Cardinality(Bad(0))
    BY DEF BadParities
  <2> QED BY <2>3, <2>4, FS_EmptySet
<1> QED BY <1>4, <1>5

(* Two bits of a number below four. *)
LEMMA TwoBits ==
  ASSUME NEW g \in 0 .. 3
  PROVE  Msb(g, 2) \in [1 .. 2 -> Bit] /\ g = 2 * Msb(g, 2)[1] + Msb(g, 2)[2]
<1>1. Msb(g, 2)[1] = BitOf(g, 2 - 1) /\ Msb(g, 2)[2] = BitOf(g, 2 - 2) /\ DOMAIN Msb(g, 2) = 1 .. 2
      /\ Msb(g, 2) = [i \in 1 .. 2 |-> BitOf(g, 2 - i)]
  BY DEF Msb
<1>2. 2 ^ 1 = 2 /\ 2 ^ 0 = 1
  OBVIOUS
<1>3. BitOf(g, 2 - 1) = (g \div 2) % 2 /\ BitOf(g, 2 - 2) = g % 2
  BY <1>2 DEF BitOf
<1>4. (g \div 2) % 2 \in Bit /\ g % 2 \in Bit /\ g = 2 * ((g \div 2) % 2) + (g % 2)
  BY DEF Bit
<1>5. Msb(g, 2) \in [1 .. 2 -> Bit]
  BY <1>1, <1>3, <1>4
<1> QED BY <1>1, <1>3, <1>4, <1>5

(* The completion with one check bit: the guess of fewest errors. *)
Guessed(x, g) == x \o Msb(g, 2)

(* With one parity bit, the decoder guesses the two it does not have. *)
LEMMA GuessedIs ==
  ASSUME NEW x \in [1 .. 5 -> Bit], NEW g \in 0 .. 3
  PROVE  /\ Guessed(x, g) \in [1 .. 7 -> Bit] /\ \A i \in 1 .. 5 : Guessed(x, g)[i] = x[i]
         /\ g = 2 * Guessed(x, g)[6] + Guessed(x, g)[7]
<1> DEFINE m == Msb(g, 2)
           w == x \o m
<1>1. m \in [1 .. 2 -> Bit] /\ g = 2 * m[1] + m[2]
  BY TwoBits
<1> HIDE DEF m
<1>2. PICK v \in [1 .. 5 + 2 -> Bit] : v = w /\ (\A i \in 1 .. 5 : v[i] = x[i]) /\ \A i \in 1 .. 2 : v[5 + i] = m[i]
  <2>1. 5 \in Nat /\ 2 \in Nat
    OBVIOUS
  <2> QED BY <1>1, <2>1, TwoJoined
<1>3. v \in [1 .. 7 -> Bit] /\ v[6] = m[1] /\ v[7] = m[2]
  BY <1>2
<1>4. Guessed(x, g) = v
  BY <1>2 DEF Guessed, m
<1> QED BY <1>1, <1>2, <1>3, <1>4

(* A guess without a syndrome is found when there is one. *)
LEMMA FewestIs ==
  ASSUME NEW x \in [1 .. 5 -> Bit]
  PROVE  \E g \in 0 .. 3 : /\ Completed(x, 1) = Guessed(x, g)
                           /\ (\E h \in 0 .. 3 : Syndrome(Guessed(x, h)) = 0) => Syndrome(Guessed(x, g)) = 0
<1> DEFINE V(g) == 4 * BadParities(Syndrome(x \o Msb(g, 2))) + g
           A == {V(g) : g \in 0 .. 3}
           m == Min(A)
<1>1. Completed(x, 1) = x \o Msb(m % 4, 2)
  <2>1. ~(1 >= 3) /\ 1 # 2
    OBVIOUS
  <2> QED BY <2>1, Zenon DEF Completed
<1>2. \A g \in 0 .. 3 : Syndrome(Guessed(x, g)) \in 0 .. 7
  BY GuessedIs, SyndromeIs
<1>3. \A g \in 0 .. 3 : V(g) = 4 * BadParities(Syndrome(Guessed(x, g))) + g
  BY Zenon DEF Guessed
<1> HIDE DEF V
<1>4. \A g \in 0 .. 3 : V(g) \in Nat
  BY <1>2, <1>3, BadIs
<1>5. m \in A /\ \A y \in A : m <= y
  <2>1. A \subseteq Nat /\ A # {}
    <3>1. 0 \in 0 .. 3
      OBVIOUS
    <3> QED BY <1>4, <3>1
  <2> HIDE DEF A
  <2>2. \E n \in A : \A k \in A : n <= k
    BY <2>1, LeastOf, Zenon
  <2> QED BY <2>2, Zenon DEF Min
<1>6. PICK g \in 0 .. 3 : m = V(g)
  BY <1>5
<1>7. \A h \in 0 .. 3 : m <= V(h)
  BY <1>5
<1> HIDE DEF A, m
<1>8. PICK b \in Nat : b = BadParities(Syndrome(Guessed(x, g))) /\ (b = 0 => Syndrome(Guessed(x, g)) = 0)
  BY <1>2, BadIs
<1>9. m = 4 * b + g /\ m % 4 = g
  <2>1. m = 4 * b + g
    BY <1>3, <1>6, <1>8
  <2> QED BY <2>1
<1>10. Completed(x, 1) = Guessed(x, g)
  BY <1>1, <1>9, Zenon DEF Guessed
<1>11. ASSUME NEW h \in 0 .. 3, Syndrome(Guessed(x, h)) = 0 PROVE Syndrome(Guessed(x, g)) = 0
  <2>1. V(h) = 4 * 0 + h
    BY <1>3, <1>11, BadIs
  <2>2. b = 0
    BY <1>7, <1>9, <2>1
  <2> QED BY <1>8, <2>2
<1> QED BY <1>10, <1>11

(* The completion with two check bits. *)
LEMMA WithTwo ==
  ASSUME NEW x \in [1 .. 6 -> Bit]
  PROVE  /\ Completed(x, 2) \in [1 .. 7 -> Bit] /\ \A i \in 1 .. 6 : Completed(x, 2)[i] = x[i]
         /\ (x[1] + x[3] + x[5]) % 2 = (x[2] + x[3] + x[6]) % 2 => Completed(x, 2)[7] = (x[1] + x[3] + x[5]) % 2
<1> DEFINE p == (x[1] + x[3] + x[5]) % 2
           q == (x[2] + x[3] + x[6]) % 2
           e == IF p = q THEN p ELSE 0
           w == Append(x, e)
<1>1. Completed(x, 2) = w
  <2>1. ~(2 >= 3) /\ 2 # 1
    OBVIOUS
  <2> QED BY <2>1, Zenon DEF Completed
<1>2. p \in Bit
  BY DEF Bit
<1> HIDE DEF p, q
<1>3. e \in Bit /\ (p = q => e = p)
  BY <1>2 DEF Bit
<1> HIDE DEF e
<1>4. PICK v \in [1 .. 6 + 1 -> Bit] : v = w /\ (\A i \in 1 .. 6 : v[i] = x[i]) /\ v[6 + 1] = e
  <2>1. 6 \in Nat
    OBVIOUS
  <2> QED BY <1>3, <2>1, OneMore
<1>5. v \in [1 .. 7 -> Bit] /\ v[7] = e
  BY <1>4
<1>6. Completed(x, 2) = v
  BY <1>1, <1>4
<1> QED BY <1>3, <1>4, <1>5, <1>6, Zenon DEF p, q

(* ... and with three or four. *)
LEMMA WithThree ==
  ASSUME NEW cr \in {3, 4}, NEW x \in [1 .. 4 + cr -> Bit]
  PROVE  Completed(x, cr) \in [1 .. 7 -> Bit] /\ \A i \in 1 .. 7 : Completed(x, cr)[i] = x[i]
<1> DEFINE w == SubSeq(x, 1, 7)
<1>1. Completed(x, cr) = w
  BY DEF Completed
<1>2. 1 \in Nat \ {0} /\ 7 \in Nat /\ 7 <= 4 + cr /\ 1 <= 7 + 1 /\ 7 - 1 + 1 = 7 /\ 4 + cr \in Nat
  OBVIOUS
<1>3. x \in Seq(Bit) /\ Len(x) = 4 + cr
  BY <1>2, ArraySeq
<1>4. w \in Seq(Bit) /\ Len(w) = 7 - 1 + 1 /\ \A i \in 1 .. 7 - 1 + 1 : w[i] = x[1 + i - 1]
  BY <1>2, <1>3, PartIs
<1>5. \A i \in 1 .. 7 : 1 + i - 1 = i
  OBVIOUS
<1> HIDE DEF w
<1>6. w \in [1 .. 7 -> Bit] /\ \A i \in 1 .. 7 : w[i] = x[i]
  BY <1>2, <1>4, <1>5
<1> QED BY <1>1, <1>6

(* Whatever arrives, half a byte is decoded. *)
LEMMA DecodeIn ==
  ASSUME NEW cr \in 1 .. 4, NEW x \in [1 .. 4 + cr -> Bit]
  PROVE  lora_hamming_decode(x, cr) \in Nibble
<1>1. Completed(x, cr) \in [1 .. 7 -> Bit]
  <2>1. CASE cr = 1
    <3>1. x \in [1 .. 5 -> Bit]
      BY <2>1
    <3>2. PICK g \in 0 .. 3 : Completed(x, 1) = Guessed(x, g)
      BY <3>1, FewestIs
    <3> QED BY <2>1, <3>1, <3>2, GuessedIs
  <2>2. CASE cr = 2
    <3>1. x \in [1 .. 6 -> Bit]
      BY <2>2
    <3> QED BY <2>2, <3>1, WithTwo
  <2>3. CASE cr \in {3, 4}
    BY <2>3, WithThree
  <2> QED BY <2>1, <2>2, <2>3
<1> QED BY <1>1, DecodeIs, WordNibbleIs

(* A full word whose data and parities are those of four bits. *)
LEMMA FullWord ==
  ASSUME NEW a \in Bit, NEW b \in Bit, NEW c \in Bit, NEW d \in Bit, NEW w \in [1 .. 7 -> Bit],
         w[1] = (a + b + d) % 2, w[2] = (a + c + d) % 2, w[3] = a, w[4] = (b + c + d) % 2, w[5] = b
  PROVE  /\ w[6] = c /\ w[7] = d => Syndrome(w) = 0 /\ WordNibble(w) = 8 * a + 4 * b + 2 * c + d
         /\ Syndrome(w) = 0 => w[6] = c /\ w[7] = d
<1> DEFINE e == w[6]
           f == w[7]
<1>1. e \in Bit /\ f \in Bit
  OBVIOUS
<1>2. /\ FourOdd(w[1], w[3], w[5], w[7]) = FourOdd((a + b + d) % 2, a, b, f)
      /\ FourOdd(w[2], w[3], w[6], w[7]) = FourOdd((a + c + d) % 2, a, e, f)
      /\ FourOdd(w[4], w[5], w[6], w[7]) = FourOdd((b + c + d) % 2, b, e, f)
  OBVIOUS
<1>3. PICK p, q, r \in Bit :
        /\ p = FourOdd((a + b + d) % 2, a, b, f) /\ q = FourOdd((a + c + d) % 2, a, e, f)
        /\ r = FourOdd((b + c + d) % 2, b, e, f) /\ Syndrome(w) = p + 2 * q + 4 * r
  BY <1>2, SyndromeIs
<1>4. WordNibble(w) \in Nibble /\ (Syndrome(w) = 0 => WordNibble(w) = 8 * a + 4 * b + 2 * e + f)
  BY WordNibbleIs
<1>5. e = w[6] /\ f = w[7]
  OBVIOUS
<1> HIDE DEF e, f
<1>6. \A x \in Bit : x = 0 \/ x = 1
  BY DEF Bit
<1>7. e = c /\ f = d => p = 0 /\ q = 0 /\ r = 0
  BY <1>1, <1>3, <1>6 DEF FourOdd
<1>8. p = 0 /\ q = 0 /\ r = 0 => e = c /\ f = d
  BY <1>1, <1>3, <1>6 DEF FourOdd
<1>9. Syndrome(w) = 0 <=> p = 0 /\ q = 0 /\ r = 0
  BY <1>3, <1>6
<1> QED BY <1>4, <1>5, <1>7, <1>8, <1>9

(* A codeword as it was sent is the nibble it was made of. *)
THEOREM HammingUndone ==
  ASSUME NEW n \in Nibble, NEW cr \in 1 .. 4
  PROVE  lora_hamming_decode(lora_hamming_encode(n, cr), cr) = n
<1>1. PICK a, b, c, d \in Bit : n = 8 * a + 4 * b + 2 * c + d /\ Codes(lora_hamming_encode(n, cr), cr, a, b, c, d)
  BY EncodeIs
<1> DEFINE r == lora_hamming_encode(n, cr)
           w == Completed(r, cr)
<1>2. lora_hamming_decode(r, cr) = WordNibble(w)
  BY DecodeIs, Zenon
<1>3. Codes(r, cr, a, b, c, d)
  BY <1>1
<1> HIDE DEF r
<1>4. /\ r \in [1 .. 4 + cr -> Bit]
      /\ r[1] = (a + b + d) % 2 /\ r[2] = (a + c + d) % 2 /\ r[3] = a /\ r[4] = (b + c + d) % 2 /\ r[5] = b
      /\ (cr >= 2 => r[6] = c) /\ (cr >= 3 => r[7] = d)
  BY <1>3, Zenon DEF Codes
<1>5. CASE cr = 1
  <2>1. r \in [1 .. 5 -> Bit]
    BY <1>4, <1>5
  <2>2. PICK g \in 0 .. 3 : /\ Completed(r, 1) = Guessed(r, g)
                            /\ (\E h \in 0 .. 3 : Syndrome(Guessed(r, h)) = 0) => Syndrome(Guessed(r, g)) = 0
    BY <2>1, FewestIs
  <2> DEFINE h == 2 * c + d
             u == Guessed(r, h)
             v == Guessed(r, g)
  <2>3. h \in 0 .. 3
    BY DEF Bit
  <2>4. u \in [1 .. 7 -> Bit] /\ (\A i \in 1 .. 5 : u[i] = r[i]) /\ h = 2 * u[6] + u[7]
    BY <2>1, <2>3, GuessedIs
  <2>5. v \in [1 .. 7 -> Bit] /\ (\A i \in 1 .. 5 : v[i] = r[i])
    BY <2>1, GuessedIs
  <2>6. w = v /\ (Syndrome(u) = 0 => Syndrome(v) = 0)
    BY <1>5, <2>2, <2>3
  <2>7. h = 2 * c + d
    OBVIOUS
  <2> HIDE DEF h, u, v, w
  <2>8. u[6] = c /\ u[7] = d
    <3>1. u[6] \in Bit /\ u[7] \in Bit
      BY <2>4
    <3> QED BY <2>4, <2>7, <3>1 DEF Bit
  <2>9. u[1] = r[1] /\ u[2] = r[2] /\ u[3] = r[3] /\ u[4] = r[4] /\ u[5] = r[5]
    BY <2>4
  <2>10. v[1] = r[1] /\ v[2] = r[2] /\ v[3] = r[3] /\ v[4] = r[4] /\ v[5] = r[5]
    BY <2>5
  <2>11. Syndrome(u) = 0
    BY <1>4, <2>4, <2>8, <2>9, FullWord
  <2>12. v[6] = c /\ v[7] = d
    <3>1. Syndrome(v) = 0
      BY <2>6, <2>11
    <3>2. /\ v[1] = (a + b + d) % 2 /\ v[2] = (a + c + d) % 2 /\ v[3] = a /\ v[4] = (b + c + d) % 2 /\ v[5] = b
          /\ v \in [1 .. 7 -> Bit]
      BY <1>4, <2>5, <2>10
    <3> QED BY <3>1, <3>2, FullWord
  <2>13. WordNibble(v) = 8 * a + 4 * b + 2 * c + d
    BY <1>4, <2>5, <2>10, <2>12, FullWord
  <2> QED BY <1>1, <1>2, <2>6, <2>13 DEF r
<1>6. CASE cr = 2
  <2>1. r \in [1 .. 6 -> Bit] /\ r[6] = c
    BY <1>4, <1>6
  <2>2. /\ w \in [1 .. 7 -> Bit] /\ \A i \in 1 .. 6 : w[i] = r[i]
        /\ (r[1] + r[3] + r[5]) % 2 = (r[2] + r[3] + r[6]) % 2 => w[7] = (r[1] + r[3] + r[5]) % 2
    BY <1>6, <2>1, WithTwo
  <2> HIDE DEF w
  <2>3. (((a + b + d) % 2) + a + b) % 2 = d /\ (((a + c + d) % 2) + a + c) % 2 = d
    BY DEF Bit
  <2>4. w[1] = r[1] /\ w[2] = r[2] /\ w[3] = r[3] /\ w[4] = r[4] /\ w[5] = r[5] /\ w[6] = r[6]
    BY <2>2
  <2>5. w[7] = d /\ w[6] = c
    BY <1>4, <2>1, <2>2, <2>3, <2>4
  <2>6. WordNibble(w) = 8 * a + 4 * b + 2 * c + d
    BY <1>4, <2>2, <2>4, <2>5, FullWord
  <2> QED BY <1>1, <1>2, <2>6 DEF r
<1>7. CASE cr \in {3, 4}
  <2>1. w \in [1 .. 7 -> Bit] /\ \A i \in 1 .. 7 : w[i] = r[i]
    BY <1>4, <1>7, WithThree
  <2> HIDE DEF w
  <2>2. w[1] = r[1] /\ w[2] = r[2] /\ w[3] = r[3] /\ w[4] = r[4] /\ w[5] = r[5] /\ w[6] = r[6] /\ w[7] = r[7]
    BY <2>1
  <2>3. r[6] = c /\ r[7] = d
    BY <1>4, <1>7
  <2>4. WordNibble(w) = 8 * a + 4 * b + 2 * c + d
    BY <1>4, <2>1, <2>2, <2>3, FullWord
  <2> QED BY <1>1, <1>2, <2>4 DEF r
<1> QED BY <1>5, <1>6, <1>7
-----------------------------------------------------------------------------
(***************************************************************************)
(* The stages of the pipeline, each with the one that undoes it.            *)
(***************************************************************************)

(* Rows of five to twelve places. *)
LEMMA Cut ==
  ASSUME NEW f \in 5 .. 12, NEW a \in Int, NEW r \in 0 .. f - 1
  PROVE  (f * a + r) \div f = a /\ (f * a + r) % f = r
<1>1. r \in Int /\ 0 <= r /\ r < f
  OBVIOUS
<1>2. f = 5 \/ f = 6 \/ f = 7 \/ f = 8 \/ f = 9 \/ f = 10 \/ f = 11 \/ f = 12
  OBVIOUS
<1>3. CASE f = 5
  BY <1>1, <1>3
<1>4. CASE f = 6
  BY <1>1, <1>4
<1>5. CASE f = 7
  BY <1>1, <1>5
<1>6. CASE f = 8
  BY <1>1, <1>6
<1>7. CASE f = 9
  BY <1>1, <1>7
<1>8. CASE f = 10
  BY <1>1, <1>8
<1>9. CASE f = 11
  BY <1>1, <1>9
<1>10. CASE f = 12
  BY <1>1, <1>10
<1> QED BY <1>2, <1>3, <1>4, <1>5, <1>6, <1>7, <1>8, <1>9, <1>10

(* Positions in a matrix with rows of f bits. *)
LEMMA Divided ==
  ASSUME NEW f \in 5 .. 12, NEW x \in Int
  PROVE  x \div f \in Int /\ x % f \in 0 .. f - 1 /\ x = f * (x \div f) + (x % f)
<1>2. f = 5 \/ f = 6 \/ f = 7 \/ f = 8 \/ f = 9 \/ f = 10 \/ f = 11 \/ f = 12
  OBVIOUS
<1>3. CASE f = 5
  BY <1>3
<1>4. CASE f = 6
  BY <1>4
<1>5. CASE f = 7
  BY <1>5
<1>6. CASE f = 8
  BY <1>6
<1>7. CASE f = 9
  BY <1>7
<1>8. CASE f = 10
  BY <1>8
<1>9. CASE f = 11
  BY <1>9
<1>10. CASE f = 12
  BY <1>10
<1> QED BY <1>2, <1>3, <1>4, <1>5, <1>6, <1>7, <1>8, <1>9, <1>10

(* The row of a place, and its place in the row. *)
LEMMA RowOf ==
  ASSUME NEW f \in 5 .. 12, NEW n \in Nat, NEW i \in 1 .. f * n
  PROVE  \E s \in 0 .. n - 1, r \in 0 .. f - 1 :
            i = f * s + r + 1 /\ (i - 1) \div f = s /\ (i - 1) % f = r
<1> DEFINE s == (i - 1) \div f
           r == (i - 1) % f
<1>1. s \in Int /\ r \in 0 .. f - 1 /\ i - 1 = f * s + r
  BY Divided
<1>2. (i - 1) \div f = s /\ (i - 1) % f = r
  OBVIOUS
<1> HIDE DEF s, r
<1>3. s >= 0
  <2> SUFFICES ASSUME s <= -1 PROVE FALSE
    BY <1>1
  <2>1. f * s <= f * (-1)
    BY <1>1
  <2> QED BY <1>1, <2>1
<1>4. s <= n - 1
  <2> SUFFICES ASSUME s >= n PROVE FALSE
    BY <1>1
  <2>1. f * s >= f * n
    BY <1>1
  <2> QED BY <1>1, <2>1
<1>5. s \in 0 .. n - 1 /\ i = f * s + r + 1
  BY <1>1, <1>3, <1>4
<1> QED BY <1>1, <1>2, <1>5

LEMMA InRow ==
  ASSUME NEW f \in 5 .. 12, NEW n \in Nat, NEW s \in 0 .. n - 1, NEW r \in 0 .. f - 1
  PROVE  /\ f * s + r + 1 \in 1 .. f * n
         /\ ((f * s + r + 1) - 1) \div f = s /\ ((f * s + r + 1) - 1) % f = r
<1>1. f * s \in Int /\ f * n \in Int /\ (f * s + r + 1) - 1 = f * s + r
  OBVIOUS
<1>2. f * n - f * s = f * (n - s) /\ f * (n - s) >= f * 1 /\ f * s >= 0
  OBVIOUS
<1>3. f * s + r + 1 \in 1 .. f * n
  BY <1>1, <1>2
<1>4. (f * s + r) \div f = s /\ (f * s + r) % f = r
  BY Cut
<1> QED BY <1>1, <1>3, <1>4

(* The places of the diagonal interleaver. *)
From(i, f) == LET s == (i - 1) \div f IN s * f + (((i - 1) - s) % f) + 1

(* Where the interleaver puts bit i, the inverse of where it takes bit i from. *)
To(i, f) == LET s == (i - 1) \div f IN s * f + (((i - 1) + s) % f) + 1

LEMMA FromIs ==
  ASSUME NEW f \in 5 .. 12, NEW n \in Nat, NEW i \in 1 .. f * n
  PROVE  From(i, f) \in 1 .. f * n
<1>1. PICK s \in 0 .. n - 1, r \in 0 .. f - 1 : i = f * s + r + 1 /\ (i - 1) \div f = s /\ (i - 1) % f = r
  BY RowOf
<1> DEFINE q == ((i - 1) - s) % f
<1>2. q \in 0 .. f - 1
  BY Divided
<1>3. From(i, f) = s * f + q + 1
  BY <1>1 DEF From
<1> HIDE DEF q
<1>4. f * s + q + 1 \in 1 .. f * n
  BY <1>2, InRow
<1>5. s * f + q + 1 = f * s + q + 1
  BY <1>2
<1> QED BY <1>3, <1>4, <1>5

(* It stays in its row, and From undoes it. *)
LEMMA ToIs ==
  ASSUME NEW f \in 5 .. 12, NEW n \in Nat, NEW i \in 1 .. f * n
  PROVE  To(i, f) \in 1 .. f * n /\ From(To(i, f), f) = i /\ (To(i, f) - 1) \div f = (i - 1) \div f
<1>1. PICK s \in 0 .. n - 1, r \in 0 .. f - 1 : i = f * s + r + 1 /\ (i - 1) \div f = s /\ (i - 1) % f = r
  BY RowOf
<1> DEFINE q == ((i - 1) + s) % f
           m == ((i - 1) + s) \div f
           t == To(i, f)
<1>2. q \in 0 .. f - 1 /\ m \in Int /\ (i - 1) + s = f * m + q
  BY Divided
<1>3. t = s * f + q + 1
  BY <1>1 DEF To
<1> HIDE DEF q, m, t
<1>4. f * s + q + 1 \in 1 .. f * n /\ ((f * s + q + 1) - 1) \div f = s
  BY <1>2, InRow
<1>5. s * f + q + 1 = f * s + q + 1
  BY <1>2
<1>6. t \in 1 .. f * n /\ (t - 1) \div f = s /\ t - 1 = f * s + q
  BY <1>2, <1>3, <1>4, <1>5
<1>7. (t - 1) - s = f * (2 * s - m) + r
  <2>1. f * (2 * s - m) = f * s + f * s - f * m
    BY <1>2
  <2>2. f * s + r + s = f * m + q
    BY <1>1, <1>2
  <2> DEFINE x == f * s
             y == f * m
  <2>3. x \in Int /\ y \in Int
    BY <1>2
  <2>4. f * (2 * s - m) = x + x - y /\ x + r + s = y + q /\ t - 1 = x + q
    BY <1>6, <2>1, <2>2
  <2> HIDE DEF x, y
  <2> QED BY <1>2, <2>3, <2>4
<1>8. 2 * s - m \in Int
  BY <1>2
<1>9. ((t - 1) - s) % f = r
  BY <1>7, <1>8, Cut
<1>10. From(t, f) = s * f + r + 1
  BY <1>6, <1>9 DEF From
<1> QED BY <1>1, <1>6, <1>10 DEF t

(* The Gray map of a symbol. *)
LEMMA GrayIn ==
  ASSUME NEW n \in Nat, NEW x \in [1 .. n -> Bit]
  PROVE  binary_to_gray(x) \in [1 .. n -> Bit] /\ gray_to_binary(x) \in [1 .. n -> Bit]
<1>1. Len(x) = n
  BY ArraySeq
<1>2. binary_to_gray(x) = [i \in 1 .. n |-> IF i = 1 THEN x[1] ELSE (x[i - 1] + x[i]) % 2]
  BY <1>1 DEF binary_to_gray
<1>3. \A i \in 1 .. n : (IF i = 1 THEN x[1] ELSE (x[i - 1] + x[i]) % 2) \in Bit
  <2> SUFFICES ASSUME NEW i \in 1 .. n PROVE (IF i = 1 THEN x[1] ELSE (x[i - 1] + x[i]) % 2) \in Bit
    OBVIOUS
  <2>1. 1 \in 1 .. n /\ (i # 1 => i - 1 \in 1 .. n)
    OBVIOUS
  <2>2. \A a, b \in Bit : (a + b) % 2 \in Bit
    BY DEF Bit
  <2> QED BY <2>1, <2>2
<1>4. gray_to_binary(x) = [i \in 1 .. n |-> Parity(SubSeq(x, 1, i))]
  BY <1>1 DEF gray_to_binary
<1>5. \A i \in 1 .. n : Parity(SubSeq(x, 1, i)) \in Bit
  <2> SUFFICES ASSUME NEW i \in 1 .. n PROVE Parity(SubSeq(x, 1, i)) \in Bit
    OBVIOUS
  <2>1. i \in 0 .. n /\ i \in Nat
    OBVIOUS
  <2>2. PICK w \in [1 .. i -> Bit] : w = SubSeq(x, 1, i)
    BY <2>1, FirstBits
  <2>3. PICK c \in [0 .. i -> Bit] : c[i] = Parity(w)
    BY <2>1, ParityIs
  <2>4. c[i] \in Bit
    BY <2>1
  <2> QED BY <2>2, <2>3, <2>4
<1>6. binary_to_gray(x) \in [1 .. n -> Bit]
  BY <1>2, <1>3
<1>7. gray_to_binary(x) \in [1 .. n -> Bit]
  BY <1>4, <1>5
<1> QED BY <1>6, <1>7

(* The Gray map is undone. *)
LEMMA GrayBack ==
  ASSUME NEW n \in Nat, NEW x \in [1 .. n -> Bit]
  PROVE  gray_to_binary(binary_to_gray(x)) = x
<1> DEFINE g == binary_to_gray(x)
<1>1. Len(x) = n
  BY ArraySeq
<1>2. g \in [1 .. n -> Bit]
  BY GrayIn
<1>3. \A i \in 1 .. n : g[i] = IF i = 1 THEN x[1] ELSE (x[i - 1] + x[i]) % 2
  BY <1>1 DEF binary_to_gray
<1> HIDE DEF g
<1>4. Len(g) = n
  BY <1>2, ArraySeq
<1>5. gray_to_binary(g) = [i \in 1 .. n |-> Parity(SubSeq(g, 1, i))]
  BY <1>4 DEF gray_to_binary
<1>6. ASSUME NEW k \in 1 .. n PROVE Parity(SubSeq(g, 1, k)) = x[k]
  <2>1. k \in 0 .. n /\ k \in Nat
    OBVIOUS
  <2>2. PICK w \in [1 .. k -> Bit] : w = SubSeq(g, 1, k) /\ \A i \in 1 .. k : w[i] = g[i]
    BY <1>2, <2>1, FirstBits
  <2>3. PICK c \in [0 .. k -> Bit] : /\ c[0] = 0 /\ c[k] = Parity(w)
                                     /\ \A i \in 1 .. k : c[i] = (c[i - 1] + w[i]) % 2
    BY <2>1, ParityIs
  <2> DEFINE S == {i \in 0 .. k : i >= 1 => c[i] = x[i]}
  <2>4. 0 \in S
    OBVIOUS
  <2>5. ASSUME NEW i \in 1 .. k, i - 1 \in S PROVE i \in S
    <3>1. i \in 1 .. n /\ i \in 0 .. k /\ i - 1 \in 0 .. k
      OBVIOUS
    <3>2. c[i] = (c[i - 1] + g[i]) % 2
      BY <2>2, <2>3
    <3>3. x[i] \in Bit
      BY <3>1
    <3>4. CASE i = 1
      <4>1. c[i - 1] = 0 /\ g[i] = x[i]
        BY <1>3, <2>3, <3>1, <3>4
      <4>2. c[i] = (0 + x[i]) % 2
        BY <3>2, <4>1
      <4>3. c[i] = x[i]
        BY <3>3, <4>2 DEF Bit
      <4> QED BY <3>1, <4>3
    <3>5. CASE i # 1
      <4>1. i - 1 \in 1 .. n /\ i - 1 >= 1
        BY <3>5
      <4>2. c[i - 1] = x[i - 1] /\ x[i - 1] \in Bit
        BY <2>5, <4>1
      <4>3. g[i] = (x[i - 1] + x[i]) % 2
        BY <1>3, <3>1, <3>5
      <4>4. \A a, b \in Bit : (a + ((a + b) % 2)) % 2 = b
        BY DEF Bit
      <4>5. c[i] = x[i]
        BY <3>2, <3>3, <4>2, <4>3, <4>4
      <4> QED BY <3>1, <4>5
    <3> QED BY <3>4, <3>5
  <2> HIDE DEF S
  <2>6. \A i \in 0 .. k : i \in S
    BY <2>1, <2>4, <2>5, ByRounds
  <2>7. k \in S /\ k >= 1
    BY <2>1, <2>6
  <2>8. c[k] = x[k]
    BY <2>7 DEF S
  <2> QED BY <2>2, <2>3, <2>8
<1>7. gray_to_binary(g) = x
  BY <1>5, <1>6
<1> QED BY <1>7 DEF g

(* Whitening, bit by bit. *)
Inverted(b, i, n) == IF i <= (n + 7) \div 8 THEN 1 - b ELSE b

(* Whitening inverts some bits, the same ones whatever they are. *)
LEMMA WhitenIs ==
  ASSUME NEW n \in Nat, NEW x \in [1 .. n -> Bit]
  PROVE  /\ lora_whiten(x) \in [1 .. n -> Bit]
         /\ \A i \in 1 .. n : lora_whiten(x)[i] = Inverted(x[i], i, n)
<1>1. Len(x) = n
  BY ArraySeq
<1>2. lora_whiten(x) = [i \in 1 .. n |-> IF i <= (n + 7) \div 8 THEN 1 - x[i] ELSE x[i]]
  BY <1>1 DEF lora_whiten
<1>3. \A i \in 1 .. n : x[i] \in Bit /\ 1 - x[i] \in Bit
  BY DEF Bit
<1> QED BY <1>2, <1>3 DEF Inverted

LEMMA InvertedBack == \A i, n : \A b \in Bit : Inverted(Inverted(b, i, n), i, n) = b
  BY DEF Inverted, Bit

(* The interleaver: what follows the stream in its last row is zero. *)
LEMMA InterleavedIs ==
  ASSUME NEW f \in 5 .. 12, NEW n \in Nat, NEW x \in [1 .. n -> Bit], NEW S \in Nat, S = (n + f - 1) \div f
  PROVE  /\ lora_diagonal_interleave(x, f) \in [1 .. f * S -> Bit]
         /\ n <= f * S
         /\ \A i \in 1 .. f * S : From(i, f) <= n => lora_diagonal_interleave(x, f)[i] = x[From(i, f)]
<1>1. Len(x) = n
  BY ArraySeq
<1>2. f * S = S * f
  OBVIOUS
<1>3. lora_diagonal_interleave(x, f) = [i \in 1 .. f * S |-> IF From(i, f) <= n THEN x[From(i, f)] ELSE 0]
  BY <1>1, <1>2 DEF lora_diagonal_interleave, From
<1>4. \A i \in 1 .. f * S : From(i, f) \in 1 .. f * S
  BY FromIs
<1>5. \A i \in 1 .. f * S : (IF From(i, f) <= n THEN x[From(i, f)] ELSE 0) \in Bit
  <2>1. 0 \in Bit
    BY DEF Bit
  <2>2. \A j \in 1 .. f * S : j <= n => j \in 1 .. n
    OBVIOUS
  <2> QED BY <1>4, <2>1, <2>2
<1>6. n <= f * S
  <2>1. (n + f - 1) \div f \in Int /\ (n + f - 1) % f \in 0 .. f - 1
        /\ n + f - 1 = f * ((n + f - 1) \div f) + ((n + f - 1) % f)
    BY Divided
  <2>2. PICK r \in 0 .. f - 1 : n + f - 1 = f * S + r
    BY <2>1
  <2> QED BY <2>2
<1> QED BY <1>3, <1>5, <1>6

(* The bits of a stream whose interleaving is undone. *)
LEMMA DeinterleavedIs ==
  ASSUME NEW f \in 5 .. 12, NEW S \in Nat, NEW y \in [1 .. f * S -> Bit]
  PROVE  /\ lora_diagonal_deinterleave(y, f) \in [1 .. f * S -> Bit]
         /\ \A i \in 1 .. f * S : lora_diagonal_deinterleave(y, f)[i] = y[To(i, f)]
<1>1. Len(y) = f * S
  <2>1. f * S \in Nat
    OBVIOUS
  <2> QED BY <2>1, BitsSeq
<1>2. lora_diagonal_deinterleave(y, f) = [i \in 1 .. f * S |-> y[To(i, f)]]
  BY <1>1 DEF lora_diagonal_deinterleave, To
<1>3. \A i \in 1 .. f * S : To(i, f) \in 1 .. f * S
  BY ToIs
<1> QED BY <1>2, <1>3

(* The lemmas on parts and on flat sequences, for every value of what they
   assume, which is how they can be instantiated. *)
LEMMA PartBitsAll ==
  \A n \in Nat : \A s \in [1 .. n -> Bit] : \A a, k \in Nat :
    a + k <= n => \E w \in [1 .. k -> Bit] : w = SubSeq(s, a + 1, a + k) /\ \A i \in 1 .. k : w[i] = s[a + i]
  BY PartBits

LEMMA FlattenAll ==
  \A n \in Nat \ {0} : \A k \in Nat : \A seqs \in [1 .. n -> Seq(Bit)] :
    (\A i \in 1 .. n : Len(seqs[i]) = k) =>
      /\ FlattenSeq(seqs) \in Seq(Bit) /\ Len(FlattenSeq(seqs)) = k * n
      /\ \A i \in 1 .. n : \A j \in 1 .. k : FlattenSeq(seqs)[k * (i - 1) + j] = seqs[i][j]
  BY FlattenAt

(* A stream cut into rows, and rows put one behind the other. *)
LEMMA ChunksIs ==
  ASSUME NEW f \in 5 .. 12, NEW n \in Nat, NEW x \in [1 .. n -> Bit]
  PROVE  /\ n \div f \in Nat /\ f * (n \div f) <= n
         /\ Chunks(x, f) \in [1 .. n \div f -> [1 .. f -> Bit]]
         /\ \A k \in 1 .. n \div f : \A j \in 1 .. f : Chunks(x, f)[k][j] = x[f * (k - 1) + j]
<1> DEFINE m == n \div f
<1>1. Len(x) = n
  BY ArraySeq
<1>2. Chunks(x, f) = [k \in 1 .. m |-> SubSeq(x, (k - 1) * f + 1, k * f)]
  BY <1>1 DEF Chunks
<1>3. m \in Nat /\ f * m <= n
  <2>1. m \in Int /\ n % f \in 0 .. f - 1 /\ n = f * m + (n % f)
    BY Divided
  <2> HIDE DEF m
  <2>2. PICK r \in 0 .. f - 1 : n = f * m + r
    BY <2>1
  <2>3. m >= 0
    <3> SUFFICES ASSUME m <= -1 PROVE FALSE
      BY <2>1
    <3>1. f * m <= f * (-1) /\ f * (-1) = -f
      BY <2>1
    <3> DEFINE y == f * m
    <3>2. y <= -f /\ n = y + r /\ y \in Int
      BY <2>1, <2>2, <3>1
    <3> HIDE DEF y
    <3> QED BY <3>2
  <2> QED BY <2>1, <2>2, <2>3
<1> HIDE DEF m
<1>4. ASSUME NEW k \in 1 .. m
      PROVE  /\ SubSeq(x, (k - 1) * f + 1, k * f) \in [1 .. f -> Bit]
             /\ \A j \in 1 .. f : SubSeq(x, (k - 1) * f + 1, k * f)[j] = x[f * (k - 1) + j]
  <2> DEFINE a == (k - 1) * f
  <2>1. a \in Nat /\ a + f = k * f /\ a = f * (k - 1)
    OBVIOUS
  <2>2. f * m - k * f = f * (m - k) /\ f * (m - k) >= 0 /\ f * m \in Int /\ k * f \in Int
    BY <1>3
  <2> HIDE DEF a
  <2>3. a + f <= n
    BY <1>3, <2>1, <2>2
  <2>4. PICK w \in [1 .. f -> Bit] : w = SubSeq(x, a + 1, a + f) /\ \A i \in 1 .. f : w[i] = x[a + i]
    <3>1. f \in Nat /\ a \in Nat
      BY <2>1
    <3> QED BY <2>3, <3>1, PartBitsAll, Zenon
  <2>5. w = SubSeq(x, (k - 1) * f + 1, k * f)
    BY <2>1, <2>4 DEF a
  <2>6. \A j \in 1 .. f : w[j] = x[f * (k - 1) + j]
    BY <2>1, <2>4
  <2> QED BY <2>5, <2>6, Zenon
<1> DEFINE C == Chunks(x, f)
<1>5. \A k \in 1 .. m : C[k] = SubSeq(x, (k - 1) * f + 1, k * f)
  BY <1>2
<1>6. DOMAIN C = 1 .. m /\ C = [k \in 1 .. m |-> C[k]]
  BY <1>2
<1> HIDE DEF C
<1>7. \A k \in 1 .. m : C[k] \in [1 .. f -> Bit] /\ \A j \in 1 .. f : C[k][j] = x[f * (k - 1) + j]
  BY <1>4, <1>5, Zenon
<1>8. C \in [1 .. m -> [1 .. f -> Bit]]
  BY <1>6, <1>7
<1> QED BY <1>3, <1>7, <1>8 DEF C, m

(* Rows of bits, one after the other. *)
LEMMA FlattenBits ==
  ASSUME NEW n \in Nat \ {0}, NEW k \in Nat, NEW seqs \in [1 .. n -> [1 .. k -> Bit]]
  PROVE  /\ FlattenSeq(seqs) \in [1 .. k * n -> Bit]
         /\ \A i \in 1 .. n : \A j \in 1 .. k : FlattenSeq(seqs)[k * (i - 1) + j] = seqs[i][j]
<1>1. \A i \in 1 .. n : seqs[i] \in Seq(Bit) /\ Len(seqs[i]) = k
  <2> SUFFICES ASSUME NEW i \in 1 .. n PROVE seqs[i] \in Seq(Bit) /\ Len(seqs[i]) = k
    OBVIOUS
  <2>1. seqs[i] \in [1 .. k -> Bit]
    OBVIOUS
  <2> QED BY <2>1, BitsSeq, Zenon
<1>2. seqs \in [1 .. n -> Seq(Bit)]
  BY <1>1
<1>3. /\ FlattenSeq(seqs) \in Seq(Bit) /\ Len(FlattenSeq(seqs)) = k * n
      /\ \A i \in 1 .. n : \A j \in 1 .. k : FlattenSeq(seqs)[k * (i - 1) + j] = seqs[i][j]
  BY <1>1, <1>2, FlattenAll, Zenon
<1>4. k * n \in Nat
  OBVIOUS
<1>5. FlattenSeq(seqs) \in [1 .. k * n -> Bit]
  BY <1>3, <1>4, SeqBits
<1> QED BY <1>3, <1>5

(* The rows of a stream as the sender makes them, and the stream that the
   receiver makes of rows. *)
SentRows(x, f) == Chunks(lora_whiten(lora_diagonal_interleave(x, f)), f)
Unwound(flat, f) == lora_diagonal_deinterleave(lora_whiten(flat), f)

(* The stream of the received rows, and the row of one of its bits. *)
Stream(R, S) == FlattenSeq([s \in 1 .. S |-> gray_to_binary(R[s])])
Row(i, f) == ((i - 1) \div f) + 1

(* The rows that are sent, bit by bit. *)
LEMMA SentIs ==
  ASSUME NEW f \in 5 .. 12, NEW n \in Nat, NEW x \in [1 .. n -> Bit], NEW S \in Nat, S = (n + f - 1) \div f
  PROVE  /\ SentRows(x, f) \in [1 .. S -> [1 .. f -> Bit]] /\ n <= f * S
         /\ \A s \in 1 .. S : \A r \in 1 .. f : From(f * (s - 1) + r, f) <= n =>
              SentRows(x, f)[s][r] = Inverted(x[From(f * (s - 1) + r, f)], f * (s - 1) + r, f * S)
<1> DEFINE y == lora_diagonal_interleave(x, f)
           z == lora_whiten(y)
           m == f * S
<1>1. m \in Nat /\ m = f * S
  OBVIOUS
<1>2. y \in [1 .. m -> Bit] /\ n <= m /\ \A i \in 1 .. m : From(i, f) <= n => y[i] = x[From(i, f)]
  BY InterleavedIs
<1>3. SentRows(x, f) = Chunks(z, f)
  BY DEF SentRows
<1> HIDE DEF y, m
<1>4. z \in [1 .. m -> Bit] /\ \A i \in 1 .. m : z[i] = Inverted(y[i], i, m)
  BY <1>1, <1>2, WhitenIs
<1> HIDE DEF z
<1>5. m \div f = S
  <2>1. 0 \in 0 .. f - 1 /\ f * S + 0 = m
    BY <1>1
  <2>2. (f * S + 0) \div f = S
    BY <2>1, Cut
  <2> QED BY <2>1, <2>2
<1>6. /\ Chunks(z, f) \in [1 .. S -> [1 .. f -> Bit]]
      /\ \A k \in 1 .. S : \A j \in 1 .. f : Chunks(z, f)[k][j] = z[f * (k - 1) + j]
  <2>1. /\ Chunks(z, f) \in [1 .. m \div f -> [1 .. f -> Bit]]
        /\ \A k \in 1 .. m \div f : \A j \in 1 .. f : Chunks(z, f)[k][j] = z[f * (k - 1) + j]
    BY <1>1, <1>4, ChunksIs
  <2> QED BY <1>5, <2>1
<1>7. ASSUME NEW s \in 1 .. S, NEW r \in 1 .. f, From(f * (s - 1) + r, f) <= n
      PROVE  Chunks(z, f)[s][r] = Inverted(x[From(f * (s - 1) + r, f)], f * (s - 1) + r, m)
  <2> DEFINE i == f * (s - 1) + r
  <2>1. i \in 1 .. m
    <3>1. s - 1 \in 0 .. S - 1 /\ r - 1 \in 0 .. f - 1
      OBVIOUS
    <3>2. f * (s - 1) + (r - 1) + 1 \in 1 .. f * S
      BY <3>1, InRow
    <3> QED BY <1>1, <3>2
  <2>2. Chunks(z, f)[s][r] = z[i]
    BY <1>6
  <2>3. From(i, f) <= n
    BY <1>7
  <2> HIDE DEF i
  <2>4. z[i] = Inverted(x[From(i, f)], i, m)
    BY <1>2, <1>4, <2>1, <2>3
  <2> QED BY <2>2, <2>4 DEF i
<1> QED BY <1>1, <1>2, <1>3, <1>6, <1>7

(* A bit comes back when the row it is in arrived as it was sent. *)
LEMMA Received ==
  \A f \in 5 .. 12 : \A n \in Nat : \A x \in [1 .. n -> Bit] : \A S \in Nat \ {0} :
    S = (n + f - 1) \div f => \A R \in [1 .. S -> [1 .. f -> Bit]] :
      /\ Unwound(Stream(R, S), f) \in [1 .. f * S -> Bit] /\ n <= f * S
      /\ \A i \in 1 .. n : R[Row(i, f)] = binary_to_gray(SentRows(x, f)[Row(i, f)])
                             => Unwound(Stream(R, S), f)[i] = x[i]
<1> SUFFICES ASSUME NEW f \in 5 .. 12, NEW n \in Nat, NEW x \in [1 .. n -> Bit], NEW S \in Nat \ {0},
                    S = (n + f - 1) \div f, NEW R \in [1 .. S -> [1 .. f -> Bit]]
             PROVE  /\ Unwound(Stream(R, S), f) \in [1 .. f * S -> Bit] /\ n <= f * S
                    /\ \A i \in 1 .. n : R[Row(i, f)] = binary_to_gray(SentRows(x, f)[Row(i, f)])
                                           => Unwound(Stream(R, S), f)[i] = x[i]
  BY Zenon
<1> DEFINE m == f * S
           G == [s \in 1 .. S |-> gray_to_binary(R[s])]
           flat == FlattenSeq(G)
           y == lora_whiten(flat)
           D == Unwound(flat, f)
           rows == SentRows(x, f)
<1>1. m \in Nat /\ m = f * S /\ f \in Nat
  OBVIOUS
<1>2. G \in [1 .. S -> [1 .. f -> Bit]] /\ \A s \in 1 .. S : G[s] = gray_to_binary(R[s])
  <2>1. \A s \in 1 .. S : gray_to_binary(R[s]) \in [1 .. f -> Bit]
    <3> SUFFICES ASSUME NEW s \in 1 .. S PROVE gray_to_binary(R[s]) \in [1 .. f -> Bit]
      OBVIOUS
    <3>1. R[s] \in [1 .. f -> Bit]
      OBVIOUS
    <3> QED BY <1>1, <3>1, GrayIn
  <2> QED BY <2>1
<1> HIDE DEF G
<1>3. flat \in [1 .. m -> Bit] /\ \A i \in 1 .. S : \A j \in 1 .. f : flat[f * (i - 1) + j] = G[i][j]
  BY <1>1, <1>2, FlattenBits
<1>4. D = lora_diagonal_deinterleave(y, f)
  BY DEF Unwound
<1> HIDE DEF flat
<1>5. y \in [1 .. m -> Bit] /\ \A i \in 1 .. m : y[i] = Inverted(flat[i], i, m)
  <2> HIDE DEF m
  <2> QED BY <1>1, <1>3, WhitenIs
<1> HIDE DEF y
<1> HIDE DEF D
<1>6. D \in [1 .. m -> Bit] /\ \A i \in 1 .. m : D[i] = y[To(i, f)]
  <2>1. y \in [1 .. f * S -> Bit] /\ S \in Nat
    BY <1>5
  <2>2. /\ lora_diagonal_deinterleave(y, f) \in [1 .. f * S -> Bit]
        /\ \A i \in 1 .. f * S : lora_diagonal_deinterleave(y, f)[i] = y[To(i, f)]
    BY <2>1, DeinterleavedIs
  <2> QED BY <1>4, <2>2
<1>7. /\ rows \in [1 .. S -> [1 .. f -> Bit]] /\ n <= m
      /\ \A s \in 1 .. S : \A r \in 1 .. f : From(f * (s - 1) + r, f) <= n =>
           rows[s][r] = Inverted(x[From(f * (s - 1) + r, f)], f * (s - 1) + r, m)
  <2>1. S \in Nat
    OBVIOUS
  <2>2. S = (n + f - 1) \div f
    OBVIOUS
  <2> HIDE DEF rows, m
  <2>3. /\ SentRows(x, f) \in [1 .. S -> [1 .. f -> Bit]] /\ n <= f * S
        /\ \A s \in 1 .. S : \A r \in 1 .. f : From(f * (s - 1) + r, f) <= n =>
             SentRows(x, f)[s][r] = Inverted(x[From(f * (s - 1) + r, f)], f * (s - 1) + r, f * S)
    BY <2>1, <2>2, SentIs, Zenon
  <2> QED BY <2>3, Zenon DEF rows, m
<1> HIDE DEF D, rows, m
<1>8. ASSUME NEW i \in 1 .. n, R[((i - 1) \div f) + 1] = binary_to_gray(rows[((i - 1) \div f) + 1]) PROVE D[i] = x[i]
  <2>1. i \in 1 .. m /\ i \in 1 .. f * S
    BY <1>1, <1>7
  <2>2. PICK t \in 1 .. f * S : t = To(i, f) /\ From(t, f) = i /\ (t - 1) \div f = (i - 1) \div f
    BY <2>1, ToIs
  <2>3. PICK s \in 0 .. S - 1, r \in 0 .. f - 1 : t = f * s + r + 1 /\ (t - 1) \div f = s
    BY RowOf
  <2>4. s + 1 \in 1 .. S /\ r + 1 \in 1 .. f /\ (s + 1) - 1 = s /\ t = f * ((s + 1) - 1) + (r + 1) /\ t \in 1 .. m
    BY <1>1, <2>3
  <2> DEFINE h == s + 1
             j == r + 1
  <2>5. h \in 1 .. S /\ j \in 1 .. f /\ t = f * (h - 1) + j /\ ((i - 1) \div f) + 1 = h
    BY <2>2, <2>3, <2>4
  <2> HIDE DEF h, j
  <2>6. rows[h] \in [1 .. f -> Bit] /\ R[h] = binary_to_gray(rows[h])
    BY <1>7, <1>8, <2>5
  <2>7. G[h] = rows[h]
    BY <1>1, <1>2, <2>5, <2>6, GrayBack
  <2>8. flat[t] = rows[h][j]
    BY <1>3, <2>5, <2>7
  <2>9. rows[h][j] = Inverted(x[i], t, m)
    BY <1>7, <2>2, <2>5
  <2>10. D[i] = Inverted(flat[t], t, m)
    BY <1>5, <1>6, <2>1, <2>2, <2>4
  <2>11. x[i] \in Bit
    OBVIOUS
  <2> QED BY <2>8, <2>9, <2>10, <2>11, InvertedBack
<1>9. D = Unwound(Stream(R, S), f)
  BY DEF D, flat, G, Stream
<1> QED BY <1>1, <1>6, <1>7, <1>8, <1>9 DEF rows, m, Row

(* Bytes and half bytes, one after the other. *)
LEMMA BytesConcat ==
  \A s, t \in Seq(Byte) : /\ s \o t \in Seq(Byte) /\ Len(s \o t) = Len(s) + Len(t)
                          /\ \A i \in 1 .. Len(s) : (s \o t)[i] = s[i]
                          /\ \A i \in 1 .. Len(t) : (s \o t)[Len(s) + i] = t[i]
  BY Concat

LEMMA FlattenHalves ==
  \A n \in Nat \ {0} : \A k \in Nat : \A seqs \in [1 .. n -> Seq(Nibble)] :
    (\A i \in 1 .. n : Len(seqs[i]) = k) =>
      /\ FlattenSeq(seqs) \in Seq(Nibble) /\ Len(FlattenSeq(seqs)) = k * n
      /\ \A i \in 1 .. n : \A j \in 1 .. k : FlattenSeq(seqs)[k * (i - 1) + j] = seqs[i][j]
  BY FlattenAt
-----------------------------------------------------------------------------
(***************************************************************************)
(* The half bytes of a packet.                                              *)
(***************************************************************************)

(* The payload and the two bytes of its CRC. *)
Body(p) == p \o BigEndian(lora_crc16(p), 2)

LEMMA BytesJoined ==
  ASSUME NEW n \in Nat, NEW x \in [1 .. n -> Byte], NEW y \in [1 .. 2 -> Byte]
  PROVE  \E w \in [1 .. n + 2 -> Byte] :
            w = x \o y /\ (\A i \in 1 .. n : w[i] = x[i]) /\ \A i \in 1 .. 2 : w[n + i] = y[i]
<1>1. x \in Seq(Byte) /\ Len(x) = n /\ y \in Seq(Byte) /\ Len(y) = 2
  BY ArraySeq
<1> DEFINE w == x \o y
<1>2. /\ w \in Seq(Byte) /\ Len(w) = Len(x) + Len(y) /\ (\A i \in 1 .. Len(x) : w[i] = x[i])
      /\ \A i \in 1 .. Len(y) : w[Len(x) + i] = y[i]
  BY <1>1, BytesConcat, Zenon
<1>3. w = x \o y
  OBVIOUS
<1> HIDE DEF w
<1>4. w \in [1 .. n + 2 -> Byte]
  <2>1. Len(w) = n + 2 /\ DOMAIN w = 1 .. Len(w) /\ \A i \in 1 .. Len(w) : w[i] \in Byte
    BY <1>1, <1>2, LenProperties, ElementOfSeq
  <2> QED BY <1>2, <2>1
<1>5. (\A i \in 1 .. n : w[i] = x[i]) /\ \A i \in 1 .. 2 : w[n + i] = y[i]
  BY <1>1, <1>2
<1> QED BY <1>3, <1>4, <1>5

(* The body of a packet is the payload and its checksum, the high byte first. *)
LEMMA BodyIs ==
  ASSUME NEW n \in Nat, NEW p \in [1 .. n -> Byte]
  PROVE  /\ Body(p) \in [1 .. n + 2 -> Byte] /\ \A i \in 1 .. n : Body(p)[i] = p[i]
         /\ lora_crc16(p) = 256 * Body(p)[n + 1] + Body(p)[n + 2]
<1> DEFINE e == BigEndian(lora_crc16(p), 2)
           x == lora_crc16(p)
<1>1. x \in Word16
  <2>1. PICK c \in [0 .. n -> Word16] : c[n] = lora_crc16(p)
    BY CrcIs
  <2>2. n \in 0 .. n
    OBVIOUS
  <2> QED BY <2>1, <2>2
<1> HIDE DEF x
<1>2. e = [i \in 1 .. 2 |-> IF 2 - i > 3 THEN 0 ELSE (x \div PowersOf256[2 - i + 1]) % 256]
  BY DEF BigEndian, x
<1>3. PowersOf256[2] = 256 /\ PowersOf256[1] = 1
  BY DEF PowersOf256
<1>4. e[1] = (x \div 256) % 256 /\ e[2] = (x \div 1) % 256 /\ DOMAIN e = 1 .. 2
  BY <1>2, <1>3
<1>5. x \in Nat /\ x < 65536
  BY <1>1 DEF Word16
<1>6. (x \div 256) % 256 = x \div 256 /\ x \div 256 \in Byte /\ (x \div 1) % 256 = x % 256 /\ x % 256 \in Byte
      /\ x = 256 * (x \div 256) + (x % 256)
  BY <1>5 DEF Byte
<1>7. e \in [1 .. 2 -> Byte]
  <2>1. \A i \in 1 .. 2 : i = 1 \/ i = 2
    OBVIOUS
  <2>2. \A i \in 1 .. 2 : e[i] \in Byte
    BY <1>4, <1>6, <2>1
  <2>3. e = [i \in 1 .. 2 |-> e[i]]
    BY <1>2
  <2> HIDE DEF e
  <2> QED BY <2>2, <2>3
<1>8. e[1] = x \div 256 /\ e[2] = x % 256
  BY <1>4, <1>6
<1> HIDE DEF e
<1> DEFINE b == p \o e
<1>11. PICK w \in [1 .. n + 2 -> Byte] : w = b /\ (\A i \in 1 .. n : w[i] = p[i]) /\ \A i \in 1 .. 2 : w[n + i] = e[i]
  BY <1>7, BytesJoined
<1>12. Body(p) = w
  BY <1>11 DEF Body, e
<1>14. w[n + 1] = e[1] /\ w[n + 2] = e[2]
  BY <1>11
<1>15. x = 256 * w[n + 1] + w[n + 2]
  BY <1>6, <1>8, <1>14
<1> QED BY <1>11, <1>12, <1>15 DEF x

(* Bytes in halves. *)
LEMMA NibblesIs ==
  ASSUME NEW n \in Nat \ {0}, NEW d \in [1 .. n -> Byte]
  PROVE  Nibbles(d) \in Seq(Nibble) /\ Len(Nibbles(d)) = 2 * n /\ \A j \in 1 .. 2 * n : Nibbles(d)[j] = HalfOf(d, j)
<1> DEFINE G == [i \in 1 .. n |-> <<d[i] \div 16, d[i] % 16>>]
           k == 2
<1>1. Len(d) = n
  BY ArraySeq
<1>2. Nibbles(d) = FlattenSeq(G)
  BY <1>1 DEF Nibbles
<1>3. \A i \in 1 .. n : G[i] \in Seq(Nibble) /\ Len(G[i]) = k /\ G[i][1] = d[i] \div 16 /\ G[i][2] = d[i] % 16
  <2> SUFFICES ASSUME NEW i \in 1 .. n
               PROVE  G[i] \in Seq(Nibble) /\ Len(G[i]) = k /\ G[i][1] = d[i] \div 16 /\ G[i][2] = d[i] % 16
    OBVIOUS
  <2>1. d[i] \div 16 \in Nibble /\ d[i] % 16 \in Nibble
    BY ByteCut
  <2> QED BY <2>1
<1>4. G \in [1 .. n -> Seq(Nibble)] /\ k \in Nat /\ k = 2
  BY <1>3
<1> HIDE DEF G, k
<1>5. /\ FlattenSeq(G) \in Seq(Nibble) /\ Len(FlattenSeq(G)) = k * n
      /\ \A i \in 1 .. n : \A j \in 1 .. k : FlattenSeq(G)[k * (i - 1) + j] = G[i][j]
  <2>1. \A i \in 1 .. n : Len(G[i]) = k
    BY <1>3
  <2>3. n \in Nat \ {0} /\ k \in Nat /\ G \in [1 .. n -> Seq(Nibble)]
    BY <1>4
  <2> QED BY <2>1, <2>3, FlattenHalves, Zenon
<1> DEFINE F == FlattenSeq(G)
<1>6. ASSUME NEW j \in 1 .. 2 * n PROVE F[j] = HalfOf(d, j)
  <2> HIDE DEF F
  <2>1. CASE j % 2 = 1
    <3> DEFINE i == (j + 1) \div 2
    <3>1. i \in 1 .. n /\ j = 2 * (i - 1) + 1
      BY <2>1
    <3>2. HalfOf(d, j) = d[i] \div 16
      BY <2>1 DEF HalfOf
    <3> HIDE DEF i
    <3>3. F[2 * (i - 1) + 1] = G[i][1]
      BY <1>4, <1>5, <3>1 DEF F
    <3> QED BY <1>3, <3>1, <3>2, <3>3
  <2>2. CASE j % 2 # 1
    <3> DEFINE i == j \div 2
    <3>1. i \in 1 .. n /\ j = 2 * (i - 1) + 2
      BY <2>2
    <3>2. HalfOf(d, j) = d[i] % 16
      BY <2>2 DEF HalfOf
    <3> HIDE DEF i
    <3>3. F[2 * (i - 1) + 2] = G[i][2]
      BY <1>4, <1>5, <3>1 DEF F
    <3> QED BY <1>3, <3>1, <3>2, <3>3
  <2> QED BY <2>1, <2>2
<1> QED BY <1>2, <1>4, <1>5, <1>6

(* All half bytes of a packet, the header's first. *)
Quads(c, p) == Header(c, Len(p)) \o Nibbles(Body(p))

Framed(q, c, n, body) ==
  /\ q \in [1 .. 8 + 2 * n -> Nibble]
  /\ q[1] = n \div 16 /\ q[2] = n % 16 /\ (q[3] % 2 = 1) = c.crc
  /\ q[4] = XorByte(XorByte(q[1], q[2]), q[3])
  /\ \A j \in 1 .. 2 * (n + 2) : q[4 + j] = HalfOf(body, j)

(* The half bytes of a packet: the four of its header and reserve, those of
   the body, and four more. *)
LEMMA QuadsIs ==
  ASSUME NEW n \in 0 .. 255, NEW p \in [1 .. n -> Byte], NEW c, c.cr \in 1 .. 4, c.crc \in BOOLEAN
  PROVE  Framed(Quads(c, p), c, n, Body(p))
<1> DEFINE flags == 2 * (c.cr - 1) + (IF c.crc THEN 1 ELSE 0)
           x == n \div 16
           y == n % 16
           z == XorByte(XorByte(x, y), flags)
           h == <<x, y, flags, z>>
           t == Nibbles(Body(p))
           q == h \o t
<1>1. x \in Nibble /\ y \in Nibble /\ flags \in Nibble /\ (flags % 2 = 1) = c.crc
  BY DEF Nibble
<1>2. Len(p) = n
  <2>1. n \in Nat
    OBVIOUS
  <2> QED BY <2>1, ArraySeq
<1>3. Header(c, Len(p)) = h
  BY <1>2 DEF Header
<1>4. x = n \div 16 /\ y = n % 16 /\ z = XorByte(XorByte(x, y), flags)
  OBVIOUS
<1> HIDE DEF x, y, flags
<1>5. z \in Nibble
  BY <1>1, XorHalves DEF Nibble
<1> HIDE DEF z
<1>6. h \in Seq(Nibble) /\ Len(h) = 4 /\ h[1] = x /\ h[2] = y /\ h[3] = flags /\ h[4] = z
  BY <1>1, <1>5
<1> HIDE DEF h
<1>7. t \in Seq(Nibble) /\ Len(t) = 2 * (n + 2) /\ \A j \in 1 .. 2 * (n + 2) : t[j] = HalfOf(Body(p), j)
  <2>1. n + 2 \in Nat \ {0} /\ n \in Nat
    OBVIOUS
  <2>2. Body(p) \in [1 .. n + 2 -> Byte]
    BY <2>1, BodyIs
  <2> QED BY <2>1, <2>2, NibblesIs
<1> HIDE DEF t
<1>8. /\ q \in Seq(Nibble) /\ Len(q) = Len(h) + Len(t) /\ (\A i \in 1 .. Len(h) : q[i] = h[i])
      /\ \A i \in 1 .. Len(t) : q[Len(h) + i] = t[i]
  <2>1. \A u, v \in Seq(Nibble) : /\ u \o v \in Seq(Nibble) /\ Len(u \o v) = Len(u) + Len(v)
                                  /\ \A i \in 1 .. Len(u) : (u \o v)[i] = u[i]
                                  /\ \A i \in 1 .. Len(v) : (u \o v)[Len(u) + i] = v[i]
    BY Concat
  <2> QED BY <1>6, <1>7, <2>1, Zenon
<1>9. Quads(c, p) = q
  BY <1>3 DEF Quads, t
<1> HIDE DEF q
<1>10. Len(q) = 8 + 2 * n /\ q \in [1 .. 8 + 2 * n -> Nibble]
  <2>1. Len(q) = 8 + 2 * n /\ DOMAIN q = 1 .. Len(q) /\ \A i \in 1 .. Len(q) : q[i] \in Nibble
    BY <1>6, <1>7, <1>8, LenProperties, ElementOfSeq
  <2> QED BY <1>8, <2>1
<1>11. q[1] = x /\ q[2] = y /\ q[3] = flags /\ q[4] = z
  BY <1>6, <1>8
<1>12. \A j \in 1 .. 2 * (n + 2) : q[4 + j] = HalfOf(Body(p), j)
  BY <1>6, <1>7, <1>8
<1> QED BY <1>1, <1>4, <1>9, <1>10, <1>11, <1>12 DEF Framed

(* The coded stream. *)
LEMMA CodedIs ==
  ASSUME NEW cr \in 1 .. 4, NEW m \in Nat \ {0}, NEW Q \in [1 .. m -> Nibble]
  PROVE  /\ HammingCoded(Q, cr) \in [1 .. (4 + cr) * m -> Bit]
         /\ \A k \in 1 .. m : lora_hamming_encode(Q[k], cr) \in [1 .. 4 + cr -> Bit]
         /\ \A k \in 1 .. m : \A j \in 1 .. 4 + cr :
              HammingCoded(Q, cr)[(4 + cr) * (k - 1) + j] = lora_hamming_encode(Q[k], cr)[j]
<1> DEFINE w == 4 + cr
           G == [i \in 1 .. m |-> lora_hamming_encode(Q[i], cr)]
<1>1. Len(Q) = m
  BY ArraySeq
<1>2. HammingCoded(Q, cr) = FlattenSeq(G)
  BY <1>1 DEF HammingCoded
<1>3. \A k \in 1 .. m : lora_hamming_encode(Q[k], cr) \in [1 .. w -> Bit]
  <2> SUFFICES ASSUME NEW k \in 1 .. m PROVE lora_hamming_encode(Q[k], cr) \in [1 .. w -> Bit]
    OBVIOUS
  <2>1. Q[k] \in Nibble
    OBVIOUS
  <2>2. PICK a, b, c, d \in Bit : Codes(lora_hamming_encode(Q[k], cr), cr, a, b, c, d)
    BY <2>1, EncodeIs
  <2> QED BY <2>2, Zenon DEF Codes
<1>4. G \in [1 .. m -> [1 .. w -> Bit]] /\ w \in Nat /\ \A k \in 1 .. m : G[k] = lora_hamming_encode(Q[k], cr)
  BY <1>3
<1> HIDE DEF G
<1> HIDE DEF w
<1>6. /\ FlattenSeq(G) \in [1 .. w * m -> Bit]
      /\ \A i \in 1 .. m : \A j \in 1 .. w : FlattenSeq(G)[w * (i - 1) + j] = G[i][j]
  BY <1>4, FlattenBits
<1>7. \A i \in 1 .. m : \A j \in 1 .. w : FlattenSeq(G)[w * (i - 1) + j] = lora_hamming_encode(Q[i], cr)[j]
  BY <1>4, <1>6
<1> QED BY <1>2, <1>3, <1>6, <1>7, Zenon DEF w

(* A stream cut into rows. *)
LEMMA ChunksAll ==
  \A f \in 5 .. 12 : \A n \in Nat : \A x \in [1 .. n -> Bit] :
    /\ n \div f \in Nat /\ f * (n \div f) <= n
    /\ Chunks(x, f) \in [1 .. n \div f -> [1 .. f -> Bit]]
    /\ \A k \in 1 .. n \div f : \A j \in 1 .. f : Chunks(x, f)[k][j] = x[f * (k - 1) + j]
  BY ChunksIs

(* What the receiver makes of S rows of f bits. *)
WordsOf(R, S, f, cr) == Chunks(Unwound(Stream(R, S), f), 4 + cr)
HalvesOf(R, S, f, cr) ==
  [i \in 1 .. Len(WordsOf(R, S, f, cr)) |-> lora_hamming_decode(WordsOf(R, S, f, cr)[i], cr)]

(* The symbols that carry the bits of a codeword arrived. *)
Arrived(R, rows, k, w, f) ==
  \A j \in 1 .. w : R[Row(w * (k - 1) + j, f)] = binary_to_gray(rows[Row(w * (k - 1) + j, f)])

(* Two words that agree in every place are the same. *)
LEMMA SameWord == \A w \in Nat : \A u, v \in [1 .. w -> Bit] : (\A j \in 1 .. w : u[j] = v[j]) => u = v
  OBVIOUS

Decodes(Q, m, R, S, f, cr) ==
  \E K \in Nat : /\ K >= m /\ HalvesOf(R, S, f, cr) \in [1 .. K -> Nibble]
                 /\ \A k \in 1 .. m : Arrived(R, SentRows(HammingCoded(Q, cr), f), k, 4 + cr, f)
                                        => HalvesOf(R, S, f, cr)[k] = Q[k]

(* A half byte of the packet is decoded as it was sent when all the rows its
   codeword is in arrived, and one that is not is still half a byte. *)
LEMMA Decoding ==
  \A f \in 6 .. 12 : \A cr \in 1 .. 4 : \A m \in Nat \ {0} : \A Q \in [1 .. m -> Nibble] : \A S \in Nat \ {0} :
    S = ((4 + cr) * m + f - 1) \div f => \A R \in [1 .. S -> [1 .. f -> Bit]] : Decodes(Q, m, R, S, f, cr)
<1> SUFFICES ASSUME NEW f \in 6 .. 12, NEW cr \in 1 .. 4, NEW m \in Nat \ {0}, NEW Q \in [1 .. m -> Nibble],
                    NEW S \in Nat \ {0}, S = ((4 + cr) * m + f - 1) \div f, NEW R \in [1 .. S -> [1 .. f -> Bit]]
             PROVE  Decodes(Q, m, R, S, f, cr)
  BY Zenon
<1> DEFINE w == 4 + cr
           n == w * m
           x == HammingCoded(Q, cr)
           D == Unwound(Stream(R, S), f)
           t == f * S
           K == t \div w
           words == WordsOf(R, S, f, cr)
           rows == SentRows(x, f)
<1>1. /\ x \in [1 .. n -> Bit]
      /\ \A k \in 1 .. m : lora_hamming_encode(Q[k], cr) \in [1 .. w -> Bit]
      /\ \A k \in 1 .. m : \A j \in 1 .. w : x[w * (k - 1) + j] = lora_hamming_encode(Q[k], cr)[j]
  BY CodedIs
<1>2. w \in 5 .. 8 /\ n \in Nat /\ n = w * m /\ t = f * S /\ t \in Nat
  OBVIOUS
<1>3. S = (n + f - 1) \div f
  OBVIOUS
<1>4. words = Chunks(D, w)
  BY DEF WordsOf
<1> HIDE DEF D
<1>5. /\ D \in [1 .. t -> Bit] /\ n <= t
      /\ \A i \in 1 .. n : R[Row(i, f)] = binary_to_gray(rows[Row(i, f)]) => D[i] = x[i]
  <2> HIDE DEF n, x
  <2>1. f \in 5 .. 12 /\ n \in Nat
    BY <1>2
  <2>2. x \in [1 .. n -> Bit]
    BY <1>1
  <2>3. /\ Unwound(Stream(R, S), f) \in [1 .. f * S -> Bit] /\ n <= f * S
        /\ \A i \in 1 .. n : R[Row(i, f)] = binary_to_gray(SentRows(x, f)[Row(i, f)])
                               => Unwound(Stream(R, S), f)[i] = x[i]
    <3>1. S \in Nat \ {0} /\ S = (n + f - 1) \div f
      BY <1>3
    <3>2. R \in [1 .. S -> [1 .. f -> Bit]]
      OBVIOUS
    <3>3. \A s \in Nat \ {0} :
            s = (n + f - 1) \div f => \A r \in [1 .. s -> [1 .. f -> Bit]] :
              /\ Unwound(Stream(r, s), f) \in [1 .. f * s -> Bit] /\ n <= f * s
              /\ \A i \in 1 .. n : r[Row(i, f)] = binary_to_gray(SentRows(x, f)[Row(i, f)])
                                     => Unwound(Stream(r, s), f)[i] = x[i]
      BY <2>1, <2>2, Received, Zenon
    <3> QED BY <3>1, <3>2, <3>3, Zenon
  <2> QED BY <2>3, Zenon DEF D
<1>6. /\ K \in Nat /\ w * K <= t /\ words \in [1 .. K -> [1 .. w -> Bit]]
      /\ \A k \in 1 .. K : \A j \in 1 .. w : words[k][j] = D[w * (k - 1) + j]
  <2>1. w \in 5 .. 12 /\ t \in Nat /\ D \in [1 .. t -> Bit]
    BY <1>2, <1>5
  <2> HIDE DEF w, t
  <2>2. /\ t \div w \in Nat /\ w * (t \div w) <= t
        /\ Chunks(D, w) \in [1 .. t \div w -> [1 .. w -> Bit]]
        /\ \A k \in 1 .. t \div w : \A j \in 1 .. w : Chunks(D, w)[k][j] = D[w * (k - 1) + j]
    BY <2>1, ChunksAll, Zenon
  <2> HIDE DEF words
  <2> QED BY <1>4, <2>2, Zenon DEF K
<1> HIDE DEF x, w, n, words, t, rows
<1>7. K >= m
  <2>1. w \in 5 .. 12
    BY <1>2
  <2>2. t % w \in 0 .. w - 1 /\ t = w * K + (t % w)
    BY <1>2, <2>1, Divided
  <2>3. PICK r \in 0 .. w - 1 : t = w * K + r
    BY <2>2
  <2> HIDE DEF K
  <2> SUFFICES ASSUME K + 1 <= m PROVE FALSE
    BY <1>6
  <2>4. w * m - w * (K + 1) = w * (m - (K + 1)) /\ w * (m - (K + 1)) >= 0 /\ w * (K + 1) = w * K + w
    BY <1>2, <1>6
  <2> DEFINE a == w * K
             b == w * m
  <2>5. a \in Int /\ b \in Int /\ b - (a + w) >= 0 /\ t = a + r /\ b <= t /\ w \in Int
    BY <1>2, <1>5, <1>6, <2>3, <2>4
  <2> HIDE DEF a, b
  <2> QED BY <2>5
<1> HIDE DEF K
<1> DEFINE N == HalvesOf(R, S, f, cr)
<1>8. Len(words) = K
  BY <1>6, ArraySeq
<1>9. N = [i \in 1 .. K |-> lora_hamming_decode(words[i], cr)]
  BY <1>8 DEF HalvesOf, words
<1> HIDE DEF N
<1>10. \A i \in 1 .. K : N[i] \in Nibble
  <2> SUFFICES ASSUME NEW i \in 1 .. K PROVE N[i] \in Nibble
    OBVIOUS
  <2>1. words[i] \in [1 .. 4 + cr -> Bit]
    BY <1>6 DEF w
  <2> QED BY <1>9, <2>1, DecodeIn
<1>11. N \in [1 .. K -> Nibble]
  BY <1>9, <1>10
<1>12. ASSUME NEW k \in 1 .. m, Arrived(R, rows, k, w, f) PROVE N[k] = Q[k]
  <2>1. k \in 1 .. K
    BY <1>6, <1>7
  <2>2. ASSUME NEW j \in 1 .. w PROVE words[k][j] = lora_hamming_encode(Q[k], cr)[j]
    <3> DEFINE i == w * (k - 1) + j
    <3>1. i \in 1 .. n
      <4>1. j \in 1 .. w /\ w \in Nat /\ m \in Nat
        BY <1>2
      <4>2. w * (k - 1) + j \in 1 .. w * m
        BY <4>1, Place
      <4> QED BY <1>2, <4>2
    <3>2. words[k][j] = D[i] /\ x[i] = lora_hamming_encode(Q[k], cr)[j]
      BY <1>1, <1>6, <2>1
    <3>3. R[Row(i, f)] = binary_to_gray(rows[Row(i, f)])
      BY <1>12, Zenon DEF Arrived
    <3> HIDE DEF i
    <3>4. D[i] = x[i]
      BY <1>5, <3>1, <3>3
    <3> QED BY <3>2, <3>4
  <2>3. words[k] \in [1 .. w -> Bit] /\ lora_hamming_encode(Q[k], cr) \in [1 .. w -> Bit]
    BY <1>1, <1>6, <2>1
  <2>4. words[k] = lora_hamming_encode(Q[k], cr)
    <3>1. w \in Nat
      BY <1>2
    <3> QED BY <2>2, <2>3, <3>1, SameWord, Zenon
  <2>5. N[k] = lora_hamming_decode(lora_hamming_encode(Q[k], cr), cr)
    BY <1>9, <2>1, <2>4
  <2>6. Q[k] \in Nibble
    OBVIOUS
  <2> QED BY <2>5, <2>6, HammingUndone
<1> QED BY <1>6, <1>7, <1>11, <1>12 DEF Decodes, N, rows, x, w
-----------------------------------------------------------------------------
(***************************************************************************)
(* A symbol that is changed beyond the header.                              *)
(***************************************************************************)

(* The row of a bit is one of the packet. *)
LEMMA RowIn ==
  ASSUME NEW f \in 6 .. 12, NEW n \in Nat, NEW S \in Nat, n <= f * S, NEW i \in 1 .. n
  PROVE  Row(i, f) \in 1 .. S
<1>1. f \in 5 .. 12 /\ i \in 1 .. f * S
  OBVIOUS
<1>2. PICK s \in 0 .. S - 1 : (i - 1) \div f = s
  BY <1>1, RowOf
<1> QED BY <1>2 DEF Row

(* At most four codewords, none of them of the header, have bits in it. *)
LEMMA Touched ==
  ASSUME NEW f \in 6 .. 12, NEW w \in 5 .. 8, NEW s0 \in Nat, s0 >= (4 * w) \div f + 2
  PROVE  \E q \in Nat : /\ q >= 4
                        /\ \A k \in Nat \ {0} : k \notin q + 1 .. q + 4 =>
                             \A j \in 1 .. w : Row(w * (k - 1) + j, f) # s0
<1> DEFINE a == f * (s0 - 1)
           q == a \div w
           r == a % w
           h == (4 * w) \div f
           g == (4 * w) % f
<1>1. f \in 5 .. 12 /\ w \in 5 .. 12 /\ a \in Int /\ 4 * w \in Int
  OBVIOUS
<1>2. h \in Int /\ g \in 0 .. f - 1 /\ 4 * w = f * h + g
  BY <1>1, Divided
<1>3. s0 - 1 >= h + 1
  BY <1>2
<1>4. a = f * (s0 - 1)
  OBVIOUS
<1> HIDE DEF h, g, a
<1>5. q \in Int /\ r \in 0 .. w - 1 /\ a = w * q + r
  BY <1>1, Divided
<1> HIDE DEF q, r
<1>6. a > 4 * w
  <2>1. f * (s0 - 1) - f * (h + 1) = f * ((s0 - 1) - (h + 1)) /\ f * ((s0 - 1) - (h + 1)) >= 0
    BY <1>2, <1>3
  <2>2. f * (h + 1) = f * h + f
    BY <1>2
  <2> DEFINE b == f * h
  <2>3. b \in Int /\ 4 * w = b + g /\ a >= b + f
    BY <1>2, <1>4, <2>1, <2>2
  <2> HIDE DEF b
  <2> QED BY <1>1, <1>2, <2>3
<1>7. q >= 4
  <2> SUFFICES ASSUME q <= 3 PROVE FALSE
    BY <1>5
  <2>1. w * 3 - w * q = w * (3 - q) /\ w * (3 - q) >= 0
    BY <1>5
  <2> DEFINE b == w * q
  <2>2. b \in Int /\ b <= 3 * w /\ a = b + r
    BY <1>5, <2>1
  <2> HIDE DEF b
  <2> QED BY <1>5, <1>6, <2>2
<1>8. ASSUME NEW k \in Nat \ {0}, k \notin q + 1 .. q + 4, NEW j \in 1 .. w, Row(w * (k - 1) + j, f) = s0
      PROVE  FALSE
  <2> DEFINE x == w * (k - 1)
             y == w * q
  <2>1. x \in Int /\ y \in Int /\ a = y + r
    BY <1>5
  <2>2. k - 1 < q \/ k - 1 >= q + 4
    BY <1>5, <1>8
  <2>3. k - 1 < q => x <= y - w
    <3>1. w * q - w * (k - 1) = w * (q - (k - 1))
      BY <1>5
    <3>2. k - 1 < q => w * (q - (k - 1)) >= w * 1
      BY <1>5
    <3> QED BY <1>5, <3>1, <3>2
  <2>4. k - 1 >= q + 4 => x >= y + 4 * w
    <3>1. w * (k - 1) - w * q = w * ((k - 1) - q)
      BY <1>5
    <3>2. k - 1 >= q + 4 => w * ((k - 1) - q) >= w * 4
      BY <1>5
    <3> QED BY <1>5, <3>1, <3>2
  <2>5. ((x + j) - 1) \div f = s0 - 1
    <3>1. ((x + j) - 1) \div f \in Int
      BY <1>1, <2>1, Divided
    <3> QED BY <1>8, <3>1 DEF Row
  <2> HIDE DEF x, y
  <2>6. PICK e \in 0 .. f - 1 : (x + j) - 1 = f * (s0 - 1) + e
    <3>1. (x + j) - 1 \in Int
      BY <2>1
    <3>2. ((x + j) - 1) % f \in 0 .. f - 1 /\ (x + j) - 1 = f * (((x + j) - 1) \div f) + (((x + j) - 1) % f)
      BY <1>1, <3>1, Divided
    <3> QED BY <2>5, <3>2
  <2>7. (x + j) - 1 = y + r + e
    BY <1>4, <2>1, <2>6
  <2> QED BY <1>5, <2>1, <2>2, <2>3, <2>4, <2>6, <2>7
<1>9. ASSUME NEW k \in Nat \ {0}, k \notin q + 1 .. q + 4 PROVE \A j \in 1 .. w : Row(w * (k - 1) + j, f) # s0
  BY <1>8, <1>9
<1>10. q \in Nat
  BY <1>5, <1>7
<1>11. \A k \in Nat \ {0} : k \notin q + 1 .. q + 4 => \A j \in 1 .. w : Row(w * (k - 1) + j, f) # s0
  BY <1>9, Zenon
<1> QED BY <1>7, <1>10, <1>11, Zenon

(* What arrives when one symbol at most is not as it was sent. *)
LEMMA NoneBut ==
  ASSUME NEW f \in 6 .. 12, NEW w \in 5 .. 8, NEW m \in Nat, NEW S \in Nat, w * m <= f * S,
         NEW rows, NEW R, NEW s0 \in Nat, \A s \in 1 .. S : s # s0 => R[s] = binary_to_gray(rows[s])
  PROVE  /\ s0 = 0 => \A k \in 1 .. m : Arrived(R, rows, k, w, f)
         /\ s0 >= (4 * w) \div f + 2 =>
              \E q \in Nat : q >= 4 /\ \A k \in 1 .. m : k \notin q + 1 .. q + 4 => Arrived(R, rows, k, w, f)
<1>1. ASSUME NEW k \in 1 .. m, \A j \in 1 .. w : Row(w * (k - 1) + j, f) # s0 PROVE Arrived(R, rows, k, w, f)
  <2>1. ASSUME NEW j \in 1 .. w
        PROVE  R[Row(w * (k - 1) + j, f)] = binary_to_gray(rows[Row(w * (k - 1) + j, f)])
    <3> DEFINE i == w * (k - 1) + j
    <3>1. w \in Nat /\ w * m \in Nat
      OBVIOUS
    <3>2. i \in 1 .. w * m
      BY <3>1, Place
    <3>3. Row(i, f) # s0
      BY <1>1
    <3> HIDE DEF i
    <3>4. Row(i, f) \in 1 .. S
      BY <3>1, <3>2, RowIn
    <3> QED BY <3>3, <3>4 DEF i
  <2> QED BY <2>1 DEF Arrived
<1>2. ASSUME s0 = 0, NEW k \in 1 .. m PROVE Arrived(R, rows, k, w, f)
  <2>1. ASSUME NEW j \in 1 .. w PROVE Row(w * (k - 1) + j, f) # s0
    <3>1. w \in Nat /\ w * m \in Nat
      OBVIOUS
    <3>2. w * (k - 1) + j \in 1 .. w * m
      BY <3>1, Place
    <3>3. Row(w * (k - 1) + j, f) \in 1 .. S
      BY <3>1, <3>2, RowIn
    <3> QED BY <1>2, <3>3
  <2> QED BY <1>1, <2>1
<1>3. ASSUME s0 >= (4 * w) \div f + 2
      PROVE  \E q \in Nat : q >= 4 /\ \A k \in 1 .. m : k \notin q + 1 .. q + 4 => Arrived(R, rows, k, w, f)
  <2>1. PICK q \in Nat : /\ q >= 4
                         /\ \A k \in Nat \ {0} : k \notin q + 1 .. q + 4 =>
                              \A j \in 1 .. w : Row(w * (k - 1) + j, f) # s0
    BY <1>3, Touched
  <2>2. \A k \in 1 .. m : k \in Nat \ {0}
    OBVIOUS
  <2> QED BY <1>1, <2>1, <2>2
<1> QED BY <1>2, <1>3
-----------------------------------------------------------------------------
(***************************************************************************)
(* A packet from end to end.                                                *)
(***************************************************************************)

(* The only element of a set. *)
LEMMA OnceIs == \A S, x : S = {x} => (CHOOSE y \in S : TRUE) = x
  BY OnlyOne

(* The sender and the receiver as the compositions of their stages. *)
Grays(rows) == [s \in 1 .. Len(rows) |-> binary_to_gray(rows[s])]
Stages(coded, c) == Chunks(lora_whiten(lora_diagonal_interleave(coded, c.sf)), c.sf)

LEMMA PacketIs ==
  \A c, p : lora_encode_packet(c, p) = Grays(SentRows(HammingCoded(Quads(c, p), c.cr), c.sf))
<1> SUFFICES ASSUME NEW c, NEW p
             PROVE  lora_encode_packet(c, p) = Grays(SentRows(HammingCoded(Quads(c, p), c.cr), c.sf))
  BY Zenon
<1> DEFINE v == HammingCoded(Header(c, Len(p)) \o Nibbles(p \o BigEndian(lora_crc16(p), 2)), c.cr)
           rows == CHOOSE y \in {Stages(x, c) : x \in {v}} : TRUE
<1>1. lora_encode_packet(c, p) = (CHOOSE y \in {Grays(x) : x \in {rows}} : TRUE)
  BY Zenon DEF lora_encode_packet, Once, Grays, Stages
<1>2. v = HammingCoded(Quads(c, p), c.cr)
  BY Zenon DEF Quads, Body
<1> HIDE DEF v
<1>3. {Stages(x, c) : x \in {v}} = {Stages(v, c)}
  OBVIOUS
<1>4. rows = Stages(v, c)
  BY <1>3, OnceIs, Zenon
<1> HIDE DEF rows
<1>5. {Grays(x) : x \in {rows}} = {Grays(rows)}
  OBVIOUS
<1>6. lora_encode_packet(c, p) = Grays(rows)
  BY <1>1, <1>5, OnceIs, Zenon
<1>7. Stages(v, c) = SentRows(v, c.sf)
  BY Zenon DEF Stages, SentRows
<1> QED BY <1>2, <1>4, <1>6, <1>7, Zenon

ReadWords(words, c) == Parsed([i \in 1 .. Len(words) |-> lora_hamming_decode(words[i], c.cr)] \o <<>>)
ReadBits(bits, c) == Chunks(lora_diagonal_deinterleave(lora_whiten(bits), c.sf), 4 + c.cr)

(* What the receiver makes of rows, before it looks at the checksum. *)
LEMMA UnpackedIs ==
  ASSUME NEW c, NEW R, NEW S \in Nat, Len(R) = S, S >= 8
  PROVE  Unpacked(c, R) = Parsed(HalvesOf(R, S, c.sf, c.cr) \o <<>>)
<1> DEFINE bits == Stream(R, S)
           words == CHOOSE y \in {ReadBits(x, c) : x \in {bits}} : TRUE
<1>1. Unpacked(c, R) = (CHOOSE y \in {ReadWords(x, c) : x \in {words}} : TRUE)
  <2>1. ~(Len(R) < 8)
    OBVIOUS
  <2>2. Unpacked(c, R) = Once(LAMBDA u : Parsed([i \in 1 .. Len(u) |-> lora_hamming_decode(u[i], c.cr)] \o <<>>),
            Once(LAMBDA u : Chunks(lora_diagonal_deinterleave(lora_whiten(u), c.sf), 4 + c.cr),
                 FlattenSeq([s \in 1 .. Len(R) |-> gray_to_binary(R[s])])))
    BY <2>1, Zenon DEF Unpacked
  <2>3. bits = FlattenSeq([s \in 1 .. Len(R) |-> gray_to_binary(R[s])])
    BY Zenon DEF Stream
  <2> HIDE DEF bits
  <2> QED BY <2>2, <2>3, Zenon DEF Once, ReadWords, ReadBits
<1> HIDE DEF bits
<1>2. {ReadBits(x, c) : x \in {bits}} = {ReadBits(bits, c)}
  OBVIOUS
<1>3. words = ReadBits(bits, c)
  BY <1>2, OnceIs, Zenon
<1> HIDE DEF words
<1>4. {ReadWords(x, c) : x \in {words}} = {ReadWords(words, c)}
  OBVIOUS
<1>5. Unpacked(c, R) = ReadWords(words, c)
  BY <1>1, <1>4, OnceIs, Zenon
<1>6. words = WordsOf(R, S, c.sf, c.cr)
  BY <1>3, Zenon DEF ReadBits, WordsOf, Unwound, bits
<1> QED BY <1>5, <1>6, Zenon DEF ReadWords, HalvesOf

(* The symbols of a packet on the air, as many as the coded bits fill: all but
   one are those that were sent. *)
SymbolCount(c, n) == ((4 + c.cr) * (8 + 2 * n) + c.sf - 1) \div c.sf
OnAir(c, p, R, s0) ==
  /\ R \in [1 .. SymbolCount(c, Len(p)) -> [1 .. c.sf -> Bit]]
  /\ \A s \in 1 .. SymbolCount(c, Len(p)) :
       s # s0 => R[s] = binary_to_gray(SentRows(HammingCoded(Quads(c, p), c.cr), c.sf)[s])

(* What validated parameters are. *)
Valid(c) == c.sf \in 6 .. 12 /\ c.cr \in 1 .. 4 /\ c.crc \in BOOLEAN

(* The number of symbols, and the bits they hold. *)
LEMMA CountIs ==
  ASSUME NEW c, Valid(c), NEW n \in Nat
  PROVE  SymbolCount(c, n) \in Nat \ {0} /\ (4 + c.cr) * (8 + 2 * n) <= c.sf * SymbolCount(c, n)
<1> DEFINE f == c.sf
           w == 4 + c.cr
           m == 8 + 2 * n
           t == w * m
           S == (t + f - 1) \div f
           r == (t + f - 1) % f
<1>1. f \in 5 .. 12 /\ w \in 5 .. 8 /\ m \in Nat /\ m >= 8
  BY DEF Valid
<1>2. t \in Int /\ t >= 1
  BY <1>1
<1>3. SymbolCount(c, n) = S
  BY DEF SymbolCount
<1>4. t = (4 + c.cr) * (8 + 2 * n)
  OBVIOUS
<1> HIDE DEF t, m, w
<1>5. t + f - 1 \in Int
  BY <1>1, <1>2
<1> HIDE DEF f
<1>6. S \in Int /\ r \in 0 .. f - 1 /\ t + f - 1 = f * S + r
  BY <1>1, <1>5, Divided
<1> HIDE DEF S, r
<1>7. f * S >= t
  <2> DEFINE b == f * S
  <2>1. b \in Int /\ t + f - 1 = b + r
    BY <1>1, <1>6
  <2> HIDE DEF b
  <2> QED BY <1>1, <1>2, <1>6, <2>1
<1>8. S >= 1
  <2> SUFFICES ASSUME S <= 0 PROVE FALSE
    BY <1>6
  <2>1. f * S <= 0
    BY <1>1, <1>6
  <2> DEFINE b == f * S
  <2>2. b \in Int /\ b >= t /\ b <= 0
    BY <1>1, <1>6, <1>7, <2>1
  <2> HIDE DEF b
  <2> QED BY <1>2, <2>2
<1> QED BY <1>3, <1>4, <1>6, <1>7, <1>8 DEF f

(* A packet as it is sent. *)
LEMMA SentOnAir ==
  ASSUME NEW c, Valid(c), NEW n \in 0 .. 255, NEW p \in [1 .. n -> Byte]
  PROVE  OnAir(c, p, lora_encode_packet(c, p), 0)
<1> DEFINE f == c.sf
           Q == Quads(c, p)
           m == 8 + 2 * n
           x == HammingCoded(Q, c.cr)
           S == SymbolCount(c, n)
           rows == SentRows(x, f)
<1>1. Len(p) = n /\ f \in 6 .. 12 /\ f \in 5 .. 12 /\ c.cr \in 1 .. 4 /\ c.crc \in BOOLEAN /\ m \in Nat \ {0}
  <2>1. n \in Nat
    OBVIOUS
  <2> QED BY <2>1, ArraySeq DEF Valid
<1>2. Q \in [1 .. m -> Nibble]
  <2>1. Framed(Quads(c, p), c, n, Body(p))
    BY <1>1, QuadsIs
  <2> QED BY <2>1 DEF Framed
<1>3. S \in Nat /\ S = ((4 + c.cr) * m + f - 1) \div f
  BY <1>1, CountIs DEF SymbolCount
<1> HIDE DEF Q, S
<1>4. x \in [1 .. (4 + c.cr) * m -> Bit] /\ (4 + c.cr) * m \in Nat
  <2> HIDE DEF m
  <2>1. c.cr \in 1 .. 4 /\ m \in Nat \ {0}
    BY <1>1
  <2>2. HammingCoded(Q, c.cr) \in [1 .. (4 + c.cr) * m -> Bit]
    BY <1>2, <2>1, CodedIs
  <2>3. (4 + c.cr) * m \in Nat
    BY <2>1
  <2> QED BY <2>2, <2>3
<1> HIDE DEF x
<1>5. rows \in [1 .. S -> [1 .. f -> Bit]]
  <2> HIDE DEF m, f
  <2> QED BY <1>1, <1>3, <1>4, SentIs
<1>6. Len(rows) = S
  BY <1>3, <1>5, ArraySeq
<1>7. lora_encode_packet(c, p) = Grays(rows)
  BY PacketIs, Zenon DEF Q, x
<1> HIDE DEF rows, f
<1>8. \A s \in 1 .. S : binary_to_gray(rows[s]) \in [1 .. f -> Bit]
  <2> SUFFICES ASSUME NEW s \in 1 .. S PROVE binary_to_gray(rows[s]) \in [1 .. f -> Bit]
    OBVIOUS
  <2>1. rows[s] \in [1 .. f -> Bit]
    BY <1>5
  <2> QED BY <1>1, <2>1, GrayIn
<1>9. /\ Grays(rows) \in [1 .. S -> [1 .. f -> Bit]]
      /\ \A s \in 1 .. S : Grays(rows)[s] = binary_to_gray(rows[s])
  BY <1>6, <1>8 DEF Grays
<1> QED BY <1>1, <1>7, <1>9 DEF OnAir, S, rows, x, Q, f

(* ... and with one symbol changed. *)
LEMMA DamagedOnAir ==
  ASSUME NEW c, NEW p, NEW R, OnAir(c, p, R, 0), NEW s0 \in 1 .. Len(R), NEW v \in [1 .. c.sf -> Bit]
  PROVE  OnAir(c, p, [R EXCEPT ![s0] = v], s0)
<1> DEFINE S == SymbolCount(c, Len(p))
           e == [R EXCEPT ![s0] = v]
<1> HIDE DEF S
<1>1. R \in [1 .. S -> [1 .. c.sf -> Bit]]
  BY DEF OnAir, S
<1>2. e \in [1 .. S -> [1 .. c.sf -> Bit]] /\ \A s \in 1 .. S : s # s0 => e[s] = R[s]
  BY <1>1
<1>3. ASSUME NEW s \in 1 .. S, s # s0
      PROVE  e[s] = binary_to_gray(SentRows(HammingCoded(Quads(c, p), c.cr), c.sf)[s])
  <2>1. s # 0
    OBVIOUS
  <2>2. R[s] = binary_to_gray(SentRows(HammingCoded(Quads(c, p), c.cr), c.sf)[s])
    BY <2>1 DEF OnAir, S
  <2> QED BY <1>2, <1>3, <2>2
<1> QED BY <1>2, <1>3 DEF OnAir, S

(* The empty sequence adds nothing. *)
LEMMA NothingAdded == \A K \in Nat : \A N \in [1 .. K -> Nibble] : N \o <<>> = N
<1> SUFFICES ASSUME NEW K \in Nat, NEW N \in [1 .. K -> Nibble] PROVE N \o <<>> = N
  OBVIOUS
<1>1. N \in Seq(Nibble)
  BY ArraySeq
<1> QED BY <1>1, ConcatEmptySeq

(* The half bytes that a receiver makes of the symbols. *)
Right(N, c, p, k) == N[k] = Quads(c, p)[k]

(* What the receiver decodes: everything as it was sent when no symbol was
   changed, and all but four half bytes when one beyond the header was. *)
LEMMA Arrives ==
  ASSUME NEW c, Valid(c), NEW n \in 0 .. 255, NEW p \in [1 .. n -> Byte],
         NEW R, NEW s0 \in Nat, OnAir(c, p, R, s0), Len(R) >= 8
  PROVE  \E K \in Nat : \E N \in [1 .. K -> Nibble] :
           /\ K >= 8 + 2 * n /\ Unpacked(c, R) = Parsed(N)
           /\ s0 = 0 => \A k \in 1 .. 8 + 2 * n : Right(N, c, p, k)
           /\ s0 >= FirstBeyondHeader(c) =>
                \E q \in Nat : q >= 4 /\ \A k \in 1 .. 8 + 2 * n : k \notin q + 1 .. q + 4 => Right(N, c, p, k)
<1> DEFINE f == c.sf
           cr == c.cr
           w == 4 + cr
           m == 8 + 2 * n
           Q == Quads(c, p)
           S == SymbolCount(c, n)
           rows == SentRows(HammingCoded(Q, cr), f)
           N == HalvesOf(R, S, f, cr)
<1>1. Len(p) = n /\ f \in 6 .. 12 /\ cr \in 1 .. 4 /\ w \in 5 .. 8 /\ c.crc \in BOOLEAN /\ m \in Nat \ {0} /\ n \in Nat
  <2>1. n \in Nat
    OBVIOUS
  <2> QED BY <2>1, ArraySeq DEF Valid
<1>2. Q \in [1 .. m -> Nibble]
  <2>1. Framed(Quads(c, p), c, n, Body(p))
    BY <1>1, QuadsIs
  <2> QED BY <2>1 DEF Framed
<1>3. S \in Nat \ {0} /\ w * m <= f * S /\ S = ((4 + cr) * m + f - 1) \div f
  BY <1>1, CountIs DEF SymbolCount
<1>4. R \in [1 .. S -> [1 .. f -> Bit]] /\ \A s \in 1 .. S : s # s0 => R[s] = binary_to_gray(rows[s])
  BY <1>1 DEF OnAir
<1>5. Len(R) = S
  BY <1>3, <1>4, ArraySeq
<1>6. Unpacked(c, R) = Parsed(N \o <<>>)
  <2> HIDE DEF S
  <2>1. Unpacked(c, R) = Parsed(HalvesOf(R, S, c.sf, c.cr) \o <<>>)
    BY <1>3, <1>5, UnpackedIs
  <2> QED BY <2>1
<1>7. FirstBeyondHeader(c) = (4 * w) \div f + 2
  BY DEF FirstBeyondHeader
<1> HIDE DEF Q, S, m
<1>8. PICK K \in Nat : /\ K >= m /\ N \in [1 .. K -> Nibble]
                       /\ \A k \in 1 .. m : Arrived(R, rows, k, w, f) => N[k] = Q[k]
  <2> HIDE DEF f, cr
  <2>1. \E K \in Nat : /\ K >= m /\ HalvesOf(R, S, f, cr) \in [1 .. K -> Nibble]
                       /\ \A k \in 1 .. m : Arrived(R, SentRows(HammingCoded(Q, cr), f), k, 4 + cr, f)
                                              => HalvesOf(R, S, f, cr)[k] = Q[k]
    <3>1. f \in 6 .. 12
      BY <1>1
    <3>2. cr \in 1 .. 4
      BY <1>1
    <3>3. m \in Nat \ {0}
      BY <1>1
    <3>4. S \in Nat \ {0}
      BY <1>3
    <3>5. S = ((4 + cr) * m + f - 1) \div f
      BY <1>3
    <3>6. R \in [1 .. S -> [1 .. f -> Bit]]
      BY <1>4
    <3>7. Decodes(Q, m, R, S, f, cr)
      BY <1>2, <3>1, <3>2, <3>3, <3>4, <3>5, <3>6, Decoding, Zenon
    <3> QED BY <3>7, Zenon DEF Decodes
  <2> QED BY <2>1, Zenon
<1> HIDE DEF N
<1>9. Parsed(N \o <<>>) = Parsed(N)
  BY <1>8, NothingAdded
<1> HIDE DEF rows
<1>10. /\ s0 = 0 => \A k \in 1 .. m : Arrived(R, rows, k, w, f)
       /\ s0 >= (4 * w) \div f + 2 =>
            \E q \in Nat : q >= 4 /\ \A k \in 1 .. m : k \notin q + 1 .. q + 4 => Arrived(R, rows, k, w, f)
  <2> HIDE DEF f, w
  <2> QED BY <1>1, <1>3, <1>4, NoneBut
<1>11. \A k \in 1 .. m : Arrived(R, rows, k, w, f) => Right(N, c, p, k)
  BY <1>8, Zenon DEF Right, Q
<1> HIDE DEF f, cr, w
<1>12. s0 = 0 => \A k \in 1 .. m : Right(N, c, p, k)
  BY <1>10, <1>11, Zenon
<1>13. s0 >= FirstBeyondHeader(c) =>
         \E q \in Nat : q >= 4 /\ \A k \in 1 .. m : k \notin q + 1 .. q + 4 => Right(N, c, p, k)
  BY <1>7, <1>10, <1>11, Zenon
<1> QED BY <1>6, <1>8, <1>9, <1>12, <1>13, Zenon DEF m

(* Half bytes with the header of n bytes. *)
LEMMA ParsedIs ==
  ASSUME NEW n \in 0 .. 255, NEW K \in Nat, K >= 8 + 2 * n, NEW N \in [1 .. K -> Nibble],
         N[1] = n \div 16, N[2] = n % 16, N[4] = XorByte(XorByte(N[1], N[2]), N[3])
  PROVE  \E d \in [1 .. n + 2 -> Byte] : \E e \in [1 .. n -> Byte] :
           /\ \A i \in 1 .. n : e[i] = d[i]
           /\ \A j \in 1 .. 2 * (n + 2) : HalfOf(d, j) = N[4 + j]
           /\ Parsed(N) = Decoded(0, e, N[3] % 2 = 1 => 256 * d[n + 1] + d[n + 2] = lora_crc16(e))
<1> DEFINE d == [i \in 1 .. n + 2 |-> 16 * N[3 + 2 * i] + N[4 + 2 * i]]
           e == [i \in 1 .. n |-> 16 * N[3 + 2 * i] + N[4 + 2 * i]]
           Outcome(x) == Decoded(0, x, N[3] % 2 = 1 =>
                           256 * (16 * N[3 + 2 * (n + 1)] + N[4 + 2 * (n + 1)])
                             + (16 * N[3 + 2 * (n + 2)] + N[4 + 2 * (n + 2)]) = lora_crc16(x))
<1>1. Len(N) = K
  BY ArraySeq
<1>2. 16 * N[1] + N[2] = n
  <2>1. n \in Nat
    OBVIOUS
  <2>2. 16 * (n \div 16) + (n % 16) = n
    BY <2>1
  <2> QED BY <2>2
<1>3. \A i \in 1 .. n + 2 : N[3 + 2 * i] \in Nibble /\ N[4 + 2 * i] \in Nibble
  <2>1. \A i \in 1 .. n + 2 : 3 + 2 * i \in 1 .. K /\ 4 + 2 * i \in 1 .. K
    OBVIOUS
  <2> QED BY <2>1
<1>4. \A i \in 1 .. n + 2 : 16 * N[3 + 2 * i] + N[4 + 2 * i] \in Byte
  <2>1. \A x, y \in Nibble : 16 * x + y \in Byte
    BY DEF Nibble, Byte
  <2> QED BY <1>3, <2>1
<1>5. d \in [1 .. n + 2 -> Byte] /\ e \in [1 .. n -> Byte] /\ \A i \in 1 .. n : e[i] = d[i]
  <2>1. \A i \in 1 .. n : i \in 1 .. n + 2
    OBVIOUS
  <2> QED BY <1>4, <2>1
<1>10. \A i \in 1 .. n + 2 : d[i] = 16 * N[3 + 2 * i] + N[4 + 2 * i]
  OBVIOUS
<1> HIDE DEF d
<1>6. ASSUME NEW j \in 1 .. 2 * (n + 2) PROVE HalfOf(d, j) = N[4 + j]
  <2>1. \A x, y \in Nibble : (16 * x + y) \div 16 = x /\ (16 * x + y) % 16 = y
    BY DEF Nibble
  <2>2. CASE j % 2 = 1
    <3> DEFINE i == (j + 1) \div 2
    <3>1. i \in 1 .. n + 2 /\ 3 + 2 * i = 4 + j
      BY <2>2
    <3>2. HalfOf(d, j) = d[i] \div 16
      BY <2>2 DEF HalfOf
    <3> HIDE DEF i
    <3>3. d[i] = 16 * N[3 + 2 * i] + N[4 + 2 * i]
      BY <1>10, <3>1, Zenon
    <3>4. N[3 + 2 * i] \in Nibble /\ N[4 + 2 * i] \in Nibble
      BY <1>3, <3>1, Zenon
    <3>5. (16 * N[3 + 2 * i] + N[4 + 2 * i]) \div 16 = N[3 + 2 * i]
      BY <2>1, <3>4, Zenon
    <3> QED BY <3>1, <3>2, <3>3, <3>5, Zenon
  <2>3. CASE j % 2 # 1
    <3> DEFINE i == j \div 2
    <3>1. i \in 1 .. n + 2 /\ 4 + 2 * i = 4 + j
      BY <2>3
    <3>2. HalfOf(d, j) = d[i] % 16
      BY <2>3 DEF HalfOf
    <3> HIDE DEF i
    <3>3. d[i] = 16 * N[3 + 2 * i] + N[4 + 2 * i]
      BY <1>10, <3>1, Zenon
    <3>4. N[3 + 2 * i] \in Nibble /\ N[4 + 2 * i] \in Nibble
      BY <1>3, <3>1, Zenon
    <3>5. (16 * N[3 + 2 * i] + N[4 + 2 * i]) % 16 = N[4 + 2 * i]
      BY <2>1, <3>4, Zenon
    <3> QED BY <3>1, <3>2, <3>3, <3>5, Zenon
  <2> QED BY <2>2, <2>3
<1>7. Parsed(N) = Outcome(e)
  <2>1. ~(Len(N) < 8 \/ N[4] # XorByte(XorByte(N[1], N[2]), N[3])) /\ ~(Len(N) < 8 + 2 * n)
    BY <1>1
  <2>2. {Outcome(x) : x \in {e}} = {Outcome(e)}
    <3> HIDE DEF e, Outcome
    <3> QED OBVIOUS
  <2>3. Parsed(N) = (CHOOSE y \in {Outcome(x) : x \in {e}} : TRUE)
    <3> DEFINE l == 16 * N[1] + N[2]
               O(len, x) == Decoded(0, x, N[3] % 2 = 1 =>
                             256 * (16 * N[3 + 2 * (len + 1)] + N[4 + 2 * (len + 1)])
                               + (16 * N[3 + 2 * (len + 2)] + N[4 + 2 * (len + 2)]) = lora_crc16(x))
    <3>1. l = n
      BY <1>2
    <3> DEFINE Rest(len) == IF Len(N) < 8 + 2 * len THEN Decoded(1, <<>>, TRUE)
                            ELSE CHOOSE y \in {O(len, x) : x \in {[i \in 1 .. len |-> 16 * N[3 + 2 * i] + N[4 + 2 * i]]}} : TRUE
    <3>2. Parsed(N) = IF Len(N) < 8 \/ N[4] # XorByte(XorByte(N[1], N[2]), N[3]) THEN Decoded(-1, <<>>, TRUE)
                      ELSE Rest(l)
      BY Zenon DEF Parsed, Once
    <3> HIDE DEF l, Rest
    <3>3. Parsed(N) = Rest(n)
      BY <2>1, <3>1, <3>2, Zenon
    <3>4. Rest(n) = CHOOSE y \in {O(n, x) : x \in {[i \in 1 .. n |-> 16 * N[3 + 2 * i] + N[4 + 2 * i]]}} : TRUE
      BY <2>1, Zenon DEF Rest
    <3> QED BY <3>3, <3>4, Zenon
  <2> HIDE DEF e, Outcome
  <2> QED BY <2>2, <2>3, OnceIs, Zenon
<1>8. d[n + 1] = 16 * N[3 + 2 * (n + 1)] + N[4 + 2 * (n + 1)] /\ d[n + 2] = 16 * N[3 + 2 * (n + 2)] + N[4 + 2 * (n + 2)]
  <2>1. n + 1 \in 1 .. n + 2 /\ n + 2 \in 1 .. n + 2
    OBVIOUS
  <2> QED BY <1>10, <2>1, Zenon
<1>9. Parsed(N) = Decoded(0, e, N[3] % 2 = 1 => 256 * d[n + 1] + d[n + 2] = lora_crc16(e))
  BY <1>7, <1>8, Zenon
<1> HIDE DEF d, e
<1> QED BY <1>5, <1>6, <1>9

Reads(c, n, p, R, s0) ==
  \E d \in [1 .. n + 2 -> Byte] : \E e \in [1 .. n -> Byte] :
     /\ \A i \in 1 .. n : e[i] = d[i]
     /\ s0 = 0 => \A j \in 1 .. 2 * (n + 2) : HalfOf(d, j) = HalfOf(Body(p), j)
     /\ Near(d, Body(p), 2 * (n + 2))
     /\ Unpacked(c, R) = Decoded(0, e, c.crc => 256 * d[n + 1] + d[n + 2] = lora_crc16(e))

(* What that means for the bytes. *)
LEMMA Unpacking ==
  \A n \in 0 .. 255 : \A p \in [1 .. n -> Byte] : \A s0 \in Nat : \A c, R :
    Valid(c) /\ OnAir(c, p, R, s0) /\ Len(R) >= 8 /\ (s0 = 0 \/ s0 >= FirstBeyondHeader(c)) => Reads(c, n, p, R, s0)
<1> SUFFICES ASSUME NEW c, Valid(c), NEW n \in 0 .. 255, NEW p \in [1 .. n -> Byte],
                    NEW R, NEW s0 \in Nat, OnAir(c, p, R, s0), Len(R) >= 8, s0 = 0 \/ s0 >= FirstBeyondHeader(c)
             PROVE  Reads(c, n, p, R, s0)
  BY Zenon
<1>0. PICK K \in Nat : \E N \in [1 .. K -> Nibble] :
        /\ K >= 8 + 2 * n /\ Unpacked(c, R) = Parsed(N)
        /\ s0 = 0 => \A k \in 1 .. 8 + 2 * n : Right(N, c, p, k)
        /\ s0 >= FirstBeyondHeader(c) =>
             \E q \in Nat : q >= 4 /\ \A k \in 1 .. 8 + 2 * n : k \notin q + 1 .. q + 4 => Right(N, c, p, k)
  BY Arrives
<1>1. PICK N \in [1 .. K -> Nibble] :
        /\ K >= 8 + 2 * n /\ Unpacked(c, R) = Parsed(N)
        /\ s0 = 0 => \A k \in 1 .. 8 + 2 * n : Right(N, c, p, k)
        /\ s0 >= FirstBeyondHeader(c) =>
             \E q \in Nat : q >= 4 /\ \A k \in 1 .. 8 + 2 * n : k \notin q + 1 .. q + 4 => Right(N, c, p, k)
  BY <1>0, Zenon
<1>2. PICK q \in Nat : q >= 4 /\ \A k \in 1 .. 8 + 2 * n : k \notin q + 1 .. q + 4 => Right(N, c, p, k)
  <2>1. CASE s0 = 0
    <3>1. 4 \in Nat /\ 4 >= 4
      OBVIOUS
    <3> QED BY <1>1, <2>1, <3>1, Zenon
  <2>2. CASE s0 >= FirstBeyondHeader(c)
    BY <1>1, <2>2, Zenon
  <2> QED BY <2>1, <2>2
<1> DEFINE Q == Quads(c, p)
           t == 2 * (n + 2)
<1>3. /\ Q[1] = n \div 16 /\ Q[2] = n % 16 /\ (Q[3] % 2 = 1) = c.crc
      /\ Q[4] = XorByte(XorByte(Q[1], Q[2]), Q[3])
      /\ \A j \in 1 .. t : Q[4 + j] = HalfOf(Body(p), j)
  <2>1. c.cr \in 1 .. 4 /\ c.crc \in BOOLEAN
    BY DEF Valid
  <2>2. Framed(Quads(c, p), c, n, Body(p))
    BY <2>1, QuadsIs
  <2> QED BY <2>2, Zenon DEF Q, Framed
<1>4. N[1] = Q[1] /\ N[2] = Q[2] /\ N[3] = Q[3] /\ N[4] = Q[4]
  <2>1. \A k \in 1 .. 4 : k \in 1 .. 8 + 2 * n /\ k \notin q + 1 .. q + 4
    BY <1>2
  <2>2. \A k \in 1 .. 4 : Right(N, c, p, k)
    BY <1>2, <2>1, Zenon
  <2>3. \A k \in 1 .. 4 : N[k] = Q[k]
    BY <2>2, Zenon DEF Right
  <2> HIDE DEF Q
  <2> QED BY <2>3
<1> HIDE DEF Q
<1>5. N[1] = n \div 16 /\ N[2] = n % 16 /\ N[4] = XorByte(XorByte(N[1], N[2]), N[3])
  BY <1>3, <1>4, Zenon
<1>6. PICK d \in [1 .. n + 2 -> Byte], e \in [1 .. n -> Byte] :
        /\ \A i \in 1 .. n : e[i] = d[i]
        /\ \A j \in 1 .. t : HalfOf(d, j) = N[4 + j]
        /\ Parsed(N) = Decoded(0, e, N[3] % 2 = 1 => 256 * d[n + 1] + d[n + 2] = lora_crc16(e))
  BY <1>1, <1>5, ParsedIs
<1>7. ASSUME NEW j \in 1 .. t, Right(N, c, p, 4 + j) PROVE HalfOf(d, j) = HalfOf(Body(p), j)
  <2>1. N[4 + j] = Q[4 + j]
    BY <1>7, Zenon DEF Right, Q
  <2> QED BY <1>3, <1>6, <2>1, Zenon
<1>8. \A j \in 1 .. t : 4 + j \in 1 .. 8 + 2 * n
  OBVIOUS
<1>9. s0 = 0 => \A j \in 1 .. t : HalfOf(d, j) = HalfOf(Body(p), j)
  <2> SUFFICES ASSUME s0 = 0, NEW j \in 1 .. t PROVE HalfOf(d, j) = HalfOf(Body(p), j)
    BY Zenon
  <2>1. Right(N, c, p, 4 + j)
    BY <1>1, <1>8, Zenon
  <2> QED BY <1>7, <2>1
<1>10. Near(d, Body(p), t)
  <2> DEFINE k == IF q - 4 <= t - 4 THEN q - 4 ELSE t - 4
  <2>1. k \in 0 .. t - 4 /\ \A j \in 1 .. t : j \notin k + 1 .. k + 4 => 4 + j \notin q + 1 .. q + 4
    BY <1>2
  <2> HIDE DEF k
  <2>2. ASSUME NEW j \in 1 .. t, j \notin k + 1 .. k + 4 PROVE HalfOf(d, j) = HalfOf(Body(p), j)
    <3>1. Right(N, c, p, 4 + j)
      BY <1>2, <1>8, <2>1, <2>2, Zenon
    <3> QED BY <1>7, <3>1
  <2>3. \A j \in 1 .. t : j \notin k + 1 .. k + 4 => HalfOf(d, j) = HalfOf(Body(p), j)
    BY <2>2, Zenon
  <2>4. k \in 0 .. t - 4
    BY <2>1
  <2> HIDE DEF t
  <2> QED BY <2>3, <2>4, Zenon DEF Near
<1>11. Unpacked(c, R) = Decoded(0, e, c.crc => 256 * d[n + 1] + d[n + 2] = lora_crc16(e))
  <2>1. (N[3] % 2 = 1) = c.crc
    BY <1>3, <1>4, Zenon
  <2> QED BY <1>1, <1>6, <2>1, Zenon
<1> QED BY <1>6, <1>9, <1>10, <1>11, Zenon DEF Reads

(* The receiver refuses a packet whose checksum is wrong. *)
LEMMA ReceiveIs ==
  \A c, R : lora_decode_packet(c, R) =
              IF Unpacked(c, R).crc THEN Unpacked(c, R)
              ELSE Decoded(-2, Unpacked(c, R).payload, Unpacked(c, R).crc)
<1> SUFFICES ASSUME NEW c, NEW R
             PROVE  lora_decode_packet(c, R) = IF Unpacked(c, R).crc THEN Unpacked(c, R)
                                               ELSE Decoded(-2, Unpacked(c, R).payload, Unpacked(c, R).crc)
  BY Zenon
<1> DEFINE v == Unpacked(c, R)
           O(u) == IF u.crc THEN u ELSE Decoded(-2, u.payload, u.crc)
<1>1. lora_decode_packet(c, R) = (CHOOSE y \in {O(x) : x \in {v}} : TRUE)
  BY Zenon DEF lora_decode_packet, Once
<1> HIDE DEF v
<1>2. {O(x) : x \in {v}} = {O(v)}
  <2> HIDE DEF O
  <2> QED OBVIOUS
<1>3. lora_decode_packet(c, R) = O(v)
  <2> HIDE DEF O
  <2> QED BY <1>1, <1>2, OnceIs, Zenon
<1> QED BY <1>3, Zenon DEF v

(* Bytes are equal when their halves are. *)
LEMMA FromHalves ==
  ASSUME NEW n \in Nat, NEW d \in [1 .. n -> Byte], NEW e \in [1 .. n -> Byte],
         \A j \in 1 .. 2 * n : HalfOf(d, j) = HalfOf(e, j)
  PROVE  d = e
<1>1. ASSUME NEW i \in 1 .. n PROVE d[i] = e[i]
  <2>1. 2 * i - 1 \in 1 .. 2 * n /\ 2 * i \in 1 .. 2 * n
    OBVIOUS
  <2>2. HalfOf(d, 2 * i - 1) = HalfOf(e, 2 * i - 1) /\ HalfOf(d, 2 * i) = HalfOf(e, 2 * i)
    BY <2>1
  <2>3. (2 * i - 1) % 2 = 1 /\ (2 * i) % 2 = 0 /\ (2 * i) \div 2 = i /\ ((2 * i - 1) + 1) \div 2 = i
    OBVIOUS
  <2>4. \A b : HalfOf(b, 2 * i - 1) = b[i] \div 16 /\ HalfOf(b, 2 * i) = b[i] % 16
    BY <2>3 DEF HalfOf
  <2>5. d[i] \div 16 = e[i] \div 16 /\ d[i] % 16 = e[i] % 16
    BY <2>2, <2>4, Zenon
  <2> DEFINE x == d[i]
             y == e[i]
  <2>6. x \in Byte /\ y \in Byte /\ x \div 16 = y \div 16 /\ x % 16 = y % 16
    BY <2>5
  <2> HIDE DEF x, y
  <2>7. x = y
    BY <2>6, ByteCut
  <2> QED BY <2>7 DEF x, y
<1> QED BY <1>1

(* What is received as it was sent is the payload. *)
LEMMA DeliveredIs ==
  ASSUME NEW c, Valid(c), NEW n \in 0 .. 255, NEW p \in [1 .. n -> Byte], NEW R, OnAir(c, p, R, 0), Len(R) >= 8
  PROVE  lora_decode_packet(c, R).rc = 0 /\ lora_decode_packet(c, R).payload = p
<1>0. PICK d \in [1 .. n + 2 -> Byte] : \E e \in [1 .. n -> Byte] :
        /\ \A i \in 1 .. n : e[i] = d[i]
        /\ 0 = 0 => \A j \in 1 .. 2 * (n + 2) : HalfOf(d, j) = HalfOf(Body(p), j)
        /\ Near(d, Body(p), 2 * (n + 2))
        /\ Unpacked(c, R) = Decoded(0, e, c.crc => 256 * d[n + 1] + d[n + 2] = lora_crc16(e))
  <2>1. 0 \in Nat /\ (0 = 0 \/ 0 >= FirstBeyondHeader(c))
    OBVIOUS
  <2>2. Reads(c, n, p, R, 0)
    BY <2>1, Unpacking, Zenon
  <2> QED BY <2>2, Zenon DEF Reads
<1>1. PICK e \in [1 .. n -> Byte] :
        /\ \A i \in 1 .. n : e[i] = d[i]
        /\ \A j \in 1 .. 2 * (n + 2) : HalfOf(d, j) = HalfOf(Body(p), j)
        /\ Unpacked(c, R) = Decoded(0, e, c.crc => 256 * d[n + 1] + d[n + 2] = lora_crc16(e))
  BY <1>0, Zenon
<1>2. /\ Body(p) \in [1 .. n + 2 -> Byte] /\ \A i \in 1 .. n : Body(p)[i] = p[i]
      /\ lora_crc16(p) = 256 * Body(p)[n + 1] + Body(p)[n + 2]
  <2>1. n \in Nat
    OBVIOUS
  <2> QED BY <2>1, BodyIs
<1>3. d = Body(p)
  <2>1. n + 2 \in Nat
    OBVIOUS
  <2> QED BY <1>1, <1>2, <2>1, FromHalves
<1>4. e = p
  BY <1>1, <1>2, <1>3
<1>5. Unpacked(c, R).crc = TRUE /\ Unpacked(c, R).rc = 0 /\ Unpacked(c, R).payload = p
  <2> DEFINE b == c.crc => 256 * d[n + 1] + d[n + 2] = lora_crc16(e)
  <2>1. b = TRUE
    BY <1>2, <1>3, <1>4
  <2>2. Unpacked(c, R) = Decoded(0, e, b)
    BY <1>1
  <2> HIDE DEF b
  <2> QED BY <1>4, <2>1, <2>2 DEF Decoded
<1>6. lora_decode_packet(c, R) = Unpacked(c, R)
  BY <1>5, ReceiveIs, Zenon
<1> QED BY <1>5, <1>6

(* A changed symbol beyond the header does not lead to another payload. *)
LEMMA NotAnother ==
  ASSUME NEW c, Valid(c), NEW n \in 0 .. 255, NEW p \in [1 .. n -> Byte], NEW R, NEW s0 \in Nat,
         OnAir(c, p, R, s0), Len(R) >= 8, s0 >= FirstBeyondHeader(c), c.crc = TRUE, lora_decode_packet(c, R).rc = 0
  PROVE  lora_decode_packet(c, R).payload = p
<1>0. PICK d \in [1 .. n + 2 -> Byte] : \E e \in [1 .. n -> Byte] :
        /\ \A i \in 1 .. n : e[i] = d[i]
        /\ s0 = 0 => \A j \in 1 .. 2 * (n + 2) : HalfOf(d, j) = HalfOf(Body(p), j)
        /\ Near(d, Body(p), 2 * (n + 2))
        /\ Unpacked(c, R) = Decoded(0, e, c.crc => 256 * d[n + 1] + d[n + 2] = lora_crc16(e))
  <2>1. Reads(c, n, p, R, s0)
    BY Unpacking, Zenon
  <2> QED BY <2>1, Zenon DEF Reads
<1>1. PICK e \in [1 .. n -> Byte] :
        /\ \A i \in 1 .. n : e[i] = d[i]
        /\ Near(d, Body(p), 2 * (n + 2))
        /\ Unpacked(c, R) = Decoded(0, e, c.crc => 256 * d[n + 1] + d[n + 2] = lora_crc16(e))
  BY <1>0, Zenon
<1>2. /\ Body(p) \in [1 .. n + 2 -> Byte] /\ \A i \in 1 .. n : Body(p)[i] = p[i]
      /\ lora_crc16(p) = 256 * Body(p)[n + 1] + Body(p)[n + 2]
  <2>1. n \in Nat /\ p \in [1 .. n -> Byte]
    OBVIOUS
  <2>2. Body(p) \in [1 .. n + 2 -> Byte]
    BY <2>1, BodyIs
  <2>3. \A i \in 1 .. n : Body(p)[i] = p[i]
    BY <2>1, BodyIs
  <2>4. lora_crc16(p) = 256 * Body(p)[n + 1] + Body(p)[n + 2]
    BY <2>1, BodyIs
  <2> QED BY <2>2, <2>3, <2>4
<1> DEFINE u == Unpacked(c, R)
           b == 256 * d[n + 1] + d[n + 2] = lora_crc16(e)
<1>3. u = Decoded(0, e, c.crc => b)
  BY <1>1
<1> HIDE DEF b, u
<1>4. u.crc = (c.crc => b) /\ u.payload = e
  BY <1>3 DEF Decoded
<1>5. u.crc
  <2> SUFFICES ASSUME ~u.crc PROVE FALSE
    OBVIOUS
  <2>1. lora_decode_packet(c, R) = Decoded(-2, u.payload, u.crc)
    BY ReceiveIs, Zenon DEF u
  <2>2. lora_decode_packet(c, R).rc = -2
    BY <2>1 DEF Decoded
  <2> QED BY <2>2
<1>6. lora_decode_packet(c, R) = u
  BY <1>5, ReceiveIs, Zenon DEF u
<1>7. lora_crc16(e) = 256 * d[n + 1] + d[n + 2]
  <2>1. b
    BY <1>4, <1>5, Zenon
  <2> QED BY <2>1, Zenon DEF b
<1>8. lora_crc16(d) = 0 /\ lora_crc16(Body(p)) = 0
  <2>1. n \in Nat
    OBVIOUS
  <2>2. lora_crc16(d) = 0
    <3>1. \A i \in 1 .. n : d[i] = e[i]
      BY <1>1, Zenon
    <3>2. Closed(d, e, n)
      BY <1>7, <3>1, Zenon DEF Closed
    <3> QED BY <2>1, <3>2, CrcEnds
  <2>3. lora_crc16(Body(p)) = 0
    <3>1. Closed(Body(p), p, n)
      BY <1>2, Zenon DEF Closed
    <3> QED BY <1>2, <2>1, <3>1, CrcEnds
  <2> QED BY <2>2, <2>3
<1>9. d = Body(p)
  <2>1. n + 2 \in Nat
    OBVIOUS
  <2>2. lora_crc16(d) = lora_crc16(Body(p))
    BY <1>8
  <2> DEFINE h == n + 2
  <2>3. h \in Nat /\ d \in [1 .. h -> Byte] /\ Body(p) \in [1 .. h -> Byte] /\ Near(d, Body(p), 2 * h)
    BY <1>1, <1>2, <2>1
  <2> HIDE DEF h
  <2> QED BY <2>2, <2>3, CrcFindsBursts, Zenon
<1>10. e = p
  BY <1>1, <1>2, <1>9
<1> QED BY <1>4, <1>6, <1>10
-----------------------------------------------------------------------------
(***************************************************************************)
(* The first look at a packet.                                              *)
(***************************************************************************)

(* One of the first three codewords. *)
WordAt(x, k, w) == SubSeq(x, (k - 1) * w + 1, k * w)

(* The first three words of a stream, which hold the length and the flags. *)
LEMMA WordAtIs ==
  ASSUME NEW w \in 5 .. 8, NEW n \in Nat, NEW x \in [1 .. n -> Bit], 3 * w <= n, NEW k \in 1 .. 3
  PROVE  WordAt(x, k, w) \in [1 .. w -> Bit] /\ \A j \in 1 .. w : WordAt(x, k, w)[j] = x[w * (k - 1) + j]
<1> DEFINE a == (k - 1) * w
<1>1. k = 1 \/ k = 2 \/ k = 3
  OBVIOUS
<1>2. a \in Nat /\ a + w = k * w /\ a + w <= 3 * w /\ a = w * (k - 1)
  BY <1>1
<1>3. WordAt(x, k, w) = SubSeq(x, a + 1, k * w)
  BY DEF WordAt
<1> HIDE DEF a
<1>4. a + w <= n /\ w \in Nat
  BY <1>2
<1>5. PICK v \in [1 .. w -> Bit] : v = SubSeq(x, a + 1, a + w) /\ \A i \in 1 .. w : v[i] = x[a + i]
  BY <1>2, <1>4, PartBitsAll, Zenon
<1>6. v = WordAt(x, k, w)
  BY <1>2, <1>3, <1>5
<1> QED BY <1>2, <1>5, <1>6

Nibbled(x, c) == [i \in 1 .. 3 |-> lora_hamming_decode(SubSeq(x, (i - 1) * (4 + c.cr) + 1, i * (4 + c.cr)), c.cr)]

(* The first look decodes just these. *)
LEMMA PeekIs ==
  ASSUME NEW c, NEW R, NEW S \in Nat, Len(R) = S, S >= 8
  PROVE  lora_peek_header(c, R) = Peeked(Nibbled(Stream(R, S), c))
<1> DEFINE bits == Stream(R, S)
           O(x) == Peeked(Nibbled(x, c))
<1>1. lora_peek_header(c, R) = (CHOOSE y \in {O(x) : x \in {bits}} : TRUE)
  <2>1. ~(Len(R) < 8)
    OBVIOUS
  <2>2. lora_peek_header(c, R) = Once(LAMBDA u : O(u), FlattenSeq([s \in 1 .. Len(R) |-> gray_to_binary(R[s])]))
    BY <2>1, Zenon DEF lora_peek_header, Nibbled
  <2>3. bits = FlattenSeq([s \in 1 .. Len(R) |-> gray_to_binary(R[s])])
    BY Zenon DEF Stream
  <2> HIDE DEF bits, O
  <2> QED BY <2>2, <2>3, Zenon DEF Once
<1> HIDE DEF bits
<1>2. {O(x) : x \in {bits}} = {O(bits)}
  <2> HIDE DEF O
  <2> QED OBVIOUS
<1>3. lora_peek_header(c, R) = O(bits)
  <2> HIDE DEF O
  <2> QED BY <1>1, <1>2, OnceIs, Zenon
<1> QED BY <1>3, Zenon DEF bits

(* The stream, bit by bit. *)
LEMMA StreamIs ==
  ASSUME NEW f \in 6 .. 12, NEW S \in Nat \ {0}, NEW R \in [1 .. S -> [1 .. f -> Bit]]
  PROVE  /\ Stream(R, S) \in [1 .. f * S -> Bit]
         /\ \A s \in 1 .. S : \A r \in 1 .. f : Stream(R, S)[f * (s - 1) + r] = gray_to_binary(R[s])[r]
<1> DEFINE G == [s \in 1 .. S |-> gray_to_binary(R[s])]
<1>1. G \in [1 .. S -> [1 .. f -> Bit]] /\ \A s \in 1 .. S : G[s] = gray_to_binary(R[s])
  <2>1. \A s \in 1 .. S : gray_to_binary(R[s]) \in [1 .. f -> Bit]
    <3> SUFFICES ASSUME NEW s \in 1 .. S PROVE gray_to_binary(R[s]) \in [1 .. f -> Bit]
      OBVIOUS
    <3>1. R[s] \in [1 .. f -> Bit] /\ f \in Nat
      OBVIOUS
    <3> QED BY <3>1, GrayIn
  <2> QED BY <2>1
<1>2. Stream(R, S) = FlattenSeq(G)
  BY Zenon DEF Stream
<1> HIDE DEF G
<1>3. f \in Nat
  OBVIOUS
<1>4. /\ FlattenSeq(G) \in [1 .. f * S -> Bit]
      /\ \A i \in 1 .. S : \A j \in 1 .. f : FlattenSeq(G)[f * (i - 1) + j] = G[i][j]
  BY <1>1, <1>3, FlattenBits
<1> QED BY <1>1, <1>2, <1>4

(* Where two packets agree, so do their streams. *)
LEMMA SameStream ==
  ASSUME NEW f \in 6 .. 12, NEW S \in Nat \ {0}, NEW R \in [1 .. S -> [1 .. f -> Bit]],
         NEW E \in [1 .. S -> [1 .. f -> Bit]], NEW i \in 1 .. f * S, R[Row(i, f)] = E[Row(i, f)]
  PROVE  Stream(R, S)[i] = Stream(E, S)[i]
<1>1. f \in 5 .. 12 /\ S \in Nat
  OBVIOUS
<1>2. PICK s \in 0 .. S - 1, r \in 0 .. f - 1 : i = f * s + r + 1 /\ (i - 1) \div f = s /\ (i - 1) % f = r
  BY <1>1, RowOf
<1> DEFINE h == s + 1
           j == r + 1
<1>3. h \in 1 .. S /\ j \in 1 .. f /\ i = f * (h - 1) + j /\ Row(i, f) = h
  BY <1>2 DEF Row
<1> HIDE DEF h, j
<1>4. Stream(R, S)[f * (h - 1) + j] = gray_to_binary(R[h])[j] /\ Stream(E, S)[f * (h - 1) + j] = gray_to_binary(E[h])[j]
  <2>1. \A g \in 1 .. S : \A k \in 1 .. f : Stream(R, S)[f * (g - 1) + k] = gray_to_binary(R[g])[k]
    BY StreamIs
  <2>2. \A g \in 1 .. S : \A k \in 1 .. f : Stream(E, S)[f * (g - 1) + k] = gray_to_binary(E[g])[k]
    BY StreamIs
  <2> QED BY <1>3, <2>1, <2>2, Zenon
<1>5. R[h] = E[h]
  BY <1>3
<1>6. Stream(R, S)[f * (h - 1) + j] = Stream(E, S)[f * (h - 1) + j]
  BY <1>4, <1>5
<1>7. i = f * (h - 1) + j
  BY <1>3
<1> QED BY <1>6, <1>7, Zenon

(* Whatever arrives, a length and a coding rate are told. *)
LEMMA PeekIn ==
  ASSUME NEW c, Valid(c), NEW n \in Nat, NEW x \in [1 .. n -> Bit], 3 * (4 + c.cr) <= n
  PROVE  Peeked(Nibbled(x, c)) \in Byte \X lora_coding_rate
<1> DEFINE cr == c.cr
           w == 4 + cr
           N == Nibbled(x, c)
<1>1. cr \in 1 .. 4 /\ w \in 5 .. 8
  BY DEF Valid
<1>2. N = [i \in 1 .. 3 |-> lora_hamming_decode(WordAt(x, i, w), cr)]
  BY Zenon DEF Nibbled, WordAt
<1> HIDE DEF N
<1>3. ASSUME NEW i \in 1 .. 3 PROVE N[i] \in Nibble
  <2>1. WordAt(x, i, w) \in [1 .. w -> Bit]
    <3> HIDE DEF w
    <3>1. 3 * w <= n
      BY DEF w
    <3> QED BY <1>1, <3>1, WordAtIs
  <2>2. lora_hamming_decode(WordAt(x, i, w), cr) \in Nibble
    <3> HIDE DEF cr
    <3> QED BY <1>1, <2>1, DecodeIn
  <2> QED BY <1>2, <2>2
<1>4. N[1] \in Nibble /\ N[2] \in Nibble /\ N[3] \in Nibble
  BY <1>3
<1>5. 16 * N[1] + N[2] \in Byte /\ ((N[3] \div 2) % 4) + 1 \in 1 .. 4
  <2>1. \A a, b, d \in Nibble : 16 * a + b \in Byte /\ ((d \div 2) % 4) + 1 \in 1 .. 4
    BY DEF Nibble, Byte
  <2> QED BY <1>4, <2>1, Zenon
<1> QED BY <1>5 DEF N, Peeked, lora_coding_rate

(* Streams that agree in the first words look the same. *)
LEMMA SameLook ==
  ASSUME NEW c, Valid(c), NEW n \in Nat, NEW x \in [1 .. n -> Bit], NEW y \in [1 .. n -> Bit], 3 * (4 + c.cr) <= n,
         \A k \in 1 .. 3 : \A j \in 1 .. 4 + c.cr : x[(4 + c.cr) * (k - 1) + j] = y[(4 + c.cr) * (k - 1) + j]
  PROVE  Nibbled(x, c) = Nibbled(y, c)
<1> DEFINE cr == c.cr
           w == 4 + cr
<1>1. cr \in 1 .. 4 /\ w \in 5 .. 8 /\ 3 * w <= n
  BY DEF Valid
<1>2. \A z : Nibbled(z, c) = [i \in 1 .. 3 |-> lora_hamming_decode(WordAt(z, i, w), cr)]
  BY Zenon DEF Nibbled, WordAt
<1>3. \A k \in 1 .. 3 : \A j \in 1 .. w : x[w * (k - 1) + j] = y[w * (k - 1) + j]
  OBVIOUS
<1> HIDE DEF w, cr
<1>4. ASSUME NEW i \in 1 .. 3 PROVE WordAt(x, i, w) = WordAt(y, i, w)
  <2>1. /\ WordAt(x, i, w) \in [1 .. w -> Bit] /\ WordAt(y, i, w) \in [1 .. w -> Bit]
        /\ \A j \in 1 .. w : WordAt(x, i, w)[j] = x[w * (i - 1) + j]
        /\ \A j \in 1 .. w : WordAt(y, i, w)[j] = y[w * (i - 1) + j]
    BY <1>1, WordAtIs
  <2>2. \A j \in 1 .. w : WordAt(x, i, w)[j] = WordAt(y, i, w)[j]
    BY <1>3, <2>1, Zenon
  <2>3. w \in Nat
    BY <1>1
  <2> QED BY <2>1, <2>2, <2>3, SameWord, Zenon
<1> QED BY <1>2, <1>4

(* A first look does not see a change beyond the header. *)
LEMMA EarlyLook ==
  ASSUME NEW c, Valid(c), NEW n \in 0 .. 255, NEW p \in [1 .. n -> Byte], NEW R, NEW E, NEW s0 \in Nat,
         OnAir(c, p, R, s0), OnAir(c, p, E, 0), Len(R) >= 8
  PROVE  /\ lora_peek_header(c, R) \in Byte \X lora_coding_rate
         /\ s0 = 0 \/ s0 >= FirstBeyondHeader(c) => lora_peek_header(c, R) = lora_peek_header(c, E)
<1> DEFINE f == c.sf
           w == 4 + c.cr
           m == 8 + 2 * n
           S == SymbolCount(c, n)
           rows == SentRows(HammingCoded(Quads(c, p), c.cr), f)
<1>1. Len(p) = n /\ f \in 6 .. 12 /\ w \in 5 .. 8 /\ m \in Nat /\ m >= 8
  <2>1. n \in Nat
    OBVIOUS
  <2> QED BY <2>1, ArraySeq DEF Valid
<1>2. S \in Nat \ {0} /\ w * m <= f * S
  <2>1. n \in Nat
    OBVIOUS
  <2> QED BY <2>1, CountIs
<1>3. /\ R \in [1 .. S -> [1 .. f -> Bit]] /\ E \in [1 .. S -> [1 .. f -> Bit]]
      /\ \A s \in 1 .. S : s # s0 => R[s] = binary_to_gray(rows[s])
      /\ \A s \in 1 .. S : s # 0 => E[s] = binary_to_gray(rows[s])
  BY <1>1 DEF OnAir
<1>4. FirstBeyondHeader(c) = (4 * w) \div f + 2
  BY DEF FirstBeyondHeader
<1> HIDE DEF rows, S
<1>5. Len(R) = S /\ Len(E) = S /\ S >= 8
  <2>1. S \in Nat
    BY <1>2
  <2>2. Len(R) = S
    BY <1>3, <2>1, ArraySeq
  <2>3. Len(E) = S
    BY <1>3, <2>1, ArraySeq
  <2> QED BY <2>2, <2>3
<1> DEFINE x == Stream(R, S)
           y == Stream(E, S)
           t == f * S
<1>6. lora_peek_header(c, R) = Peeked(Nibbled(x, c)) /\ lora_peek_header(c, E) = Peeked(Nibbled(y, c))
  BY <1>2, <1>5, PeekIs
<1>7. x \in [1 .. t -> Bit] /\ y \in [1 .. t -> Bit] /\ t \in Nat
  <2>1. t \in Nat
    BY <1>1, <1>2
  <2> HIDE DEF f
  <2>2. Stream(R, S) \in [1 .. f * S -> Bit]
    BY <1>1, <1>2, <1>3, StreamIs
  <2>3. Stream(E, S) \in [1 .. f * S -> Bit]
    BY <1>1, <1>2, <1>3, StreamIs
  <2> QED BY <2>1, <2>2, <2>3
<1>8. 3 * w <= t
  <2> HIDE DEF w, m, t
  <2>1. w * m - w * 8 = w * (m - 8) /\ w * (m - 8) >= 0
    BY <1>1
  <2> DEFINE a == w * m
  <2>2. a \in Int /\ a >= 8 * w /\ a <= t
    BY <1>1, <1>2, <2>1 DEF t
  <2> HIDE DEF a
  <2> QED BY <1>1, <1>7, <2>2
<1>9. Peeked(Nibbled(x, c)) \in Byte \X lora_coding_rate
  <2> HIDE DEF x, t
  <2> QED BY <1>7, <1>8, PeekIn
<1>10. ASSUME s0 = 0 \/ s0 >= FirstBeyondHeader(c) PROVE Nibbled(x, c) = Nibbled(y, c)
  <2> HIDE DEF f, w
  <2>1. \A k \in 1 .. m : Arrived(E, rows, k, w, f)
    <3>1. 0 \in Nat /\ S \in Nat
      BY <1>2
    <3> QED BY <1>1, <1>2, <1>3, <3>1, NoneBut
  <2>2. \A k \in 1 .. 3 : Arrived(R, rows, k, w, f)
    <3>1. /\ s0 = 0 => \A k \in 1 .. m : Arrived(R, rows, k, w, f)
          /\ s0 >= (4 * w) \div f + 2 =>
               \E q \in Nat : q >= 4 /\ \A k \in 1 .. m : k \notin q + 1 .. q + 4 => Arrived(R, rows, k, w, f)
      <4>1. S \in Nat
        BY <1>2
      <4> QED BY <1>1, <1>2, <1>3, <4>1, NoneBut
    <3>2. \A k \in 1 .. 3 : k \in 1 .. m /\ \A q \in Nat : q >= 4 => k \notin q + 1 .. q + 4
      BY <1>1
    <3> QED BY <1>4, <1>10, <3>1, <3>2, Zenon
  <2>3. ASSUME NEW k \in 1 .. 3, NEW j \in 1 .. w PROVE x[w * (k - 1) + j] = y[w * (k - 1) + j]
    <3> DEFINE i == w * (k - 1) + j
    <3>1. i \in 1 .. t
      <4>1. k = 1 \/ k = 2 \/ k = 3
        OBVIOUS
      <4>2. i >= 1 /\ i <= 3 * w /\ i \in Int
        BY <1>1, <4>1
      <4> HIDE DEF t, i
      <4> QED BY <1>1, <1>7, <1>8, <4>2
    <3>2. k \in 1 .. m
      BY <1>1
    <3>3. R[Row(i, f)] = E[Row(i, f)]
      <4>1. R[Row(i, f)] = binary_to_gray(rows[Row(i, f)])
        BY <2>2, Zenon DEF Arrived
      <4>2. E[Row(i, f)] = binary_to_gray(rows[Row(i, f)])
        BY <2>1, <3>2, Zenon DEF Arrived
      <4> QED BY <4>1, <4>2
    <3> HIDE DEF i
    <3>4. Stream(R, S)[i] = Stream(E, S)[i]
      BY <1>1, <1>2, <1>3, <3>1, <3>3, SameStream DEF t
    <3> QED BY <3>4 DEF i
  <2>4. \A k \in 1 .. 3 : \A j \in 1 .. w : x[w * (k - 1) + j] = y[w * (k - 1) + j]
    BY <2>3
  <2> HIDE DEF x, y, t
  <2> QED BY <1>7, <1>8, <2>4, SameLook DEF w
<1> QED BY <1>6, <1>9, <1>10
-----------------------------------------------------------------------------
(***************************************************************************)
(* The buffer.                                                              *)
(***************************************************************************)

(* Division by the bits of four symbols, for each spreading factor. *)
LEMMA DividedBy ==
  ASSUME NEW d \in {4 * 5, 4 * 6, 4 * 7, 4 * 8, 4 * 9, 4 * 10, 4 * 11, 4 * 12}, NEW a \in Nat
  PROVE  a \div d \in Nat /\ a % d \in 0 .. d - 1 /\ a = d * (a \div d) + (a % d)
<1>1. d = 20 \/ d = 24 \/ d = 28 \/ d = 32 \/ d = 36 \/ d = 40 \/ d = 44 \/ d = 48
  OBVIOUS
<1>2. CASE d = 20
  BY <1>2
<1>3. CASE d = 24
  BY <1>3
<1>4. CASE d = 28
  BY <1>4
<1>5. CASE d = 32
  BY <1>5
<1>6. CASE d = 36
  BY <1>6
<1>7. CASE d = 40
  BY <1>7
<1>8. CASE d = 44
  BY <1>8
<1>9. CASE d = 48
  BY <1>9
<1> QED BY <1>1, <1>2, <1>3, <1>4, <1>5, <1>6, <1>7, <1>8, <1>9

(* The data sheet counts no fewer blocks than the payload needs. *)
LEMMA BlocksIs ==
  ASSUME NEW f \in 6 .. 12, NEW g \in {f, f - 2}, g >= 6, NEW k \in Nat, k >= 28
  PROVE  \A n \in Nat : LET T == Truncated((8 * n - 4 * f + k) + 4 * g - 1, 4 * g)
                        IN  T \in Nat /\ 4 * (f * T) >= 8 * n - 4 * f + k
<1> SUFFICES ASSUME NEW n \in Nat
             PROVE  LET T == Truncated((8 * n - 4 * f + k) + 4 * g - 1, 4 * g)
                    IN  T \in Nat /\ 4 * (f * T) >= 8 * n - 4 * f + k
  OBVIOUS
<1> DEFINE e == 8 * n - 4 * f + k
           a == e + 4 * g - 1
           d == 4 * g
           T == a \div d
           r == a % d
<1>1. a \in Nat /\ d \in {4 * 5, 4 * 6, 4 * 7, 4 * 8, 4 * 9, 4 * 10, 4 * 11, 4 * 12} /\ e \in Int
  OBVIOUS
<1>2. a = e + d - 1 /\ d = 4 * g /\ g <= f
  OBVIOUS
<1>3. Truncated((8 * n - 4 * f + k) + 4 * g - 1, 4 * g) = T
  BY <1>1 DEF Truncated
<1>4. e = 8 * n - 4 * f + k
  OBVIOUS
<1> HIDE DEF a, d, e
<1>5. T \in Nat /\ r \in 0 .. d - 1 /\ a = d * T + r
  BY <1>1, DividedBy
<1> HIDE DEF T, r
<1>6. 4 * (f * T) >= e
  <2>1. d * T = 4 * (g * T) /\ f * T - g * T = (f - g) * T /\ (f - g) * T >= 0
    BY <1>2, <1>5
  <2> DEFINE x == f * T
             y == g * T
             z == d * T
  <2>2. x \in Int /\ y \in Int /\ z \in Int /\ z = 4 * y /\ x >= y /\ a = z + r /\ d \in Int
    BY <1>1, <1>2, <1>5, <2>1
  <2> HIDE DEF x, y, z
  <2>3. 4 * x >= e
    BY <1>1, <1>2, <1>5, <2>2
  <2> QED BY <2>3 DEF x
<1> QED BY <1>3, <1>4, <1>5, <1>6

(* Ten symbols and what it counts hold the encoder's. *)
LEMMA EnoughSymbols ==
  ASSUME NEW f \in 6 .. 12, NEW w \in 5 .. 8, NEW n \in Nat, NEW T \in Nat, NEW S \in Nat,
         NEW r \in 0 .. f - 1, w * (8 + 2 * n) + f - 1 = f * S + r, 4 * (f * T) >= 8 * n - 4 * f + 28
  PROVE  S <= 10 + w * T
<1> SUFFICES ASSUME S >= 11 + w * T PROVE FALSE
  OBVIOUS
<1>1. f * S >= f * (11 + w * T)
  <2>1. f * S - f * (11 + w * T) = f * (S - (11 + w * T)) /\ f * (S - (11 + w * T)) >= 0
    OBVIOUS
  <2> QED BY <2>1
<1>2. f * (11 + w * T) = 11 * f + w * (f * T)
  OBVIOUS
<1> DEFINE x == f * T
           u == 2 * n - f + 7
<1>3. x \in Int /\ u \in Int /\ x >= u
  OBVIOUS
<1> HIDE DEF x
<1>4. w * x >= w * u
  <2> HIDE DEF u
  <2>1. w * x - w * u = w * (x - u) /\ w * (x - u) >= 0
    BY <1>3
  <2> QED BY <1>3, <2>1
<1>5. w * u = 2 * (w * n) - w * f + 7 * w /\ w * (8 + 2 * n) = 8 * w + 2 * (w * n)
  OBVIOUS
<1> DEFINE y == w * n
           z == w * f
           v == f * S
<1>6. z <= 8 * f
  OBVIOUS
<1>7. y \in Int /\ z \in Int /\ v \in Int /\ v >= 11 * f + w * x /\ w * x >= 2 * y - z + 7 * w
      /\ 8 * w + 2 * y + f - 1 = v + r /\ w * x \in Int
  BY <1>1, <1>2, <1>3, <1>4, <1>5 DEF x
<1> HIDE DEF u, y, z, v
<1> DEFINE q == w * x
<1>8. q \in Int /\ v >= 11 * f + q /\ q >= 2 * y - z + 7 * w
  BY <1>7
<1> HIDE DEF q
<1> QED BY <1>6, <1>7, <1>8

(* The larger of 0 and a number. *)
LEMMA LargerOf == \A T \in Nat : Max({0, T}) = T
<1> SUFFICES ASSUME NEW T \in Nat PROVE Max({0, T}) = T
  OBVIOUS
<1> QED BY DEF Max

(* With an explicit header the buffer that lora_packet_buffer_size asks for
   holds the preamble and every symbol of the packet. *)
THEOREM BufferHolds ==
  ASSUME NEW c \in lora_phy_params, ~c.implicit, NEW n \in 0 .. 255
  PROVE  lora_generate_preamble(c) + 4 * SymbolCount(c, n) <= lora_packet_buffer_size([c EXCEPT !.len = n])
<1> DEFINE p == [c EXCEPT !.len = n]
           f == c.sf
           w == 4 + c.cr
           S == SymbolCount(c, n)
           g == f - IF f >= 11 /\ c.bw = 125000 THEN 2 ELSE 0
           k == 28 + (IF c.crc THEN 16 ELSE 0)
           T == Truncated((8 * n - 4 * f + k) + 4 * g - 1, 4 * g)
           b == c.preamble
<1>1. /\ p.sf = c.sf /\ p.cr = c.cr /\ p.bw = c.bw /\ p.crc = c.crc /\ p.implicit = c.implicit
      /\ p.preamble = c.preamble /\ p.len = n
  BY DEF lora_phy_params
<1>2. f \in 6 .. 12 /\ w \in 5 .. 8 /\ c.cr \in 1 .. 4 /\ c.crc \in BOOLEAN /\ b \in Nat /\ n \in Nat
  BY DEF lora_phy_params, lora_spreading_factor, lora_coding_rate
<1>3. g \in {f, f - 2} /\ g >= 6 /\ k \in Nat /\ k >= 28
  BY <1>2
<1>4. T \in Nat /\ 4 * (f * T) >= 8 * n - 4 * f + k
  <2> HIDE DEF g, k, f
  <2> QED BY <1>2, <1>3, BlocksIs
<1>5. lora_payload_symbol_count(p) = 8 + (c.cr + 4) * Max({0, T})
  <2> HIDE DEF p
  <2>1. (8 * n - 4 * f + 28) + (IF c.crc THEN 16 ELSE 0) - 0 + 4 * g - 1 = (8 * n - 4 * f + k) + 4 * g - 1
    <3> HIDE DEF g
    <3>1. (IF c.crc THEN 16 ELSE 0) \in Nat
      OBVIOUS
    <3> QED BY <1>2, <1>3, <3>1
  <2> DEFINE F(sf, bw, crc, implicit, cr, len) ==
               LET denom == 4 * (sf - IF sf >= 11 /\ bw = 125000 THEN 2 ELSE 0)
                   numer == 8 * len - 4 * sf + 28 + (IF crc THEN 16 ELSE 0) - (IF implicit THEN 20 ELSE 0)
               IN  8 + (cr + 4) * Max({0, Truncated(numer + denom - 1, denom)})
  <2>2. lora_payload_symbol_count(p) = F(p.sf, p.bw, p.crc, p.implicit, p.cr, p.len)
    BY DEF lora_payload_symbol_count
  <2>3. F(p.sf, p.bw, p.crc, p.implicit, p.cr, p.len) = F(c.sf, c.bw, c.crc, c.implicit, c.cr, n)
    <3> HIDE DEF F
    <3> QED BY <1>1, Zenon
  <2>4. (IF c.implicit THEN 20 ELSE 0) = 0
    OBVIOUS
  <2>5. F(c.sf, c.bw, c.crc, c.implicit, c.cr, n) =
          8 + (c.cr + 4) * Max({0, Truncated((8 * n - 4 * f + 28) + (IF c.crc THEN 16 ELSE 0) - 0 + 4 * g - 1, 4 * g)})
    BY <2>4
  <2> HIDE DEF g, k, F
  <2> QED BY <2>1, <2>2, <2>3, <2>5, Zenon
<1> HIDE DEF T, k, g
<1>6. lora_packet_buffer_size(p) = 4 * b + 17 + 4 * (8 + w * T)
  <2>1. Max({0, T}) = T
    BY <1>4, LargerOf
  <2>2. lora_packet_buffer_size(p) = 4 * p.preamble + 17 + 4 * lora_payload_symbol_count(p)
    BY DEF lora_packet_buffer_size
  <2> HIDE DEF p
  <2>3. lora_packet_buffer_size(p) = 4 * b + 17 + 4 * (8 + (c.cr + 4) * T)
    BY <1>1, <1>5, <2>1, <2>2, Zenon
  <2>4. c.cr + 4 = 4 + c.cr
    BY <1>2
  <2> QED BY <2>3, <2>4, Zenon
<1>7. S \in Nat /\ \E r \in 0 .. f - 1 : w * (8 + 2 * n) + f - 1 = f * S + r
  <2> DEFINE t == w * (8 + 2 * n) + f - 1
  <2>1. f \in 5 .. 12 /\ t \in Int
    BY <1>2
  <2>2. S = t \div f
    BY DEF SymbolCount
  <2>3. S \in Nat
    BY <1>2, CountIs DEF Valid
  <2> HIDE DEF t, f, S
  <2>4. t % f \in 0 .. f - 1 /\ t = f * S + (t % f)
    BY <2>1, <2>2, Divided
  <2> QED BY <2>3, <2>4 DEF t
<1> HIDE DEF S
<1>8. S <= 10 + w * T
  <2> HIDE DEF f, w
  <2>1. PICK r \in 0 .. f - 1 : w * (8 + 2 * n) + f - 1 = f * S + r
    BY <1>7
  <2>2. 4 * (f * T) >= 8 * n - 4 * f + 28
    <3> DEFINE x == f * T
    <3>1. x \in Int /\ 4 * x >= 8 * n - 4 * f + k
      BY <1>2, <1>4
    <3> HIDE DEF x
    <3>2. 4 * x >= 8 * n - 4 * f + 28
      BY <1>2, <1>3, <3>1
    <3> QED BY <3>2 DEF x
  <2> QED BY <1>2, <1>4, <1>7, <2>1, <2>2, EnoughSymbols
<1>9. lora_generate_preamble(c) = 4 * b + 8 + 1
  BY DEF lora_generate_preamble
<1> DEFINE y == w * T
<1>10. y \in Int
  BY <1>2, <1>4
<1> HIDE DEF p, b, w
<1>11. lora_packet_buffer_size(p) = 4 * b + 17 + 4 * (8 + y) /\ S <= 10 + y
  BY <1>6, <1>8
<1> HIDE DEF y
<1>12. 4 * b + 8 + 1 + 4 * S <= 4 * b + 17 + 4 * (8 + y)
  BY <1>2, <1>7, <1>10, <1>11
<1> QED BY <1>9, <1>11, <1>12 DEF S, p
-----------------------------------------------------------------------------
(***************************************************************************)
(* The invariant.                                                           *)
(***************************************************************************)

(* Powers of two, and the binary digits they give. *)
LEMMA PowersPositive == \A k \in 0 .. 11 : 2 ^ k \in Nat \ {0}
<1> SUFFICES ASSUME NEW k \in 0 .. 11 PROVE 2 ^ k \in Nat \ {0}
  OBVIOUS
<1>1. \/ k = 0 \/ k = 1 \/ k = 2 \/ k = 3 \/ k = 4 \/ k = 5
      \/ k = 6 \/ k = 7 \/ k = 8 \/ k = 9 \/ k = 10 \/ k = 11
  OBVIOUS
<1>2. CASE k = 0
  <2>1. 2 ^ 0 = 1
    OBVIOUS
  <2> QED BY <1>2, <2>1
<1>3. CASE k = 1
  <2>1. 2 ^ 1 = 2
    OBVIOUS
  <2> QED BY <1>3, <2>1
<1>4. CASE k = 2
  <2>1. 2 ^ 2 = 4
    OBVIOUS
  <2> QED BY <1>4, <2>1
<1>5. CASE k = 3
  <2>1. 2 ^ 3 = 8
    OBVIOUS
  <2> QED BY <1>5, <2>1
<1>6. CASE k = 4
  <2>1. 2 ^ 4 = 16
    OBVIOUS
  <2> QED BY <1>6, <2>1
<1>7. CASE k = 5
  <2>1. 2 ^ 5 = 32
    OBVIOUS
  <2> QED BY <1>7, <2>1
<1>8. CASE k = 6
  <2>1. 2 ^ 6 = 64
    OBVIOUS
  <2> QED BY <1>8, <2>1
<1>9. CASE k = 7
  <2>1. 2 ^ 7 = 128
    OBVIOUS
  <2> QED BY <1>9, <2>1
<1>10. CASE k = 8
  <2>1. 2 ^ 8 = 256
    OBVIOUS
  <2> QED BY <1>10, <2>1
<1>11. CASE k = 9
  <2>1. 2 ^ 9 = 512
    OBVIOUS
  <2> QED BY <1>11, <2>1
<1>12. CASE k = 10
  <2>1. 2 ^ 10 = 1024
    OBVIOUS
  <2> QED BY <1>12, <2>1
<1>13. CASE k = 11
  <2>1. 2 ^ 11 = 2048
    OBVIOUS
  <2> QED BY <1>13, <2>1
<1> QED BY <1>1, <1>2, <1>3, <1>4, <1>5, <1>6, <1>7, <1>8, <1>9, <1>10, <1>11, <1>12, <1>13

LEMMA RemainsBit == \A v \in Int : \A m \in Nat \ {0} : (v \div m) % 2 \in Bit
  BY DEF Bit

(* What a symbol may come out as. *)
LEMMA AnySymbol ==
  ASSUME NEW f \in 6 .. 12, NEW v \in Int
  PROVE  Msb(v, f) \in [1 .. f -> Bit]
<1>1. ASSUME NEW i \in 1 .. f PROVE BitOf(v, f - i) \in Bit
  <2> DEFINE m == 2 ^ (f - i)
  <2>1. f - i \in 0 .. 11
    OBVIOUS
  <2>2. m \in Nat \ {0}
    BY <2>1, PowersPositive, Zenon
  <2>3. BitOf(v, f - i) = (v \div m) % 2
    BY DEF BitOf
  <2> HIDE DEF m
  <2> QED BY <2>2, <2>3, RemainsBit
<1> QED BY <1>1 DEF Msb

(* What the validation of the parameters gives, and the payloads. *)
LEMMA ConfigIs ==
  ASSUME NEW c \in LpConfigs
  PROVE  c \in lora_phy_params /\ Valid(c)
<1>1. c \in lora_phy_params
  BY LpAssumption DEF lora_phy_params_validate
<1>2. c.sf \in 6 .. 12 /\ c.cr \in 1 .. 4 /\ c.crc \in BOOLEAN
  BY <1>1 DEF lora_phy_params, lora_spreading_factor, lora_coding_rate
<1> QED BY <1>1, <1>2 DEF Valid

LEMMA PayloadIs ==
  ASSUME NEW p \in LpPayloads
  PROVE  \E n \in 0 .. 255 : Len(p) = n /\ p \in [1 .. n -> Byte]
<1>1. p \in Seq(Byte) /\ Len(p) <= 255
  BY LpAssumption
<1>2. Len(p) \in Nat /\ p \in [1 .. Len(p) -> Byte]
  BY <1>1, LenProperties
<1> DEFINE n == Len(p)
<1>4. n \in Nat /\ n <= 255
  BY <1>1, <1>2
<1> HIDE DEF n
<1>3. n \in 0 .. 255
  BY <1>4
<1> QED BY <1>2, <1>3 DEF n

(* A packet on the air, symbol s0 changed, and what a first look at it told
   when it was sent. *)
Aired(c, p, R, s0, k) == /\ c \in LpConfigs /\ p \in LpPayloads /\ s0 \in Nat
                         /\ OnAir(c, p, R, s0) /\ k = lora_peek_header(c, lora_encode_packet(c, p))

(* A packet on the air is the sender's, with one symbol at most changed, and
   what has been received is what the receiver makes of it. *)
LpInv ==
  /\ lp.at \in {"idle", "air", "received", "overrun"}
  /\ lp.at = "idle" => lpDamage = 0
  /\ lp.at = "air" =>
       /\ lp = [at |-> "air", config |-> lp.config, payload |-> lp.payload, symbols |-> lp.symbols, peek |-> lp.peek]
       /\ Aired(lp.config, lp.payload, lp.symbols, lpDamage, lp.peek)
  /\ lp.at = "received" =>
       \E R : /\ Aired(lp.config, lp.payload, R, lpDamage, lp.peek)
              /\ lp.count = Len(R) /\ lp.peeked = lora_peek_header(lp.config, R)
              /\ lp.got = lora_decode_packet(lp.config, R)
  /\ lp.at = "overrun" =>
       lp.config \in LpConfigs /\ lp.payload \in LpPayloads /\ Overruns(lp.config, Len(lp.payload))

(* It holds at first, and every step keeps it. *)
LEMMA LpInvInit == LpInit => LpInv
  BY DEF LpInit, LpIdle, LpInv

LEMMA SendKeeps == LpInv /\ LpSend => LpInv'
<1> SUFFICES ASSUME LpInv, LpSend PROVE LpInv'
  OBVIOUS
<1>1. PICK c \in LpConfigs, p \in LpPayloads :
        /\ lp = LpIdle /\ UNCHANGED lpDamage
        /\ \E symbols \in {lora_encode_packet(c, p)} :
             lp' = [at |-> "air", config |-> c, payload |-> p, symbols |-> symbols,
                    peek |-> lora_peek_header(c, symbols)]
  BY Zenon DEF LpSend
<1> DEFINE E == lora_encode_packet(c, p)
           k == lora_peek_header(c, E)
<1>2. lp' = [at |-> "air", config |-> c, payload |-> p, symbols |-> E, peek |-> k]
  BY <1>1, Zenon
<1>3. lpDamage' = 0
  BY <1>1 DEF LpInv, LpIdle
<1>4. OnAir(c, p, E, 0)
  <2>1. PICK n \in 0 .. 255 : p \in [1 .. n -> Byte]
    BY PayloadIs
  <2> QED BY <2>1, ConfigIs, SentOnAir
<1>5. Aired(c, p, E, 0, k)
  BY <1>4 DEF Aired
<1> HIDE DEF E, k
<1>6. /\ lp'.at = "air" /\ lp'.config = c /\ lp'.payload = p /\ lp'.symbols = E /\ lp'.peek = k
  BY <1>2
<1>7. Aired(lp'.config, lp'.payload, lp'.symbols, lpDamage', lp'.peek)
  BY <1>3, <1>5, <1>6, Zenon
<1>8. lp' = [at |-> "air", config |-> lp'.config, payload |-> lp'.payload, symbols |-> lp'.symbols, peek |-> lp'.peek]
  BY <1>2, <1>6, Zenon
<1> QED BY <1>6, <1>7, <1>8 DEF LpInv, Aired

LEMMA DamageKeeps == LpInv /\ LpDamageSymbol => LpInv'
<1> SUFFICES ASSUME LpInv, LpDamageSymbol PROVE LpInv'
  OBVIOUS
<1>1. lp.at = "air" /\ lpDamage = 0
  BY DEF LpDamageSymbol
<1> DEFINE c == lp.config
           p == lp.payload
           R == lp.symbols
           k == lp.peek
<1>2. lp = [at |-> "air", config |-> c, payload |-> p, symbols |-> R, peek |-> k] /\ Aired(c, p, R, 0, k)
  BY <1>1 DEF LpInv
<1>3. PICK s \in 1 .. Len(R) : lpDamage' = s /\ \E v \in 0 .. 2 ^ c.sf - 1 : lp' = [lp EXCEPT !.symbols[s] = Msb(v, c.sf)]
  BY Zenon DEF LpDamageSymbol
<1>4. PICK v \in 0 .. 2 ^ c.sf - 1 : lp' = [lp EXCEPT !.symbols[s] = Msb(v, c.sf)]
  BY <1>3
<1> DEFINE m == Msb(v, c.sf)
           E == [R EXCEPT ![s] = m]
<1>5. c \in LpConfigs /\ p \in LpPayloads /\ OnAir(c, p, R, 0) /\ k = lora_peek_header(c, lora_encode_packet(c, p))
  BY <1>2, Zenon DEF Aired
<1>6. m \in [1 .. c.sf -> Bit]
  <2>1. c.sf \in 6 .. 12
    BY <1>5, ConfigIs DEF Valid
  <2>2. v \in Int
    OBVIOUS
  <2> QED BY <2>1, <2>2, AnySymbol
<1>7. lp' = [lp EXCEPT !.symbols = E]
  BY <1>2, <1>4
<1> HIDE DEF m
<1>8. OnAir(c, p, E, s)
  BY <1>5, <1>6, DamagedOnAir
<1> HIDE DEF E, c, p, R, k
<1>9. lp' = [at |-> "air", config |-> c, payload |-> p, symbols |-> E, peek |-> k]
  BY <1>2, <1>7
<1>10. s \in Nat
  OBVIOUS
<1>11. Aired(c, p, E, s, k)
  BY <1>5, <1>8, <1>10, Zenon DEF Aired
<1>12. lp'.at = "air" /\ lp'.config = c /\ lp'.payload = p /\ lp'.symbols = E /\ lp'.peek = k
  BY <1>9
<1>13. Aired(lp'.config, lp'.payload, lp'.symbols, lpDamage', lp'.peek)
  BY <1>3, <1>11, <1>12, Zenon
<1>14. lp' = [at |-> "air", config |-> lp'.config, payload |-> lp'.payload, symbols |-> lp'.symbols, peek |-> lp'.peek]
  BY <1>9, <1>12, Zenon
<1> QED BY <1>12, <1>13, <1>14 DEF LpInv, Aired

LEMMA ReceiveKeeps == LpInv /\ LpReceive => LpInv'
<1> SUFFICES ASSUME LpInv, LpReceive PROVE LpInv'
  OBVIOUS
<1>1. lp.at = "air" /\ lpDamage' = lpDamage
  BY DEF LpReceive
<1>2. Aired(lp.config, lp.payload, lp.symbols, lpDamage, lp.peek)
  BY <1>1 DEF LpInv
<1>3. /\ lp'.at = "received" /\ lp'.config = lp.config /\ lp'.payload = lp.payload /\ lp'.peek = lp.peek
      /\ lp'.count = Len(lp.symbols) /\ lp'.peeked = lora_peek_header(lp.config, lp.symbols)
      /\ lp'.got = lora_decode_packet(lp.config, lp.symbols)
  BY DEF LpReceive
<1>4. Aired(lp'.config, lp'.payload, lp.symbols, lpDamage', lp'.peek)
  BY <1>1, <1>2, <1>3, Zenon
<1>5. /\ lp'.count = Len(lp.symbols) /\ lp'.peeked = lora_peek_header(lp'.config, lp.symbols)
      /\ lp'.got = lora_decode_packet(lp'.config, lp.symbols)
  BY <1>3
<1>6. \E R : /\ Aired(lp'.config, lp'.payload, R, lpDamage', lp'.peek)
             /\ lp'.count = Len(R) /\ lp'.peeked = lora_peek_header(lp'.config, R)
             /\ lp'.got = lora_decode_packet(lp'.config, R)
  BY <1>4, <1>5, Zenon
<1>7. lp'.at = "received" /\ lp'.at # "air" /\ lp'.at # "idle"
  BY <1>3
<1> QED BY <1>6, <1>7 DEF LpInv, Aired

LEMMA OverrunKeeps == LpInv /\ LpOverrun => LpInv'
<1> SUFFICES ASSUME LpInv, LpOverrun PROVE LpInv'
  OBVIOUS
<1>1. PICK c \in LpConfigs, p \in LpPayloads :
        Overruns(c, Len(p)) /\ lp' = [at |-> "overrun", config |-> c, payload |-> p]
  BY Zenon DEF LpOverrun
<1>2. lp'.at = "overrun" /\ lp'.config = c /\ lp'.payload = p
  BY <1>1
<1>3. /\ lp'.config \in LpConfigs /\ lp'.payload \in LpPayloads
      /\ Overruns(lp'.config, Len(lp'.payload))
  BY <1>1, <1>2, Zenon
<1>4. lp'.at \in {"idle", "air", "received", "overrun"}
        /\ lp'.at # "idle" /\ lp'.at # "air" /\ lp'.at # "received"
  BY <1>2
<1>5. LpInv' <=>
        /\ lp'.at \in {"idle", "air", "received", "overrun"}
        /\ lp'.at = "idle" => lpDamage' = 0
        /\ lp'.at = "air" =>
             /\ lp' = [at |-> "air", config |-> lp'.config, payload |-> lp'.payload,
                       symbols |-> lp'.symbols, peek |-> lp'.peek]
             /\ Aired(lp'.config, lp'.payload, lp'.symbols, lpDamage', lp'.peek)
        /\ lp'.at = "received" =>
             \E R : /\ Aired(lp'.config, lp'.payload, R, lpDamage', lp'.peek)
                    /\ lp'.count = Len(R) /\ lp'.peeked = lora_peek_header(lp'.config, R)
                    /\ lp'.got = lora_decode_packet(lp'.config, R)
        /\ lp'.at = "overrun" =>
             lp'.config \in LpConfigs /\ lp'.payload \in LpPayloads /\ Overruns(lp'.config, Len(lp'.payload))
  BY Zenon DEF LpInv, Aired, Overruns, InterleavedBits, InterleavedSize
<1> QED BY <1>3, <1>4, <1>5, Zenon

LEMMA LpKeeps == LpInv /\ [LpNext]_lpVars => LpInv'
<1> SUFFICES ASSUME LpInv, [LpNext]_lpVars PROVE LpInv'
  OBVIOUS
<1>1. CASE LpSend
  BY <1>1, SendKeeps
<1>2. CASE LpDamageSymbol
  BY <1>2, DamageKeeps
<1>3. CASE LpReceive
  BY <1>3, ReceiveKeeps
<1>4. CASE UNCHANGED lpVars
  <2>1. lp' = lp /\ lpDamage' = lpDamage
    BY <1>4 DEF lpVars
  <2> QED BY <2>1, Zenon DEF LpInv, Aired
<1>5. CASE LpOverrun
  BY <1>5, OverrunKeeps
<1> QED BY <1>1, <1>2, <1>3, <1>4, <1>5 DEF LpNext

(* Whole symbols of sf bits are at most sf - 1 bits more than those that code
   n half bytes.  With 5 or 6 bits each that is less than the spare bits. *)
LEMMA FitsBelowFour ==
  ASSUME NEW c, NEW len \in 0 .. 255, c.sf \in 6 .. 12, c.cr \in 1 .. 4, Overruns(c, len)
  PROVE  c.cr = 4 \/ (c.cr = 3 /\ c.sf = 11 /\ len = 0)
<1> DEFINE sf == c.sf
           cr == c.cr
           n == 8 + 2 * len
<1>1. n \in Nat /\ n >= 8 /\ sf \in 6 .. 12 /\ cr \in 1 .. 4 /\ n = 8 + 2 * len
  OBVIOUS
<1>2. sf * ((n * (4 + cr) + sf - 1) \div sf) > 8 * n
  BY DEF Overruns, InterleavedBits, InterleavedSize
<1> HIDE DEF n, sf, cr
<1> DEFINE bits == n * (4 + cr)
           q == (bits + sf - 1) \div sf
<1>3. bits \in Nat /\ (cr = 1 => bits = 5 * n) /\ (cr = 2 => bits = 6 * n) /\ (cr = 3 => bits = 7 * n)
  BY <1>1
<1> HIDE DEF bits
<1>4. sf * q <= bits + sf - 1
  BY <1>1, <1>3
<1>5. cr # 1 /\ cr # 2
  <2> HIDE DEF q
  <2> QED BY <1>1, <1>2, <1>3, <1>4 DEF q, bits
<1>6. CASE cr = 3
  <2>1. n <= sf - 2
    <3> HIDE DEF q
    <3> QED BY <1>1, <1>2, <1>3, <1>4, <1>6 DEF q, bits
  <2>2. (len = 0 /\ n = 8) \/ (len = 1 /\ n = 10 /\ sf = 12)
    BY <1>1, <2>1
  <2>3. n = 8 => bits = 56
    BY <1>3, <1>6
  <2>4. n = 10 => bits = 70
    BY <1>3, <1>6
  <2>5. sf \in {10, 11, 12}
    BY <1>1, <2>1
  <2>6. sf * q > 8 * n
    BY <1>2 DEF q, bits
  <2>7. n = 8 /\ sf = 10 => q = 6
    BY <2>3
  <2>8. n = 8 /\ sf = 12 => q = 5
    BY <2>3
  <2>9. n = 10 /\ sf = 12 => q = 6
    BY <2>4
  <2> HIDE DEF q
  <2> QED BY <1>6, <2>2, <2>5, <2>6, <2>7, <2>8, <2>9 DEF sf, cr
<1>7. CASE cr = 4
  BY <1>7 DEF cr
<1> QED BY <1>1, <1>5, <1>6, <1>7

(* It implies what is promised. *)
LEMMA LpInvSound == LpInv => PacketSound
<1> SUFFICES ASSUME LpInv PROVE PacketSound
  OBVIOUS
<1> DEFINE c == lp.config
           p == lp.payload
<1>1. lp.at = "received" => /\ lp.count >= 8 =>
                               /\ lpDamage = 0 \/ lpDamage >= FirstBeyondHeader(c) => lp.peeked = lp.peek
                               /\ lp.peeked \in Byte \X lora_coding_rate
                            /\ lpDamage = 0 /\ lp.count >= 8 => lp.got.rc = 0 /\ lp.got.payload = p
                            /\ c.crc /\ lpDamage >= FirstBeyondHeader(c) /\ lp.got.rc = 0 => lp.got.payload = p
  <2> SUFFICES ASSUME lp.at = "received"
               PROVE  /\ lp.count >= 8 =>
                               /\ lpDamage = 0 \/ lpDamage >= FirstBeyondHeader(c) => lp.peeked = lp.peek
                               /\ lp.peeked \in Byte \X lora_coding_rate
                      /\ lpDamage = 0 /\ lp.count >= 8 => lp.got.rc = 0 /\ lp.got.payload = p
                      /\ c.crc /\ lpDamage >= FirstBeyondHeader(c) /\ lp.got.rc = 0 => lp.got.payload = p
    OBVIOUS
  <2>1. PICK R : /\ Aired(c, p, R, lpDamage, lp.peek)
                 /\ lp.count = Len(R) /\ lp.peeked = lora_peek_header(c, R)
                 /\ lp.got = lora_decode_packet(c, R)
    BY Zenon DEF LpInv
  <2> DEFINE E == lora_encode_packet(c, p)
             d == lpDamage
  <2>2. /\ c \in LpConfigs /\ p \in LpPayloads /\ d \in Nat
        /\ OnAir(c, p, R, d) /\ lp.peek = lora_peek_header(c, E)
    BY <2>1 DEF Aired
  <2>3. PICK n \in 0 .. 255 : p \in [1 .. n -> Byte]
    BY <2>2, PayloadIs
  <2>4. Valid(c) /\ c.crc \in BOOLEAN
    BY <2>2, ConfigIs DEF Valid
  <2>5. OnAir(c, p, E, 0)
    <3> HIDE DEF c, p
    <3> QED BY <2>3, <2>4, SentOnAir
  <2> HIDE DEF E, c, p, d
  <2>6. ASSUME Len(R) >= 8
        PROVE  /\ d = 0 \/ d >= FirstBeyondHeader(c) => lora_peek_header(c, R) = lora_peek_header(c, E)
               /\ lora_peek_header(c, R) \in Byte \X lora_coding_rate
    BY <2>2, <2>3, <2>4, <2>5, <2>6, EarlyLook
  <2>7. ASSUME d = 0, Len(R) >= 8
        PROVE  lora_decode_packet(c, R).rc = 0 /\ lora_decode_packet(c, R).payload = p
    <3>1. OnAir(c, p, R, 0)
      BY <2>2, <2>7
    <3> QED BY <2>3, <2>4, <2>7, <3>1, DeliveredIs
  <2>8. ASSUME c.crc, d >= FirstBeyondHeader(c), lora_decode_packet(c, R).rc = 0
        PROVE  lora_decode_packet(c, R).payload = p
    <3>1. c.crc = TRUE
      BY <2>4, <2>8
    <3>2. Len(R) >= 8
      <4> SUFFICES ASSUME ~(Len(R) >= 8) PROVE FALSE
        OBVIOUS
      <4>1. Len(R) \in Nat
        <5>1. SymbolCount(c, Len(p)) \in Nat
          <6>1. Len(p) \in Nat
            BY <2>3, ArraySeq
          <6> QED BY <2>4, <6>1, CountIs
        <5>2. R \in [1 .. SymbolCount(c, Len(p)) -> [1 .. c.sf -> Bit]]
          BY <2>2 DEF OnAir
        <5> HIDE DEF c, p
        <5> QED BY <5>1, <5>2, ArraySeq
      <4>2. Len(R) < 8
        BY <4>1
      <4>3. Unpacked(c, R) = Decoded(-1, <<>>, TRUE)
        BY <4>2, Zenon DEF Unpacked
      <4>4. Unpacked(c, R).crc /\ Unpacked(c, R).rc = -1
        BY <4>3 DEF Decoded
      <4>5. lora_decode_packet(c, R) = Unpacked(c, R)
        BY <4>4, ReceiveIs, Zenon
      <4> QED BY <2>8, <4>4, <4>5
    <3> QED BY <2>2, <2>3, <2>4, <2>8, <3>1, <3>2, NotAnother
  <2> QED BY <2>1, <2>2, <2>6, <2>7, <2>8 DEF d
<1>2. lp.at = "air" /\ ~c.implicit =>
        lora_generate_preamble(c) + 4 * Len(lp.symbols) <= lora_packet_buffer_size([c EXCEPT !.len = Len(p)])
  <2> SUFFICES ASSUME lp.at = "air", ~c.implicit
               PROVE  lora_generate_preamble(c) + 4 * Len(lp.symbols)
                        <= lora_packet_buffer_size([c EXCEPT !.len = Len(p)])
    OBVIOUS
  <2> DEFINE R == lp.symbols
  <2>1. c \in LpConfigs /\ p \in LpPayloads /\ OnAir(c, p, R, lpDamage)
    BY DEF LpInv, Aired
  <2> HIDE DEF c, p, R
  <2>2. PICK n \in 0 .. 255 : Len(p) = n
    BY <2>1, PayloadIs
  <2>3. c \in lora_phy_params /\ Valid(c)
    BY <2>1, ConfigIs
  <2>4. Len(R) = SymbolCount(c, n)
    <3>1. R \in [1 .. SymbolCount(c, n) -> [1 .. c.sf -> Bit]]
      BY <2>1, <2>2 DEF OnAir
    <3>2. SymbolCount(c, n) \in Nat
      BY <2>3, CountIs
    <3> QED BY <3>1, <3>2, ArraySeq
  <2>5. lora_generate_preamble(c) + 4 * SymbolCount(c, n) <= lora_packet_buffer_size([c EXCEPT !.len = n])
    BY <2>3, BufferHolds
  <2> QED BY <2>2, <2>4, <2>5, Zenon DEF R
<1>3. lp.at = "overrun" => c.cr = 4 \/ (c.cr = 3 /\ c.sf = 11 /\ p = <<>>)
  <2> SUFFICES ASSUME lp.at = "overrun" PROVE c.cr = 4 \/ (c.cr = 3 /\ c.sf = 11 /\ p = <<>>)
    OBVIOUS
  <2>1. c \in LpConfigs /\ p \in LpPayloads /\ Overruns(c, Len(p))
    BY DEF LpInv
  <2> HIDE DEF c, p
  <2>2. PICK n \in 0 .. 255 : Len(p) = n /\ p \in [1 .. n -> Byte]
    BY <2>1, PayloadIs
  <2>3. Len(p) = 0 => p = <<>>
    BY <2>2
  <2>4. c.sf \in 6 .. 12 /\ c.cr \in 1 .. 4
    BY <2>1, LpAssumption DEF lora_phy_params_validate, lora_phy_params, lora_spreading_factor, lora_coding_rate
  <2> QED BY <2>1, <2>2, <2>3, <2>4, FitsBelowFour
<1> QED BY <1>1, <1>2, <1>3, Zenon
        DEF PacketSound, PeekIsEarly, Delivered, NoFalsePayload, BufferSuffices, InterleaverFits

(* THEOREM.  Every packet that arrives untouched is decoded to its payload, a
   changed symbol beyond the header never makes another payload of it, the
   first look does not depend on it, the caller's buffer suffices, and the
   encoder's own at the coding rates below 4, but for one packet. *)
THEOREM PacketHolds == LpSpec => []PacketSound
<1>1. LpSpec => []LpInv
  BY LpInvInit, LpKeeps, PTL DEF LpSpec
<1> QED BY <1>1, LpInvSound, PTL
=============================================================================
