--------------------------- MODULE WirelessCrypto ---------------------------
(***************************************************************************)
(* The cryptographic primitives of mini-wireless-security                   *)
(* (src/wireless_crypto.c), first part: AES and its modes CCMP and GCMP, as *)
(* a sender and a receiver use them on a channel that may change a byte.    *)
(*                                                                          *)
(* A context of the code is a record.  Messages fit the buffers of 512      *)
(* bytes that the code copies them to.                                      *)
(*                                                                          *)
(* The second part has the hashes and RC4.                                  *)
(***************************************************************************)
EXTENDS Bits, FiniteSets

CONSTANTS
  WcKeyBits,   \* key sizes used, of {128, 192, 256}
  WcLengths    \* lengths of the messages

VARIABLE wc    \* the message on its way: its parameters, its sealed form, its outcome

-----------------------------------------------------------------------------
(* AES *)

(* Multiplication of polynomials modulo x^8 + x^4 + x^3 + x + 1: the sum of
   a x^i over the bits of b, lowest first. *)
Doubled == Tabulated([a \in Byte |-> IF a >= 128 THEN XorByte(2 * (a - 128), 27) ELSE 2 * a])
Product[a \in Byte, b \in Byte] ==
  IF b = 0 THEN 0 ELSE XorByte(IF b % 2 = 1 THEN a ELSE 0, Product[Doubled[a], b \div 2])
gf256_mul(a, b) == Product[a, b]

(* x to the power 254, by squaring. *)
gf256_inv(x) ==
  Rounds(LAMBDA s, i : [r |-> IF i = 1 THEN 1 ELSE gf256_mul(s.r, s.b), b |-> gf256_mul(s.b, s.b)],
          [r |-> 1, b |-> x], 1, 8).r

(* The products with the entries of the matrices of mix_columns. *)
Times == Tabulated([m \in {1, 2, 3, 9, 11, 13, 14} |-> Tabulated([x \in Byte |-> gf256_mul(m, x)])])

sub_word(w) == [i \in 1 .. 4 |-> aes_sbox[w[i] + 1]]
rot_word(w) == Tail(w) \o <<Head(w)>>

(* Words of four bytes; the first nk are the key. *)
Parameters == [b \in {128, 192, 256} |-> [nk |-> b \div 32, nr |-> (b \div 32) + 6]]
NextTo(last, nk, i) == IF i % nk = 0
                         THEN XorBytes(sub_word(rot_word(last)), <<aes_rcon[i \div nk], 0, 0, 0>>)
                       ELSE IF nk > 6 /\ i % nk = 4 THEN sub_word(last)
                       ELSE last
Expanded(w, nk, i) == Append(w, Stored(XorBytes(w[i - nk + 1], NextTo(w[i], nk, i))))

KeyWords(key, p) ==
  Rounds(LAMBDA w, i : Expanded(w, p.nk, i), Stored([i \in 1 .. p.nk |-> SubSeq(key, 4 * i - 3, 4 * i)]),
         p.nk, 4 * p.nr + 3)
RoundWords(words, r) == words[4 * r + 1] \o words[4 * r + 2] \o words[4 * r + 3] \o words[4 * r + 4]
aes_key_setup(key, bits) ==
  LET p == Parameters[bits]
  IN  [nr |-> p.nr, round_keys |-> Once(LAMBDA words : Tabulated([r \in 0 .. p.nr |-> RoundWords(words, r)]),
                                        KeyWords(key, p))]

(* Byte r of column c of the state is at 4 c + r + 1. *)
sub_bytes(s) == [i \in 1 .. 16 |-> aes_sbox[s[i] + 1]]
inv_sub_bytes(s) == [i \in 1 .. 16 |-> aes_inv_sbox[s[i] + 1]]
shift_rows(s) == [i \in 1 .. 16 |-> s[((i - 1 + 4 * ((i - 1) % 4)) % 16) + 1]]
inv_shift_rows(s) == [i \in 1 .. 16 |-> s[((i - 1 + 12 * ((i - 1) % 4)) % 16) + 1]]

XorOf4(f) == XorByte(XorByte(f[0], f[1]), XorByte(f[2], f[3]))

(* A column times a circulant matrix, given by its first row. *)
Mixed(s, row) ==
  [i \in 1 .. 16 |->
     LET c == 4 * ((i - 1) \div 4)  r == (i - 1) % 4
     IN  XorOf4([k \in 0 .. 3 |-> Times[row[((k - r + 4) % 4) + 1]][s[c + k + 1]]])]
mix_columns(s) == Mixed(s, <<2, 3, 1, 1>>)
inv_mix_columns(s) == Mixed(s, <<14, 11, 13, 9>>)

add_round_key(s, ctx, round) == Stored(XorBytes(s, ctx.round_keys[round]))

aes_encrypt_block(ctx, plain) ==
  add_round_key(shift_rows(sub_bytes(
    Rounds(LAMBDA s, r : add_round_key(mix_columns(Stored(shift_rows(sub_bytes(s)))), ctx, r),
           add_round_key(plain, ctx, 0), 1, ctx.nr - 1))), ctx, ctx.nr)

aes_decrypt_block(ctx, cipher) ==
  add_round_key(inv_sub_bytes(inv_shift_rows(
    Rounds(LAMBDA s, r : Stored(inv_mix_columns(add_round_key(inv_sub_bytes(inv_shift_rows(s)), ctx, ctx.nr - r))),
           add_round_key(cipher, ctx, ctx.nr), 1, ctx.nr - 1))), ctx, 0)

-----------------------------------------------------------------------------
(* Modes *)

(* A big-endian counter that wraps around. *)
ctr_inc(ctr) ==
  LET low(i) == \A j \in i + 1 .. Len(ctr) : ctr[j] = 255
  IN  [i \in 1 .. Len(ctr) |-> IF low(i) THEN (ctr[i] + 1) % 256 ELSE ctr[i]]

Padded(bytes) == bytes \o Zeros((-Len(bytes)) % 16)
Block(bytes, b) == SubSeq(bytes, 16 * b - 15, IF 16 * b < Len(bytes) THEN 16 * b ELSE Len(bytes))
Blocks(bytes) == (Len(bytes) + 15) \div 16

(* The counter block starts as the nonce followed by zeros, however much of
   a counter the caller has prepared behind the nonce. *)
aes_ctr_crypt(aes, nonce, input) ==
  Rounds(LAMBDA s, b : [ctr |-> ctr_inc(s.ctr),
                        out |-> s.out \o XorBytes(Block(input, b), aes_encrypt_block(aes, s.ctr))],
         [ctr |-> nonce \o Zeros(16 - Len(nonce)), out |-> <<>>], 1, Blocks(input)).out

aes_cbc_mac(aes, blocks) ==
  Rounds(LAMBDA tag, b : aes_encrypt_block(aes, XorBytes(tag, Block(blocks, b))),
         Zeros(16), 1, Blocks(blocks))

ccmp_format_b0(nonce, tagLen, msgLen, hasAad) ==
  <<(IF hasAad THEN 64 ELSE 0) + 8 * ((tagLen - 2) \div 2) + 14 - Len(nonce)>>
    \o nonce \o BigEndian(msgLen, 15 - Len(nonce))

CcmpCounter(nonce) == <<14 - Len(nonce)>> \o nonce

CcmpTag(aes, nonce, plaintext, aad, tagLen) ==
  SubSeq(XorBytes(aes_cbc_mac(aes, ccmp_format_b0(nonce, tagLen, Len(plaintext), aad # <<>>)
                                     \o (IF aad = <<>> THEN <<>> ELSE Padded(BigEndian(Len(aad), 2) \o aad))
                                     \o Padded(plaintext)),
                  aes_encrypt_block(aes, CcmpCounter(nonce) \o <<0, 0>>)), 1, tagLen)

ccmp_encrypt(aes, nonce, plaintext, aad, tagLen) ==
  [text |-> aes_ctr_crypt(aes, CcmpCounter(nonce), plaintext), tag |-> CcmpTag(aes, nonce, plaintext, aad, tagLen)]

(* The difference is gathered over all bytes. *)
constant_time_memcmp(a, b, len) == FoldLeft(OrByte, 0, XorBytes(SubSeq(a, 1, len), SubSeq(b, 1, len)))

(* Mutant: the text is handed out before its tag is compared. *)
CcmpUnwiped(aes, nonce, ciphertext, aad, tag, tagLen) ==
  Once(LAMBDA plaintext :
         [rc |-> IF constant_time_memcmp(tag, CcmpTag(aes, nonce, plaintext, aad, tagLen), tagLen) = 0 THEN 0 ELSE -1,
          text |-> plaintext],
       aes_ctr_crypt(aes, CcmpCounter(nonce), ciphertext))

Opened(matches, plaintext) ==
  IF matches THEN [rc |-> 0, text |-> plaintext] ELSE [rc |-> -1, text |-> Zeros(Len(plaintext))]

ccmp_decrypt(aes, nonce, ciphertext, aad, tag, tagLen) ==
  Once(LAMBDA plaintext :
         Opened(constant_time_memcmp(tag, CcmpTag(aes, nonce, plaintext, aad, tagLen), tagLen) = 0, plaintext),
       aes_ctr_crypt(aes, CcmpCounter(nonce), ciphertext))

(* Multiplication in GF(2^128), bit by bit from the left. *)
Halved(v) ==
  [j \in 1 .. 16 |-> IF j > 1 THEN (v[j] \div 2) + 128 * (v[j - 1] % 2)
                     ELSE XorByte(v[1] \div 2, 225 * (v[16] % 2))]

gf128_mul(x, y) ==
  Iterate(LAMBDA s, i : [z |-> IF BitOf(x[((i - 1) \div 8) + 1], 7 - ((i - 1) % 8)) = 1
                                 THEN Stored(XorBytes(s.z, s.v)) ELSE s.z,
                         v |-> Stored(Halved(s.v))],
          [z |-> Zeros(16), v |-> y], 128).z

(* The number of bits of the ciphertext counts; that of the additional data
   does so from 2^32 on only. *)
ghash(h, aad, ciphertext) ==
  LET data == Padded(aad) \o Padded(ciphertext) \o Zeros(12) \o BigEndian(8 * Len(ciphertext), 4)
  IN  Rounds(LAMBDA tag, b : gf128_mul(Stored(XorBytes(tag, Block(data, b))), h), Zeros(16), 1, Blocks(data))

gcmp_init(key, bits) ==
  Once(LAMBDA aes : [aes |-> aes, H |-> aes_encrypt_block(aes, Zeros(16))], aes_key_setup(key, bits))

GcmpJ0(ctx, iv) == IF Len(iv) = 12 THEN iv \o <<0, 0, 0, 1>> ELSE ghash(ctx.H, <<>>, iv)

(* Four bytes of the counter block reach the cipher. *)
GcmpCrypt(ctx, iv, input) == aes_ctr_crypt(ctx.aes, SubSeq(ctr_inc(GcmpJ0(ctx, iv)), 1, 4), input)

GcmpTag(ctx, iv, ciphertext, aad, tagLen) ==
  SubSeq(XorBytes(ghash(ctx.H, aad, ciphertext), aes_encrypt_block(ctx.aes, GcmpJ0(ctx, iv))), 1, tagLen)

gcmp_encrypt(ctx, iv, plaintext, aad, tagLen) ==
  Once(LAMBDA text : [text |-> text, tag |-> GcmpTag(ctx, iv, text, aad, tagLen)], GcmpCrypt(ctx, iv, plaintext))

gcmp_decrypt(ctx, iv, ciphertext, aad, tag, tagLen) ==
  Opened(constant_time_memcmp(tag, GcmpTag(ctx, iv, ciphertext, aad, tagLen), tagLen) = 0,
         GcmpCrypt(ctx, iv, ciphertext))
-----------------------------------------------------------------------------
(* The self-test *)

(* The affine map over the bits of a byte, and the table against it. *)
Affine(y) == FromLsb([i \in 1 .. 8 |-> (BitOf(99, i - 1) + BitOf(y, i - 1) + BitOf(y, (i + 3) % 8)
                        + BitOf(y, (i + 4) % 8) + BitOf(y, (i + 5) % 8) + BitOf(y, (i + 6) % 8)) % 2])

aes_verify_sbox_construction == Cardinality({x \in Byte : aes_sbox[x + 1] # Affine(gf256_inv(x))})

(* A unit column through both matrices; one column of the state at a time. *)
aes_verify_mixcol_inverse ==
  LET unit(c) == [i \in 1 .. 16 |-> IF i = c THEN 1 ELSE 0]
  IN  Cardinality({e \in (1 .. 4) \X (1 .. 4) :
                     inv_mix_columns(Stored(mix_columns(unit(e[1]))))[e[2]] # unit(e[1])[e[2]]})

aes_self_test == aes_verify_sbox_construction + aes_verify_mixcol_inverse

-----------------------------------------------------------------------------
(* A message is sealed, perhaps changed in one byte, and opened. *)

WcKey(bits) == UpTo(bits \div 8)
WcMessage(n) == [i \in 1 .. n |-> (37 * i) % 256]
WcAads == {<<>>, <<9, 8, 7>>}

WcSuites == [mode : {"ccmp"}, nonce : {UpTo(13)}, tag : {8, 16}]
              \cup [mode : {"gcmp"}, nonce : {UpTo(12), UpTo(9)}, tag : {16}]

WcInit == wc = [at |-> "idle"]

WcSelfTest == wc.at = "idle" /\ wc' = [at |-> "tested", errors |-> aes_self_test]

WcSeal == \E s \in WcSuites, bits \in WcKeyBits, n \in WcLengths, aad \in WcAads :
  /\ wc.at = "idle"
  /\ wc' = [at |-> "sealed", suite |-> s, bits |-> bits, length |-> n, aad |-> aad, intact |-> TRUE,
            sealed |-> IF s.mode = "ccmp"
                         THEN ccmp_encrypt(aes_key_setup(WcKey(bits), bits), s.nonce, WcMessage(n), aad, s.tag)
                       ELSE gcmp_encrypt(gcmp_init(WcKey(bits), bits), s.nonce, WcMessage(n), aad, s.tag)]

WcChange == \E part \in {"text", "tag", "aad"}, i \in {1, 8, 17}, mask \in {1, 128} :
  /\ wc.at = "sealed" /\ wc.intact
  /\ i <= Len(IF part = "aad" THEN wc.aad ELSE wc.sealed[part])
  /\ wc' = IF part = "aad" THEN [wc EXCEPT !.intact = FALSE, !.aad[i] = XorByte(@, mask)]
           ELSE [wc EXCEPT !.intact = FALSE, !.sealed[part][i] = XorByte(@, mask)]

WcOpen ==
  /\ wc.at = "sealed"
  /\ wc' = [at |-> "opened", length |-> wc.length, intact |-> wc.intact,
            got |-> IF wc.suite.mode = "ccmp"
                      THEN ccmp_decrypt(aes_key_setup(WcKey(wc.bits), wc.bits), wc.suite.nonce,
                                        wc.sealed.text, wc.aad, wc.sealed.tag, wc.suite.tag)
                    ELSE gcmp_decrypt(gcmp_init(WcKey(wc.bits), wc.bits), wc.suite.nonce,
                                      wc.sealed.text, wc.aad, wc.sealed.tag, wc.suite.tag)]

(* The block cipher itself, forth and back. *)
WcBlock == \E bits \in WcKeyBits, n \in WcLengths :
  /\ wc.at = "idle"
  /\ \E key \in {aes_key_setup(WcKey(bits), bits)}, block \in {SubSeq(WcMessage(n + 16), n + 1, n + 16)} :
       wc' = [at |-> "block", plain |-> block, back |-> aes_decrypt_block(key, aes_encrypt_block(key, block))]

WcNext == WcSelfTest \/ WcSeal \/ WcChange \/ WcOpen \/ WcBlock

WcSpec == WcInit /\ [][WcNext]_wc

-----------------------------------------------------------------------------
(* Properties *)

(* A message that was changed in a byte of its text, its tag or its
   additional data is refused and leaves no text behind; one that was not
   comes out as it went in, whatever its length against the block. *)
OpenedIntact == wc.at = "opened" =>
  IF wc.intact THEN wc.got.rc = 0 /\ wc.got.text = WcMessage(wc.length)
  ELSE wc.got.rc = -1 /\ \A i \in 1 .. wc.length : wc.got.text[i] = 0

(* Decryption undoes encryption for every key size, and the self-test finds
   the tables to be what they are derived from. *)
CipherInverse == /\ wc.at = "block" => wc.back = wc.plain
                 /\ wc.at = "tested" => wc.errors = 0

(* The modes as a whole. *)
CipherSound == OpenedIntact /\ CipherInverse

-----------------------------------------------------------------------------
(***************************************************************************)
(* SHA-256, HMAC, PBKDF2 and RC4 of mini-wireless-security                  *)
(* (src/wireless_crypto.c): contexts that are fed a message piece by piece. *)
(*                                                                          *)
(* A call that changes a context in place returns the new one.  The key     *)
(* buffer of an HMAC context holds 32 bytes: keys are no longer.            *)
(***************************************************************************)

CONSTANTS
  WhLengths,   \* lengths of the messages
  WhPieces     \* lengths of the pieces they are fed in

ASSUME WhAssumption == WhLengths \subseteq Nat /\ WhPieces \subseteq Nat

VARIABLE wh    \* the context in use, and how much of which message it was fed

-----------------------------------------------------------------------------
(* SHA-256; words are pairs of 16 bits *)

sha256_h0 ==
  <<<<27145, 58983>>, <<47975, 44677>>, <<15470, 62322>>, <<42319, 62778>>, <<20750, 21119>>, <<39685, 26764>>,
    <<8067, 55723>>, <<23520, 52505>>>>

sha256_k ==
  <<<<17034, 12184>>, <<28983, 17553>>, <<46528, 64463>>, <<59829, 56229>>, <<14678, 49755>>, <<23025, 4593>>,
    <<37439, 33444>>, <<43804, 24277>>, <<55303, 43672>>, <<4739, 23297>>, <<9265, 34238>>, <<21772, 32195>>,
    <<29374, 23924>>, <<32990, 45566>>, <<39900, 1703>>, <<49563, 61812>>, <<58523, 27073>>, <<61374, 18310>>,
    <<4033, 40390>>, <<9228, 41420>>, <<11753, 11375>>, <<19060, 33962>>, <<23728, 43484>>, <<30457, 35034>>,
    <<38974, 20818>>, <<43057, 50797>>, <<45059, 10184>>, <<48985, 32711>>, <<50912, 3059>>, <<54695, 37191>>,
    <<1738, 25425>>, <<5161, 10599>>, <<10167, 2693>>, <<11803, 8504>>, <<19756, 28156>>, <<21304, 3347>>,
    <<25866, 29524>>, <<30314, 2747>>, <<33218, 51502>>, <<37490, 11397>>, <<41663, 59553>>, <<43034, 26187>>,
    <<49739, 35696>>, <<51052, 20899>>, <<53650, 59417>>, <<54937, 1572>>, <<62478, 13701>>, <<4202, 41072>>,
    <<6564, 49430>>, <<7735, 27656>>, <<10056, 30540>>, <<13488, 48309>>, <<14620, 3251>>, <<20184, 43594>>,
    <<23452, 51791>>, <<26670, 28659>>, <<29839, 33518>>, <<30885, 25455>>, <<33992, 30740>>, <<36039, 520>>,
    <<37054, 65530>>, <<42064, 27883>>, <<48889, 41975>>, <<50801, 30962>>>>

rotr32(w, n) == Rotr32(w, n)
Xor3(a, b, c) == Xor32(a, Xor32(b, c))
CH(x, y, z) == Xor32(And32(x, y), And32(Not32(x), z))
MAJ(x, y, z) == Xor3(And32(x, y), And32(x, z), And32(y, z))
BSIG0(x) == Xor3(rotr32(x, 2), rotr32(x, 13), rotr32(x, 22))
BSIG1(x) == Xor3(rotr32(x, 6), rotr32(x, 11), rotr32(x, 25))
SSIG0(x) == Xor3(rotr32(x, 7), rotr32(x, 18), Shr32(x, 3))
SSIG1(x) == Xor3(rotr32(x, 17), rotr32(x, 19), Shr32(x, 10))

load_be32(bytes, i) == Word32(SubSeq(bytes, 4 * i - 3, 4 * i))

Schedule(block) ==
  Rounds(LAMBDA w, i : Append(w, Add32(Add32(SSIG1(w[i + 14]), w[i + 9]), Add32(SSIG0(w[i + 1]), w[i]))),
         Stored([i \in 1 .. 16 |-> load_be32(block, i)]), 1, 48)

(* The eight working variables, a first. *)
Rolled(v, t1, t2) == <<Add32(t1, t2), v[1], v[2], v[3], Add32(v[4], t1), v[5], v[6], v[7]>>
Round(v, k, w) == Rolled(v, Add32(Add32(v[8], BSIG1(v[5])), Add32(CH(v[5], v[6], v[7]), Add32(k, w))),
                         Add32(BSIG0(v[1]), MAJ(v[1], v[2], v[3])))

sha256_transform(state, block) ==
  Once(LAMBDA v : Stored([i \in 1 .. 8 |-> Add32(state[i], v[i])]),
       Once(LAMBDA w : Rounds(LAMBDA u, i : Round(u, sha256_k[i], w[i]), state, 1, 64), Schedule(block)))

sha256_init == [state |-> sha256_h0, bit_count |-> 0, buffer |-> <<>>]

(* The buffer is transformed whenever it is full. *)
sha256_update(ctx, data) ==
  LET pending == ctx.buffer \o data
      full == Len(pending) \div 64
  IN  [state |-> Rounds(LAMBDA h, b : sha256_transform(h, SubSeq(pending, 64 * b - 63, 64 * b)), ctx.state, 1, full),
       bit_count |-> ctx.bit_count + 512 * full,
       buffer |-> SubSeq(pending, 64 * full + 1, Len(pending))]

(* A length is below 2^31 here; the code has 64 bits for it. *)
Length64(bits) == Zeros(4) \o BigEndian(bits, 4)

(* The buffer with its end mark, which may need a block of its own, and the
   block with the length. *)
Marked(state, buffer, spills) ==
  IF spills THEN [state |-> sha256_transform(state, buffer \o Zeros(64 - Len(buffer))), rest |-> <<>>]
            ELSE [state |-> state, rest |-> buffer]
LastBlock(s, bits) ==
  Once(LAMBDA final : FlattenSeq([i \in 1 .. 8 |-> Bytes32(final[i])]),
       sha256_transform(s.state, SubSeq(s.rest \o Zeros(56), 1, 56) \o Length64(bits)))

(* Mutant: room for the length is looked for before the end mark is written. *)
FinalLate(ctx) ==
  LastBlock(Marked(ctx.state, Append(ctx.buffer, 128), Len(ctx.buffer) > 56), ctx.bit_count + 8 * Len(ctx.buffer))

(* The end mark spills into a block of its own if no room is left for the
   length behind it. *)
sha256_final(ctx) ==
  LastBlock(Marked(ctx.state, Append(ctx.buffer, 128), Len(ctx.buffer) + 1 > 56), ctx.bit_count + 8 * Len(ctx.buffer))

sha256_hash(data) == sha256_final(sha256_update(sha256_init, data))

-----------------------------------------------------------------------------
(* HMAC and PBKDF2 *)

(* The key, filled up with zeros, under a mask. *)
Masked(key, mask) == [i \in 1 .. 64 |-> XorByte(mask, IF i <= Len(key) THEN key[i] ELSE 0)]

hmac_sha256_init(key) == [inner |-> sha256_update(sha256_init, Masked(key, 54)),
                          outer |-> sha256_update(sha256_init, Masked(key, 92))]

hmac_sha256_update(ctx, data) == [ctx EXCEPT !.inner = sha256_update(@, data)]

hmac_sha256_final(ctx) == sha256_final(sha256_update(ctx.outer, sha256_final(ctx.inner)))

hmac_sha256(key, data) == hmac_sha256_final(hmac_sha256_update(hmac_sha256_init(key), data))

(* A block of the derived key: the sum of the chained codes, from the first. *)
PbkdfBlock(password, salt, iterations, index) ==
  Once(LAMBDA first :
         Rounds(LAMBDA s, j : Once(LAMBDA u : [u |-> u, t |-> Stored(XorBytes(s.t, u))], hmac_sha256(password, s.u)),
                [u |-> first, t |-> first], 1, iterations - 1).t,
       hmac_sha256(password, salt \o BigEndian(index, 4)))

pbkdf2_hmac_sha256(password, salt, iterations, dkLen) ==
  SubSeq(FlattenSeq([b \in 1 .. (dkLen + 31) \div 32 |-> PbkdfBlock(password, salt, iterations, b)]), 1, dkLen)

-----------------------------------------------------------------------------
(* RC4; entry i of the permutation is S[i + 1] *)

Swapped(S, i, j) == [S EXCEPT ![i + 1] = S[j + 1], ![j + 1] = S[i + 1]]

rc4_init(key) ==
  [S |-> Iterate(LAMBDA s, i : LET j == (s.j + s.S[i] + key[((i - 1) % Len(key)) + 1]) % 256
                               IN  [S |-> Swapped(s.S, i - 1, j), j |-> j],
                 [S |-> Stored([i \in 1 .. 256 |-> i - 1]), j |-> 0], 256).S,
   i |-> 0, j |-> 0]

(* One byte of key stream, appended to out. *)
Streamed(s) ==
  LET i == (s.i + 1) % 256
      j == (s.j + s.S[i + 1]) % 256
      S == Swapped(s.S, i, j)
  IN  [S |-> S, i |-> i, j |-> j, out |-> Append(s.out, S[((S[i + 1] + S[j + 1]) % 256) + 1])]

rc4_generate(ctx, len) ==
  Iterate(LAMBDA s, k : Streamed(s), [S |-> ctx.S, i |-> ctx.i, j |-> ctx.j, out |-> <<>>], len)

(* The same loop, with the key stream added to the data. *)
rc4_crypt(ctx, data) ==
  Once(LAMBDA s : [s EXCEPT !.out = Stored(XorBytes(data, @))], rc4_generate(ctx, Len(data)))

-----------------------------------------------------------------------------
(* A caller: begins a context for a message, feeds it, ends it. *)

WhKey == [i \in 1 .. 20 |-> 11 * i]
WhMessage(n) == [i \in 1 .. n |-> (7 * i + 3) % 256]
Piece(from, len) == SubSeq(WhMessage(from + len), from + 1, from + len)

WhInit == wh = [at |-> "idle"]

WhBegin == \E kind \in {"sha", "hmac", "rc4"}, length \in WhLengths :
  /\ wh.at = "idle"
  /\ wh' = [at |-> kind, length |-> length, fed |-> 0, out |-> <<>>,
            ctx |-> CASE kind = "sha" -> sha256_init
                      [] kind = "hmac" -> hmac_sha256_init(WhKey)
                      [] kind = "rc4" -> rc4_init(WhKey)]

WhFeed == \E len \in WhPieces :
  /\ wh.at \in {"sha", "hmac", "rc4"} /\ wh.fed + len <= wh.length
  /\ \E piece \in {Piece(wh.fed, len)} :
       CASE wh.at = "sha" -> wh' = [wh EXCEPT !.fed = @ + len, !.ctx = sha256_update(@, piece)]
         [] wh.at = "hmac" -> wh' = [wh EXCEPT !.fed = @ + len, !.ctx = hmac_sha256_update(@, piece)]
         [] wh.at = "rc4" ->
              \E stream \in {rc4_crypt(wh.ctx, piece)} :
                wh' = [wh EXCEPT !.fed = @ + len, !.out = @ \o stream.out,
                                 !.ctx = [S |-> stream.S, i |-> stream.i, j |-> stream.j]]

WhEnd ==
  /\ wh.at \in {"sha", "hmac", "rc4"} /\ wh.fed = wh.length
  /\ wh' = [at |-> "done", kind |-> wh.at, length |-> wh.length,
            out |-> CASE wh.at = "sha" -> sha256_final(wh.ctx)
                      [] wh.at = "hmac" -> hmac_sha256_final(wh.ctx)
                      [] wh.at = "rc4" -> wh.out]

WhDerive == \E dkLen \in {20, 32, 40} :
  /\ wh.at = "idle"
  /\ wh' = [at |-> "done", kind |-> "pbkdf2", length |-> dkLen,
            out |-> pbkdf2_hmac_sha256(WhKey, <<1, 2, 3>>, 2, dkLen)]

WhNext == WhBegin \/ WhFeed \/ WhEnd \/ WhDerive

WhSpec == WhInit /\ [][WhNext]_wh

-----------------------------------------------------------------------------
(* Properties *)

(* The standard's padding, as one sequence of whole blocks, and its hash. *)
StandardPadding(msg) == msg \o <<128>> \o Zeros((55 - Len(msg)) % 64) \o Length64(8 * Len(msg))
StandardHash(msg) ==
  LET padded == StandardPadding(msg)
  IN  Once(LAMBDA final : FlattenSeq([i \in 1 .. 8 |-> Bytes32(final[i])]),
           Rounds(LAMBDA h, b : sha256_transform(h, SubSeq(padded, 64 * b - 63, 64 * b)),
                  sha256_h0, 1, Len(padded) \div 64))
StandardMac(key, msg) ==
  StandardHash(Masked(key, 92) \o StandardHash(Masked(key, 54) \o msg))

(* However a message is cut into pieces, the digest is that of the standard:
   at the lengths where the end mark or the length just fit a block, too. *)
DigestStandard == wh.at = "done" =>
  /\ wh.kind = "sha" => wh.out = StandardHash(WhMessage(wh.length))
  /\ wh.kind = "hmac" => wh.out = StandardMac(WhKey, WhMessage(wh.length))

(* A derived key of any length begins like any other, and its first block is
   the sum of two chained codes. *)
DerivedPrefix == wh.at = "done" /\ wh.kind = "pbkdf2" =>
  LET shared == IF wh.length < 32 THEN wh.length ELSE 32
  IN  /\ Len(wh.out) = wh.length
      /\ \E u1 \in {StandardMac(WhKey, <<1, 2, 3, 0, 0, 0, 1>>)} :
           \E first \in {XorBytes(u1, StandardMac(WhKey, u1))} :
             SubSeq(wh.out, 1, shared) = SubSeq(first, 1, shared)

(* A stream enciphered in pieces is deciphered by the key stream taken at
   once; the state remains a permutation. *)
StreamAligned ==
  /\ wh.at = "rc4" => Cardinality({wh.ctx.S[i] : i \in 1 .. 256}) = 256
  /\ wh.at = "done" /\ wh.kind = "rc4" =>
       XorBytes(wh.out, rc4_generate(rc4_init(WhKey), wh.length).out) = WhMessage(wh.length)

(* The contexts as a whole. *)
HashSound == DigestStandard /\ DerivedPrefix /\ StreamAligned
=============================================================================
