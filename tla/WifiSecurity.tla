---------------------------- MODULE WifiSecurity ----------------------------
(***************************************************************************)
(* The security library of mini-wifi-bluetooth (src/wireless_security.c):   *)
(* a block cipher and its CCM mode, SHA-1 and what is derived with it, the  *)
(* simultaneous authentication, the first two messages of the handshake and *)
(* Bluetooth's simple pairing, as an access point and a station use them    *)
(* one after the other.                                                     *)
(*                                                                          *)
(* Functions that mini-wireless-security also has, of its own, are named    *)
(* with a wifi_ here.  Associated data and texts fit the code's buffers.    *)
(***************************************************************************)
EXTENDS WirelessCrypto

CONSTANTS WsLengths,    \* lengths of the texts
          WsNumbers     \* packet numbers used

VARIABLE ws  \* how far the two ends are, and what they hold

-----------------------------------------------------------------------------
(* The block cipher *)

NextKey(prev, i) ==
  Rounds(LAMBDA s, k : Once(LAMBDA word : [word |-> word, key |-> s.key \o word],
                            Stored(XorBytes(s.word, SubSeq(prev, 4 * k - 3, 4 * k)))),
         [word |-> XorBytes(sub_word(rot_word(SubSeq(prev, 13, 16))), <<aes_rcon[i], 0, 0, 0>>), key |-> <<>>],
         1, 4).key

RoundKeys(key) == Rounds(LAMBDA keys, i : Append(keys, NextKey(keys[i], i)), <<key>>, 1, 10)

(* The upper two rows of the state go through the matrix twice. *)
Halfway(once, s) == Stored([i \in 1 .. 16 |-> IF (i - 1) % 4 < 2 THEN once[i] ELSE s[i]])
MixedTwice(s) == mix_columns(Halfway(mix_columns(s), s))

aes128_encrypt_block(input, key) ==
  Once(LAMBDA keys :
         Stored(XorBytes(shift_rows(sub_bytes(
           Rounds(LAMBDA s, r : Stored(XorBytes(MixedTwice(Stored(shift_rows(sub_bytes(s)))), keys[r + 1])),
                  Stored(XorBytes(input, keys[1])), 1, 9))), keys[11])),
       Stored(RoundKeys(key)))

-----------------------------------------------------------------------------
(* CCM *)

wifi_aes_cbc_mac(data, key) ==
  Rounds(LAMBDA x, b : aes128_encrypt_block(XorBytes(x, Padded(Block(data, b))), key), Zeros(16), 1, Blocks(data))

(* The counter is two bytes behind flags and nonce. *)
wifi_aes_ctr_crypt(input, key, nonce) ==
  FlattenSeq([b \in 1 .. Blocks(input) |->
                XorBytes(Block(input, b), aes128_encrypt_block(<<1>> \o nonce \o BigEndian(b % 65536, 2), key))])

CcmpNonce(pn, priority, addr2) == <<priority>> \o addr2 \o BigEndian(pn, 6)
AssociatedData(pn, priority, addr2, len) ==
  <<64, priority>> \o addr2 \o addr2 \o Zeros(4) \o LittleEndian(pn, 2) \o BigEndian(len, 2)

wifi_ccmp_encrypt(text, key, pn, priority, addr2) ==
  LET nonce == CcmpNonce(pn, priority, addr2)
  IN  wifi_aes_ctr_crypt(text, key, nonce)
        \o SubSeq(XorBytes(wifi_aes_cbc_mac(<<89>> \o nonce \o BigEndian(Len(text), 2)
                                              \o Padded(AssociatedData(pn, priority, addr2, Len(text)))
                                              \o Padded(text), key),
                           aes128_encrypt_block(<<1>> \o nonce \o <<0, 0>>, key)), 1, 8)

(* Mutant: the key stream begins with the block of the code. *)
DecryptFromZero(sealed, key, pn, priority, addr2) ==
  LET len == Len(sealed) - 8
      shifted == wifi_aes_ctr_crypt(Zeros(16) \o SubSeq(sealed, 1, len), key, CcmpNonce(pn, priority, addr2))
  IN  [rc |-> len, text |-> SubSeq(shifted, 17, 16 + len)]

(* The code is removed and not compared. *)
wifi_ccmp_decrypt(sealed, key, pn, priority, addr2) ==
  LET len == Len(sealed) - 8
  IN  IF len < 0 THEN [rc |-> -1, text |-> <<>>]
      ELSE [rc |-> len, text |-> wifi_aes_ctr_crypt(SubSeq(sealed, 1, len), key, CcmpNonce(pn, priority, addr2))]

-----------------------------------------------------------------------------
(* SHA-1 and what is made of it *)

sha1_rol(w, n) == Rotr32(w, 32 - n)

Sha1Schedule(block) ==
  Rounds(LAMBDA w, i : Append(w, sha1_rol(Xor32(Xor32(w[i + 13], w[i + 8]), Xor32(w[i + 2], w[i])), 1)),
         Stored([i \in 1 .. 16 |-> Word32(SubSeq(block, 4 * i - 3, 4 * i))]), 1, 64)

(* The working variables are a to e; four kinds of twenty rounds. *)
Sha1Mix(i, b, c, d) ==
  CASE i <= 20 -> Xor32(And32(b, c), And32(Not32(b), d))
    [] i > 40 /\ i <= 60 -> Xor32(And32(b, c), Xor32(And32(b, d), And32(c, d)))
    [] OTHER -> Xor32(b, Xor32(c, d))
sha1_k == <<<<23170, 31129>>, <<28377, 60321>>, <<36635, 48348>>, <<51810, 49622>>>>
Sha1Round(v, i, w) ==
  <<Add32(Add32(sha1_rol(v[1], 5), Sha1Mix(i, v[2], v[3], v[4])),
          Add32(Add32(v[5], sha1_k[((i - 1) \div 20) + 1]), w)),
    v[1], sha1_rol(v[2], 30), v[3], v[4]>>

sha1_transform(state, block) ==
  Once(LAMBDA v : Stored([i \in 1 .. 5 |-> Add32(state[i], v[i])]),
       Once(LAMBDA w : Rounds(LAMBDA u, i : Sha1Round(u, i, w[i]), state, 1, 80), Sha1Schedule(block)))

sha1_init == [state |-> <<<<26437, 8961>>, <<61389, 43913>>, <<39098, 56574>>, <<4146, 21622>>, <<50130, 57840>>>>,
              count |-> 0, buffer |-> <<>>]

(* The buffer is transformed whenever it is full. *)
sha1_update(ctx, data) ==
  LET pending == ctx.buffer \o data
      full == Len(pending) \div 64
  IN  [state |-> Rounds(LAMBDA h, b : sha1_transform(h, SubSeq(pending, 64 * b - 63, 64 * b)), ctx.state, 1, full),
       count |-> ctx.count + Len(data), buffer |-> SubSeq(pending, 64 * full + 1, Len(pending))]

(* The buffer with its end mark, which may need a block of its own, and the
   block with the length. *)
Sha1Marked(state, buffer) ==
  IF Len(buffer) > 56 THEN [state |-> sha1_transform(state, buffer \o Zeros(64 - Len(buffer))), rest |-> <<>>]
                      ELSE [state |-> state, rest |-> buffer]
Sha1Last(s, bits) ==
  Once(LAMBDA final : FlattenSeq([i \in 1 .. 5 |-> Bytes32(final[i])]),
       sha1_transform(s.state, s.rest \o Zeros(60 - Len(s.rest)) \o BigEndian(bits, 4)))
sha1_final(ctx) == Sha1Last(Sha1Marked(ctx.state, Append(ctx.buffer, 128)), 8 * ctx.count)

Sha1(data) == sha1_final(sha1_update(sha1_init, data))

(* Keys of at most 64 bytes; a longer one is hashed first. *)
hmac_sha1(key, data) ==
  Once(LAMBDA given : Sha1(Masked(given, 92) \o Sha1(Masked(given, 54) \o data)),
       IF Len(key) > 64 THEN Sha1(key) ELSE key)

(* Twenty bytes of the code and twelve of key and data mixed in. *)
wifi_hmac_sha256(key, data) ==
  LET at(i) == IF i <= Len(data) THEN data[i] ELSE 0
  IN  Once(LAMBDA code :
             Stored([i \in 1 .. 32 |->
                       IF i <= 20 THEN code[i]
                       ELSE XorByte(code[i - 20], XorByte(key[((i - 1) % Len(key)) + 1], at(i)))]),
           hmac_sha1(key, data))

pbkdf2_hmac_sha1(password, salt, iterations, len) ==
  SubSeq(FlattenSeq([b \in 1 .. (len + 19) \div 20 |->
           Rounds(LAMBDA s, j : Once(LAMBDA u : [u |-> u, t |-> Stored(XorBytes(s.t, u))], hmac_sha1(password, s.u)),
                  [u |-> salt \o BigEndian(b, 4), t |-> Zeros(20)], 1, iterations).t]), 1, len)

(* The number of the block stands between label and context. *)
wifi_wpa2_prf(len, key, label, context) ==
  SubSeq(FlattenSeq([b \in 1 .. (len + 19) \div 20 |-> hmac_sha1(key, label \o <<b - 1>> \o context)]), 1, len)

-----------------------------------------------------------------------------
(* The handshake *)

PairwiseLabel ==  \* "Pairwise key expansion"
  <<80, 97, 105, 114, 119, 105, 115, 101, 32, 107, 101, 121, 32, 101, 120, 112, 97, 110, 115, 105, 111, 110>>

(* memcmp(a, b, n) < 0 *)
Precedes(a, b) == \E i \in 1 .. Len(a) : a[i] < b[i] /\ SubSeq(a, 1, i - 1) = SubSeq(b, 1, i - 1)
Ordered(a, b) == IF Precedes(a, b) THEN a \o b ELSE b \o a

wpa2_derive_ptk(ctx, aa, spa) ==
  [ctx EXCEPT !.ptk = wifi_wpa2_prf(ctx.ptk_len, ctx.pmk, PairwiseLabel,
                                    Ordered(aa, spa) \o Ordered(ctx.anonce, ctx.snonce))]

wpa2_compute_mic(frame, kck) == SubSeq(hmac_sha1(kck, frame), 1, 16)

(* Key information, a replay counter of 1, the nonce from the 18th byte on. *)
HandshakeFrame(info, nonce) == info \o <<1>> \o Zeros(14) \o nonce \o Zeros(46)
NonceOf(frame) == SubSeq(frame, 18, 49)

wpa2_4way_msg1(ctx) ==
  LET nonce == [i \in 1 .. 32 |-> LET b == ((i - 1) * 127 + 31) % 256 IN IF i = 1 THEN OrByte(b, 1) ELSE b]
  IN  [ctx |-> [ctx EXCEPT !.anonce = nonce], frame |-> HandshakeFrame(<<0, 138>>, nonce)]

wpa2_4way_msg2(ctx) ==
  LET nonce == [i \in 1 .. 32 |-> LET b == ((i - 1) * 73 + 17 + ctx.anonce[((i - 1) % 16) + 1]) % 256
                                  IN  IF i = 1 THEN OrByte(b, 2) ELSE b]
  IN  [ctx |-> [ctx EXCEPT !.snonce = nonce], frame |-> HandshakeFrame(<<1, 10>>, nonce)]

-----------------------------------------------------------------------------
(* Simultaneous authentication and simple pairing *)

(* The point of a counter; the first one that is not zero is taken, and the
   first is not. *)
Reduced(s) == Stored([i \in 1 .. 32 |-> IF i = 1 THEN s[1] % 128 ELSE s[i]])
sae_password_element(password, mac1, mac2) ==
  Once(LAMBDA seed :
         Once(LAMBDA x : [x |-> x, y |-> Reduced([i \in 1 .. 32 |-> XorByte(x[((i + 6) % 32) + 1],
                                                                          seed[((i + 12) % 32) + 1])])],
              Reduced(seed)),
       wifi_hmac_sha256(password, mac1 \o mac2 \o <<0, 0>>))

wifi_sae_commit(pwe) ==
  LET r(i) == XorByte(XorByte(pwe.x[i], pwe.y[i]), ((i - 1) * 41 + 7) % 256)
      m == Stored([i \in 1 .. 32 |-> XorByte(XorByte(pwe.x[((i + 4) % 32) + 1], pwe.y[((i + 10) % 32) + 1]),
                                             ((i - 1) * 17 + 13) % 256)])
      sum == Iterate(LAMBDA s, k : LET v == r(33 - k) + m[33 - k] + s.carry
                                   IN  [carry |-> v \div 256, bytes |-> <<v % 256>> \o s.bytes],
                     [carry |-> 0, bytes |-> <<>>], 32)
  IN  [scalar |-> sum.bytes, x |-> Stored(XorBytes(pwe.x, m)), y |-> Stored(XorBytes(pwe.y, m))]

wifi_sae_confirm(k, self, peer) ==
  wifi_hmac_sha256(k, self.scalar \o self.x \o self.y \o peer.scalar \o peer.x \o peer.y)

sae_derive_pmk(k) ==  \* "SAE KCK and PMK"
  wifi_hmac_sha256(k, <<83, 65, 69, 32, 75, 67, 75, 32, 97, 110, 100, 32, 80, 77, 75, 1>>)

(* Six bytes of the hash, as a number of six digits. *)
bt_ssp_numeric_compare(pkA, pkB, nonceA, nonceB) ==
  FoldLeft(LAMBDA v, b : (256 * v + b) % 1000000, 0,
           SubSeq(wifi_hmac_sha256(Zeros(32), pkA \o pkB \o nonceA \o nonceB), 1, 6))

bt_ssp_just_works_link_key(dhkey, addrA, addrB) ==
  SubSeq(wifi_hmac_sha256(Zeros(32), dhkey \o <<98, 116, 108, 107>> \o addrA \o addrB), 1, 16)

-----------------------------------------------------------------------------
(* An access point and a station: they authenticate, exchange the first two
   messages, derive the pairwise key each, and send each other texts. *)

WsEnds == {"ap", "sta"}
WsMac == [ap |-> <<9, 8, 7, 6, 5, 4>>, sta |-> <<9, 1, 2, 3, 4, 5>>]
WsText(n) == [i \in 1 .. n |-> (37 * i) % 256]
WsContext(pmk) == [pmk |-> pmk, ptk |-> Zeros(48), ptk_len |-> 48, anonce |-> Zeros(32), snonce |-> Zeros(32)]

WsInit == ws = [at |-> "idle"]

(* The shared secret is the caller's, made of the exchanged values. *)
WsAgree == \E password \in {<<97, 98>>, UpTo(70)} :
  /\ ws.at = "idle"
  /\ \E pwe \in {sae_password_element(password, WsMac.ap, WsMac.sta)} :
       \E commit \in {wifi_sae_commit(pwe)} :
         \E k \in {Stored(XorBytes(XorBytes(commit.scalar, commit.scalar), pwe.x))} :
           \E pmk \in {sae_derive_pmk(k)} :
             ws' = [at |-> "agreed", ctx |-> [e \in WsEnds |-> WsContext(pmk)], derived |-> {}, net |-> <<>>,
                    confirm |-> wifi_sae_confirm(k, commit, commit)]

WsPassphrase ==
  /\ ws.at = "idle"
  /\ \E pmk \in {pbkdf2_hmac_sha1(<<97, 98>>, <<1>>, 2, 32)} :
       ws' = [at |-> "agreed", ctx |-> [e \in WsEnds |-> WsContext(pmk)], derived |-> {}, net |-> <<>>,
                confirm |-> Zeros(32)]

WsMessage1 ==
  /\ ws.at = "agreed"
  /\ LET r == wpa2_4way_msg1(ws.ctx.ap)
     IN  ws' = [ws EXCEPT !.at = "msg1", !.ctx.ap = r.ctx, !.net = r.frame]

WsMessage2 ==
  /\ ws.at = "msg1"
  /\ LET r == wpa2_4way_msg2([ws.ctx.sta EXCEPT !.anonce = NonceOf(ws.net)])
     IN  ws' = [ws EXCEPT !.at = "msg2", !.ctx.sta = r.ctx, !.ctx.ap.snonce = NonceOf(r.frame),
                          !.net = r.frame]

(* The caller may take the addresses in either order. *)
WsDerive == \E e \in WsEnds, swapped \in BOOLEAN :
  /\ ws.at = "msg2" /\ e \notin ws.derived
  /\ ws' = [ws EXCEPT !.derived = @ \cup {e},
                      !.ctx[e] = wpa2_derive_ptk(@, IF swapped THEN WsMac.sta ELSE WsMac.ap,
                                                    IF swapped THEN WsMac.ap ELSE WsMac.sta)]

WsTemporal(e) == SubSeq(ws.ctx[e].ptk, 33, 48)

(* Of what is sealed the channel may change a byte: of the text, or the last
   of the code. *)
WsTransfer == \E from \in WsEnds, len \in WsLengths, pn \in WsNumbers : \E touched \in {0, 1, len + 8} :
  /\ ws.at = "msg2" /\ ws.derived = WsEnds
  /\ LET to == CHOOSE e \in WsEnds : e # from
         sealed == wifi_ccmp_encrypt(WsText(len), WsTemporal(from), pn, 5, WsMac[from])
         changed == [i \in 1 .. len + 8 |-> IF i = touched THEN XorByte(sealed[i], 1) ELSE sealed[i]]
     IN  ws' = [at |-> "done", length |-> len, touched |-> touched,
                mics |-> [e \in WsEnds |-> wpa2_compute_mic(ws.net, SubSeq(ws.ctx[e].ptk, 1, 16))],
                got |-> wifi_ccmp_decrypt(Stored(changed), WsTemporal(to), pn, 5, WsMac[from])]

WsPair == \E n \in WsNumbers :
  /\ ws.at = "idle"
  /\ \E x \in {bt_ssp_just_works_link_key(UpTo(32), WsMac.ap, WsMac.sta)} :
       ws' = [at |-> "paired", key |-> x,
                shown |-> bt_ssp_numeric_compare(UpTo(32), Zeros(32), x, [i \in 1 .. 16 |-> n % 256])]

WsNext == WsAgree \/ WsPassphrase \/ WsMessage1 \/ WsMessage2 \/ WsDerive \/ WsTransfer \/ WsPair

WsSpec == WsInit /\ [][WsNext]_ws

-----------------------------------------------------------------------------
(* Properties *)

(* Ends that took the same nonces derive one pairwise key, whichever address
   each names first, accept each other's code, and read each other's texts,
   of any length against the block, but for the byte that the channel changed.
   A changed text is not refused here, and one with a changed code neither:
   wifi_ccmp_decrypt does not compare the code (wireless_security.c:337),
   though its header promises -1 where it differs (wireless_security.h:137). *)
AssociationSound ==
  /\ ws.at = "msg2" /\ ws.derived = WsEnds => ws.ctx.ap.ptk = ws.ctx.sta.ptk
  /\ ws.at = "done" => /\ ws.mics.ap = ws.mics.sta
                       /\ ws.got.rc = ws.length
                       /\ \A i \in 1 .. ws.length : (ws.got.text[i] = WsText(ws.length)[i]) <=> i # ws.touched
  /\ ws.at = "paired" => ws.shown \in 0 .. 999999
=============================================================================
