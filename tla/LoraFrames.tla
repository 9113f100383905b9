----------------------------- MODULE LoraFrames ------------------------------
(***************************************************************************)
(* The packet pipeline of mini-lora-nbiot (src/lora_packet.c) and the codes *)
(* of src/lora_modem.c it is built from: CRC, header, Hamming code,         *)
(* interleaver, whitening and Gray map, and their inverses.                 *)
(*                                                                          *)
(* A packet is a sequence of symbol values.  The modem is the environment:  *)
(* it hands over every symbol as it was sent, except one that may come out  *)
(* as any other value.  The caller's buffers are large enough; the one that  *)
(* the encoder takes for the interleaved bits is modelled with its size.    *)
(*                                                                          *)
(* The second part has the frames of a device and its join.                 *)
(***************************************************************************)
EXTENDS Bits, FiniteSetsExt

CONSTANTS
  LpConfigs,   \* the settings used: parameters that lora_phy_params_validate accepts
  LpPayloads   \* the payloads sent: sequences of bytes

VARIABLES
  lp,        \* the packet: its settings, payload and symbols, and what is received
  lpDamage   \* history: 0 no damage, or the symbol that was changed

lpVars == <<lp, lpDamage>>

-----------------------------------------------------------------------------
(* lora_modem.c: parameters and sizes *)

(* A symbol carries sf bits; 4 + cr bits code a nibble. *)
lora_spreading_factor == 6 .. 12
lora_coding_rate == 1 .. 4
lora_bandwidth == {7800, 10400, 15600, 20800, 31250, 41700, 62500, 125000, 250000, 500000}

(* The parameters of a link; frequencies and rates follow from these. *)
lora_phy_params == [sf : lora_spreading_factor, bw : lora_bandwidth, cr : lora_coding_rate,
                    crc : BOOLEAN, implicit : BOOLEAN, preamble : Nat, len : 0 .. 255]

lora_phy_params_init_default ==
  [sf |-> 7, bw |-> 125000, cr |-> 1, crc |-> TRUE, implicit |-> FALSE, preamble |-> 8, len |-> 0]

lora_phy_params_validate(p) == /\ p \in lora_phy_params
                               /\ p.sf = 6 => p.implicit
                               /\ p.preamble >= 6

(* Division in C rounds towards zero. *)
Truncated(a, b) == IF a >= 0 THEN a \div b ELSE -((-a) \div b)

(* The symbols of a packet by the formula of the data sheet. *)
lora_payload_symbol_count(p) ==
  LET denom == 4 * (p.sf - IF p.sf >= 11 /\ p.bw = 125000 THEN 2 ELSE 0)
      numer == 8 * p.len - 4 * p.sf + 28 + (IF p.crc THEN 16 ELSE 0) - (IF p.implicit THEN 20 ELSE 0)
  IN  8 + (p.cr + 4) * Max({0, Truncated(numer + denom - 1, denom)})

(* Sizes in quarters of a symbol, that is in units of 2^sf / 4 samples.  The
   duration by lora_packet_airtime is the same number of quarters. *)
lora_packet_buffer_size(p) == 4 * p.preamble + 17 + 4 * lora_payload_symbol_count(p)

(* Up-chirps, two chirps of the sync word and a quarter of a down-chirp. *)
lora_generate_preamble(p) == 4 * p.preamble + 8 + 1

-----------------------------------------------------------------------------
(* lora_modem.c: codes *)

(* Codeword p1 p2 d1 p3 d2 d3 d4, cut off after 4 + cr bits; the eighth bit
   is the parity of the other seven. *)
lora_hamming_encode(nibble, cr) ==
  LET d == Msb(nibble, 4)
      p1 == (d[1] + d[2] + d[4]) % 2
      p2 == (d[1] + d[3] + d[4]) % 2
      p3 == (d[2] + d[3] + d[4]) % 2
      word == <<p1, p2, d[1], p3, d[2], d[3], d[4]>>
  IN  SubSeq(Append(word, Parity(word)), 1, 4 + cr)

(* The three parity checks of a full word; the syndrome is the place in
   error. *)
Syndrome(w) == FromLsb(<<(w[1] + w[3] + w[5] + w[7]) % 2,
                         (w[2] + w[3] + w[6] + w[7]) % 2,
                         (w[4] + w[5] + w[6] + w[7]) % 2>>)

BadParities(s) == Cardinality({i \in 0 .. 2 : BitOf(s, i) = 1})

(* The bits that a short codeword lacks are estimated: d4 where both parities
   that hold it agree, d3 and d4 by the first guess of fewest errors. *)
Completed(c, cr) ==
  CASE cr >= 3 -> SubSeq(c, 1, 7)
    [] cr = 2  -> LET d4a == (c[1] + c[3] + c[5]) % 2
                      d4b == (c[2] + c[3] + c[6]) % 2
                  IN  Append(c, IF d4a = d4b THEN d4a ELSE 0)
    [] cr = 1  -> c \o Msb(Min({4 * BadParities(Syndrome(c \o Msb(g, 2))) + g : g \in 0 .. 3}) % 4, 2)

(* The nibble of a codeword, one place corrected.  The failure for more than
   two bad parities cannot occur: of four guesses the best has at most one. *)
DataBits(w) == FromMsb(<<w[3], w[5], w[6], w[7]>>)
Corrected(w, s) == IF s = 0 THEN w ELSE Flip(w, s)
lora_hamming_decode(c, cr) ==
  Once(LAMBDA w : DataBits(Corrected(w, Syndrome(w))), Completed(c, cr))

CrcBit(crc) == IF crc >= 32768 THEN Xor16((2 * crc) % 65536, 4129) ELSE 2 * crc

(* CRC-16-CCITT: polynomial 0x1021, initial value 0. *)
lora_crc16(data) ==
  FoldLeft(LAMBDA crc, byte :
             FoldLeft(LAMBDA c, i : CrcBit(c), Xor16(crc, 256 * byte), UpTo(8)),
           0, data)

(* The register of nine ones is fed back from its lowest bit into its highest:
   it is rotated, and every output bit is 1.  The callers pass one bit in each
   byte and an eighth of their number: bits of the first eighth are inverted. *)
lora_whiten(bits) ==
  LET len == (Len(bits) + 7) \div 8
  IN  [i \in 1 .. Len(bits) |-> IF i <= len THEN 1 - bits[i] ELSE bits[i]]

-----------------------------------------------------------------------------
(* lora_packet.c *)

binary_to_gray(bits) == [i \in 1 .. Len(bits) |-> IF i = 1 THEN bits[1] ELSE (bits[i - 1] + bits[i]) % 2]

gray_to_binary(bits) == [i \in 1 .. Len(bits) |-> Parity(SubSeq(bits, 1, i))]

(* Column c of symbol s goes to column (c + s) mod sf of the same symbol. *)
lora_diagonal_interleave(bits, sf) ==
  LET symbols == (Len(bits) + sf - 1) \div sf
      from(i) == LET s == (i - 1) \div sf IN s * sf + (((i - 1) - s) % sf) + 1
  IN  [i \in 1 .. symbols * sf |-> IF from(i) <= Len(bits) THEN bits[from(i)] ELSE 0]

lora_diagonal_deinterleave(bits, sf) ==
  LET from(i) == LET s == (i - 1) \div sf IN s * sf + (((i - 1) + s) % sf) + 1
  IN  [i \in 1 .. Len(bits) |-> bits[from(i)]]

Nibbles(bytes) == FlattenSeq([i \in 1 .. Len(bytes) |-> <<bytes[i] \div 16, bytes[i] % 16>>])

(* Length, coding rate and CRC flag, and the checksum of these three. *)
Header(c, len) ==
  LET flags == 2 * (c.cr - 1) + (IF c.crc THEN 1 ELSE 0)
  IN  <<len \div 16, len % 16, flags, XorByte(XorByte(len \div 16, len % 16), flags)>>

Chunks(s, n) == [k \in 1 .. Len(s) \div n |-> SubSeq(s, (k - 1) * n + 1, k * n)]

HammingCoded(nibbles, cr) == FlattenSeq([i \in 1 .. Len(nibbles) |-> lora_hamming_encode(nibbles[i], cr)])

(* The encoder allots a byte for each of 8 bits of a nibble.  The interleaver
   writes whole symbols, one byte for each bit, which may be more. *)
InterleavedSize(len) == 8 * (8 + 2 * len)
InterleavedBits(c, len) == c.sf * (((8 + 2 * len) * (4 + c.cr) + c.sf - 1) \div c.sf)
Overruns(c, len) == InterleavedBits(c, len) > InterleavedSize(len)

(* The symbols of a packet, as bits, most significant first. *)
lora_encode_packet(c, payload) ==
  Once(LAMBDA symbols : [s \in 1 .. Len(symbols) |-> binary_to_gray(symbols[s])],
       Once(LAMBDA coded : Chunks(lora_whiten(lora_diagonal_interleave(coded, c.sf)), c.sf),
            HammingCoded(Header(c, Len(payload)) \o Nibbles(payload \o BigEndian(lora_crc16(payload), 2)), c.cr)))

(* The results of lora_decode_packet: 0, -1 and -2; rc 1 stands for reading
   beyond its buffer. *)
Decoded(rc, payload, crc) == [rc |-> rc, payload |-> payload, crc |-> crc]

Parsed(nibbles) ==
  LET len == 16 * nibbles[1] + nibbles[2]
      byte(i) == 16 * nibbles[3 + 2 * i] + nibbles[4 + 2 * i]
  IN  IF Len(nibbles) < 8 \/ nibbles[4] # XorByte(XorByte(nibbles[1], nibbles[2]), nibbles[3])
        THEN Decoded(-1, <<>>, TRUE)
      ELSE IF Len(nibbles) < 8 + 2 * len THEN Decoded(1, <<>>, TRUE)
      ELSE Once(LAMBDA payload : Decoded(0, payload, nibbles[3] % 2 = 1 =>
                                                       256 * byte(len + 1) + byte(len + 2) = lora_crc16(payload)),
                [i \in 1 .. len |-> byte(i)])

(* The symbols up to the CRC, which is left to compare: FALSE if it is there
   and wrong.  A header may announce more than was received. *)
Unpacked(c, symbols) ==
  IF Len(symbols) < 8 THEN Decoded(-1, <<>>, TRUE)
  ELSE Once(LAMBDA words : Parsed([i \in 1 .. Len(words) |-> lora_hamming_decode(words[i], c.cr)] \o <<>>),
            Once(LAMBDA bits : Chunks(lora_diagonal_deinterleave(lora_whiten(bits), c.sf), 4 + c.cr),
                 FlattenSeq([s \in 1 .. Len(symbols) |-> gray_to_binary(symbols[s])])))

(* Mutant: the payload is taken whatever its CRC. *)
DecodeUnchecked(c, symbols) == Unpacked(c, symbols)

lora_decode_packet(c, symbols) ==
  Once(LAMBDA u : IF u.crc THEN u ELSE Decoded(-2, u.payload, u.crc), Unpacked(c, symbols))

(* A first look at the length and the coding rate, from bits that are still
   whitened and interleaved. *)
Peeked(nibble) == <<16 * nibble[1] + nibble[2], ((nibble[3] \div 2) % 4) + 1>>
lora_peek_header(c, symbols) ==
  IF Len(symbols) < 8 THEN <<-1, -1>>
  ELSE Once(LAMBDA bits :
              Peeked([i \in 1 .. 3 |->
                        lora_hamming_decode(SubSeq(bits, (i - 1) * (4 + c.cr) + 1, i * (4 + c.cr)), c.cr)]),
            FlattenSeq([s \in 1 .. Len(symbols) |-> gray_to_binary(symbols[s])]))

-----------------------------------------------------------------------------
(* The steps of a transmission.  The parameters pass the library's own check;
   the length of a payload is an 8-bit number. *)
ASSUME LpAssumption ==
  /\ \A c \in LpConfigs : lora_phy_params_validate(c)
  /\ \A payload \in LpPayloads : payload \in Seq(Byte) /\ Len(payload) <= 255

LpIdle == [at |-> "idle"]

LpInit == lp = LpIdle /\ lpDamage = 0

LpSend == \E c \in LpConfigs, payload \in LpPayloads :
  /\ lp = LpIdle
  /\ \E symbols \in {lora_encode_packet(c, payload)} :
       lp' = [at |-> "air", config |-> c, payload |-> payload, symbols |-> symbols,
              peek |-> lora_peek_header(c, symbols)]
  /\ UNCHANGED lpDamage

(* The interleaver has written beyond its buffer.  LpSend is what comes of it
   where nothing else lies there; here, nothing more is known. *)
LpOverrun == \E c \in LpConfigs, payload \in LpPayloads :
  /\ lp = LpIdle /\ Overruns(c, Len(payload))
  /\ lp' = [at |-> "overrun", config |-> c, payload |-> payload]
  /\ UNCHANGED lpDamage

(* The modem mistakes one symbol for any other. *)
LpDamageSymbol ==
  /\ lp.at = "air" /\ lpDamage = 0
  /\ \E s \in 1 .. Len(lp.symbols) :
       /\ lpDamage' = s
       /\ \E v \in 0 .. 2 ^ lp.config.sf - 1 :
            /\ Msb(v, lp.config.sf) # lp.symbols[s]
            /\ lp' = [lp EXCEPT !.symbols[s] = Msb(v, lp.config.sf)]

LpReceive ==
  /\ lp.at = "air"
  /\ lp' = [at |-> "received", config |-> lp.config, payload |-> lp.payload,
            count |-> Len(lp.symbols), peek |-> lp.peek,
            peeked |-> lora_peek_header(lp.config, lp.symbols), got |-> lora_decode_packet(lp.config, lp.symbols)]
  /\ UNCHANGED lpDamage

LpNext == LpSend \/ LpOverrun \/ LpDamageSymbol \/ LpReceive

LpSpec == LpInit /\ [][LpNext]_lpVars

-----------------------------------------------------------------------------
(* Properties *)

(* The first symbol whose bits are those of the payload or its CRC. *)
FirstBeyondHeader(c) == (4 * (4 + c.cr)) \div c.sf + 2

(* A packet of at least eight symbols whose symbols arrive is decoded: every
   stage of the receiver inverts its stage of the sender. *)
Delivered == lp.at = "received" /\ lpDamage = 0 /\ lp.count >= 8
               => lp.got.rc = 0 /\ lp.got.payload = lp.payload

(* With an explicit header, the buffer that lora_packet_buffer_size asks for
   holds the packet: its formula counts for the data sheet's format, the
   encoder has its own, which writes a header in either case. *)
BufferSuffices ==
  lp.at = "air" /\ ~lp.config.implicit =>
    lora_generate_preamble(lp.config) + 4 * Len(lp.symbols)
      <= lora_packet_buffer_size([lp.config EXCEPT !.len = Len(lp.payload)])

(* One symbol that comes out wrong beyond the header is corrected or noticed:
   the interleaver keeps its bits together, and what is left of them after
   the Hamming code is a burst no longer than the CRC. *)
NoFalsePayload ==
  lp.at = "received" /\ lp.config.crc /\ lpDamage >= FirstBeyondHeader(lp.config) /\ lp.got.rc = 0
    => lp.got.payload = lp.payload

(* What a first look tells does not depend on the symbols beyond the header,
   and has the types of a length and a coding rate.  It is not said that they
   are those of the packet: the comments of lora_peek_header tell of dewhitening
   and deinterleaving (lora_packet.c:482-511), of which it does neither. *)
PeekIsEarly ==
  lp.at = "received" /\ lp.count >= 8 =>
    /\ lpDamage = 0 \/ lpDamage >= FirstBeyondHeader(lp.config) => lp.peeked = lp.peek
    /\ lp.peeked \in Byte \X lora_coding_rate

(* The encoder's own buffer holds the interleaved bits at the coding rates 1
   and 2, and at 3 but for the empty packet of 8 nibbles at spreading factor
   11.  At rate 4 no byte of it is spare, and what fills up the last symbol is
   written beyond its end. *)
InterleaverFits ==
  lp.at = "overrun" =>
    \/ lp.config.cr = 4
    \/ lp.config.cr = 3 /\ lp.config.sf = 11 /\ lp.payload = <<>>

(* The pipeline as a whole. *)
PacketSound == PeekIsEarly /\ Delivered /\ NoFalsePayload /\ BufferSuffices /\ InterleaverFits

-----------------------------------------------------------------------------
(***************************************************************************)
(* Frames, integrity codes and the join of mini-lora-nbiot                  *)
(* (src/lora_mac.c): a device joins, numbers its uplinks and protects them  *)
(* by a code under the session key; the network accepts them.               *)
(*                                                                          *)
(* The air keeps every message: it may arrive any number of times, late, in *)
(* any order, or never.  The library has no network server and no caller    *)
(* that sends; theirs is what the headers ask of a caller: the device       *)
(* counts its frames, and the network takes no counter below the one it     *)
(* expects, hands the counter of the frame to the check, and checks once.   *)
(***************************************************************************)

CONSTANTS
  LsAppKey,    \* app_key, 16 bytes
  LsNonces,    \* application nonces of the network, three bytes each
  LsAddr,      \* device address, four bytes
  LsConfirmed, \* whether the uplinks sent are confirmed ones: a set of Booleans
  LsLengths,   \* bytes of payload of the uplinks
  LsMaxCnt     \* bound: frames of a session

(* The values of the two bytes of a frame's counter; a session ends before
   they wrap. *)
FrameCounts == 65536

(* The header of a frame and its longest payload fill the 256 bytes its code
   is taken of. *)
ASSUME LsAssumption ==
  /\ LsAppKey \in [1 .. 16 -> Byte]
  /\ LsNonces \subseteq [1 .. 3 -> Byte] /\ LsAddr \in [1 .. 4 -> Byte]
  /\ LsConfirmed \subseteq BOOLEAN /\ LsMaxCnt \in 0 .. FrameCounts
  /\ LsLengths \subseteq 0 .. 247

VARIABLES
  lsDev,   \* the device: lora_join_procedure_t
  lsNet,   \* the network's session
  lsAir,   \* every message sent, and for an uplink the session it was sent in
  lsLog    \* history: uplinks accepted, with the session of the network

lsVars == <<lsDev, lsNet, lsAir, lsLog>>

-----------------------------------------------------------------------------
(* Integrity codes *)

(* A short block is padded with 0x80. *)
Padded(block) == SubSeq(block \o <<128>> \o Zeros(15), 1, 16)

(* One block of the stand-in for CMAC: x ^ rotate(x, 4) ^ key ^ b * 37. *)
CmacBlock(key, state, block, b) ==
  LET x == XorBytes(state, Padded(block))
  IN  Stored([i \in 1 .. 16 |-> XorByte(XorByte(x[i], x[((i + 11) % 16) + 1]),
                                        XorByte(key[i], (37 * b) % 256))])

BlockOf(msg, b) == SubSeq(msg, 16 * b + 1, IF 16 * b + 16 < Len(msg) THEN 16 * b + 16 ELSE Len(msg))

CmacState(key, msg) ==
  FoldLeft(LAMBDA s, b : CmacBlock(key, s, BlockOf(msg, b - 1), b - 1), key, UpTo((Len(msg) + 15) \div 16))

lora_aes128_cmac(key, msg) == SubSeq(CmacState(key, msg), 1, 4)

(* What the code of a frame is taken of: the block B0, which holds the counter
   of the session and not of the frame, then header, port and payload. *)
SignedPart(session, frame, direction) ==
  LET fcnt == IF direction = 0 THEN session.f_cnt_up ELSE session.f_cnt_down
      msg == <<frame.mhdr>> \o frame.dev_addr \o <<frame.f_ctrl>> \o LittleEndian(frame.f_cnt, 2)
               \o frame.f_opts \o <<frame.f_port>> \o frame.payload
      b0 == <<73, 0, 0, 0, 0, direction>> \o session.dev_addr \o LittleEndian(fcnt, 4)
               \o <<0, Len(msg) % 256>>
  IN  b0 \o msg

lora_calculate_mic(session, frame, direction) ==
  lora_aes128_cmac(session.nwk_s_key, SignedPart(session, frame, direction))

(* The received code is replaced in the frame by the one computed. *)
lora_verify_mic(session, frame, direction) ==
  LET mic == lora_calculate_mic(session, frame, direction)
  IN  [ok |-> mic = frame.mic, frame |-> [frame EXCEPT !.mic = mic]]

(* Mutant: the nonce of the device is used for both nonces. *)
DeriveFromDevNonce(appKey, appNonce, netId, devNonce) ==
  LET own == LittleEndian(devNonce, 3)
      input(prefix) == <<prefix>> \o own \o own \o LittleEndian(devNonce, 2) \o Zeros(7)
      key(prefix) == lora_aes128_cmac(appKey, input(prefix)) \o Zeros(12)
  IN  [nwk |-> key(1), app |-> key(2)]

(* Four of the sixteen bytes of each key are written; the others are zero
   since the procedure was initialized. *)
lora_derive_session_keys(appKey, appNonce, netId, devNonce) ==
  LET input(prefix) == <<prefix>> \o appNonce \o netId \o LittleEndian(devNonce, 2) \o Zeros(7)
      key(prefix) == lora_aes128_cmac(appKey, input(prefix)) \o Zeros(12)
  IN  [nwk |-> key(1), app |-> key(2)]

-----------------------------------------------------------------------------
(* Frames *)

(* The message type is shifted into the upper three bits; the code is left
   zero for the caller. *)
lora_build_data_frame(session, port, payload, confirmed) ==
  <<32 * IF confirmed THEN 4 ELSE 2>> \o session.dev_addr
    \o <<IF session.adr_enabled THEN 128 ELSE 0>> \o LittleEndian(session.f_cnt_up % FrameCounts, 2)
    \o <<port>> \o payload \o Zeros(4)

lora_build_join_request(joinEui, devEui, devNonce) ==
  <<0>> \o Reverse(joinEui) \o Reverse(devEui) \o LittleEndian(devNonce, 2) \o Zeros(4)

(* Header and options only: port, payload and code stay zero. *)
lora_parse_frame(data) ==
  LET opts == data[6] % 16
  IN  [mhdr |-> data[1], mtype |-> data[1] \div 32, dev_addr |-> SubSeq(data, 2, 5),
       f_ctrl |-> data[6], f_cnt |-> data[7] + 256 * data[8],
       f_opts |-> IF Len(data) >= 8 + opts THEN SubSeq(data, 9, 8 + opts) ELSE <<>>,
       f_port |-> 0, payload |-> <<>>, mic |-> Zeros(4)]

(* What a caller has to add to a parsed frame without options. *)
FullFrame(data) == [lora_parse_frame(data) EXCEPT !.f_port = data[9],
                                              !.payload = SubSeq(data, 10, Len(data) - 4),
                                              !.mic = SubSeq(data, Len(data) - 3, Len(data))]

-----------------------------------------------------------------------------
(* The join *)

NoSession == [dev_addr |-> Zeros(4), nwk_s_key |-> Zeros(16), app_s_key |-> Zeros(16),
              f_cnt_up |-> 0, f_cnt_down |-> 0, adr_enabled |-> FALSE, rx1_delay |-> 0]

lora_join_init == [state |-> "IDLE", dev_nonce |-> 0, session |-> NoSession,
                   retry_count |-> 0, max_retries |-> 8]

(* A session as an accept sets it up.  The bytes of the nonce are read for
   the network identifier, too. *)
Joined(accept, devNonce) ==
  LET nonce == SubSeq(accept, 2, 4)
      keys == lora_derive_session_keys(LsAppKey, nonce, nonce, devNonce)
  IN  [dev_addr |-> SubSeq(accept, 5, 8), nwk_s_key |-> keys.nwk, app_s_key |-> keys.app,
       f_cnt_up |-> 0, f_cnt_down |-> 0, adr_enabled |-> TRUE, rx1_delay |-> 1]

Accept(nonce) == <<32>> \o nonce \o LsAddr \o Zeros(9)

Sent(kind) == {m \in lsAir : m.kind = kind}

LsInit == lsDev = lora_join_init /\ lsNet = NoSession /\ lsAir = {} /\ lsLog = <<>>

(* The network answers a join request with a nonce it has not used. *)
LsJoin(nonce) ==
  LET request == lora_build_join_request(Zeros(8), Zeros(8), lsDev.dev_nonce)
      devNonce == request[18] + 256 * request[19]
  IN  /\ \A m \in Sent("accept") : m.data # Accept(nonce)
      /\ lsAir' = lsAir \cup {[kind |-> "accept", data |-> Accept(nonce), in |-> nonce]}
      /\ lsNet' = Joined(Accept(nonce), devNonce)
      /\ UNCHANGED <<lsDev, lsLog>>

(* lora_join_handle_accept: in any state of the procedure. *)
LsAccepted == \E m \in Sent("accept") :
  /\ Len(m.data) >= 17
  /\ lsDev' = [lsDev EXCEPT !.state = "ACTIVE", !.session = Joined(m.data, lsDev.dev_nonce)]
  /\ UNCHANGED <<lsNet, lsAir, lsLog>>

(* A payload that tells one frame from the next. *)
PayloadOf(count, len) == [i \in 1 .. len |-> count % 256]

LsUplink(confirmed, len) ==
  LET data == lora_build_data_frame(lsDev.session, 1, PayloadOf(lsDev.session.f_cnt_up, len), confirmed)
      mic == lora_calculate_mic(lsDev.session, FullFrame(data), 0)
  IN  /\ lsDev.state = "ACTIVE" /\ lsDev.session.f_cnt_up < LsMaxCnt
      /\ lsAir' = lsAir \cup {[kind |-> "uplink", data |-> SubSeq(data, 1, Len(data) - 4) \o mic,
                               in |-> lsDev.session]}
      /\ lsDev' = [lsDev EXCEPT !.session.f_cnt_up = @ + 1]
      /\ UNCHANGED <<lsNet, lsLog>>

LsReceive == \E m \in Sent("uplink") :
  LET frame == FullFrame(m.data)
  IN  /\ frame.f_cnt >= lsNet.f_cnt_up
      /\ lora_verify_mic([lsNet EXCEPT !.f_cnt_up = frame.f_cnt], frame, 0).ok
      /\ lsNet' = [lsNet EXCEPT !.f_cnt_up = frame.f_cnt + 1]
      /\ lsLog' = Append(lsLog, [sent |-> m, by |-> lsNet.nwk_s_key, app |-> lsNet.app_s_key])
      /\ UNCHANGED <<lsDev, lsAir>>

LsNext == \/ LsAccepted \/ LsReceive
          \/ \E nonce \in LsNonces : LsJoin(nonce)
          \/ \E confirmed \in LsConfirmed, len \in LsLengths : LsUplink(confirmed, len)

LsSpec == LsInit /\ [][LsNext]_lsVars

-----------------------------------------------------------------------------
(* Properties *)

(* The blocks a frame's code is taken of: B0, and nine bytes with the payload.
   The code is that of a stand-in (lora_mac.c:201), of which lora_mac.h:308
   says that it prevents tampering.  Up to two blocks, that is 7 bytes of
   payload, it depends on each of the four bytes that a session's key has;
   from the third block on these four cancel out, and the code is the same
   under the keys of all sessions of an application key. *)
Keyed(m) == 16 + Len(m.data) - 4 <= 32

(* What the network accepts of a frame with a code that depends on the key was
   sent in a session with its own keys: frames of an earlier session never
   count in a later one, although a session is told by the nonce of its accept
   alone and counters start again at zero with every accept, even a repeated
   one.  Longer frames of an earlier session do count in a later one. *)
OwnSessionOnly == \A i \in 1 .. Len(lsLog) :
  Keyed(lsLog[i].sent) => /\ lsLog[i].sent.in.nwk_s_key = lsLog[i].by
                          /\ lsLog[i].sent.in.app_s_key = lsLog[i].app

(* No frame is accepted twice, however often it arrives: in one session, and
   with a code that depends on the key in any. *)
AcceptedOnce == \A i, j \in 1 .. Len(lsLog) :
  lsLog[i].sent = lsLog[j].sent /\ (Keyed(lsLog[i].sent) \/ lsLog[i].by = lsLog[j].by) => i = j

(* What is accepted in a session is in the order of its counters. *)
InOrder == \A i, j \in 1 .. Len(lsLog) :
             i < j /\ lsLog[i].by = lsLog[j].by
               => lsLog[i].sent.in.f_cnt_up < lsLog[j].sent.in.f_cnt_up

(* A session on a channel that loses, repeats, delays and reorders. *)
SessionSound == OwnSessionOnly /\ AcceptedOnce /\ InOrder
=============================================================================
