----------------------------- MODULE BtBaseband -----------------------------
(***************************************************************************)
(* The baseband of Bluetooth in mini-wifi-bluetooth (src/bluetooth_core.c,  *)
(* with the clocks and addresses of src/wifi_bt_core.c): the two ends of a  *)
(* piconet hop over channels they classify each for itself, packets carry   *)
(* a protected header, slots are reserved for voice, and one cipher serves  *)
(* all links of a device, because its registers are static.                 *)
(*                                                                          *)
(* Slot numbers stay below 2^31.  Error rates are given as the set of the   *)
(* channels above the threshold, or in percent.                             *)
(*                                                                          *)
(* The second part has the tables and conversions that both radios share.   *)
(***************************************************************************)
EXTENDS Bits, FiniteSets, Integers, Sequences

CONSTANTS BtbAddresses,  \* addresses, of six bytes
          BtbBad,        \* sets of channels found bad
          BtbClocks,     \* values the clock of the master starts from
          BtbOffsets,    \* offsets of the slave, in slots
          BtbSlots,      \* bound: slots that pass in a piconet
          BtbSends       \* bound: packets under the cipher

VARIABLE btb  \* a piconet, a packet, a schedule or the links of a cipher

-----------------------------------------------------------------------------
(* Clocks and addresses *)

bt_clock_init(value) == [clk_native |-> value % 2 ^ 28, clk_offset |-> 0, slot_number |-> value \div 2]

bt_clock_advance_slot(clk) ==
  [clk EXCEPT !.clk_native = (@ + 2) % 2 ^ 28, !.slot_number = @ + 1]

bt_clock_hop_phase(clk, offset, n_slots) == (clk.slot_number + offset) % n_slots

bt_address_get_lap(addr) == <<addr[3], 256 * addr[2] + addr[1]>>
bt_address_get_uap(addr) == addr[4]
bt_address_get_nap(addr) == 256 * addr[6] + addr[5]

-----------------------------------------------------------------------------
(* Hopping *)

(* state * 1103515245 modulo 2^32 *)
Congruential(x) ==
  LET low == x[2] * 20077
  IN  <<(((x[1] * 20077) % 65536) + ((x[2] * 16838) % 65536) + (low \div 65536)) % 65536, low % 65536>>
Modulo(x, n) == ((x[1] % n) * (65536 % n) + x[2]) % n

bt_hop_sequence_generate(addr) ==
  LET seed == Xor32(Word32(addr), <<57005, 48879>>)
      seed2 == 256 * addr[5] + addr[6]
      add == <<(12345 + seed2) \div 65536, (12345 + seed2) % 65536>>
      swapped(s, i, j) == [s EXCEPT ![i] = s[j], ![j] = s[i]]
  IN  Iterate(LAMBDA s, k :
                LET state == Add32(Congruential(s.state), add)
                IN  [state |-> state, hops |-> swapped(s.hops, 80 - k, Modulo(state, 80 - k) + 1)],
              [state |-> seed, hops |-> Stored([i \in 1 .. 79 |-> i - 1])], 78).hops

(* The sequence is that of a fixed address and has 79 channels for both
   regions. *)
bt_fhss_init(region) ==
  LET n == IF region = 0 THEN 79 ELSE 23
  IN  [n_channels |-> n, channel_map |-> 0 .. n - 1, hop_sequence |-> bt_hop_sequence_generate(<<1, 35, 69, 103, 137, 171>>)]

(* Mutant: the search for a good channel passes over the band's edge. *)
SelectBeyond(fhss, clk) ==
  LET hop == fhss.hop_sequence[bt_clock_hop_phase(clk, clk.clk_offset, fhss.n_channels) + 1]
      good == {i \in 1 .. fhss.n_channels - 1 : hop + i \in fhss.channel_map \cup {79}}
  IN  IF hop \in fhss.channel_map THEN hop
      ELSE IF good = {} THEN -1 ELSE hop + (CHOOSE i \in good : \A j \in good : i <= j)

(* A bad channel is replaced by the next good one; -1 if there is none. *)
bt_hop_select(fhss, clk) ==
  LET hop == fhss.hop_sequence[bt_clock_hop_phase(clk, clk.clk_offset, fhss.n_channels) + 1]
      tried(i) == (hop + i) % fhss.n_channels
      good == {i \in 1 .. fhss.n_channels - 1 : tried(i) \in fhss.channel_map}
  IN  IF hop \in fhss.channel_map THEN hop
      ELSE IF good = {} THEN -1 ELSE tried(CHOOSE i \in good : \A j \in good : i <= j)

(* With fewer than twenty good ones, the first bad ones are taken again. *)
bt_afh_classify(fhss, bad) ==
  LET all == 0 .. fhss.n_channels - 1
      need == 20 - Cardinality(all \ bad)
      again == {c \in bad \cap all : Cardinality({d \in bad \cap all : d < c}) < need}
  IN  [fhss EXCEPT !.channel_map = (all \ bad) \cup again]

-----------------------------------------------------------------------------
(* Packets *)

(* The lowest bit of the register is cleared again by the polynomial. *)
bt_hec_compute(header, uap) ==
  FoldLeft(LAMBDA crc, bit : LET fb == (BitOf(crc, 7) + bit) % 2
                             IN  IF fb = 1 THEN XorByte(((2 * crc) % 256) + 1, 167) ELSE (2 * crc) % 256,
           uap, Msb(header % 1024, 10))

bt_sync_word_generate(lap) ==
  LET bytes == Iterate(LAMBDA s, i : LET code == Add32(Congruential(s.code), <<0, 12345>>)
                                     IN  [code |-> code, out |-> Append(s.out, code[1] % 256)],
                       [code |-> Xor32(lap, <<0, 43981>>), out |-> <<>>], 8).out
  IN  [bytes EXCEPT ![1] = 16 * (@ \div 16) + 10]

(* Seventeen types are named, four bits are sent. *)
Fields(pkt) ==
  pkt.lt_addr * 128 + (pkt.type % 16) * 8 + pkt.flow * 4 + pkt.arqn * 2 + pkt.seqn

Crc16(bytes) ==
  FoldLeft(LAMBDA crc, byte :
             FoldLeft(LAMBDA c, i : IF c >= 32768 THEN Xor16((2 * c) % 65536, 4129) ELSE (2 * c) % 65536,
                      Xor16(crc, 256 * byte), UpTo(8)),
           65535, bytes)

(* The payload is cut to what the buffer leaves before the code. *)
bt_packet_build(max_len, pkt, addr) ==
  LET sync == bt_sync_word_generate(bt_address_get_lap(addr))
      fields == Fields(pkt)
      header == 256 * fields + bt_hec_compute(fields, bt_address_get_uap(addr))
      raw == <<header \div 1024, (header \div 4) % 256, (header % 4) * 64>>
      room == max_len - 14
      body == raw \o SubSeq(pkt.payload, 1, IF Len(pkt.payload) < room THEN Len(pkt.payload) ELSE room)
      crc == Crc16(body)
  IN  <<IF sync[1] % 2 = 1 THEN 10 ELSE 5>> \o sync
        \o (IF pkt.payload = <<>> \/ ~pkt.has_crc THEN IF pkt.payload = <<>> THEN raw ELSE body
            ELSE Append(Append(body, crc \div 256), crc % 256))

(* Two bytes are taken off for the code, whether there is one or not; the
   check of the header is left to the caller. *)
bt_packet_parse(bytes) ==
  LET header == bytes[10] * 1024 + bytes[11] * 4 + bytes[12] \div 64
  IN  [lt_addr |-> header \div 32768, type |-> (header \div 2048) % 16, flow |-> BitOf(header, 10),
       arqn |-> BitOf(header, 9), seqn |-> BitOf(header, 8), hec |-> header % 256,
       payload_len |-> IF Len(bytes) > 14 THEN Len(bytes) - 14 ELSE 0]

bt_sco_schedule_init(tsco) == [tsco |-> tsco, dsco |-> tsco - tsco \div 2, next_sco_slot |-> 0, sco_count |-> 1]

bt_sco_is_reserved(sched, slot) ==
  slot % sched.tsco = 0 \/ (sched.dsco > 0 /\ slot % sched.tsco = sched.dsco)

-----------------------------------------------------------------------------
(* The cipher: registers as bits, the newest last.  The third and the
   fourth would have 33 and 39 bits and are kept in 32; of the address two
   bits enter, of the clock nothing. *)

Lowest(bits, n) == SubSeq(bits, Len(bits) - n + 1, Len(bits))
KeyBits(key, from, to) == FlattenSeq([i \in 1 .. to - from + 1 |-> Msb(key[from + i - 1], 8)])

bt_e0_init(key, addr) ==
  <<Lowest(KeyBits(key, 1, 3) \o <<BitOf(addr[1], 7)>>, 25),
    SubSeq(KeyBits(key, 4, 7), 1, 31),
    Lowest(KeyBits(key, 8, 11) \o <<BitOf(addr[2], 7)>>, 32),
    Lowest(KeyBits(key, 12, 15) \o Msb(key[16] \div 32, 3), 32)>>

(* The taps, as places from the newest bit. *)
e0_taps == <<{13, 16}, {10, 24}, {14, 28}, {14, 28}>>
e0_clock_lfsr(reg, taps) ==
  Tail(reg) \o <<Cardinality({t \in taps : reg[Len(reg) - t] = 1}) % 2>>

bt_e0_keystream(regs, n_bits) ==
  Iterate(LAMBDA s, i :
            LET next == Stored([r \in 1 .. 4 |-> e0_clock_lfsr(s.regs[r], e0_taps[r])])
                bit == (next[1][25] + next[2][31] + next[3][32] + next[4][32]) % 2
            IN  [regs |-> next, ks |-> 2 * s.ks + bit],
          [regs |-> regs, ks |-> 0], n_bits)

bt_e0_crypt(regs, input) ==
  Iterate(LAMBDA s, i : LET k == bt_e0_keystream(s.regs, 8)
                        IN  [regs |-> k.regs, out |-> Append(s.out, XorByte(input[i], k.ks))],
          [regs |-> regs, out |-> <<>>], Len(input))

(* Both shares reach from 0 to 128; rssi in dBm, per in percent. *)
bt_link_quality(rssi, per) ==
  LET clamp(x, high) == IF x < 0 THEN 0 ELSE IF x > high THEN high ELSE x
      lq == (clamp((rssi + 90) * 640, 38400) + clamp((100 - per) * 384, 38400)) \div 300
  IN  IF lq > 255 THEN 255 ELSE lq

-----------------------------------------------------------------------------
(* A piconet, a packet, a voice link, and a device with two ciphered links *)

Ends == {"master", "slave"}
BtbKey(l) == [i \in 1 .. 16 |-> (i * 29 + l * 101) % 256]
BtbText == <<77, 0, 255>>

BtbInit == btb = [step |-> "start"]

(* The slave's clock runs behind by the offset it has been told. *)
BtbForm == \E region \in {0, 1}, addr \in BtbAddresses, start \in BtbClocks, offset \in BtbOffsets :
  /\ btb.step = "start" /\ start \div 2 >= offset
  /\ \E fhss \in {[bt_fhss_init(region) EXCEPT !.hop_sequence = bt_hop_sequence_generate(addr)]} :
       btb' = [step |-> "piconet", passed |-> 0, fhss |-> [e \in Ends |-> fhss],
               clk |-> [master |-> bt_clock_init(start),
                        slave |-> [bt_clock_init(start - 2 * offset) EXCEPT !.clk_offset = offset]]]
BtbSlot ==
  /\ btb.step = "piconet" /\ btb.passed < BtbSlots
  /\ btb' = [btb EXCEPT !.passed = @ + 1, !.clk = [e \in Ends |-> bt_clock_advance_slot(@[e])]]
BtbClassify == \E e \in Ends, bad \in BtbBad :
  /\ btb.step = "piconet"
  /\ btb' = [btb EXCEPT !.fhss[e] = bt_afh_classify(@, bad)]

BtbPacket == \E type \in {2, 4, 15, 16}, fields \in 0 .. 7, len \in {0, 1, 5}, crc \in BOOLEAN, addr \in BtbAddresses :
  /\ btb.step = "start"
  /\ \E pkt \in {[lt_addr |-> (fields * 3) % 8, type |-> type, flow |-> fields % 2, arqn |-> (fields \div 2) % 2,
                  seqn |-> fields \div 4, payload |-> UpTo(len), has_crc |-> crc]} :
       \E bytes \in {bt_packet_build(17, pkt, addr)} :
         btb' = [step |-> "packet", pkt |-> pkt, addr |-> addr, bytes |-> bytes, got |-> bt_packet_parse(bytes)]

BtbReserve == \E tsco \in {2, 4, 6} :
  /\ btb.step = "start"
  /\ btb' = [step |-> "voice", sched |-> bt_sco_schedule_init(tsco)]

(* The device's registers serve both links; every peer has its own. *)
BtbLinks == /\ btb.step = "start"
            /\ btb' = [step |-> "links", device |-> <<>>, peer |-> <<<<>>, <<>>>>, inStep |-> {}, got |-> <<>>, via |-> 0, sends |-> 0]
BtbStart == \E l \in {1, 2}, addr \in BtbAddresses :
  /\ btb.step = "links"
  /\ \E regs \in {bt_e0_init(BtbKey(l), addr)} :
       btb' = [btb EXCEPT !.device = regs, !.peer[l] = regs, !.inStep = {l}, !.got = <<>>, !.via = 0]
BtbSend == \E l \in {1, 2}, lost \in BOOLEAN :
  /\ btb.step = "links" /\ btb.peer[l] # <<>> /\ btb.got = <<>> /\ btb.sends < BtbSends
  /\ \E sent \in {bt_e0_crypt(btb.device, BtbText)} : \E heard \in {bt_e0_crypt(btb.peer[l], sent.out)} :
       btb' = [btb EXCEPT !.sends = @ + 1, !.device = sent.regs, !.peer[l] = IF lost THEN @ ELSE heard.regs,
                          !.inStep = IF lost THEN {} ELSE @ \cap {l},
                          !.got = IF lost THEN <<>> ELSE heard.out, !.via = IF lost THEN 0 ELSE l]
BtbTake == /\ btb.step = "links" /\ btb.got # <<>>
           /\ btb' = [btb EXCEPT !.got = <<>>, !.via = 0]

BtbNext == \/ BtbForm \/ BtbSlot \/ BtbClassify \/ BtbPacket \/ BtbReserve
           \/ BtbLinks \/ BtbStart \/ BtbSend \/ BtbTake

BtbSpec == BtbInit /\ [][BtbNext]_btb

-----------------------------------------------------------------------------
(* Properties *)

(* Ends with the same map that were set at the same time meet on the same
   channel.  The wrap of the native clock changes nothing in that: the hop is by
   the slot number, which goes on (bluetooth_core.c:72), so that an end set to
   the wrapped clock later would count from another slot.  Every end hops to a
   good channel of its region, of which there are twenty, and visits all of
   them while all are good. *)
EndsMeet ==
  btb.step = "piconet" =>
    LET hop(e) == bt_hop_select(btb.fhss[e], btb.clk[e])
    IN  /\ btb.fhss.master.channel_map = btb.fhss.slave.channel_map => hop("master") = hop("slave")
        /\ \A e \in Ends : /\ hop(e) \in btb.fhss[e].channel_map
                           /\ hop(e) < btb.fhss[e].n_channels
                           /\ Cardinality(btb.fhss[e].channel_map) >= 20
                           /\ {btb.fhss[e].hop_sequence[i] : i \in 1 .. 79} = 0 .. 78
                           /\ btb.clk[e].slot_number % 2 ^ 27 = btb.clk[e].clk_native \div 2

(* The header comes back, its check fits, and fits no header with one of the
   fields' bits wrong; the payload's length comes back where a code is sent. *)
HeaderReturns ==
  btb.step = "packet" =>
    LET p == btb.pkt  g == btb.got  uap == bt_address_get_uap(btb.addr)
        fields == Fields(p)
    IN  /\ <<g.lt_addr, g.flow, g.arqn, g.seqn>> = <<p.lt_addr, p.flow, p.arqn, p.seqn>>
        /\ p.type < 16 => g.type = p.type
        /\ g.hec = bt_hec_compute(fields, uap)
        /\ \A i \in 0 .. 9 : bt_hec_compute(FromMsb(Flip(Msb(fields, 10), 10 - i)), uap) # g.hec
        /\ p.has_crc => g.payload_len = IF Len(p.payload) < 3 THEN Len(p.payload) ELSE 3

(* In every period both directions have one slot, half a period apart. *)
VoiceReserved ==
  btb.step = "voice" =>
    \A first \in 0 .. 11 :
      LET kept == {s \in first .. first + btb.sched.tsco - 1 : bt_sco_is_reserved(btb.sched, s)}
      IN  /\ Cardinality(kept) = 2
          /\ \A s \in kept : bt_sco_is_reserved(btb.sched, s + btb.sched.tsco \div 2)

(* A peer reads what the device sent as long as no packet of its link was
   lost and no other link was started or used since it was started.  Where
   another one was, it does not: the registers are the device's and not the
   link's (bluetooth_core.c:712). *)
LinkReads ==
  btb.step = "links" /\ btb.via \in btb.inStep => btb.got = BtbText

(* A stronger signal or fewer errors never lower the quality. *)
QualityOrdered ==
  btb.step = "start" =>
    \A rssi \in {-100, -90, -71, -60, -31, -30, 0}, per \in {0, 1, 50, 99, 100} :
      /\ bt_link_quality(rssi, per) \in 0 .. 255
      /\ bt_link_quality(rssi, per) <= bt_link_quality(rssi + 1, per)
      /\ per < 100 => bt_link_quality(rssi, per) >= bt_link_quality(rssi, per + 1)

BasebandSound == EndsMeet /\ HeaderReturns /\ VoiceReserved /\ LinkReads /\ QualityOrdered

-----------------------------------------------------------------------------
(***************************************************************************)
(* The tables and conversions both radios share (wifi_bt_core.c): rates and  *)
(* OFDM numerologies, the number of symbols of a payload, channels and their *)
(* frequencies, the choice of a group owner and the energy detector.         *)
(*                                                                         *)
(* Frequencies are in MHz, rates in Mbit/s, levels in dB.                     *)
(***************************************************************************)

CONSTANTS
  WbcPayloads,   \* payload lengths
  WbcIntents,    \* intents to own a group
  WbcDrifts      \* offsets of a received frequency from that of its channel

VARIABLE wbc     \* what was computed last

Invalid == -1

MOD_BPSK == 0
MOD_QPSK == 1
MOD_16QAM == 2
MOD_64QAM == 3

(* Modulation, rate numerator and denominator, coded bits of a subcarrier and
   of a symbol, data bits of a symbol, rate. *)
rate_table_11ag ==
  << <<MOD_BPSK, 1, 2, 1, 48, 24, 6>>, <<MOD_BPSK, 3, 4, 1, 48, 36, 9>>,
     <<MOD_QPSK, 1, 2, 2, 96, 48, 12>>, <<MOD_QPSK, 3, 4, 2, 96, 72, 18>>,
     <<MOD_16QAM, 1, 2, 4, 192, 96, 24>>, <<MOD_16QAM, 3, 4, 4, 192, 144, 36>>,
     <<MOD_64QAM, 2, 3, 6, 288, 192, 48>>, <<MOD_64QAM, 3, 4, 6, 288, 216, 54>> >>

(* Bandwidth, size of the transform, data and pilot subcarriers, guards,
   prefix. *)
ofdm_numerology_table ==
  << <<20, 64, 48, 4, 12, 16>>, <<40, 128, 108, 6, 14, 32>>,
     <<80, 256, 234, 8, 14, 64>>, <<160, 512, 468, 16, 28, 128>> >>

(* PHY modes a, b, g, n, ac, ax, be: 0 .. 6; bandwidths 20, 40, 80, 160, 320:
   0 .. 4. *)
wifi_phy_max_bandwidth(phy) ==
  IF phy = 3 THEN 1 ELSE IF phy \in {4, 5} THEN 3 ELSE IF phy = 6 THEN 4 ELSE 0

wifi_phy_max_spatial_streams(phy) ==
  IF phy = 3 THEN 4 ELSE IF phy \in 4 .. 6 THEN 8 ELSE 1

NoMcs == [mcs_index |-> Invalid, data_rate_mbps |-> 0, coding_rate |-> <<0, 1>>, bits_per_symbol |-> 0]

wifi_rate_lookup_11ag(index) ==
  IF index \notin 0 .. Len(rate_table_11ag) - 1 THEN NoMcs
  ELSE LET entry == rate_table_11ag[index + 1]
       IN  [mcs_index |-> index, data_rate_mbps |-> entry[7],
            coding_rate |-> <<entry[2], entry[3]>>, bits_per_symbol |-> entry[6]]

wifi_payload_to_ofdm_symbols(payload, mcs) ==
  IF payload <= 0 \/ mcs.bits_per_symbol <= 0 THEN Invalid
  ELSE ((payload * 8 + 16 + 6) + mcs.bits_per_symbol - 1) \div mcs.bits_per_symbol

(* The duration of a symbol is its samples over the bandwidth. *)
ofdm_params_init(bw) ==
  {[n_fft |-> t[2], n_data_sc |-> t[3], n_pilot_sc |-> t[4], n_guard_sc |-> t[5],
    n_cp |-> t[6], bandwidth_mhz |-> t[1], samples |-> t[2] + t[6]] :
     t \in {ofdm_numerology_table[i] : i \in {j \in DOMAIN ofdm_numerology_table : ofdm_numerology_table[j][1] = bw}}}

wifi_channel_to_freq_24ghz(channel) ==
  IF channel \in 1 .. 13 THEN 2412 + 5 * (channel - 1) ELSE IF channel = 14 THEN 2484 ELSE Invalid

wifi_freq_to_channel_24ghz(freq) ==
  LET ch == (2 * (freq - 2412) + 15) \div 10
  IN  IF freq < 2400 \/ freq > 2500 THEN Invalid
      ELSE IF freq >= 2473 THEN 14 ELSE IF ch < 1 THEN 1 ELSE IF ch > 13 THEN 13 ELSE ch

bt_channel_to_freq(channel) == IF channel \in 0 .. 78 THEN 2402 + channel ELSE Invalid

(* The advertising channels 37, 38 and 39 have places of their own. *)
ble_channel_to_freq(channel) ==
  IF channel \notin 0 .. 39 THEN Invalid
  ELSE IF channel = 37 THEN 2402 ELSE IF channel = 38 THEN 2426 ELSE IF channel = 39 THEN 2480
  ELSE 2402 + 2 * channel

(* Mutant: on equal bits both devices take the group. *)
GoDecisionWeak(intent_self, intent_peer, tiebreak_self, tiebreak_peer) ==
  intent_self > intent_peer \/ (intent_self = intent_peer /\ tiebreak_self >= tiebreak_peer)

wifi_direct_go_decision(intent_self, intent_peer, tiebreak_self, tiebreak_peer) ==
  intent_self > intent_peer \/ (intent_self = intent_peer /\ tiebreak_self > tiebreak_peer)

wifi_cca_energy_detect(rssi, threshold) == rssi > threshold

-----------------------------------------------------------------------------
(* Callers *)

WbcInit == wbc = [op |-> "idle"]

(* Two devices send each other their intents and bits, and each decides. *)
WbcNegotiate ==
  \E i, j \in WbcIntents, t, u \in {0, 1} :
    wbc' = [op |-> "group", self |-> <<i, t>>, peer |-> <<j, u>>,
            owners |-> {d \in {"self", "peer"} :
              IF d = "self" THEN wifi_direct_go_decision(i, j, t, u) ELSE wifi_direct_go_decision(j, i, u, t)}]

WbcTune ==
  \E channel \in 0 .. 15, drift \in WbcDrifts :
    LET freq == wifi_channel_to_freq_24ghz(channel)
    IN  wbc' = [op |-> "tuned", channel |-> channel, drift |-> drift,
                heard |-> IF freq = Invalid THEN Invalid ELSE wifi_freq_to_channel_24ghz(freq + drift)]

WbcCarry ==
  \E index \in -1 .. 8, payload \in WbcPayloads :
    LET mcs == wifi_rate_lookup_11ag(index)
    IN  wbc' = [op |-> "carried", mcs |-> mcs, payload |-> payload,
                symbols |-> wifi_payload_to_ofdm_symbols(payload, mcs)]

WbcConfigure ==
  \E phy \in 0 .. 6, bw \in {20, 30, 40, 80, 160, 320} :
    wbc' = [op |-> "configured", phy |-> phy, bw |-> bw, params |-> ofdm_params_init(bw),
            widest |-> wifi_phy_max_bandwidth(phy), streams |-> wifi_phy_max_spatial_streams(phy)]

(* A Bluetooth radio listens where a Wi-Fi station transmits. *)
WbcListen ==
  \E channel \in 1 .. 14, rssi \in {-70, -62, -61}, radio \in {"bredr", "ble"} :
    wbc' = [op |-> "listened", busy |-> wifi_cca_energy_detect(rssi, -62), rssi |-> rssi, radio |-> radio,
            within |-> {k \in 0 .. 78 :
              LET f == IF radio = "bredr" THEN bt_channel_to_freq(k) ELSE ble_channel_to_freq(k)
              IN  f # Invalid /\ f - wifi_channel_to_freq_24ghz(channel) \in -10 .. 10}]

WbcNext ==
  wbc.op = "idle" /\ (WbcNegotiate \/ WbcTune \/ WbcCarry \/ WbcConfigure \/ WbcListen)

WbcSpec == WbcInit /\ [][WbcNext]_wbc

-----------------------------------------------------------------------------
(* A negotiation leaves one owner, unless intents and bits are equal: then
   none, and never two. *)
OneOwner ==
  wbc.op = "group" =>
    Cardinality(wbc.owners) = IF wbc.self = wbc.peer THEN 0 ELSE 1

(* A frequency measured within 2 MHz of a channel leads back to it. *)
ChannelFound ==
  wbc.op = "tuned" =>
    \/ wbc.heard = wbc.channel
    \/ wbc.channel \notin 1 .. 14 /\ wbc.heard = Invalid
    \/ wbc.channel = 13 /\ wbc.drift > 0 /\ wbc.heard = 14

(* The symbols of a payload hold its service and tail bits as well, and one
   symbol fewer would not. *)
PayloadFits ==
  wbc.op = "carried" /\ wbc.symbols # Invalid =>
    LET bits == 8 * wbc.payload + 22
    IN  /\ wbc.symbols * wbc.mcs.bits_per_symbol >= bits
        /\ (wbc.symbols - 1) * wbc.mcs.bits_per_symbol < bits
        /\ wbc.mcs.data_rate_mbps * 4 = wbc.mcs.bits_per_symbol

(* The subcarriers fill the transform, whose size keeps the spacing. *)
NumerologyFilled ==
  wbc.op = "configured" =>
    \A q \in wbc.params :
      /\ q.n_data_sc + q.n_pilot_sc + q.n_guard_sc = q.n_fft
      /\ q.n_fft * 20 = 64 * q.bandwidth_mhz /\ 4 * q.n_cp = q.n_fft

(* The channels of Bluetooth under a Wi-Fi channel of 20 MHz: at most 21 of
   BR/EDR, at most 11 of BLE and one that advertises. *)
ChannelsUnder ==
  wbc.op = "listened" =>
    /\ wbc.busy <=> wbc.rssi > -62
    /\ Cardinality(wbc.within) <= IF wbc.radio = "bredr" THEN 21 ELSE 12

WifiBtCoreSound == OneOwner /\ ChannelFound /\ PayloadFits /\ NumerologyFilled /\ ChannelsUnder
=============================================================================
