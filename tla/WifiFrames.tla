----------------------------- MODULE WifiFrames -----------------------------
(***************************************************************************)
(* Frames, timing and aggregation of the MAC layer of mini-wifi-bluetooth   *)
(* (src/wifi_mac.c): a station builds data and control frames, packs        *)
(* several payloads into one, and sets its waiting times by the access      *)
(* category; a second one parses and unpacks what arrives, which may be a   *)
(* frame of a foreign station or cut short.                                 *)
(*                                                                          *)
(* Times are in microseconds; a rate is a divisor of eight, so that the     *)
(* time of a byte is whole.                                                 *)
(***************************************************************************)
EXTENDS WifiPhy

CONSTANTS WfrTypes,     \* frame control fields of foreign stations
          WfrLengths,   \* lengths of a frame on arrival
          WfrBatches,   \* sequences of payload lengths
          WfrLimits     \* sizes of a buffer

VARIABLE wfr  \* what was built and what was read

-----------------------------------------------------------------------------
(* Timing *)

WIFI_PHY_80211B == 1
wifi_phy_mode_t == 0 .. 6

csma_params_init(phy) ==
  LET slot == IF phy = WIFI_PHY_80211B THEN 20 ELSE 9
      sifs == IF phy = WIFI_PHY_80211B THEN 10 ELSE 16
  IN  [slot_time |-> slot, sifs |-> sifs, difs |-> sifs + 2 * slot, eifs |-> 2 * sifs + 10 * slot,
       cw_min |-> IF phy = WIFI_PHY_80211B THEN 31 ELSE 15, cw_max |-> 1023]

(* Categories from background to voice; the limit of a transmission is in
   microseconds too. *)
EDCA_AC == 0 .. 3
edca_params_init(ac) ==
  <<[aifsn |-> 7, cw_min |-> 15, cw_max |-> 1023, txop_limit |-> 0],
    [aifsn |-> 3, cw_min |-> 15, cw_max |-> 1023, txop_limit |-> 0],
    [aifsn |-> 2, cw_min |-> 7, cw_max |-> 15, txop_limit |-> 3008],
    [aifsn |-> 2, cw_min |-> 3, cw_max |-> 7, txop_limit |-> 1504]>>[ac + 1]

edca_cw_double(window, edca) ==
  LET twice == 2 * (window + 1) - 1
  IN  IF window < edca.cw_min \/ edca.cw_max < edca.cw_min THEN edca.cw_min
      ELSE IF twice > edca.cw_max THEN edca.cw_max ELSE twice

(* rand() % (cw + 1) slots after the interframe space *)
edca_backoff(window, params, edca) ==
  {params.sifs + (edca.aifsn + slots) * params.slot_time : slots \in 0 .. window}

nav_compute_duration(bytes, rate, params) ==
  LET air(n) == 24 + ((n * 8) \div rate) IN air(bytes) + params.sifs + air(14)

-----------------------------------------------------------------------------
(* Frames *)

put_le16(x) == <<x % 256, x \div 256>>
get_le16(frame, at) == frame[at + 1] + 256 * frame[at + 2]
Checked(body) == body \o Reverse(Bytes32(crc32_80211(body)))

(* Data to the access point, with a quality of service or without; the bit
   for it is that of the protocol version. *)
wifi_frame_build_data(max_len, da, sa, bssid, payload, tid) ==
  LET has_qos == tid \in 0 .. 7
      header == put_le16(2049 + (IF has_qos THEN 128 ELSE 0)) \o <<0, 0>> \o da \o sa \o bssid \o <<0, 0>>
                  \o (IF has_qos THEN put_le16(tid) ELSE <<>>)
      total == Len(header) + Len(payload) + 4
  IN  IF max_len < 36 \/ total > max_len \/ total > 2346 THEN <<>> ELSE Checked(header \o payload)

wifi_frame_build_rts(max_len, ra, ta, duration) ==
  IF max_len < 20 THEN <<>> ELSE Checked(put_le16(436) \o put_le16(duration) \o ra \o ta)
wifi_frame_build_cts(max_len, ra, duration) ==
  IF max_len < 14 THEN <<>> ELSE Checked(put_le16(452) \o put_le16(duration) \o ra)
wifi_frame_build_ack(max_len, ra) ==
  IF max_len < 14 THEN <<>> ELSE Checked(put_le16(468) \o put_le16(0) \o ra)

FrameType == [mgmt |-> 0, ctrl |-> 1, data |-> 2]
NoAddress == Zeros(6)

(* The optional fields behind the sequence number, one after the other, as
   far as the frame reaches. *)
Optional(frame, fc, at) ==
  LET qos == BitOf(fc, 7) = 1 /\ Len(frame) >= at + 2
      then == IF qos THEN at + 2 ELSE at
      ht == BitOf(fc, 15) = 1 /\ Len(frame) >= then + 2
  IN  [qos |-> IF qos THEN get_le16(frame, at) ELSE 0, ht |-> IF ht THEN get_le16(frame, then) ELSE 0]

wifi_frame_parse(frame) ==
  LET fc == get_le16(frame, 0)
      type == (fc \div 4) % 4
      subtype == (fc \div 16) % 16
      wds == BitOf(fc, 8) = 1 /\ BitOf(fc, 9) = 1
      addresses == IF type = FrameType.data /\ wds THEN 4 ELSE 3
      behind == 4 + 6 * addresses
      address(n) == SubSeq(frame, 6 * n - 1, 6 * n + 4)
      named == [fc |-> fc, duration |-> get_le16(frame, 2), seq |-> 0, qos |-> 0, ht |-> 0,
                addrs |-> <<NoAddress, NoAddress, NoAddress, NoAddress>>]
      parsed == [named EXCEPT !.seq = get_le16(frame, behind),
                              !.addrs = [n \in 1 .. 4 |-> IF n <= addresses THEN address(n) ELSE NoAddress]]
  IN  IF Len(frame) < 10 \/ fc % 4 # 0 THEN [rc |-> -1]
      ELSE IF type = FrameType.ctrl
        THEN [rc |-> 0, type |-> type, subtype |-> subtype,
              header |-> IF subtype \in 11 .. 13 THEN [named EXCEPT !.addrs[1] = address(1)] ELSE named]
      ELSE IF type \in {FrameType.data, FrameType.mgmt} /\ Len(frame) < 6 * addresses + 6 THEN [rc |-> -1]
      ELSE IF type = FrameType.data
        THEN LET more == Optional(frame, fc, behind + 2)
             IN  [rc |-> 0, type |-> type, subtype |-> subtype,
                  header |-> [parsed EXCEPT !.qos = more.qos, !.ht = more.ht]]
      ELSE [rc |-> 0, type |-> type, subtype |-> subtype,
            header |-> IF type = FrameType.mgmt THEN parsed ELSE named]

-----------------------------------------------------------------------------
(* Aggregation *)

Padding(len) == (4 - (len % 4)) % 4

(* Empty payloads are passed over; the first that does not fit ends it. *)
amsdu_aggregate(max_len, da, sa, msdus) ==
  Iterate(LAMBDA s, i :
            LET m == msdus[i]
            IN  IF s.full \/ m = <<>> THEN s
                ELSE IF Len(s.out) + 14 + Len(m) + 4 > max_len THEN [s EXCEPT !.full = TRUE]
                ELSE [s EXCEPT !.out = @ \o da \o sa \o put_le16(Len(m)) \o m \o Zeros(Padding(Len(m)))],
          [full |-> FALSE, out |-> <<>>], Len(msdus)).out

(* Mutant: the next part is sought behind the payload, not behind the padding. *)
DisassemblePacked(max_msdus, amsdu) ==
  Iterate(LAMBDA s, i :
            IF s.done \/ s.at + 14 > Len(amsdu) THEN [s EXCEPT !.done = TRUE]
            ELSE LET len == get_le16(amsdu, s.at + 12)
                 IN  IF len = 0 \/ s.at + 14 + len > Len(amsdu) THEN [s EXCEPT !.done = TRUE]
                     ELSE [s EXCEPT !.at = @ + 14 + len,
                                    !.out = Append(@, SubSeq(amsdu, s.at + 15, s.at + 14 + len))],
          [done |-> FALSE, at |-> 0, out |-> <<>>], max_msdus).out

amsdu_disassemble(max_msdus, amsdu) ==
  Iterate(LAMBDA s, i :
            IF s.done \/ s.at + 14 > Len(amsdu) THEN [s EXCEPT !.done = TRUE]
            ELSE LET len == get_le16(amsdu, s.at + 12)
                 IN  IF len = 0 \/ s.at + 14 + len > Len(amsdu) THEN [s EXCEPT !.done = TRUE]
                     ELSE [s EXCEPT !.at = @ + 14 + len + Padding(len),
                                    !.out = Append(@, SubSeq(amsdu, s.at + 15, s.at + 14 + len))],
          [done |-> FALSE, at |-> 0, out |-> <<>>], max_msdus).out

-----------------------------------------------------------------------------
(* Two stations *)

Address(n) == [i \in 1 .. 6 |-> 16 * n + i]
Body(len) == [i \in 1 .. len |-> (i * 41) % 256]
(* A frame of a foreign station: every field tells its place. *)
Foreign(fc, len) == put_le16(fc) \o [i \in 1 .. len - 2 |-> i + 2]

WfrInit == wfr = [step |-> "start"]

WfrControl == \E rate \in {1, 2, 4, 8}, len \in {0, 100, 2346}, kind \in {"rts", "cts", "ack"} :
  /\ wfr.step = "start"
  /\ LET nav == nav_compute_duration(len + 1, rate, csma_params_init(0))
         frame == CASE kind = "rts" -> wifi_frame_build_rts(20, Address(1), Address(2), nav)
                    [] kind = "cts" -> wifi_frame_build_cts(14, Address(1), nav)
                    [] kind = "ack" -> wifi_frame_build_ack(14, Address(1))
     IN  \E sent \in {frame} :
           wfr' = [step |-> "control", kind |-> kind, nav |-> nav, frame |-> sent, got |-> wifi_frame_parse(sent)]

WfrData == \E len \in {0, 1, 30, 2320}, tid \in {-1, 5}, max \in WfrLimits :
  /\ wfr.step = "start"
  /\ \E frame \in {wifi_frame_build_data(max, Address(1), Address(2), Address(3), Body(len), tid)} :
       wfr' = [step |-> "data", max |-> max, len |-> len, tid |-> tid, frame |-> frame]

WfrForeign == \E fc \in WfrTypes, len \in WfrLengths :
  /\ wfr.step = "start"
  /\ \E frame \in {Foreign(fc, len)} :
       wfr' = [step |-> "foreign", fc |-> fc, len |-> len, frame |-> frame, got |-> wifi_frame_parse(frame)]

WfrPack == \E lens \in WfrBatches, max \in WfrLimits :
  /\ wfr.step = "start"
  /\ \E msdus \in {[i \in DOMAIN lens |-> Body(lens[i])]} :
       wfr' = [step |-> "packed", max |-> max, msdus |-> msdus,
               frame |-> amsdu_aggregate(max, Address(1), Address(2), msdus)]

WfrUnpack == \E cut \in {0, 1, 3, 20}, max \in {1, 16} :
  /\ wfr.step = "packed" /\ cut <= Len(wfr.frame)
  /\ wfr' = [step |-> "unpacked", msdus |-> wfr.msdus, max |-> max, frame |-> wfr.frame, cut |-> cut,
             got |-> amsdu_disassemble(max, SubSeq(wfr.frame, 1, Len(wfr.frame) - cut))]

WfrContend == \E phy \in wifi_phy_mode_t :
  /\ wfr.step = "start"
  /\ wfr' = [step |-> "contend", params |-> csma_params_init(phy), failures |-> 0,
             cw |-> [ac \in EDCA_AC |-> edca_params_init(ac).cw_min]]
WfrFail ==
  /\ wfr.step = "contend" /\ wfr.failures < 8
  /\ wfr' = [wfr EXCEPT !.failures = @ + 1, !.cw = [ac \in EDCA_AC |-> edca_cw_double(@[ac], edca_params_init(ac))]]

WfrNext == WfrControl \/ WfrData \/ WfrForeign \/ WfrPack \/ WfrUnpack \/ WfrContend \/ WfrFail

WfrSpec == WfrInit /\ [][WfrNext]_wfr

-----------------------------------------------------------------------------
(* Properties *)

(* Every station that hears a control frame reads the receiver and the time
   reserved; the check sequence fits the frame. *)
ControlRead ==
  wfr.step = "control" =>
    /\ wfr.got.type = FrameType.ctrl
    /\ wfr.got.header.addrs[1] = Address(1)
    /\ wfr.got.header.duration = IF wfr.kind = "ack" THEN 0 ELSE wfr.nav
    /\ wfr.frame = Checked(SubSeq(wfr.frame, 1, Len(wfr.frame) - 4))

(* A frame within the buffer is complete; one beyond it is not begun.  Nothing
   is said of its reader: the bit for the way to the access point is written
   where the protocol version is (wifi_mac.c:236), and wifi_frame_parse refuses
   every such frame (wifi_mac.c:286). *)
DataWhole ==
  wfr.step = "data" =>
    LET need == 28 + (IF wfr.tid >= 0 THEN 2 ELSE 0) + wfr.len
    IN  Len(wfr.frame) = IF need <= wfr.max /\ need <= 2346 /\ wfr.max >= 36 THEN need ELSE 0

(* No field of a parsed frame is read beyond its end, or at the place of
   another one. *)
FieldsApart ==
  wfr.step = "foreign" /\ wfr.got.rc = 0 =>
    LET h == wfr.got.header
        read == {f \in {h.seq, h.qos, h.ht} : f # 0}
        places == {f % 256 : f \in read}
    IN  /\ \A f \in read : f \div 256 = (f % 256) + 1 /\ (f % 256) + 1 <= wfr.len
        /\ \A n \in 1 .. 4 : h.addrs[n] = NoAddress \/ h.addrs[n] = [i \in 1 .. 6 |-> 6 * n - 2 + i]
        /\ \A p \in places : p > 4 + 6 * Cardinality({n \in 1 .. 4 : h.addrs[n] # NoAddress})

(* What is unpacked is what was packed, from the first on: all of it where
   the frame is whole, and never more than the buffer holds. *)
PayloadsReturn ==
  /\ wfr.step = "packed" => Len(wfr.frame) <= wfr.max
  /\ wfr.step = "unpacked" =>
       LET given == SelectSeq(wfr.msdus, LAMBDA m : m # <<>>)
       IN  /\ IsPrefix(wfr.got, given)
           /\ wfr.cut = 0 /\ wfr.max = 16 =>
                FoldLeft(LAMBDA n, m : n + 14 + Len(m) + Padding(Len(m)), 0, wfr.got) = Len(wfr.frame)

(* After the same number of failures a higher category waits no longer than
   a lower one, at least and at most. *)
PriorityKept ==
  wfr.step = "contend" =>
    \A high, low \in EDCA_AC : high > low =>
      LET wait(ac) == edca_backoff(wfr.cw[ac], wfr.params, edca_params_init(ac))
      IN  /\ \A w \in wait(low) : \E v \in wait(high) : v <= w
          /\ \A v \in wait(high) : \E w \in wait(low) : v <= w

WifiFramesSound == ControlRead /\ DataWhole /\ FieldsApart /\ PayloadsReturn /\ PriorityKept
=============================================================================
