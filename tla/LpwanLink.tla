------------------------------ MODULE LpwanLink -----------------------------
(***************************************************************************)
(* Links of a low-power wide-area network (mini-lora-nbiot): how far they   *)
(* reach and what they cost (src/lora_linkbudget.c, the last part of        *)
(* src/lora_modem.c), what other senders take from them                     *)
(* (src/channel_model.c), and how long a battery lasts (src/nbiot_power.c). *)
(*                                                                          *)
(* Levels and losses are hundredths of a dB(m), times ms or us, currents    *)
(* uA, energies uJ, probabilities thousandths.                              *)
(*                                                                          *)
(* The second part has the payloads of the applications.                    *)
(***************************************************************************)
EXTENDS PathLoss, LoraFrames, NbiotNode, Bits

CONSTANTS
  LpkModels,     \* path loss models: reference, reference_loss, freq, exponent
  LpkSenders,    \* other senders: spreading factor and level at the gateway
  LpkSettings    \* lengths of a packet and bounds on its time in the air

VARIABLE lpk

-----------------------------------------------------------------------------
(* lora_modem.c *)

(* us, for the widths of 125 kHz and above *)
lora_symbol_period(sf, bw) == (2 ^ sf * 1000) \div (bw \div 1000)
lora_chip_rate_hz(bw) == bw
lora_bit_rate(sf, bw, cr) == (4 * sf * bw) \div ((4 + cr) * 2 ^ sf)
lora_processing_gain_db(sf) == 301 * sf
lora_snr_after_processing(snr, sf) == snr + lora_processing_gain_db(sf)

Thermal(hz) == Db(hz) - 17400

lora_receiver_sensitivity(sf, bw, nf) == Thermal(bw) + nf - IF sf \in 6 .. 12 THEN 500 + 250 * (sf - 6) ELSE 750

(* us: quarters of a symbol; -1 when there are no symbols *)
lora_packet_airtime(p) ==
  IF lora_payload_symbol_count(p) < 0 THEN -1
  ELSE (lora_packet_buffer_size(p) * lora_symbol_period(p.sf, p.bw)) \div 4

-----------------------------------------------------------------------------
(* lora_linkbudget.c *)

link_budget_compute(tx, gainTx, gainRx, loss, misc, sensitivity) ==
  LET power == tx + gainTx + gainRx - loss - misc IN [power |-> power, margin |-> power - sensitivity]

(* The logarithm of the range. *)
max_range_from_link_budget(model, tx, gainTx, gainRx, sensitivity, misc) ==
  LET spare == tx + gainTx + gainRx - ReferenceLoss(model) - misc - sensitivity
  IN  Log10(model.reference) + (spare * 100) \div IF model.exponent <= 0 THEN 20 ELSE model.exponent

(* kHz and bit/s *)
shannon_capacity(bw, snr) == IF bw <= 0 \/ snr < 0 THEN 0 ELSE (bw * (Log2(1000 + snr) - Log2(1000)) * 125) \div 512
nbiot_shannon_capacity(snr) == shannon_capacity(180, snr)

nbiot_max_coupling_loss(tx, sensitivity) == tx - sensitivity
nbiot_effective_rate(rate, reps) == IF reps = 0 THEN rate ELSE rate \div reps

(* nJ *)
energy_per_bit_joules(tx, rate) == IF rate <= 0 THEN 0 ELSE (Linear(tx - 3000) * 1000000) \div rate

(* Days, from the charge of a cycle in uA s; the voltage cancels out. *)
Life(mah, charge, interval) ==
  IF charge <= 0 THEN 0 ELSE (mah * 100000) \div (24 * Max({1, (charge * 100) \div interval}))

(* interval in s, durations in ms, currents in mA and tenths of uA *)
battery_life_estimate_years(mah, interval, tx, rx, sleep) ==
  LET rest == Max({0, interval * 1000 - tx[1] - rx[1]}) \div 1000
  IN  Life(mah, tx[1] * tx[2] + rx[1] * rx[2] + (sleep * rest) \div 10, interval)

(* 1 / (1 + e^(-x/2)) for x dB, at least one in a hundred *)
DeliveryProbability(margin) == Max({10, 1000000 \div (1000 + Linear(-((margin * 21715) \div 10000)))})

SensitivityOf(sf) == lora_receiver_sensitivity(sf, 125000, 600)

PacketOf(sf, bytes) == [lora_phy_params_init_default EXCEPT !.sf = sf, !.len = bytes % 256]

(* uJ at 25 mW, per packet that arrives *)
EnergyOf(sf, loss, bytes) ==
  (25 * lora_packet_airtime(PacketOf(sf, bytes)))
    \div DeliveryProbability(link_budget_compute(1400, 0, 0, loss, 0, SensitivityOf(sf)).margin)

Timely(bytes, tolerance) == {sf \in 7 .. 12 : lora_packet_airtime(PacketOf(sf, bytes)) <= tolerance}

(* Mutant: the last of the factors that are in time. *)
LastTimely(d, model, bytes, tolerance) ==
  LET timely == Timely(bytes, tolerance)
      cost == [sf \in timely |-> EnergyOf(sf, log_distance_path_loss_db(d, model), bytes)]
  IN  IF timely = {} THEN [sf |-> 7, energy |-> 10 ^ 9] ELSE [sf |-> Max(timely), energy |-> cost[Max(timely)]]

(* The first of the cheapest; 10^9 and SF7 when none is in time. *)
energy_optimal_sf(d, model, bytes, tolerance) ==
  LET timely == Timely(bytes, tolerance)
      cost == [sf \in timely |-> EnergyOf(sf, log_distance_path_loss_db(d, model), bytes)]
      least == {sf \in timely : \A other \in timely : cost[sf] <= cost[other]}
  IN  IF timely = {} THEN [sf |-> 7, energy |-> 10 ^ 9] ELSE [sf |-> Min(least), energy |-> cost[Min(least)]]

(* The least signal over noise of a coverage level. *)
CoverageSnr(level) == CASE level = 1 -> -1200 [] level = 2 -> -1500 [] OTHER -> -600

nbiot_link_budget(level, tx, loss) ==
  LET snr == tx - loss - (Thermal(180000) + 300) IN [snr |-> snr, viable |-> snr >= CoverageSnr(level)]

(* Capacity of the link in dB, and its range in the country. *)
lpwan_get_profile(tech) ==
  LET profiles == <<[link |-> 157, rural |-> 20], [link |-> 164, rural |-> 15], [link |-> 156, rural |-> 12],
                    [link |-> 162, rural |-> 50]>>
  IN  profiles[IF tech \in 0 .. 3 THEN tech + 1 ELSE 1]

-----------------------------------------------------------------------------
(* channel_model.c *)

Isolation == <<<<0, 800, 1050, 1200, 1400, 1600>>, <<800, 0, 700, 950, 1100, 1300>>, <<1050, 700, 0, 650, 850, 1050>>,
               <<1200, 950, 650, 0, 600, 800>>, <<1400, 1100, 850, 600, 0, 500>>, <<1600, 1300, 1050, 800, 500, 0>>>>

lora_cross_sf_isolation_db(own, other) ==
  IF own \notin 7 .. 12 THEN 0 ELSE IF other \notin 7 .. 12 THEN 2000 ELSE Isolation[own - 6][other - 6]

(* Mutant: only the last of the others counts. *)
LastInterferer(sf, level, others) ==
  level - FoldLeft(LAMBDA sum, o : PowerSum(Thermal(125000) + 600, o[2] - lora_cross_sf_isolation_db(sf, o[1])),
                   Thermal(125000) + 600, others)

lora_multi_sf_sinr(sf, level, others) ==
  level - FoldLeft(LAMBDA sum, o : PowerSum(sum, o[2] - lora_cross_sf_isolation_db(sf, o[1])),
                   Thermal(125000) + 600, others)

lora_capture_probability(level, others, ratio) ==
  LET strongest == Max({o[2] : o \in ToSet(others)} \cup {-99900})
      deficit == strongest + ratio - level
  IN  IF others = <<>> \/ deficit <= 0 THEN 1000
      ELSE 1000000 \div (1000 + Linear((deficit * 14476) \div 10000))

(* Bit/s of pure ALOHA; shares are tenths of the devices, by factor. *)
lora_gateway_throughput_bps(devices, shares, perHour, bytes) ==
  LET of(sf) == LET n == (devices * shares[sf - 6]) \div 10
                    airtime == lora_packet_airtime(PacketOf(sf, bytes))
                    load == (n * perHour * (IF airtime <= 0 THEN 100 ELSE airtime \div 1000)) \div 3600
                IN  (((n * perHour * bytes * 8) \div 3600) * Linear(-((8686 * load) \div 10000))) \div 1000
  IN  of(7) + of(8) + of(9) + of(10) + of(11) + of(12)

nbiot_intercell_sinr(level, neighbours, figure) == level - FoldLeft(PowerSum, Thermal(180000) + figure, neighbours)

-----------------------------------------------------------------------------
(* nbiot_power.c *)

nbiot_edrx_init == [edrx_cycle |-> 81920, ptw |-> 10240, drx_cycle |-> 2560, rx_on |-> 10, sleep |-> 50, rx |-> 50000]

(* The mean current; receiving takes rx, the rest of the paging window 1 mA. *)
nbiot_edrx_power_analysis(e) ==
  IF e.edrx_cycle <= 0 \/ e.drx_cycle <= 0 THEN 0
  ELSE LET receiving == (e.ptw * 1000) \div (e.drx_cycle \div e.rx_on)
       IN  (receiving * (e.rx \div 1000) + (e.ptw * 1000 - receiving) + (e.edrx_cycle - e.ptw) * e.sleep)
             \div e.edrx_cycle

(* Currents of the states by NbiotNode: 50 mA active, 5 mA while the active
   timer runs, 3 uA asleep; and the update takes 2 s at 200 mA. *)
PsmAverage(t3412, t3324) ==
  (50000 + 5000 * t3324 + 3 * Max({0, t3412 - t3324 - 2}) + 400000) \div (1 + t3324 + Max({0, t3412 - t3324 - 2}) + 2)

(* 5 ms of acknowledgement at 50 mA, 200 mA while sending, 3 uA asleep *)
nbiot_battery_life_psm(mah, interval, bytes, mcs, reps) ==
  LET rate == nbiot_data_rate_with_ce(mcs, reps, TRUE)
  IN  IF interval <= 0 \/ rate <= 0 THEN 0
      ELSE LET tx == (bytes * 8000) \div rate
           IN  Life(mah, tx * 200 + 5 * 50 + 3 * (Max({0, interval * 1000 - tx - 5}) \div 1000), interval)

nbiot_power_mode_select(interval) ==
  LET t3412 == IF interval > 86400 THEN (interval * 3) \div 2 ELSE 86400
      cycle == Max({5120, Min({2621440, interval * 500})})
      psm == PsmAverage(t3412, 10)
      edrx == nbiot_edrx_power_analysis([nbiot_edrx_init EXCEPT !.edrx_cycle = cycle, !.ptw = cycle \div 8])
  IN  [psm |-> psm, edrx |-> edrx, mode |-> IF psm <= edrx THEN 0 ELSE 1]

-----------------------------------------------------------------------------
(* The comparisons of examples/link_budget_demo.c, lora_demo.c and
   nbiot_demo.c *)

UrbanModel == [reference |-> 1, reference_loss |-> 0, freq |-> 868, exponent |-> 30]

link_budget_demo ==
  [friis |-> [d \in {100, 1000, 10000} |-> friis_path_loss_db(d, 868)],
   log |-> [d \in {100, 1000, 10000} |-> log_distance_path_loss_db(d, UrbanModel)],
   hata |-> [d \in {1000, 10000} |-> okumura_hata_path_loss_db(d, 868, 300, 15, FALSE)],
   range |-> max_range_from_link_budget(UrbanModel, 1400, 0, 0, SensitivityOf(12), 300),
   life |-> battery_life_estimate_years(2400, 3600, <<500, 30>>, <<10, 10>>, 15)]

lora_demo ==
  [nibbles |-> [n \in 0 .. 3 |-> lora_hamming_decode(lora_hamming_encode(n, 3), 3)],
   factors |-> [sf \in 7 .. 12 |-> [sensitivity |-> SensitivityOf(sf), gain |-> lora_processing_gain_db(sf),
                                    rate |-> lora_bit_rate(sf, 125000, 1),
                                    airtime |-> lora_packet_airtime(PacketOf(sf, 20))]]]

-----------------------------------------------------------------------------
(* A node that moves away, other nodes that start to send, a cell that fills,
   and a node that reports less and less often. *)

LpkInit == lpk = [at |-> "start"]

AtDistance(d, s) ==
  LET loss == log_distance_path_loss_db(d, s.model)
      margin(sf) == link_budget_compute(1400, 0, 0, loss, 300, SensitivityOf(sf)).margin
  IN  [d |-> d, margin |-> [sf \in 7 .. 12 |-> margin(sf)], best |-> energy_optimal_sf(d, s.model, s.bytes, s.tolerance),
       viable |-> [level \in 0 .. 2 |-> nbiot_link_budget(level, 2300, loss).viable]]

LpkPlace == \E model \in LpkModels, setting \in LpkSettings :
  /\ lpk.at = "start"
  /\ \E s \in {[model |-> model, bytes |-> setting[1], tolerance |-> setting[2]]} : \E here \in {AtDistance(100, s)} :
       lpk' = [at |-> "away", s |-> s, before |-> here, now |-> here]

LpkAway ==
  /\ lpk.at = "away" /\ lpk.now.d < 100000
  /\ lpk' = [lpk EXCEPT !.before = lpk.now, !.now = AtDistance(2 * lpk.now.d, lpk.s)]

UnderOthers(others) ==
  [sinr |-> [sf \in 7 .. 12 |-> lora_multi_sf_sinr(sf, -11000, others)],
   capture |-> lora_capture_probability(-11000, others, 600),
   cell |-> nbiot_intercell_sinr(-11000, [i \in 1 .. Len(others) |-> others[i][2]], 300)]

LpkAlone == /\ lpk.at = "start"
            /\ lpk' = [at |-> "air", others |-> <<>>, before |-> UnderOthers(<<>>), now |-> UnderOthers(<<>>)]

LpkInterfere == \E o \in LpkSenders :
  /\ lpk.at = "air" /\ Len(lpk.others) < 3
  /\ \E others \in {Append(lpk.others, o)} :
       lpk' = [lpk EXCEPT !.others = others, !.before = lpk.now, !.now = UnderOthers(others)]

Shares == <<2, 2, 2, 2, 1, 1>>

LpkFill == \E n \in {10 * 2 ^ k : k \in 0 .. 10} :
  /\ lpk.at = "start"
  /\ lpk' = [at |-> "cell", devices |-> n, throughput |-> [m \in {n, 2 * n} |-> lora_gateway_throughput_bps(m, Shares, 2, 20)]]

WithInterval(interval) ==
  [interval |-> interval, mode |-> nbiot_power_mode_select(interval), psm |-> nbiot_battery_life_psm(2400, interval, 50, 4, 16),
   lora |-> battery_life_estimate_years(2400, interval, <<500, 30>>, <<10, 10>>, 15)]

LpkReport == /\ lpk.at = "start"
             /\ lpk' = [at |-> "battery", before |-> WithInterval(60), now |-> WithInterval(60)]

LpkRarer ==
  /\ lpk.at = "battery" /\ lpk.now.interval < 200000
  /\ lpk' = [lpk EXCEPT !.before = lpk.now, !.now = WithInterval(2 * lpk.now.interval)]

LpkShow == lpk.at = "start" /\ lpk' = [at |-> "shown", budget |-> link_budget_demo, lora |-> lora_demo]

LpkNext == LpkShow \/ LpkPlace \/ LpkAway \/ LpkAlone \/ LpkInterfere \/ LpkFill \/ LpkReport \/ LpkRarer

LpkSpec == LpkInit /\ [][LpkNext]_lpk

-----------------------------------------------------------------------------
(* Properties *)

(* The range by max_range_from_link_budget is where the margin by
   link_budget_compute is used up, to the precision of the numbers. *)
RangeIsMargin ==
  lpk.at = "away" =>
    \A sf \in 7 .. 12 :
      LET range == max_range_from_link_budget(lpk.s.model, 1400, 0, 0, SensitivityOf(sf), 300)
      IN  IF lpk.now.margin[sf] >= 0 THEN Log10(lpk.now.d) <= range + 8 ELSE Log10(lpk.now.d) >= range - 8

(* The factor chosen is in time when one is, and no other that is costs less
   per packet that arrives.  It never falls while a node goes away as long as
   the slowest factor delivers every second packet: beyond, the fastest is
   taken again, because no factor counts as worse than one in a hundred. *)
FactorFollowsDistance ==
  lpk.at = "away" =>
    LET s == lpk.s
        timely == Timely(s.bytes, s.tolerance)
    IN  /\ timely # {} => lpk.now.best.sf \in timely
        /\ \A sf \in timely :
             lpk.now.best.energy <= EnergyOf(sf, log_distance_path_loss_db(lpk.now.d, s.model), s.bytes)
        /\ DeliveryProbability(lpk.now.margin[12] + 300) >= 500 => lpk.now.best.sf >= lpk.before.best.sf

(* What a deeper coverage level needs is never more. *)
CoverageDeepens ==
  lpk.at = "away" => \A level \in 0 .. 1 : lpk.now.viable[level] => lpk.now.viable[level + 1]

(* Another sender takes from every link and gives to none. *)
SendersOnlyTake ==
  lpk.at = "air" =>
    /\ \A sf \in 7 .. 12 : lpk.now.sinr[sf] <= lpk.before.sinr[sf]
    /\ lpk.now.capture <= lpk.before.capture /\ lpk.now.cell <= lpk.before.cell

(* More devices carry more as long as few of their packets meet, and less
   beyond; never more than they offer. *)
LoadCarried ==
  lpk.at = "cell" => \A m \in DOMAIN lpk.throughput : lpk.throughput[m] <= (m * 2 * 160) \div 3600

(* Who reports less often lives longer, and saves more by sleeping than by
   paging windows. *)
RareIsLong ==
  lpk.at = "battery" =>
    /\ lpk.now.lora >= lpk.before.lora /\ lpk.now.psm >= lpk.before.psm
    /\ lpk.now.mode.mode = 0

(* A slower factor hears weaker signals, by as much less as it gains, and is
   longer in the air; a codeword of each nibble is read back; and the loss at
   the range lies between those at 1 and 10 km. *)
DemosAgree ==
  lpk.at = "shown" =>
    LET f == lpk.lora.factors
    IN  /\ \A sf \in 7 .. 11 : /\ f[sf + 1].sensitivity < f[sf].sensitivity
                             /\ f[sf + 1].sensitivity + f[sf + 1].gain > f[sf].sensitivity + f[sf].gain
                             /\ f[sf + 1].airtime > f[sf].airtime /\ f[sf + 1].rate < f[sf].rate
        /\ \A n \in 0 .. 3 : lpk.lora.nibbles[n] = n
        /\ lpk.budget.range \in Log10(1000) .. Log10(10000)
        /\ 1400 - 300 - f[12].sensitivity \in lpk.budget.log[1000] .. lpk.budget.log[10000]

LinkSound == DemosAgree /\ RangeIsMargin /\ FactorFollowsDistance /\ CoverageDeepens /\ SendersOnlyTake /\ LoadCarried /\ RareIsLong

-----------------------------------------------------------------------------
(***************************************************************************)
(* The application payloads of mini-lora-nbiot (src/lora_linkbudget.c, part *)
(* L7): a meter, a tracker and a soil sensor pack a report into a frame,    *)
(* and the server unpacks it over the report it holds of that device.       *)
(*                                                                          *)
(* A double is kept in units finer than the frame's: angles in 10^-6        *)
(* degrees, temperatures and percentages in hundredths, wetness in 10^-4,   *)
(* voltages in mV.  The reading of a meter is the two halves of its bits.   *)
(***************************************************************************)

CONSTANTS
  LrpMeters, LrpTrackers, LrpSensors,  \* reports of each kind
  LrpRooms                             \* sizes of the device's buffer

VARIABLE lrp

-----------------------------------------------------------------------------
(* A conversion to an integer type cuts towards zero. *)
Cut(x, unit) == IF x < 0 THEN -((-x) \div unit) ELSE x \div unit

(* n bytes from the i-th on, without and with a sign. *)
Unsigned(b, i, n) == FoldLeft(LAMBDA x, y : 256 * x + y, 0, SubSeq(b, i, i + n - 1))
Signed(b, i, n) ==
  FoldLeft(LAMBDA x, y : 256 * x + y, IF b[i] >= 128 THEN b[i] - 256 ELSE b[i], SubSeq(b, i + 1, i + n - 1))

(* Mutant: the battery's level is not brought to tens. *)
WholePercent(r, room) ==
  IF room < 13 THEN <<>>
  ELSE BigEndian(r.meter_id, 4) \o BigEndian(r.reading_value[2], 4) \o BigEndian(r.reading_timestamp, 4)
         \o <<(16 * r.battery_level_pct + 8 * r.valve_status + 4 * r.tamper_flag + 2 * r.alarm_flag) % 256>>

(* Four of the eight bytes of the reading are sent: the low ones. *)
smart_meter_encode(r, room) ==
  IF room < 13 THEN <<>>
  ELSE BigEndian(r.meter_id, 4) \o BigEndian(r.reading_value[2], 4) \o BigEndian(r.reading_timestamp, 4)
         \o <<16 * (r.battery_level_pct \div 10) + 8 * r.valve_status + 4 * r.tamper_flag + 2 * r.alarm_flag>>

smart_meter_decode(b, held) ==
  IF Len(b) < 13 THEN held
  ELSE [held EXCEPT !.meter_id = Unsigned(b, 1, 4), !.reading_value[2] = Signed(b, 5, 4),
                    !.reading_timestamp = Unsigned(b, 9, 4), !.battery_level_pct = 10 * (b[13] \div 16),
                    !.valve_status = BitOf(b[13], 3), !.tamper_flag = BitOf(b[13], 2),
                    !.alarm_flag = BitOf(b[13], 1)]

(* The mean of the levels of the first eight gateways, without its sign. *)
MeanLevel(r) ==
  LET n == IF r.gateway_count > 8 THEN 8 ELSE r.gateway_count
      total == FoldLeft(LAMBDA x, y : x + y, 0, SubSeq(r.rssi_dbm, 1, n))
  IN  IF n = 0 \/ total >= 0 THEN 0 ELSE (-total) \div n

asset_tracker_encode(r, room) ==
  IF room < 18 THEN <<>>
  ELSE BigEndian(r.device_id, 4) \o BigEndian(r.latitude, 4) \o BigEndian(r.longitude, 4)
         \o <<IF r.has_gnss THEN 128 ELSE 0, r.gateway_count, MeanLevel(r)>>
         \o BigEndian(Cut(r.battery_v, 10), 2) \o <<r.motion_state>>

asset_tracker_decode(b, held) ==
  IF Len(b) < 18 THEN held
  ELSE [held EXCEPT !.device_id = Unsigned(b, 1, 4), !.latitude = Signed(b, 5, 4), !.longitude = Signed(b, 9, 4),
                    !.has_gnss = b[13] >= 128, !.gateway_count = b[14], !.rssi_dbm = [i \in 1 .. 8 |-> -b[15]],
                    !.battery_v = 10 * Unsigned(b, 16, 2), !.motion_state = b[18]]

agriculture_sensor_encode(r, room) ==
  IF room < 20 THEN <<>>
  ELSE BigEndian(r.sensor_id, 4) \o BigEndian(Cut(r.soil_moisture_pct, 10), 2)
         \o BigEndian(Cut(r.soil_temperature_c + 5000, 10), 2) \o BigEndian(Cut(r.air_temperature_c + 5000, 10), 2)
         \o BigEndian(Cut(r.air_humidity_pct, 10), 2) \o BigEndian(Cut(r.leaf_wetness, 10), 2)
         \o BigEndian(r.solar_radiation_wm2, 2) \o BigEndian(Cut(r.battery_v, 10), 2)
         \o BigEndian(Cut(r.solar_panel_v, 10), 2)

agriculture_sensor_decode(b, held) ==
  IF Len(b) < 20 THEN held
  ELSE [held EXCEPT !.sensor_id = Unsigned(b, 1, 4), !.soil_moisture_pct = 10 * Signed(b, 5, 2),
                    !.soil_temperature_c = 10 * Signed(b, 7, 2) - 5000,
                    !.air_temperature_c = 10 * Signed(b, 9, 2) - 5000, !.air_humidity_pct = 10 * Signed(b, 11, 2),
                    !.leaf_wetness = 10 * Signed(b, 13, 2), !.solar_radiation_wm2 = Unsigned(b, 15, 2),
                    !.battery_v = 10 * Unsigned(b, 17, 2), !.solar_panel_v = 10 * Unsigned(b, 19, 2)]

-----------------------------------------------------------------------------
(* A device fills its buffer, the network may deliver only a part of it, and
   the server keeps one report of each device from frame to frame. *)

Kinds == {"meter", "tracker", "sensor"}
Reports == [meter |-> LrpMeters, tracker |-> LrpTrackers, sensor |-> LrpSensors]

Packed(kind, r, room) == CASE kind = "meter" -> smart_meter_encode(r, room)
                           [] kind = "tracker" -> asset_tracker_encode(r, room)
                           [] kind = "sensor" -> agriculture_sensor_encode(r, room)

Opened(kind, b, held) == CASE kind = "meter" -> smart_meter_decode(b, held)
                              [] kind = "tracker" -> asset_tracker_decode(b, held)
                              [] kind = "sensor" -> agriculture_sensor_decode(b, held)

LrpIdle == [at |-> "idle"]

LrpInit == lrp = LrpIdle

(* The server starts with a report of the same device. *)
LrpSend == \E kind \in Kinds, room \in LrpRooms : \E r, held \in Reports[kind] :
  /\ lrp = LrpIdle
  /\ lrp' = [at |-> "sent", kind |-> kind, sent |-> r, frame |-> Packed(kind, r, room), held |-> held, room |-> room]

LrpDeliver == \E lost \in {0, 1} :
  /\ lrp.at = "sent" /\ Len(lrp.frame) > lost
  /\ LET frame == SubSeq(lrp.frame, 1, Len(lrp.frame) - lost)
     IN  lrp' = [at |-> "delivered", kind |-> lrp.kind, sent |-> lrp.sent, lost |-> lost, was |-> lrp.held,
                 held |-> Opened(lrp.kind, frame, lrp.held)]

LrpNext == LrpSend \/ LrpDeliver

LrpSpec == LrpInit /\ [][LrpNext]_lrp

-----------------------------------------------------------------------------
(* Properties *)

(* A buffer is filled to the length of its kind or refused, and never beyond
   its room; every value of a frame is a byte. *)
FrameFits ==
  lrp.at = "sent" =>
    /\ Len(lrp.frame) \in {0, CASE lrp.kind = "meter" -> 13 [] lrp.kind = "tracker" -> 18 [] lrp.kind = "sensor" -> 20}
    /\ Len(lrp.frame) <= lrp.room
    /\ \A i \in 1 .. Len(lrp.frame) : lrp.frame[i] \in Byte

Near(x, y, unit) == x - y < unit /\ y - x < unit

(* What the server holds after a whole frame is what was sent, to the units of
   the frame, also below zero: but the upper half of a meter's reading stays
   that of the report before, and all gateways have the mean level.  A frame
   that lost a byte changes nothing. *)
ReportArrives ==
  lrp.at = "delivered" =>
    LET s == lrp.sent
        h == lrp.held
    IN  IF lrp.lost > 0 THEN h = lrp.was
        ELSE CASE lrp.kind = "meter" ->
                    h = [s EXCEPT !.battery_level_pct = 10 * (@ \div 10), !.reading_value[1] = lrp.was.reading_value[1]]
               [] lrp.kind = "tracker" ->
                    /\ Near(h.battery_v, s.battery_v, 10)
                    /\ [h EXCEPT !.battery_v = 0, !.rssi_dbm = s.rssi_dbm] = [s EXCEPT !.battery_v = 0]
                    /\ s.gateway_count > 0 =>
                         /\ \E i \in 1 .. s.gateway_count : h.rssi_dbm[1] >= s.rssi_dbm[i]
                         /\ \E i \in 1 .. s.gateway_count : h.rssi_dbm[1] <= s.rssi_dbm[i] + 1
               [] lrp.kind = "sensor" ->
                    /\ \A f \in DOMAIN s : Near(h[f], s[f], 10)
                    /\ h.sensor_id = s.sensor_id /\ h.solar_radiation_wm2 = s.solar_radiation_wm2

ReportsSound == FrameFits /\ ReportArrives
=============================================================================
