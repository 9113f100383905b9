------------------------------ MODULE CellRadio -----------------------------
(***************************************************************************)
(* The radio links of mini-cellular-network: path loss, interference, link  *)
(* budget, range and channel quality (src/cell_network_link.c), coverage    *)
(* (src/cell_network_deployment.c), power control and allocation            *)
(* (src/cell_network_power.c), and the filter of the measurements that the  *)
(* handover engine triggers on (src/cell_network_handover.c), which         *)
(* CellHandover takes as off.                                               *)
(*                                                                          *)
(* Levels and losses are hundredths of a dB, distances m, heights tenths of *)
(* a m, frequencies MHz; what the filter and the allocation of power answer *)
(* are fractions, their levels dB and their powers mW.                      *)
(*                                                                          *)
(* The second part has the users of a cell and its resource blocks.         *)
(***************************************************************************)
EXTENDS Exact, FiniteSets, CellPlanning

CONSTANTS
  CrdDistances,  \* of a user
  CrdBudgets,    \* losses that are allowed
  CrdSinrs,      \* levels over noise and interference
  CrdLosses,     \* path losses of users whose power is controlled
  CrdCommands,   \* bound on the commands to a user
  CrdGains,      \* sequences of gains of resource blocks
  CrdPowers,     \* total powers
  CrdLevels,     \* levels of serving cell and neighbour, dB
  CrdFilters,    \* coefficients of the filter, multiples of 4
  CrdReports     \* bound on the reports to the engine

ASSUME RadioAssumption ==
  /\ CrdDistances \subseteq Nat /\ CrdCommands \in Nat /\ CrdReports \in Nat
  /\ \A k \in CrdFilters : k \in 0 .. 16 /\ k % 4 = 0

VARIABLE crd

RP == INSTANCE PathLoss WITH pls <- 0, PlsSites <- {}, PlsNear <- 1, PlsFar <- 1

-----------------------------------------------------------------------------
(* Path loss; -1 dB outside the range of a formula *)

fspl_db(d, f) == IF d <= 0 \/ f <= 0 THEN 0 ELSE RP!Term(2000, RP!Km(d) + Log10(f)) + 3245

HataApplies(d, hb, hm) == d \in 1000 .. 20000 /\ hb \in 300 .. 2000 /\ hm \in 10 .. 100

hata_urban_macro_db(f, d, hb, hm) ==
  IF f \notin 150 .. 1500 \/ ~HataApplies(d, hb, hm) THEN RP!Refused
  ELSE 6955 + RP!Term(2616, Log10(f)) + RP!Spread(d, hb) - RP!LargeCity(hm, f)

hata_suburban_db(f, d, hb, hm) ==
  LET urban == hata_urban_macro_db(f, d, hb, hm)
  IN  IF urban < 0 THEN urban ELSE urban - RP!Term(200, RP!Square(Log10(f) - Log10(28))) - 540

hata_rural_db(f, d, hb, hm) ==
  LET urban == hata_urban_macro_db(f, d, hb, hm)
  IN  IF urban < 0 THEN urban ELSE urban - RP!Term(478, RP!Square(Log10(f))) + RP!Term(1833, Log10(f)) - 4094

cost231_hata_db(f, d, hb, hm, city) ==
  IF f \notin 1500 .. 2000 \/ ~HataApplies(d, hb, hm) THEN RP!Refused
  ELSE 4630 + RP!Term(3390, Log10(f)) + RP!Spread(d, hb) - RP!LargeCity(hm, f) + city

Breakpoint(f, hb, hm) == (4 * (hb - 10) * (hm - 10) * f) \div 30000

(* Both urban models with line of sight: d on the ground, through the air e. *)
UrbanLos(d, e, f, hb, hm, at0, near, past) ==
  LET bp == Breakpoint(f, hb, hm)
  IN  IF d \notin 10 .. 5000 THEN RP!Refused
      ELSE IF d < bp THEN at0 + RP!Term(near, Log10(e)) + RP!Term(2000, RP!GHz(f))
      ELSE at0 + RP!Term(4000, Log10(e)) + RP!Term(2000, RP!GHz(f))
             - RP!Term(past, Log10(bp * bp + ((hb - hm) * (hb - hm)) \div 100))

tr38901_uma_los_db(d, e, f, hb, hm) == UrbanLos(d, e, f, hb, hm, 2800, 2200, 900)
tr38901_umi_los_db(d, e, f, hb, hm) == UrbanLos(d, e, f, hb, hm, 3240, 2100, 950)

AtLeast(x, y) == IF x > y THEN x ELSE y

tr38901_uma_nlos_db(d, e, f, hb, hm) ==
  LET los == tr38901_uma_los_db(d, e, f, hb, hm)
  IN  IF los < 0 THEN RP!Refused
      ELSE AtLeast(1354 + RP!Term(3908, Log10(e)) + RP!Term(2000, RP!GHz(f)) - 6 * (hm - 15), los)

tr38901_umi_nlos_db(d, e, f, hb, hm) ==
  LET los == tr38901_umi_los_db(d, e, f, hb, hm)
  IN  IF los < 0 THEN RP!Refused
      ELSE AtLeast(RP!Term(3530, Log10(e)) + 2240 + RP!Term(2130, RP!GHz(f)) - 3 * (hm - 15), los)

log_distance_pl_db(d, d0, loss, tenths) ==
  IF d <= 0 \/ d0 <= 0 THEN 0 ELSE loss + RP!Term(100 * tenths, Log10(d) - Log10(d0))

-----------------------------------------------------------------------------
(* Levels and the link budget *)

rx_power_dbm(tx, txGain, rxGain, loss, cable, other) == tx + txGain + rxGain - loss - cable - other
noise_floor_dbm(hz, nf) == IF hz <= 0 THEN -99900 ELSE -17393 + Db(hz) + nf
sinr_db(rx, interference, noise) == rx - PowerSum(interference, noise)
total_interference_dbm(powers) == IF powers = <<>> THEN -20000 ELSE FoldLeft(PowerSum, powers[1], Tail(powers))

(* Worst level over interference of a reuse factor, for an exponent in tenths
   and so many interferers, and with noise at the edge of a cell. *)
freq_reuse_worst_sir_db(n, tenths, interferers) ==
  IF n <= 0 \/ tenths <= 0 \/ interferers <= 0 THEN -99900 ELSE RP!Term(50 * tenths, Log10(3 * n)) - Db(interferers)

cell_edge_sinr_db(n, tenths, interferers, noise, rx) ==
  rx - PowerSum(rx - freq_reuse_worst_sir_db(n, tenths, interferers), noise)

(* In 4096ths of a bit per second and hertz. *)
spectral_efficiency_bps_per_hz(x) == Log2(1000 + Linear(x)) - Log2(1000)
min_sinr_for_efficiency_db(bits) == IF bits <= 0 THEN -5000 ELSE Db(2^bits - 1)

(* Mutant: the losses of the sender are left out of its radiated power. *)
BudgetLossless(tx, txGain, txLosses, rxGain, nf, hz, target, loss) ==
  LET eirp == tx + txGain
      noise == noise_floor_dbm(hz, nf)
      most == eirp + rxGain - (noise + target)
      rx == tx + txGain - txLosses + rxGain - loss
  IN  [eirp |-> eirp, rx |-> rx, sinr |-> sinr_db(rx, -20000, noise), sensitivity |-> noise + target,
       most |-> most, margin |-> most - loss, is_viable |-> most - loss > 0]

compute_downlink_budget(tx, txGain, txLosses, rxGain, nf, hz, target, loss) ==
  LET eirp == tx + txGain - txLosses
      noise == noise_floor_dbm(hz, nf)
      most == eirp + rxGain - (noise + target)
      rx == eirp + rxGain - loss
  IN  [eirp |-> eirp, rx |-> rx, sinr |-> sinr_db(rx, -20000, noise), sensitivity |-> noise + target,
       most |-> most, margin |-> most - loss, is_viable |-> most - loss > 0]

compute_link_budget_with_margin(tx, txGain, txLosses, rxGain, nf, hz, target, loss, shadow, walls) ==
  compute_downlink_budget(tx, txGain, txLosses, rxGain, nf, hz, target, loss + shadow + walls)

(* Bisection of low .. high, down to a metre; Within says that a distance is
   not too far. *)
Bisected(Within(_), low, high) ==
  FoldLeft(LAMBDA r, k : IF r[2] - r[1] <= 1 THEN r
                         ELSE LET mid == (r[1] + r[2]) \div 2
                              IN  IF Within(mid) THEN <<mid, r[2]>> ELSE <<r[1], mid>>,
           <<low, high>>, [k \in 1 .. 17 |-> k])[1]

(* A distance for which the formula answers -1 counts as near enough. *)
estimate_cell_range_km(most, f, hb, hm) ==
  IF most <= 0 THEN 0 ELSE Bisected(LAMBDA d : hata_urban_macro_db(f, d, hb, hm) < most, 100, 50000)

(* Mutant: the halves of the interval are taken for each other. *)
RangeSwapped(most, f, hb, hm, city) ==
  IF most <= 0 THEN 0 ELSE Bisected(LAMBDA d : cost231_hata_db(f, d, hb, hm, city) > most, 100, 20000)

estimate_cell_range_cost231_km(most, f, hb, hm, city) ==
  IF most <= 0 THEN 0 ELSE Bisected(LAMBDA d : cost231_hata_db(f, d, hb, hm, city) < most, 100, 20000)

(* Areas are square kilometres; a cell has 2.598 times its radius squared. *)
plan_coverage(p) ==
  LET most == p.tx + p.txGain + p.rxGain - (-17400 + Db(p.hz) + p.nf + p.target) - (p.sigma * 128) \div 100 - p.walls
      radius == estimate_cell_range_km(most, p.f, p.hb, p.hm)
      hectares == (2598 * (radius \div 100) * (radius \div 100)) \div 1000
  IN  IF hectares <= 0 THEN [most |-> most, radius |-> radius, num_cells |-> 0, is_feasible |-> FALSE]
      ELSE [most |-> most, radius |-> radius, num_cells |-> AtLeast(1, -((-100 * p.area) \div hectares)),
            is_feasible |-> radius > 100]

-----------------------------------------------------------------------------
(* Channel quality: threshold and 10^4 times the efficiency of indices 0 .. 15 *)

cqi_tbl ==
  <<<<-2000, 0>>, <<-700, 1523>>, <<-500, 2344>>, <<-300, 3770>>, <<-100, 6016>>, <<100, 8770>>, <<300, 11758>>,
    <<500, 14766>>, <<800, 19141>>, <<1100, 24063>>, <<1300, 27305>>, <<1500, 33223>>, <<1700, 39023>>,
    <<1900, 45234>>, <<2100, 51152>>, <<2300, 55547>>>>

(* Mutant: the next better index is taken. *)
CqiOptimistic(x) ==
  LET met == {i \in 1 .. 15 : x >= cqi_tbl[i + 1][1]}
  IN  IF met = {} THEN 0 ELSE LET i == CHOOSE i \in met : \A j \in met : j <= i IN IF i = 15 THEN i ELSE i + 1

sinr_to_cqi(x) ==
  LET met == {i \in 1 .. 15 : x >= cqi_tbl[i + 1][1]}
  IN  IF met = {} THEN 0 ELSE CHOOSE i \in met : \A j \in met : j <= i

cqi_sinr_threshold_db(cqi) == IF cqi > 15 THEN -9900 ELSE cqi_tbl[cqi + 1][1]
cqi_to_efficiency(cqi) == IF cqi > 15 THEN 0 ELSE cqi_tbl[cqi + 1][2]
cqi_to_data_rate_mbps(cqi, mhz) == cqi_to_efficiency(cqi) * mhz
amc_select_mcs(x) == AtLeast(1, sinr_to_cqi(x))

-----------------------------------------------------------------------------
(* Power control and allocation *)

(* Mutant: the limit is taken for a floor. *)
PuschFloored(p, loss, own) ==
  LET power == p.p0 + own + Db(p.num_rbs) + (p.alpha * loss) \div 100 + p.delta_mcs + p.correction
  IN  IF power < p.p_max THEN p.p_max ELSE power

(* alpha in hundredths *)
nr_pusch_power_dbm(p, loss, own) ==
  LET power == p.p0 + own + Db(p.num_rbs) + (p.alpha * loss) \div 100 + p.delta_mcs + p.correction
  IN  IF power > p.p_max THEN p.p_max ELSE power

nr_olpc_power_dbm(p0, alpha, loss, rbs, most) ==
  LET power == p0 + Db(rbs) + (alpha * loss) \div 100
  IN  IF power < most THEN power ELSE most

nr_clpc_accumulate(f, command) == IF command \in 0 .. 3 THEN f + <<-100, 0, 100, 300>>[command + 1] ELSE f
nr_power_headroom_db(most, power) == most - power
nr_is_power_limited(headroom, threshold) == headroom < threshold

UserLevel(loss, noise, most, alpha) == nr_olpc_power_dbm(-9000, alpha, loss, 1, most) - loss - noise

(* The first of the values 0, 0.05 .. 0.95 of alpha with the largest sum of
   levels above -40 dB; 1 is missed by the rounding of the loop's sum. *)
AlphaSum(losses, noise, most, alpha) ==
  LET level(i) == UserLevel(losses[i], noise, most, alpha)
  IN  FoldLeft(LAMBDA sum, i : IF level(i) > -4000 THEN sum + level(i) ELSE sum, 0, [i \in DOMAIN losses |-> i])

fpc_optimal_alpha(losses, noise, most) ==
  LET sum(a) == AlphaSum(losses, noise, most, a)
      values == {5 * k : k \in 0 .. 19}
  IN  CHOOSE a \in values : \A b \in values : sum(b) < sum(a) \/ (sum(b) = sum(a) /\ a <= b)

dl_epre_rs_dbm(power, rbs) == IF rbs <= 0 THEN -99900 ELSE power - Db(12 * rbs)

(* The level of the k best blocks, of gains over noise in falling order. *)
WaterLevel(sorted, total, k) ==
  Over(Plus(total, Total([i \in 1 .. k |-> Over(Whole(1), sorted[i])])), Whole(k))

(* As many blocks as stay under the level, or one. *)
Filled(sorted, total) ==
  LET above == {k \in DOMAIN sorted : Below(Over(Whole(1), sorted[k]), WaterLevel(sorted, total, k))}
  IN  IF above = {} THEN 1 ELSE CHOOSE k \in above : \A j \in above : j <= k

NotNegative(x) == IF x[1] > 0 THEN x ELSE Whole(0)
UpToLevel(ratios, mu) == [i \in DOMAIN ratios |-> NotNegative(Minus(mu, Over(Whole(1), ratios[i])))]
Ratios(gains, noise) == [i \in DOMAIN gains |-> Over(Whole(gains[i]), noise)]
Falling(ratios) == SortSeq(ratios, LAMBDA x, y : Below(y, x))

(* Mutant: the worst block is never given up. *)
AllFilled(gains, total, noise) ==
  UpToLevel(Ratios(gains, noise), WaterLevel(Falling(Ratios(gains, noise)), total, Len(gains)))

LevelOver(sorted, total) == WaterLevel(sorted, total, Filled(sorted, total))
PowersOf(ratios, total) == UpToLevel(ratios, LevelOver(Falling(ratios), total))
dl_waterfill_power(gains, total, noise) == PowersOf(Ratios(gains, noise), total)

icic_soft_frequency_reuse(center, edge, centerPower, edgePower) ==
  IF center < 0 \/ edge < 0 THEN <<>>
  ELSE [i \in 1 .. center + edge |-> IF i <= center THEN centerPower ELSE edgePower]

-----------------------------------------------------------------------------
(* The measurements of the handover engine, in one place of the report *)

EngineOffset == 3
EngineSamples == 4

(* Mutant: the new measurement has the weight of the old level. *)
FilterSwapped(prev, current, coefficient) ==
  LET k == IF coefficient < 0 THEN 0 ELSE IF coefficient > 19 THEN 19 ELSE coefficient
      a == Quotient(1, 2^(k \div 4))
  IN  Plus(Times(a, prev), Times(Minus(Whole(1), a), current))

ho_l3_filter(prev, current, coefficient) ==
  LET k == IF coefficient < 0 THEN 0 ELSE IF coefficient > 19 THEN 19 ELSE coefficient
      a == Quotient(1, 2^(k \div 4))
  IN  Plus(Times(Minus(Whole(1), a), prev), Times(a, current))

ho_evaluate_event(event, serving, neighbour) ==
  CASE event = "A1" -> Below(Whole(-117), serving)
    [] event = "A2" -> Below(serving, Whole(-120))
    [] event = "A3" -> Below(Plus(serving, Whole(EngineOffset)), neighbour)
    [] event \in {"A4", "B1"} -> Below(Whole(-105), neighbour)
    [] event \in {"A5", "B2"} -> Below(serving, Whole(-115)) /\ Below(Whole(-105), neighbour)

(* Levels of serving cell and neighbour are filtered from 0 dBm, that of the
   neighbour only in reports that detect it. *)
Measured(e, serving, detected, level) ==
  LET sr == ho_l3_filter(e.serving, Whole(serving), e.coefficient)
      nr == ho_l3_filter(e.neighbour, Whole(level), e.coefficient)
      count == IF ho_evaluate_event("A3", sr, nr) THEN e.count + 1 ELSE 0
  IN  IF ~detected THEN [e EXCEPT !.serving = sr, !.triggered = FALSE]
      ELSE [e EXCEPT !.serving = sr, !.neighbour = nr, !.count = count, !.seen = @ + 1,
                     !.triggered = count >= EngineSamples]

(* Rates in thousandths, offsets in tenths of a dB. *)
ho_optimize_a3_offset(offset, pingPong, rlf, target) ==
  IF pingPong > target THEN offset + 5
  ELSE IF rlf > 20 /\ 2 * pingPong < target THEN offset - 5 ELSE offset

ho_mro_optimize(cfg, early, late, pingPong) ==
  IF early > 50 \/ pingPong > 20 THEN [offset |-> cfg.offset + 10, ttt |-> cfg.ttt + 40]
  ELSE IF late > 20 THEN [offset |-> AtLeast(cfg.offset - 5, -30), ttt |-> AtLeast(cfg.ttt - 40, 40)]
  ELSE cfg

-----------------------------------------------------------------------------
(* What a cell and a user do *)

CrdInit == crd = [step |-> "start"]

(* A user at a distance, in sight or not *)
Stand == \E d \in CrdDistances, f \in {900, 1800, 3500}, hb \in {250, 300}, target \in {-500, 1000} :
  /\ crd.step = "start"
  /\ LET e == d + (hb - 15) \div 10
         hata == [urban |-> hata_urban_macro_db(f, d, hb, 15), suburban |-> hata_suburban_db(f, d, hb, 15),
                  rural |-> hata_rural_db(f, d, hb, 15), cost |-> cost231_hata_db(f, d, hb, 15, 0)]
         city == [uma |-> <<tr38901_uma_los_db(d, e, f, hb, 15), tr38901_uma_nlos_db(d, e, f, hb, 15)>>,
                  umi |-> <<tr38901_umi_los_db(d, e, f, hb, 15), tr38901_umi_nlos_db(d, e, f, hb, 15)>>]
     IN  crd' = [step |-> "linked", d |-> d, f |-> f, hb |-> hb, target |-> target, hata |-> hata, city |-> city,
                 free |-> fspl_db(d, f), straight |-> log_distance_pl_db(d, 1000, fspl_db(1000, f), 20),
                 budget |-> compute_downlink_budget(4300, 1500, 200, 0, 500, 20000000, target, fspl_db(d, f)),
                 indoors |-> compute_link_budget_with_margin(4300, 1500, 200, 0, 500, 20000000, target, fspl_db(d, f), 800, 2000)]

PlanRange == \E most \in CrdBudgets, city \in {0, 300} :
  /\ crd.step = "start"
  /\ crd' = [step |-> "range", most |-> most, city |-> city,
             hata |-> estimate_cell_range_km(most, 900, 300, 15),
             cost |-> estimate_cell_range_cost231_km(most, 1800, 300, 15, city),
             plan |-> plan_coverage([tx |-> 4300, txGain |-> 1500, rxGain |-> 0, hz |-> 20000000, nf |-> 700, target |-> 0,
                                     sigma |-> 800, walls |-> most, f |-> 900, hb |-> 300, hm |-> 15, area |-> 10000])]

Adapt == \E x \in CrdSinrs :
  crd.step = "start" /\ crd' = [step |-> "adapted", sinr |-> x, cqi |-> sinr_to_cqi(x), mcs |-> amc_select_mcs(x)]

Pusch(loss, correction) ==
  nr_pusch_power_dbm([p0 |-> -9000, num_rbs |-> 10, alpha |-> 80, delta_mcs |-> 0, correction |-> correction,
                      p_max |-> 2300], loss, 0)

Enter == \E loss \in CrdLosses :
  /\ crd.step = "start"
  /\ crd' = [step |-> "controlled", loss |-> loss, f |-> 0, power |-> Pusch(loss, 0), commands |-> <<>>]

Command == \E c \in -1 .. 4 :
  /\ crd.step = "controlled" /\ Len(crd.commands) < CrdCommands
  /\ LET f == nr_clpc_accumulate(crd.f, c)
     IN  crd' = [crd EXCEPT !.f = f, !.power = Pusch(crd.loss, f), !.commands = Append(@, c)]

Weigh == \E a, b \in CrdLosses :
  /\ crd.step = "start"
  /\ crd' = [step |-> "weighed", losses |-> <<a, b>>, alpha |-> fpc_optimal_alpha(<<a, b>>, -10000, 2300)]

Fill == \E gains \in CrdGains, total \in CrdPowers, noise \in {Whole(1), Quotient(1, 2)} :
  /\ crd.step = "start"
  /\ crd' = [step |-> "filled", gains |-> gains, total |-> total, noise |-> noise,
             powers |-> dl_waterfill_power(gains, total, noise),
             reused |-> icic_soft_frequency_reuse(Len(gains), 2, dl_epre_rs_dbm(4000, Len(gains)), dl_epre_rs_dbm(4300, 2))]

Watch == \E serving, level \in CrdLevels, k \in CrdFilters :
  /\ crd.step = "start"
  /\ crd' = [step |-> "watching", levels |-> <<serving, level>>, reports |-> 0,
             engine |-> [coefficient |-> k, serving |-> Whole(0), neighbour |-> Whole(0), count |-> 0, seen |-> 0,
                         triggered |-> FALSE]]

ReceiveReport == \E detected \in BOOLEAN :
  /\ crd.step = "watching" /\ crd.reports < CrdReports
  /\ crd' = [crd EXCEPT !.reports = @ + 1, !.engine = Measured(@, crd.levels[1], detected, crd.levels[2])]

(* The edge of a cell in a reuse pattern, and interferers one by one *)
Reuse == \E n \in {1, 3, 4, 7}, tenths \in {20, 35, 40}, noise \in {-10000, -9000}, k \in 1 .. 6 :
  /\ crd.step = "start"
  /\ LET powers(m) == [i \in 1 .. m |-> rx_power_dbm(4300, 1500, 0, 13000 + 500 * i, 200, 1000)]
     IN  crd' = [step |-> "reused", n |-> n, sir |-> freq_reuse_worst_sir_db(n, tenths, k), noise |-> noise,
                 edge |-> cell_edge_sinr_db(n, tenths, k, noise, -8000),
                 closer |-> cell_edge_sinr_db(n, tenths, k + 1, noise, -8000),
                 strongest |-> powers(k)[1], sum |-> total_interference_dbm(powers(k)), more |-> total_interference_dbm(powers(k + 1))]

Tune == crd.step = "start" /\ crd' = [step |-> "tuned", cfg |-> [offset |-> 30, ttt |-> 40], offset |-> 30, rounds |-> 0]

Optimize == \E early, late, pingPong \in {0, 30, 60} :
  /\ crd.step = "tuned" /\ crd.rounds < CrdReports
  /\ crd' = [crd EXCEPT !.rounds = @ + 1, !.cfg = ho_mro_optimize(@, early, late, pingPong),
                        !.offset = ho_optimize_a3_offset(@, pingPong, late, 20)]

CrdNext == Stand \/ PlanRange \/ Adapt \/ Enter \/ Command \/ Weigh \/ Fill \/ Watch \/ ReceiveReport \/ Reuse \/ Tune \/ Optimize

CrdSpec == CrdInit /\ [][CrdNext]_crd

-----------------------------------------------------------------------------
(* Properties *)

(* Near as the rounding of the fixed point allows. *)
Close(x, y, gap) == x - y \in -gap .. gap

(* Obstacles cost, each formula answers just where it applies, a link is viable
   if the level at the receiver stands more than the target above noise, and
   what is viable behind walls is so in front of them. *)
LinksConsistent ==
  crd.step = "linked" =>
    LET h == crd.hata
        b == crd.budget
    IN  /\ h.urban >= 0 <=> crd.f = 900 /\ crd.hb = 300 /\ crd.d \in 1000 .. 20000
        /\ h.cost >= 0 <=> crd.f = 1800 /\ crd.hb = 300 /\ crd.d \in 1000 .. 20000
        /\ h.urban >= 0 => h.urban > h.suburban /\ h.suburban > h.rural /\ h.rural > crd.free
        /\ \A m \in {"uma", "umi"} : /\ crd.city[m][1] <= crd.city[m][2]
                                     /\ crd.city[m][1] >= 0 <=> crd.d \in 10 .. 5000
        /\ crd.d > 0 => Close(crd.free, crd.straight, 5)
        /\ Close(b.margin, b.sinr - crd.target, 5) /\ (b.is_viable <=> b.rx > b.sensitivity)
        /\ crd.indoors.margin = b.margin - 2800 /\ (crd.indoors.is_viable => b.is_viable)

(* The range of COST 231 is the last metre within the allowed loss, or an end
   of what the formula knows.  That of Hata is always the far end of the
   interval, where the formula does not apply and the loss counts as small;
   the number of cells that is planned from it covers the area. *)
RangeMeetsLoss ==
  crd.step = "range" =>
    LET loss(d) == cost231_hata_db(1800, d, 300, 15, crd.city)
        r == crd.cost
    IN  /\ crd.most <= 0 => r = 0 /\ crd.hata = 0
        /\ crd.most > 0 =>
             /\ r \in 999 .. 19999 /\ crd.hata = 49999
             /\ r > 999 => loss(r) < crd.most
             /\ r < 19999 => loss(r + 1) >= crd.most
        /\ crd.plan.is_feasible =>
             ((2598 * (crd.plan.radius \div 100) * (crd.plan.radius \div 100)) \div 1000) * crd.plan.num_cells >= 100 * 10000

(* The edge of a cell is worse off than interference or noise alone would
   make it, and a further interferer makes it no better; what interferers add
   up to lies above the strongest, by 10 log10 of their number at most. *)
InterferenceAdds ==
  crd.step = "reused" =>
    /\ crd.edge <= crd.sir + 5 /\ crd.edge <= -8000 - crd.noise + 5 /\ crd.closer <= crd.edge
    /\ crd.strongest <= crd.sum /\ crd.sum <= crd.more /\ crd.sum <= crd.strongest + 778

(* A rate that is reported is one the channel can carry by Shannon's bound,
   the highest whose threshold is met; levels asked for a number of bits
   carry it. *)
RateAchievable ==
  crd.step = "adapted" =>
    /\ crd.cqi > 0 =>
         /\ cqi_sinr_threshold_db(crd.cqi) <= crd.sinr
         /\ 4096 * cqi_to_efficiency(crd.cqi) <= 10000 * spectral_efficiency_bps_per_hz(crd.sinr)
         /\ crd.mcs = crd.cqi
    /\ crd.cqi < 15 => cqi_sinr_threshold_db(crd.cqi + 1) > crd.sinr
    /\ \A bits \in 1 .. 8 : Close(spectral_efficiency_bps_per_hz(min_sinr_for_efficiency_db(bits)), 4096 * bits, 60)

(* The power is never above the limit.  Commands count at the limit too: the
   power leaves it only when as much was taken back as was given beyond it. *)
PowerLimited ==
  crd.step = "controlled" =>
    LET given == FoldLeft(LAMBDA f, c : f + CASE c = 0 -> -100 [] c = 2 -> 100 [] c = 3 -> 300 [] OTHER -> 0, 0, crd.commands)
        open == Db(10) - 9000 + (80 * crd.loss) \div 100
    IN  /\ nr_power_headroom_db(2300, crd.power) >= 0
        /\ crd.power < 2300 => crd.power = open + given
        /\ ~nr_is_power_limited(nr_power_headroom_db(2300, crd.power), 1) <=> open + given < 2300

(* The compensation of path loss is as full as it can be, unless a user is
   given up: one below -40 dB counts like one at 0 dB. *)
NoneGivenUp ==
  crd.step = "weighed" =>
    \/ crd.alpha = 95
    \/ \E i \in DOMAIN crd.losses : UserLevel(crd.losses[i], -10000, 2300, crd.alpha) <= -4000

(* All of the power is spent, the used blocks reach the same level, and those
   left dry lie above it; the quiet blocks of a cell are its first. *)
WaterLevelled ==
  crd.step = "filled" =>
    LET p == crd.powers
        floor(i) == Over(crd.noise, Whole(crd.gains[i]))
        used == {i \in DOMAIN p : p[i][1] > 0}
    IN  /\ Total(p) = crd.total
        /\ \A i, j \in used : Plus(p[i], floor(i)) = Plus(p[j], floor(j))
        /\ \A i \in used, j \in DOMAIN p \ used : AtMost(Plus(p[i], floor(i)), floor(j))
        /\ Len(crd.reused) = Len(p) + 2

(* A neighbour that is new is filtered from 0 dBm, far above any signal, and
   looks better than it is.  What that adds fades with each
   report, so that after the samples of the time to trigger the engine hands
   over only to a neighbour that is better by the offset once the rest of it,
   (1 - a)^4 of the level, is taken off. *)
OverestimateFades ==
  crd.step = "watching" =>
    LET e == crd.engine
        left == Minus(Whole(1), Quotient(1, 2^(e.coefficient \div 4)))
        rest[n \in Nat] == IF n = 0 THEN Whole(1) ELSE Times(left, rest[n - 1])
        reached(level, n) == Times(Whole(level), Minus(Whole(1), rest[n]))
    IN  /\ e.neighbour = reached(crd.levels[2], e.seen) /\ e.serving = reached(crd.levels[1], crd.reports)
        /\ e.triggered => Below(Whole(crd.levels[1] + EngineOffset), reached(crd.levels[2], EngineSamples))
        /\ ~(ho_evaluate_event("A1", e.serving, e.neighbour) /\ ho_evaluate_event("A2", e.serving, e.neighbour))
        /\ ho_evaluate_event("A5", e.serving, e.neighbour) => ho_evaluate_event("A4", e.serving, e.neighbour)

(* However the rates of failures alternate, a long time to trigger comes with
   an offset, and neither falls below its least value. *)
TuningBounded ==
  crd.step = "tuned" =>
    /\ crd.cfg.offset >= -30 /\ crd.cfg.ttt >= 40
    /\ crd.cfg.ttt - 40 <= 4 * (crd.cfg.offset + 30)

CellRadioSound ==
  /\ LinksConsistent /\ RangeMeetsLoss /\ InterferenceAdds /\ RateAchievable /\ PowerLimited
  /\ NoneGivenUp /\ WaterLevelled /\ OverestimateFades /\ TuningBounded

-----------------------------------------------------------------------------
(***************************************************************************)
(* The users of a cell and its resource blocks in mini-cellular-network:    *)
(* the table of the scheduler, round robin, Max C/I and Jain's index        *)
(* (src/cell_network_scheduler.c), and the example programs, examples/*.c.  *)
(* CellScheduler has proportional fairness over time.                       *)
(*                                                                          *)
(* Rates are 10^4 times those of a block of 1 Hz.                           *)
(***************************************************************************)

CONSTANTS
  CrsIds,     \* of users
  CrsLevels,  \* their levels over noise and interference
  CrsPlaces,  \* MAX_UE_PER_GNB
  CrsRbs,     \* resource blocks
  CrsEvents   \* bound on calls

ASSUME ResourcesAssumption ==
  /\ CrsIds \subseteq Nat /\ CrsPlaces \in Nat \ {0} /\ CrsRbs \in Nat \ {0} /\ CrsEvents \in Nat

VARIABLE crs

-----------------------------------------------------------------------------
(* The table; the first entry of an id counts. *)

User(id, sinr) == [id |-> id, sinr |-> sinr, cqi |-> sinr_to_cqi(sinr)]
Entries(ues, id) == {i \in DOMAIN ues : ues[i].id = id}

sched_add_ue(ues, id, sinr) == IF Len(ues) >= CrsPlaces THEN ues ELSE Append(ues, User(id, sinr))

sched_update_sinr(ues, id, sinr) ==
  IF Entries(ues, id) = {} THEN ues ELSE [ues EXCEPT ![Min(Entries(ues, id))] = User(id, sinr)]

(* Mutant: the last user is cut off without taking the place of the first. *)
LastCut(ues, id) == IF Entries(ues, id) = {} THEN ues ELSE SubSeq(ues, 1, Len(ues) - 1)

(* The last user takes the place that becomes free. *)
sched_remove_ue(ues, id) ==
  IF Entries(ues, id) = {} THEN ues
  ELSE SubSeq([ues EXCEPT ![Min(Entries(ues, id))] = ues[Len(ues)]], 1, Len(ues) - 1)

-----------------------------------------------------------------------------
(* Allocations: id, blocks and rate of those who get some *)

Blocks(ue, rbs) == [id |-> ue.id, rbs |-> rbs, rate |-> cqi_to_efficiency(ue.cqi) * rbs]

(* Mutant: the blocks that are left over go to nobody. *)
RestLost(ues, rbs) == [i \in DOMAIN ues |-> Blocks(ues[i], rbs \div Len(ues))]

sched_round_robin(ues, rbs) ==
  [i \in DOMAIN ues |-> Blocks(ues[i], (rbs \div Len(ues)) + IF i <= rbs % Len(ues) THEN 1 ELSE 0)]

(* The first user of the highest level takes every block. *)
sched_max_ci(ues, rbs) ==
  IF ues = <<>> THEN <<>>
  ELSE LET best == CHOOSE i \in DOMAIN ues : \A j \in DOMAIN ues :
                     ues[j].sinr < ues[i].sinr \/ (ues[j].sinr = ues[i].sinr /\ i <= j)
       IN  <<Blocks(ues[best], rbs)>>

(* In the first interval all averages are 1 Mbit/s, and the first user of the
   highest efficiency takes every block of proportional fairness. *)
FirstInterval(ues, rbs) ==
  LET best == CHOOSE i \in DOMAIN ues : \A j \in DOMAIN ues :
                ues[j].cqi < ues[i].cqi \/ (ues[j].cqi = ues[i].cqi /\ i <= j)
  IN  <<Blocks(ues[best], rbs)>>

sched_jain_fairness(rates) ==
  LET sum == FoldLeft(+, 0, rates)
      squares == FoldLeft(LAMBDA s, x : s + x * x, 0, rates)
  IN  IF squares <= 0 THEN Whole(0) ELSE Over(Quotient(sum, squares), Quotient(Len(rates), sum))

Rates(granted) == [i \in DOMAIN granted |-> granted[i].rate]

-----------------------------------------------------------------------------
(* The examples *)

(* example_scheduler.c; rates in thousands, for the index *)
Levels8 == <<2000, 1800, 1200, 500, 300, -200, -500, -800>>
Compared ==
  LET ues == [i \in 1 .. 8 |-> User(i - 1, Levels8[i])]
      thousands(granted) == [i \in DOMAIN granted |-> granted[i].rate \div 1000]
      judged(granted) == [granted |-> granted, total |-> FoldLeft(+, 0, Rates(granted)),
                          jain |-> sched_jain_fairness(thousands(granted))]
  IN  [rr |-> judged(sched_round_robin(ues, 100)), ci |-> judged(sched_max_ci(ues, 100)), pf |-> judged(FirstInterval(ues, 100))]

(* example_cell_planning.c: no parameters are given to the sites, so each of
   the group is received at 0 dBm; 2140 MHz is beyond Hata. *)
Planned(n) ==
  LET sites == hex_filled_grid([q |-> 0, r |-> 0], 3, 64)
      groups == freq_reuse_assign_groups(sites, n)
      count == Cardinality(compute_cochannel_interference_dbm(groups, 1))
      interference == IF count = 0 THEN -20000 ELSE Db(count)
      rx == rx_power_dbm(4300, 1500, 0, hata_urban_macro_db(2140, 500, 300, 15), 200, 1000)
  IN  [n |-> n, count |-> count, worst |-> freq_reuse_worst_sir_db(n, 35, 6),
       sinr |-> sinr_db(rx, interference, noise_floor_dbm(20000000, 500))]

(* example_link_budget.c: 3500 MHz is beyond Hata as well. *)
Budgeted(target) ==
  LET most == 5600 - (noise_floor_dbm(100000000, 700) + target) - 800
      cqi == sinr_to_cqi(target)
  IN  [target |-> target, most |-> most, range |-> estimate_cell_range_km(most, 3500, 300, 15),
       rate |-> cqi_to_data_rate_mbps(cqi, 100)]

-----------------------------------------------------------------------------
CrsInit == crs = [step |-> "start"]

Serve == crs.step = "start" /\ crs' = [step |-> "serving", ues |-> <<>>, present |-> [id \in CrsIds |-> 0], calls |-> 0]

Calls == crs.step = "serving" /\ crs.calls < CrsEvents

Join == \E id \in CrsIds, sinr \in CrsLevels :
  /\ Calls
  /\ crs' = [crs EXCEPT !.ues = sched_add_ue(@, id, sinr), !.calls = @ + 1,
                        !.present[id] = IF Len(crs.ues) < CrsPlaces THEN @ + 1 ELSE @]

SignalChanges == \E id \in CrsIds, sinr \in CrsLevels :
  Calls /\ crs' = [crs EXCEPT !.ues = sched_update_sinr(@, id, sinr), !.calls = @ + 1]

Leave == \E id \in CrsIds :
  /\ Calls
  /\ crs' = [crs EXCEPT !.ues = sched_remove_ue(@, id), !.calls = @ + 1, !.present[id] = IF @ > 0 THEN @ - 1 ELSE @]

CompareSchedulers == crs.step = "start" /\ \E c \in {Compared} : crs' = [step |-> "compared", result |-> c]
PlanCells == crs.step = "start" /\ \E n \in {1, 3, 4, 7} : \E p \in {Planned(n)} : crs' = [step |-> "planned", result |-> p]
BudgetLink == crs.step = "start" /\ \E t \in {-500, 0, 500, 1000, 1500, 2000} : crs' = [step |-> "budgeted", result |-> Budgeted(t)]

CrsNext == Serve \/ Join \/ SignalChanges \/ Leave \/ CompareSchedulers \/ PlanCells \/ BudgetLink

CrsSpec == CrsInit /\ [][CrsNext]_crs

-----------------------------------------------------------------------------
(* Properties *)

(* However users come, fade and leave, the table holds an entry for each that
   came and did not leave, with the quality of its level. *)
UsersKept ==
  crs.step = "serving" =>
    /\ \A id \in CrsIds : Cardinality(Entries(crs.ues, id)) = crs.present[id]
    /\ \A i \in DOMAIN crs.ues : crs.ues[i].cqi = sinr_to_cqi(crs.ues[i].sinr)
    /\ Len(crs.ues) <= CrsPlaces

(* Every block is given out: by round robin in shares that differ by one at
   most, by Max C/I to one user, which gives the cell the higher rate.  Jain's
   index lies between the share of one user and 1. *)
BlocksGiven ==
  crs.step = "serving" /\ crs.ues # <<>> =>
    LET rr == sched_round_robin(crs.ues, CrsRbs)
        ci == sched_max_ci(crs.ues, CrsRbs)
        jain == sched_jain_fairness([i \in DOMAIN rr |-> rr[i].rbs])
    IN  /\ FoldLeft(LAMBDA s, g : s + g.rbs, 0, rr) = CrsRbs
        /\ \A i, j \in DOMAIN rr : rr[i].rbs - rr[j].rbs <= 1
        /\ Len(ci) = 1 /\ ci[1].rbs = CrsRbs /\ ci[1].rate >= FoldLeft(+, 0, Rates(rr))
        /\ AtMost(Quotient(1, Len(rr)), jain) /\ AtMost(jain, Whole(1))
        /\ CrsRbs % Len(rr) = 0 => jain = Whole(1)

(* In the example Max C/I and, in its one interval, proportional fairness serve
   the same single user, so that both have the index 1 and round robin less. *)
ExamplesAsRun ==
  /\ crs.step = "compared" =>
       /\ crs.result.ci = crs.result.pf /\ crs.result.ci.jain = Whole(1)
       /\ Below(crs.result.rr.jain, Whole(1)) /\ crs.result.rr.total < crs.result.ci.total
  /\ crs.step = "planned" =>
       /\ crs.result.count < 37 /\ (crs.result.n = 1 <=> crs.result.count = 36)
       /\ crs.result.worst > freq_reuse_worst_sir_db(1, 35, 6) - 1
  /\ crs.step = "budgeted" => crs.result.range = 49999 /\ crs.result.rate > 0

ResourcesSound == UsersKept /\ BlocksGiven /\ ExamplesAsRun
=============================================================================
