---------------------------- MODULE MobilityDemos ---------------------------
(***************************************************************************)
(* How mini-handover-mobility gets and follows the level of a cell,         *)
(* src/signal_measurement.c, and tunes hysteresis and time to trigger to    *)
(* how it varies, src/handover_optimize.c.                                  *)
(*                                                                          *)
(* Levels are hundredths of a dB, shares and probabilities thousandths; the *)
(* Kalman filter works on fractions.  What _meas_gaussian draws is an       *)
(* argument.  exp(-y) is 10^(-y / ln 10), the power that is 434 y           *)
(* hundredths of a dB below 1.                                              *)
(*                                                                          *)
(* The second part has the example programs, which call the library.        *)
(***************************************************************************)
EXTENDS Exact, NetworkSelection, UserMobility

CONSTANTS
  SgtLevels,   \* received levels, in whole dB
  SgtNoises,   \* pairs of the variance of the process and of the measurement
  SgtFilters,  \* coefficients of the layer 3 filter
  SgtSamples,  \* bound on samples in a row
  SgtWeights   \* weights of radio link failures, in percent

ASSUME TrackingAssumption == SgtSamples \in Nat /\ SgtLevels \subseteq Int

VARIABLE sgt

-----------------------------------------------------------------------------
(* Measurements *)

meas_compute_rssi(tx, txGain, rxGain, loss, shadow, body, penetration) ==
  tx + txGain + rxGain - loss + shadow - body - penetration

(* For a bandwidth of n subcarriers, of which the reference signal has 1 / r
   of the power; the noise of a subcarrier of 15 kHz is added. *)
meas_compute_rsrp(rssi, n, r, noiseFigure) ==
  IF n < 1 THEN -20000
  ELSE PowerSum(rssi - Db(n) - Db(r), -17400 + Db(15000) + noiseFigure)

meas_compute_rsrq(rsrp, rssi, n) ==
  IF n <= 0 THEN -3000
  ELSE LET q == rsrp - rssi + Db(n)
       IN  IF q > -300 THEN -300 ELSE IF q < -1950 THEN -1950 ELSE q

meas_compute_sinr(signal, interference, bandwidth, noiseFigure) ==
  LET ratio == signal - PowerSum(interference, -17400 + Db(bandwidth) + noiseFigure)
  IN  IF ratio < -20000 THEN -4000 ELSE ratio

-----------------------------------------------------------------------------
(* Following a level *)

(* The correlation of the next value with the one before, and what is drawn
   for it, scaled by sqrt(1 - rho^2) of the deviation. *)
meas_shadow_fading_generate(before, rho, drawn) == ((rho * before) \div 1000) + drawn

(* Mutant: the new sample has the weight of the old value. *)
WeightsSwapped(before, new, k0) ==
  LET k == IF k0 < 0 THEN 0 ELSE IF k0 > 19 THEN 19 ELSE k0
      a == <<10000, 8409, 7071, 5946>>[(k % 4) + 1] \div 2^(k \div 4)
  IN  new + ((a * (before - new)) \div 10000)

(* The new sample has the weight 1 / 2^(k / 4), in ten-thousandths. *)
meas_l3_filter(before, new, k0) ==
  LET k == IF k0 < 0 THEN 0 ELSE IF k0 > 19 THEN 19 ELSE k0
      a == <<10000, 8409, 7071, 5946>>[(k % 4) + 1] \div 2^(k \div 4)
  IN  before + ((a * (new - before)) \div 10000)

(* A level and its rate of change, and their covariance: a step of time, and
   the correction by a measurement, with gains for level and rate. *)
Ahead(f, dt, q) ==
  [level |-> Plus(f.level, Times(Whole(dt), f.rate)), rate |-> f.rate,
   p11 |-> Plus(Plus(f.p11, Times(Whole(2 * dt), f.p12)), Plus(Times(Whole(dt * dt), f.p22), Whole(q))),
   p12 |-> Plus(f.p12, Times(Whole(dt), f.p22)), p22 |-> Plus(f.p22, Whole(q))]
Fused(a, k1, k2, y) ==
  [level |-> Plus(a.level, Times(k1, y)), rate |-> Plus(a.rate, Times(k2, y)),
   p11 |-> Times(Minus(Whole(1), k1), a.p11), p12 |-> Times(Minus(Whole(1), k1), a.p12),
   p22 |-> Minus(a.p22, Times(k2, a.p12))]
Gains(a, total) == <<Over(a.p11, total), Over(a.p12, total)>>
GainsOf(a, r) == Gains(a, Plus(a.p11, Whole(r)))
CorrectedBy(a, k, measured) == Fused(a, k[1], k[2], Minus(Whole(measured), a.level))
FilteredFrom(a, measured, r) == CorrectedBy(a, GainsOf(a, r), measured)

(* Mutant: the covariance of level and rate is not reduced. *)
CovarianceKept(f, measured, dt, q, r) ==
  [FilteredFrom(Ahead(f, dt, q), measured, r) EXCEPT !.p12 = Ahead(f, dt, q).p12]

meas_kalman_filter_rsrp(f, measured, dt, q, r) == FilteredFrom(Ahead(f, dt, q), measured, r)

-----------------------------------------------------------------------------
(* Tuning *)

(* exp(-num / den) *)
Exp(num, den) == Linear(-((434 * num) \div den))

(* The approximation of the share beyond x, for x in thousandths: it rises
   from 418 to 500. *)
Beyond(x) ==
  LET t == 1000000 \div (1000 + ((333 * x) \div 1000))
      poly == (174 * t) - ((((48 * t) \div 1000) * t)) + (((((37 * t) \div 1000) * t) \div 1000) * t)
  IN  (1000 - (((poly \div 1000) * Exp((x * x) \div 1000, 2000)) \div 1000)) \div 2

(* In tenths of a dB, with the weights as shares of 100: the first of the
   cheapest hystereses, where failures cost by the share beyond it and a
   ping-pong by exp(-h^2 / 2 s^2). *)
ho_optimize_hysteresis(deviation, rlf, least, most, step) ==
  LET s == IF deviation <= 0 THEN 4 ELSE deviation
      steps == 0 .. ((most - least) \div step)
      cost(i) == LET h == least + i * step
                 IN  rlf * (IF h > 0 THEN Beyond((h * 1000) \div (s * 14)) ELSE 500) + (100 - rlf) * Exp(h * h, 200 * s * s)
  IN  least + step * (CHOOSE i \in steps : \A j \in steps : cost(i) < cost(j) \/ (cost(i) = cost(j) /\ i <= j))

(* Mutant: the time grows with the speed. *)
SlowerForSlow(speed, deviation, distance, safety) ==
  LET ms == ((safety * Beyond(3000 \div deviation) * distance) \div Exp(45, 10 * deviation * deviation)) * speed
  IN  IF ms < 40 THEN 40 ELSE IF ms > 5120 THEN 5120 ELSE ms

(* The mean duration of a fade of 3 dB, for speeds of whole m/s; the time is
   kept between 40 and 5120 ms. *)
ho_optimize_ttt(speed, deviation, distance, safety0) ==
  LET safety == IF safety0 < 1 THEN 1 ELSE IF safety0 > 10 THEN 10 ELSE safety0
      metres == IF distance < 1 THEN 1 ELSE distance
      ms == safety * ((Beyond(3000 \div deviation) * 6283 * metres) \div (speed * Exp(45, 10 * deviation * deviation)))
  IN  IF ms < 40 THEN 40 ELSE IF ms > 5120 THEN 5120 ELSE ms

-----------------------------------------------------------------------------
(* A user that measures *)

SgtInit == sgt = [step |-> "start"]

SgtMeasure == \E shadow, other \in {-1000, 0, 3000}, n \in {0, 6, 100}, r \in {1, 10}, loss \in {9000, 15000} :
  /\ sgt.step = "start"
  /\ LET rssi == meas_compute_rssi(4300, 1500, 0, loss, shadow, 300, 0)
         rsrp == meas_compute_rsrp(rssi, 12 * n, r, 700)
     IN  sgt' = [step |-> "measured", n |-> n, rssi |-> rssi, rsrp |-> rsrp,
                 rsrq |-> meas_compute_rsrq(rsrp, rssi, n),
                 sinr |-> meas_compute_sinr(rsrp, other - 14000, 15000, 700),
                 quiet |-> meas_compute_sinr(rsrp, other - 14600, 15000, 700)]

SgtFollow == \E level \in SgtLevels, k \in SgtFilters :
  /\ sgt.step = "start"
  /\ sgt' = [step |-> "filtering", k |-> k, samples |-> <<level>>, level |-> 100 * level]

SgtFilter == \E level \in SgtLevels :
  /\ sgt.step = "filtering" /\ Len(sgt.samples) < SgtSamples
  /\ sgt' = [sgt EXCEPT !.samples = Append(@, level), !.level = meas_l3_filter(@, 100 * level, sgt.k)]

SgtStart == \E level \in SgtLevels, noise \in SgtNoises :
  /\ sgt.step = "start"
  /\ sgt' = [step |-> "kalman", noise |-> noise, samples |-> <<level>>, predicted |-> Whole(level),
             f |-> [level |-> Whole(level), rate |-> Whole(0), p11 |-> Whole(1), p12 |-> Whole(0), p22 |-> Whole(1)]]

SgtKalman == \E level \in SgtLevels :
  /\ sgt.step = "kalman" /\ Len(sgt.samples) < SgtSamples
  /\ sgt' = [sgt EXCEPT !.samples = Append(@, level), !.predicted = Plus(sgt.f.level, sgt.f.rate),
                        !.f = meas_kalman_filter_rsrp(@, level, 1, sgt.noise[1], sgt.noise[2])]

SgtShade == \E rho \in {0, 500, 900}, drawn \in {-400, 0, 400} :
  /\ \/ sgt.step = "start"
     \/ sgt.step = "shaded" /\ sgt.rho = rho /\ sgt.count < SgtSamples
  /\ sgt' = [step |-> "shaded", rho |-> rho, count |-> IF sgt.step = "start" THEN 1 ELSE sgt.count + 1,
             shadow |-> meas_shadow_fading_generate(IF sgt.step = "start" THEN 0 ELSE sgt.shadow, rho, drawn)]

SgtTune == \E rlf \in SgtWeights, deviation \in {4, 8}, speed \in {1, 3, 30, 100}, safety \in {0, 1, 3} :
  /\ sgt.step = "start"
  /\ sgt' = [step |-> "tuned", rlf |-> rlf,
             hysteresis |-> ho_optimize_hysteresis(deviation, rlf, 5, 100, 5),
             cautious |-> ho_optimize_hysteresis(deviation, rlf \div 2, 5, 100, 5),
             ttt |-> ho_optimize_ttt(speed, deviation, 50, safety),
             faster |-> ho_optimize_ttt(2 * speed, deviation, 50, safety)]

SgtNext == SgtMeasure \/ SgtFollow \/ SgtFilter \/ SgtStart \/ SgtKalman \/ SgtShade \/ SgtTune

SgtSpec == SgtInit /\ [][SgtNext]_sgt

-----------------------------------------------------------------------------
(* Properties *)

(* The level of a cell never reads below the noise of a subcarrier, the
   quality stays on its scale, and less interference never reads worse, by
   more than rounding, but for ratios that are not answered. *)
MeasuresOnScale ==
  sgt.step = "measured" =>
    /\ IF sgt.n = 0 THEN sgt.rsrp = -20000 /\ sgt.rsrq = -3000
       ELSE sgt.rsrp >= -13226 + 700 /\ sgt.rsrq \in -1950 .. -300
    /\ sgt.sinr <= sgt.quiet + 4 /\ sgt.sinr <= sgt.rsrp + 13226 - 700

(* What is followed stays between the lowest and the highest sample, and with
   coefficient 0 is the last one. *)
FilterBetween ==
  sgt.step = "filtering" =>
    LET s == sgt.samples
    IN  /\ \E i, j \in DOMAIN s : sgt.level >= 100 * s[i] - 1 /\ sgt.level <= 100 * s[j]
        /\ sgt.k <= 0 => sgt.level = 100 * s[Len(s)]

(* The covariance stays one: no negative variance, and no more correlation
   than variances allow; the variance of the level is below that of a
   measurement, and the level lies between prediction and measurement. *)
KalmanConsistent ==
  sgt.step = "kalman" /\ Len(sgt.samples) > 1 =>
    LET f == sgt.f
        new == Whole(sgt.samples[Len(sgt.samples)])
    IN  /\ f.p11[1] >= 0 /\ f.p22[1] >= 0
        /\ AtMost(Times(f.p12, f.p12), Times(f.p11, f.p22))
        /\ AtMost(f.p11, Whole(sgt.noise[2]))
        /\ \/ AtMost(sgt.predicted, f.level) /\ AtMost(f.level, new)
           \/ AtMost(new, f.level) /\ AtMost(f.level, sgt.predicted)

(* Shadowing never grows beyond what a geometric sum of the draws allows. *)
ShadowBounded == sgt.step = "shaded" => Size(sgt.shadow) * (1000 - sgt.rho) <= 400 * 1000 + 1000

(* A smaller weight of failures never asks for less hysteresis, and a faster
   user for no longer time to trigger. *)
TunedAsAsked ==
  sgt.step = "tuned" =>
    /\ sgt.hysteresis \in 5 .. 100 /\ sgt.cautious >= sgt.hysteresis
    /\ sgt.ttt \in 40 .. 5120 /\ sgt.faster <= sgt.ttt

TrackingSound == MeasuresOnScale /\ FilterBetween /\ KalmanConsistent /\ ShadowBounded /\ TunedAsAsked

-----------------------------------------------------------------------------
(***************************************************************************)
(* The example programs of mini-handover-mobility, examples/*.c: a user that *)
(* drives from one LTE cell to another and hands over on event A3, a Wi-Fi  *)
(* station that walks past three access points and roams with 802.11r, and  *)
(* the choice between LTE, 5G NR and Wi-Fi.  They call the library, which   *)
(* the modules extended here and PathLoss model.                            *)
(*                                                                          *)
(* Levels are hundredths of a dB.  The LTE example measures every 40 ms, in *)
(* which the user drives 0.4 m; here a period is DmoStride metres long.     *)
(***************************************************************************)

CONSTANTS
  DmoStride,   \* metres that the user of the LTE example drives in a period
  DmoShadows   \* shadowing drawn for each cell: sequences that repeat

ASSUME DemosAssumption == DmoStride \in {10 * s : s \in 1 .. 250}

VARIABLE dmo

PL == INSTANCE PathLoss WITH pls <- 0, PlsSites <- {}, PlsNear <- 1, PlsFar <- 1

-----------------------------------------------------------------------------
(* example_lte_a3.c *)

HandoverParams == [hysteresis |-> 300, a3_offset |-> 200, periods |-> 4, l3_filter |-> 4]

LteStart(shadows) ==
  [as |-> "lte", shadows |-> shadows, step |-> 0, ue |-> [ue_context_init EXCEPT !.x = 100, !.vx = 10],
   shadow |-> <<0, 0>>, serving |-> 1, filtered |-> <<-20000, -20000>>, entry |-> FALSE, ttt |-> 0,
   in_progress |-> FALSE, stats |-> ho_stats_init]

(* Of both cells, at 0 and at 2000 m *)
LevelsAt(ue, shadow) ==
  [c \in 1 .. 2 |->
     LET d == cell_distance_to_ue([cell_info_init EXCEPT !.x = 2000 * (c - 1)], ue)
     IN  meas_compute_rssi(4300, 1500, 0, PL!meas_okumura_hata_path_loss(2600, d, 300, 15, 0), shadow[c], 300, 0)]

(* Mutant: a period without the event does not start the count again. *)
CountKept(s, entry) == IF entry /\ ~s.in_progress THEN s.ttt + 1 ELSE s.ttt

(* Frozen while a handover is in progress *)
TttCount(s, entry) == IF s.in_progress THEN s.ttt ELSE IF entry THEN s.ttt + 1 ELSE 0

(* The filters of serving cell and neighbour go on with their values when the
   cells change places. *)
Faded(s) == [c \in 1 .. 2 |-> meas_shadow_fading_generate(s.shadow[c], 670, s.shadows[c][(s.step % Len(s.shadows[c])) + 1])]
Placed(serving, raw) == IF serving = 1 THEN raw ELSE <<raw[2], raw[1]>>
Smoothed(s, raw) ==
  IF s.step = 0 THEN raw
  ELSE [i \in 1 .. 2 |-> meas_l3_filter(s.filtered[i], Placed(s.serving, raw)[i], HandoverParams.l3_filter)]
Entered(filtered) ==
  ho_decision_event_a3(filtered[1], filtered[2], HandoverParams.a3_offset, HandoverParams.hysteresis, 0, 0, 0).entry

(* The flag of the handover is taken back only at count 0, which is frozen
   then. *)
Decided(s, count, goes) ==
  [s EXCEPT !.step = @ + 1, !.ttt = count, !.serving = IF goes THEN 3 - @ ELSE @,
            !.in_progress = (@ \/ goes) /\ count # 0,
            !.stats = IF goes THEN ho_stats_update(@, TRUE, FALSE, 50) ELSE @]
Clocked(s, count) == Decided(s, count, count >= HandoverParams.periods /\ ~s.in_progress)
Judged(s, filtered, entry) ==
  Clocked([s EXCEPT !.filtered = filtered, !.entry = entry], TttCount(s, entry))
Heard(s, filtered) == Judged(s, filtered, Entered(filtered))
Displaced(s, ue, shadow) == Heard([s EXCEPT !.ue = ue, !.shadow = shadow], Tabulated(Smoothed(s, LevelsAt(ue, shadow))))
LteStep(s) == Displaced(s, ue_update_position(s.ue, DmoStride \div 10), Tabulated(Faded(s)))

-----------------------------------------------------------------------------
(* example_wifi_roaming.c *)

(* Free space at 2.4 GHz and 5 dB of walls every 10 m, for half metres; at
   distance 0 the loss is below every number. *)
wifi_path_loss(n) == IF n = 0 THEN -1000000 ELSE 2 * (Db(n) - Db(2)) + 4005 + 25 * n

(* Channel and place, in half metres *)
WiFiAP == <<[channel |-> 1, x |-> 0], [channel |-> 6, x |-> 100], [channel |-> 11, x |-> 200]>>

WiFiSTA == [as |-> "wifi", step |-> 0, x |-> 0, ap |-> 1, rssi |-> <<0, 0, 0>>, roamings |-> 0, left |-> 0]

Roaming(key) ==
  FoldLeft(LAMBDA s, i : LET go == ho_wifi_ft_procedure_step(s.state, key)
                         IN  IF go.goes /\ s.state # "FAILED" THEN [state |-> go.next, steps |-> s.steps + 1] ELSE s,
           [state |-> "INITIAL", steps |-> 0], [i \in 1 .. 6 |-> i])

Qualifies(rssi, ap, i) == i # ap /\ ho_decision_rssi_threshold(rssi[ap], rssi[i], -7500, 500)

(* Mutant: the station roams only when a line is due. *)
RoamOnPrint(s) ==
  LET rssi == [i \in 1 .. 3 |-> LET p == 2000 - wifi_path_loss(Size(s.x + 1 - WiFiAP[i].x)) IN IF p < -10000 THEN -10000 ELSE p]
      better == {i \in 1 .. 3 : Qualifies(rssi, s.ap, i)}
      to == IF better = {} \/ s.step % 10 # 0 THEN s.ap ELSE CHOOSE i \in better : \A j \in better : i <= j
  IN  [s EXCEPT !.step = @ + 1, !.x = @ + 1, !.rssi = rssi, !.ap = to,
                !.roamings = IF to # s.ap THEN @ + 1 ELSE @, !.left = IF to # s.ap THEN rssi[s.ap] ELSE @]

(* The first access point that is enough better is taken. *)
RoamStep(s) ==
  LET rssi == [i \in 1 .. 3 |-> LET p == 2000 - wifi_path_loss(Size(s.x + 1 - WiFiAP[i].x)) IN IF p < -10000 THEN -10000 ELSE p]
      better == {i \in 1 .. 3 : Qualifies(rssi, s.ap, i)}
      to == IF better = {} \/ Roaming(TRUE).state # "COMPLETE" THEN s.ap ELSE CHOOSE i \in better : \A j \in better : i <= j
  IN  [s EXCEPT !.step = @ + 1, !.x = @ + 1, !.rssi = rssi, !.ap = to,
                !.roamings = IF to # s.ap THEN @ + 1 ELSE @, !.left = IF to # s.ap THEN rssi[s.ap] ELSE @]

-----------------------------------------------------------------------------
(* example_vertical_handover.c, grey relational grade and media independent
   handover: level, rate, cost, delay and power of LTE, 5G NR and Wi-Fi *)

NetworkMatrix == <<<<-85, 50, 10, 30, 800>>, <<-78, 500, 15, 10, 1200>>, <<-60, 300, 1, 5, 400>>>>

VerticalHandover ==
  LET links == <<[type |-> "3GPP", quality |-> 60, cost |-> 300], [type |-> "3GPP", quality |-> 80, cost |-> 500],
                 [type |-> "802_11", quality |-> 90, cost |-> 100]>>
  IN  [as |-> "vertical", gra |-> ho_decision_gra(NetworkMatrix, <<-60, 500, 1, 5, 400>>, Quotient(1, 2)),
       plain |-> ho_mih_vertical_decision("3GPP", links, FALSE), offload |-> ho_mih_vertical_decision("3GPP", links, TRUE)]

-----------------------------------------------------------------------------

DmoInit == dmo = [as |-> "start"]

DmoStart ==
  /\ dmo.as = "start"
  /\ dmo' \in {LteStart(<<a, b>>) : a, b \in DmoShadows} \cup {WiFiSTA, VerticalHandover}

(* 250 s at 10 m/s *)
DmoDrive == dmo.as = "lte" /\ dmo.step < 2500 \div DmoStride /\ dmo' \in {LteStep(dmo)}

DmoWalk == dmo.as = "wifi" /\ dmo.step < 240 /\ dmo' \in {RoamStep(dmo)}

DmoNext == DmoStart \/ DmoDrive \/ DmoWalk

-----------------------------------------------------------------------------
(* Properties *)

(* The LTE user leaves its cell only after the filtered levels have met the
   event for all periods of the time to trigger, and every handover is in the
   statistics; whatever the shadowing, it ends in the cell it drives to, whose
   filter the handover left behind then shows it above the other one.
   Nothing is said of the handovers after the first: example_lte_a3.c:203
   announces that the flag is taken back after some time, but the count of
   zero it waits for is frozen while the flag is set, so there are none. *)
DrivesIntoCell ==
  dmo.as = "lte" =>
    /\ dmo.ttt > 0 /\ ~dmo.in_progress => dmo.entry
    /\ dmo.serving = 2 => dmo.ttt >= HandoverParams.periods /\ dmo.stats.total > 0
    /\ dmo.stats.successful = dmo.stats.total /\ dmo.stats.failed = 0
    /\ dmo.ue.x >= 2500 => dmo.serving = 2 /\ dmo.filtered[1] >= dmo.filtered[2]

(* After every step no other access point is the one to roam to; the station
   meets each once, in order, and leaves none that is above the threshold. *)
RoamsInTime ==
  dmo.as = "wifi" /\ dmo.step > 0 =>
    /\ \A i \in 1 .. 3 : ~Qualifies(dmo.rssi, dmo.ap, i)
    /\ dmo.roamings = dmo.ap - 1
    /\ dmo.roamings > 0 => dmo.left < -7500
    /\ Roaming(TRUE) = [state |-> "COMPLETE", steps |-> 5] /\ Roaming(FALSE) = [state |-> "FAILED", steps |-> 1]

(* Wi-Fi is chosen by every method, with or without the preference, and no
   network has all of the ideal. *)
WifiChosen ==
  dmo.as = "vertical" =>
    /\ dmo.plain = 3 /\ dmo.offload = 3
    /\ \A i \in 1 .. 3 : Below(dmo.gra.grades[i], Whole(1)) /\ AtMost(dmo.gra.grades[i], dmo.gra.grades[dmo.gra.best])

DemosSound == DrivesIntoCell /\ RoamsInTime /\ WifiChosen
=============================================================================
