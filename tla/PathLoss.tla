------------------------------ MODULE PathLoss ------------------------------
(***************************************************************************)
(* The propagation formulas of mini-channel-model (src/pathloss.c), and     *)
(* those of src/signal_measurement.c of mini-handover-mobility and of       *)
(* src/lora_linkbudget.c of mini-lora-nbiot, which state some of them once  *)
(* more.                                                                    *)
(*                                                                          *)
(* Losses are hundredths of a dB, frequencies MHz, distances, widths and    *)
(* spacings m, heights tenths of a m; exponents are tenths.                 *)
(***************************************************************************)
EXTENDS Exact, FiniteSets

CONSTANTS
  PlsSites,      \* what is the same for all models of a site
  PlsNear,       \* first distance of a user
  PlsFar         \* bound on its distance

ASSUME PlsAssumption == PlsNear \in Nat \ {0} /\ PlsFar \in Nat

VARIABLE pls

-----------------------------------------------------------------------------
(* c times a logarithm of c hundredths of a dB. *)
Term(c, l) == (c * l) \div 10000

Km(m) == Log10(m) - 30000
Metres(tenths) == Log10(tenths) - 10000
GHz(mhz) == Log10(mhz) - 30000
Square(l) == (l * l) \div 10000

Loss(x) == IF x < 0 THEN 0 ELSE x
Refused == -100

pathloss_friis_free_space(d, f) ==
  IF d <= 0 \/ f <= 0 THEN Refused ELSE Loss(Term(2000, Log10(d) + Log10(f)) - 2755)

pathloss_reference_loss(d, f) == pathloss_friis_free_space(d, f)

pathloss_two_ray_breakpoint(tx, rx, f) == (4 * tx * rx * f) \div 29979

pathloss_two_ray(d, tx, rx, f) ==
  IF d < pathloss_two_ray_breakpoint(tx, rx, f) THEN pathloss_friis_free_space(d, f)
  ELSE Loss(Term(4000, Log10(d)) - Term(2000, Metres(tx) + Metres(rx)))

pathloss_log_distance(p, d) ==
  IF d <= 0 \/ p.ref_distance <= 0 THEN Refused
  ELSE IF d < p.ref_distance THEN pathloss_friis_free_space(d, p.freq)
  ELSE Loss(p.ref_loss + Term(100 * p.exponent, Log10(d) - Log10(p.ref_distance)))

(* Small and medium cities, of every formula that knows them. *)
SmallCity(rx, f) == ((Term(110, Log10(f)) - 70) * rx) \div 10 - (Term(156, Log10(f)) - 80)

LargeCity(rx, f) ==
  IF f <= 200 THEN Term(829, Square(Log10(154 * rx) - 30000)) - 110
  ELSE Term(320, Square(Log10(1175 * rx) - 30000)) - 497

pathloss_okumura_hata_correction(rx, f, large) == IF large THEN LargeCity(rx, f) ELSE SmallCity(rx, f)

(* What base stations of some height lose with the distance. *)
Spread(d, tx) == Term(4490 - Term(655, Metres(tx)), Km(d)) - Term(1382, Metres(tx))

pathloss_okumura_hata_urban(d, f, tx, rx, large) ==
  IF d <= 0 \/ f <= 0 \/ tx <= 0 \/ rx <= 0 THEN Refused
  ELSE Loss(6955 + Term(2616, Log10(f)) + Spread(d, tx) - pathloss_okumura_hata_correction(rx, f, large))

(* Mutant: the correction is added. *)
SuburbanAdded(d, f, tx, rx) ==
  LET urban == pathloss_okumura_hata_urban(d, f, tx, rx, FALSE)
  IN  IF urban < 0 THEN Refused ELSE Loss(urban + Term(200, Square(Log10(f) - Log10(28))) + 540)

pathloss_okumura_hata_suburban(d, f, tx, rx) ==
  LET urban == pathloss_okumura_hata_urban(d, f, tx, rx, FALSE)
  IN  IF urban < 0 THEN Refused ELSE Loss(urban - Term(200, Square(Log10(f) - Log10(28))) - 540)

pathloss_okumura_hata_rural(d, f, tx, rx) ==
  LET urban == pathloss_okumura_hata_urban(d, f, tx, rx, FALSE)
  IN  IF urban < 0 THEN Refused
      ELSE Loss(urban - Term(478, Square(Log10(f))) + Term(1833, Log10(f)) - 4094)

pathloss_cost231_hata(d, f, tx, rx, metropolitan) ==
  IF d <= 0 \/ f <= 0 \/ tx <= 0 \/ rx <= 0 THEN Refused
  ELSE Loss(4630 + Term(3390, Log10(f)) - SmallCity(rx, f) + Spread(d, tx) + IF metropolitan THEN 300 ELSE 0)

pathloss_walfisch_ikegami_los(d, f) ==
  IF d <= 0 \/ f <= 0 THEN Refused ELSE Loss(4260 + Term(2600, Km(d)) + Term(2000, Log10(f)))

(* From the roofs down into the street; -infinity below the roofs' height
   counts as more than any other loss takes back. *)
ToStreet(f, rx, building, width, angle) ==
  IF building <= rx THEN -100000
  ELSE Term(1000, Log10(f)) - 1690 - Term(1000, Log10(width)) + Term(2000, Metres(building - rx))
         + IF angle < 35 THEN ((354 * angle) \div 10) - 1000
           ELSE IF angle < 55 THEN 250 + (75 * (angle - 35)) \div 10
           ELSE 400 - (114 * (angle - 55)) \div 10

(* Over the roofs. *)
OverRoofs(d, f, tx, building, spacing) ==
  LET above == tx - building
      base == IF above > 0 THEN 5400 - Term(1800, Metres(10 + above))
              ELSE 5400 - IF d >= 500 THEN 8 * above ELSE (8 * above * d) \div 500
      slope == IF above > 0 THEN 1800 ELSE 1800 - (1500 * above) \div building
      band == ((IF f < 1800 THEN 70 ELSE 150) * (f - 925)) \div 925 - 400
  IN  base + Term(slope, Km(d)) + Term(band, Log10(f)) - Term(900, Log10(spacing))

pathloss_walfisch_ikegami_nlos(d, f, tx, rx, building, width, spacing, angle) ==
  IF d <= 0 \/ f <= 0 THEN Refused
  ELSE Loss(pathloss_friis_free_space(d, f)
              + Loss(ToStreet(f, rx, building, width, angle) + OverRoofs(d, f, tx, building, spacing)))

pathloss_itu_indoor(d, f, coefficient, floors, floorLoss) ==
  IF d <= 0 \/ f <= 0 THEN Refused
  ELSE Loss(Term(2000, Log10(f)) + Term(10 * coefficient, Log10(d)) - 2800
              + IF floors > 0 THEN 1500 + 400 * (floors - 1) + floorLoss * floors ELSE 0)

(* Both urban models of TR 38.901: up to the breakpoint the loss grows with
   slope near, beyond it with 40 dB per decade. *)
LineOfSight(d, f, at0, near, past, breakpoint, height) ==
  IF d < breakpoint THEN at0 + Term(near, Log10(d)) + Term(2000, GHz(f))
  ELSE at0 + Term(4000, Log10(d)) + Term(2000, GHz(f)) - Term(past, Log10(breakpoint * breakpoint + height))

(* Mutant: the smaller of the two losses. *)
UmiAtBest(d, f, tx, rx, los) ==
  LET breakpoint == (4 * (tx - 10) * (rx - 10) * f) \div 29979
      direct == LineOfSight(d, f, 3240, 2100, 950, breakpoint, ((tx - rx) * (tx - rx)) \div 100)
      around == Term(3530, Log10(d)) + 2240 + Term(2130, GHz(f)) - 3 * (rx - 15)
  IN  IF d <= 0 \/ f <= 0 THEN Refused ELSE Loss(IF los \/ direct < around THEN direct ELSE around)

pathloss_3gpp_umi(d, f, tx, rx, los) ==
  LET breakpoint == (4 * (tx - 10) * (rx - 10) * f) \div 29979
      direct == LineOfSight(d, f, 3240, 2100, 950, breakpoint, ((tx - rx) * (tx - rx)) \div 100)
      around == Term(3530, Log10(d)) + 2240 + Term(2130, GHz(f)) - 3 * (rx - 15)
  IN  IF d <= 0 \/ f <= 0 THEN Refused ELSE Loss(IF los \/ direct > around THEN direct ELSE around)

pathloss_3gpp_uma(d, f, tx, rx, los) ==
  LET breakpoint == (4 * (tx - 10) * (rx - 10) * f) \div 29979
      direct == LineOfSight(d, f, 2800, 2200, 900, breakpoint, ((tx - rx) * (tx - rx)) \div 100)
      around == Term(3908, Log10(d)) + 1354 + Term(2000, GHz(f)) - 6 * (rx - 15)
  IN  IF d <= 0 \/ f <= 0 THEN Refused ELSE Loss(IF los \/ direct > around THEN direct ELSE around)

pathloss_model_t == {"FREE_SPACE", "TWO_RAY", "LOG_DISTANCE", "OKUMURA_HATA", "COST231_HATA", "WALFISCH_IKEGAMI",
                     "ITU_INDOOR", "3GPP_UMI", "3GPP_UMA", "3GPP_RMA", "3GPP_INH", "WINNER_II", "CUSTOM"}

(* The last four models have no formula. *)
pathloss_compute(p, d) ==
  CASE p.model = "FREE_SPACE" -> pathloss_friis_free_space(d, p.freq)
    [] p.model = "TWO_RAY" -> pathloss_two_ray(d, p.tx, p.rx, p.freq)
    [] p.model = "LOG_DISTANCE" -> pathloss_log_distance(p, d)
    [] p.model = "OKUMURA_HATA" -> pathloss_okumura_hata_urban(d, p.freq, p.tx, p.rx, FALSE)
    [] p.model = "COST231_HATA" -> pathloss_cost231_hata(d, p.freq, p.tx, p.rx, FALSE)
    [] p.model = "WALFISCH_IKEGAMI" ->
         pathloss_walfisch_ikegami_nlos(d, p.freq, p.tx, p.rx, p.building, p.width, p.spacing, p.angle)
    [] p.model = "ITU_INDOOR" -> pathloss_itu_indoor(d, p.freq, p.exponent, 0, 0)
    [] p.model = "3GPP_UMI" -> pathloss_3gpp_umi(d, p.freq, p.tx, p.rx, TRUE)
    [] p.model = "3GPP_UMA" -> pathloss_3gpp_uma(d, p.freq, p.tx, p.rx, TRUE)
    [] OTHER -> Refused

pathloss_validate_params(p) ==
  IF p.freq <= 0 THEN -2
  ELSE IF p.tx <= 0 THEN -3
  ELSE IF p.rx <= 0 THEN -4
  ELSE IF \/ p.model = "OKUMURA_HATA" /\ p.freq \notin 150 .. 1500
          \/ p.model = "COST231_HATA" /\ p.freq \notin 1500 .. 2000 THEN -5
  ELSE 0

-----------------------------------------------------------------------------
(* signal_measurement.c and lora_linkbudget.c; the first has no limit below *)

Into(x, lo, hi) == IF x < lo THEN lo ELSE IF x > hi THEN hi ELSE x

meas_friis_free_space_path_loss(d, f) ==
  IF d <= 0 \/ f <= 0 THEN 0 ELSE Term(2000, Log10(d) + Log10(f)) - 2755

meas_log_distance_path_loss(d, reference, loss, exponent) ==
  IF d <= 0 \/ reference <= 0 THEN 0 ELSE loss + Term(100 * exponent, Log10(d) - Log10(reference))

meas_okumura_hata_path_loss(f0, d0, tx0, rx0, area) ==
  LET f == Into(f0, 150, 1500)
      d == Into(d0, 1000, 20000)
      tx == Into(tx0, 300, 2000)
      rx == Into(rx0, 10, 100)
      urban == 6955 + Term(2616, Log10(f)) - SmallCity(rx, f) + Spread(d, tx)
  IN  CASE area = 1 -> urban - Term(200, Square(Log10(f) - Log10(28))) - 540
        [] area = 2 -> urban - Term(478, Square(Log10(f))) + Term(1833, Log10(f)) - 4094
        [] OTHER -> urban

meas_cost231_hata_path_loss(f0, d0, tx, rx, metropolitan) ==
  LET f == Into(f0, 1500, 2000)
      d == Into(d0, 1000, 20000)
  IN  4630 + Term(3390, Log10(f)) - SmallCity(rx, f) + Spread(d, tx) + IF metropolitan THEN 300 ELSE 0

meas_3gpp_38_901_uma_path_loss(d0, f0, rx, los) ==
  LET d == IF d0 < 10 THEN 10 ELSE d0
      f == Into(f0, 500, 100000)
      direct == 2800 + Term(2200, Log10(d)) + Term(2000, GHz(f))
      around == 1354 + Term(3908, Log10(d)) + Term(2000, GHz(f)) - 6 * (rx - 15)
  IN  IF los \/ direct > around THEN direct ELSE around

friis_path_loss_db(d, f) == IF d <= 0 \/ f <= 0 THEN 0 ELSE Term(2000, Log10(d) + Log10(f)) - 2755

(* The loss up to the reference distance, taken from free space unless given. *)
ReferenceLoss(model) ==
  IF model.reference_loss <= 0 THEN friis_path_loss_db(model.reference, model.freq) ELSE model.reference_loss

log_distance_path_loss_db(d, model) ==
  IF d <= 0 THEN 0 ELSE ReferenceLoss(model) + Term(100 * model.exponent, Log10(d) - Log10(model.reference))

okumura_hata_path_loss_db(d0, f0, tx, rx, large) ==
  LET d == Into(d0, 1000, 20000)
      f == Into(f0, 150, 1500)
  IN  6955 + Term(2616, Log10(f)) - (IF large THEN LargeCity(rx, f) ELSE SmallCity(rx, f)) + Spread(d, tx)

-----------------------------------------------------------------------------
(* A user that goes away from its base station *)

PlsInit == pls = [step |-> "start"]

Losses(p, d) ==
  [model |-> pathloss_compute(p, d),
   suburban |-> pathloss_okumura_hata_suburban(d, p.freq, p.tx, p.rx),
   rural |-> pathloss_okumura_hata_rural(d, p.freq, p.tx, p.rx),
   urban |-> [large \in BOOLEAN |-> pathloss_okumura_hata_urban(d, p.freq, p.tx, p.rx, large)],
   area |-> [a \in 0 .. 2 |-> meas_okumura_hata_path_loss(p.freq, d, p.tx, p.rx, a)],
   city |-> [large \in BOOLEAN |-> okumura_hata_path_loss_db(d, p.freq, p.tx, p.rx, large)],
   cost |-> [m \in BOOLEAN |-> pathloss_cost231_hata(d, p.freq, p.tx, p.rx, m)],
   costMeas |-> [m \in BOOLEAN |-> meas_cost231_hata_path_loss(p.freq, d, p.tx, p.rx, m)],
   canyon |-> pathloss_walfisch_ikegami_los(d, p.freq),
   floors |-> [n \in 0 .. 2 |-> pathloss_itu_indoor(d, p.freq, 300, n, 200)],
   umi |-> [los \in BOOLEAN |-> pathloss_3gpp_umi(d, p.freq, p.tx, p.rx, los)],
   uma |-> [los \in BOOLEAN |-> pathloss_3gpp_uma(d, p.freq, p.tx, p.rx, los)],
   umaMeas |-> [los \in BOOLEAN |-> meas_3gpp_38_901_uma_path_loss(d, p.freq, p.rx, los)],
   free |-> pathloss_friis_free_space(d, p.freq),
   freeMeas |-> meas_friis_free_space_path_loss(d, p.freq),
   straight |-> meas_log_distance_path_loss(d, p.ref_distance, p.ref_loss, p.exponent),
   straightLora |-> log_distance_path_loss_db(d, [reference |-> p.ref_distance, reference_loss |-> 0,
                                                  freq |-> p.freq, exponent |-> p.exponent])]

PlsChoose == \E site \in PlsSites, model \in pathloss_model_t, tx, rx \in {0, 15, 100, 300} :
  /\ pls.step = "start"
  /\ LET p == [model |-> model, freq |-> site.freq, tx |-> tx, rx |-> rx, ref_distance |-> site.reference,
               ref_loss |-> pathloss_reference_loss(site.reference, site.freq), exponent |-> site.exponent,
               building |-> 150, width |-> 20, spacing |-> 40, angle |-> site.angle]
     IN  /\ pathloss_validate_params(p) = 0
         /\ \E here \in {Losses(p, PlsNear)} :
              pls' = [step |-> "measured", p |-> p, d |-> PlsNear, at |-> here, before |-> here]

PlsMove ==
  /\ pls.step = "measured" /\ 2 * pls.d <= PlsFar
  /\ pls' = [pls EXCEPT !.d = 2 * @, !.at = Losses(pls.p, 2 * pls.d), !.before = pls.at]

PlsNext == PlsChoose \/ PlsMove

PlsSpec == PlsInit /\ [][PlsNext]_pls

-----------------------------------------------------------------------------
(* Properties *)

(* With parameters that were validated every model that has a formula gives a
   loss, and none that has not. *)
Computable ==
  pls.step = "measured" =>
    (pls.at.model >= 0 <=> pls.p.model \notin {"3GPP_RMA", "3GPP_INH", "WINNER_II", "CUSTOM"})

(* A user that goes away from the base station loses more, or as much, but
   where the two-ray model changes its formula: there the loss falls. *)
LossGrows ==
  pls.step = "measured" =>
    LET bend == pathloss_two_ray_breakpoint(pls.p.tx, pls.p.rx, pls.p.freq)
    IN  /\ \/ pls.p.model = "TWO_RAY" /\ bend \in (pls.d \div 2) .. pls.d
           \/ pls.at.model >= pls.before.model
        /\ \A part \in {"umi", "uma", "umaMeas"} : \A los \in BOOLEAN : pls.at[part][los] >= pls.before[part][los]
        /\ pls.at.straight >= pls.before.straight /\ pls.at.canyon >= pls.before.canyon

(* Obstacles never reduce a loss: no line of sight loses as much as one with
   it, a city as much as its suburbs, and these as much as open country. *)
ObstaclesCost ==
  pls.step = "measured" =>
    /\ \A part \in {"umi", "uma", "umaMeas"} : pls.at[part][FALSE] >= pls.at[part][TRUE]
    /\ pls.at.urban[FALSE] >= pls.at.suburban /\ pls.at.suburban >= pls.at.rural
    /\ pls.at.area[0] > pls.at.area[1] /\ pls.at.area[1] > pls.at.area[2]
    /\ pls.at.cost[TRUE] >= pls.at.cost[FALSE] /\ pls.at.costMeas[TRUE] = 300 + pls.at.costMeas[FALSE]
    /\ pls.at.floors[0] < pls.at.floors[1] /\ pls.at.floors[1] < pls.at.floors[2]

(* Where all of them apply without a limit, the libraries agree. *)
LibrariesAgree ==
  pls.step = "measured" =>
    LET p == pls.p
        far == pls.d \in 1000 .. 20000
        bend == (4 * (p.tx - 10) * (p.rx - 10) * p.freq) \div 29979
    IN  /\ far /\ p.freq \in 150 .. 1500 /\ p.tx >= 300 /\ p.rx \in 10 .. 100 =>
             /\ pls.at.area[0] = pls.at.urban[FALSE] /\ pls.at.area[1] = pls.at.suburban /\ pls.at.area[2] = pls.at.rural
             /\ pls.at.city = pls.at.urban
        /\ far /\ p.freq \in 1500 .. 2000 => pls.at.costMeas = pls.at.cost
        /\ p.freq >= 500 /\ pls.d \in 10 .. bend - 1 => pls.at.umaMeas = pls.at.uma
        /\ pls.at.free = Loss(pls.at.freeMeas)
        /\ pls.d >= p.ref_distance /\ p.model = "LOG_DISTANCE" =>
             pls.at.model = pls.at.straight /\ pls.at.straightLora = pls.at.straight

PathLossSound == Computable /\ LossGrows /\ ObstaclesCost /\ LibrariesAgree
=============================================================================
