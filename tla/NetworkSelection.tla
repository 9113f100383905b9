-------------------------- MODULE NetworkSelection --------------------------
(***************************************************************************)
(* How mini-handover-mobility picks a cell or a network,                    *)
(* src/handover_decision.c and ho_mih_vertical_decision of                  *)
(* src/handover_protocol.c: the rules on the levels of two cells, the time  *)
(* to trigger on a history, and the weighted sum, the distance to an ideal  *)
(* (TOPSIS) and the grey relational grade over several criteria.            *)
(*                                                                          *)
(* Levels are whole dB and criteria whole numbers; shares are fractions.    *)
(* Candidates are numbered from 1.                                          *)
(*                                                                          *)
(* The second part has what assists a handover.                             *)
(***************************************************************************)
EXTENDS Exact, Bits, FiniteSets, TLC

CONSTANTS
  NslLevels,    \* levels of a cell, in dB
  NslHys,       \* hysteresis, margins and improvements asked for
  NslMatrices,  \* criteria of each candidate
  NslWeights,   \* weights of the criteria
  NslMihs       \* candidates of a vertical handover: link, quality and cost in percent

VARIABLE nsl

-----------------------------------------------------------------------------
(* Two cells *)

ho_decision_hysteresis(serving, target, hysteresis) == hysteresis >= 0 /\ target - serving > hysteresis

ho_decision_event_a3(serving, neighbour, offset, hysteresis, servingCio, neighbourCio, freq) ==
  LET s == serving + freq + servingCio
      n == neighbour + freq + neighbourCio
  IN  [entry |-> n - hysteresis - s - offset > 0, leaving |-> s + offset - n - hysteresis > 0]

(* Mutant: the hysteresis is taken the other way on leaving. *)
LeaveEarly(serving, neighbour, threshold1, threshold2, hysteresis, cio, freq) ==
  LET n == neighbour + freq + cio
  IN  [entry |-> serving + hysteresis < threshold1 /\ n - hysteresis > threshold2,
       leaving |-> serving + hysteresis > threshold1 \/ n - hysteresis < threshold2 \/ n > threshold2]

ho_decision_event_a5(serving, neighbour, threshold1, threshold2, hysteresis, cio, freq) ==
  LET n == neighbour + freq + cio
  IN  [entry |-> serving + hysteresis < threshold1 /\ n - hysteresis > threshold2,
       leaving |-> serving - hysteresis > threshold1 \/ n + hysteresis < threshold2]

ho_decision_rssi_threshold(serving, target, threshold, improvement) ==
  target > serving /\ serving < threshold /\ target - serving >= improvement

ho_decision_sinr(serving, target, threshold, margin) == serving < threshold /\ target - serving > margin

(* The history has its newest sample first. *)
ho_decision_ttt_evaluate(history, required) ==
  required \in 1 .. Len(history) /\ \A i \in 1 .. required : history[i]

-----------------------------------------------------------------------------
(* Several criteria *)

Largest(m, j) == CHOOSE x \in {m[i][j] : i \in DOMAIN m} : \A i \in DOMAIN m : m[i][j] <= x
Smallest(m, j) == CHOOSE x \in {m[i][j] : i \in DOMAIN m} : \A i \in DOMAIN m : m[i][j] >= x
Span(m, j) == Largest(m, j) - Smallest(m, j)

(* Mutant: a cost counts like a benefit. *)
AllBenefits(m, w, benefit) ==
  LET norm(i, j) == IF Span(m, j) = 0 THEN Whole(1) ELSE Quotient(m[i][j] - Smallest(m, j), Span(m, j))
      scores == [i \in DOMAIN m |-> Total([j \in DOMAIN w |-> Times(Whole(w[j]), norm(i, j))])]
  IN  [scores |-> scores, best |-> FirstLargest(scores)]

ho_decision_weighted_sum(m, w, benefit) ==
  LET norm(i, j) == IF Span(m, j) = 0 THEN Whole(1)
                    ELSE Quotient(IF benefit[j] THEN m[i][j] - Smallest(m, j) ELSE Largest(m, j) - m[i][j], Span(m, j))
      scores == [i \in DOMAIN m |-> Total([j \in DOMAIN w |-> Times(Whole(w[j]), norm(i, j))])]
  IN  [scores |-> scores, best |-> FirstLargest(scores)]

(* The distances of a candidate to the ideal and to its opposite, squared: a
   column is divided by its length, whose square is a whole number. *)
Separation(m, w, i, ideal(_)) ==
  LET length2(j) == FoldLeft(LAMBDA x, row : x + row[j] * row[j], 0, m)
      part(j) == Quotient((w[j] * (m[i][j] - ideal(j))) * (w[j] * (m[i][j] - ideal(j))), IF length2(j) = 0 THEN 1 ELSE length2(j))
  IN  Total([j \in DOMAIN w |-> part(j)])

(* The closeness Sw / (Sb + Sw) orders the candidates as Sw^2 / (Sb^2 + Sw^2)
   does, which stands for it. *)
ho_decision_topsis(m, w, benefit) ==
  LET good(j) == IF benefit[j] THEN Largest(m, j) ELSE Smallest(m, j)
      bad(j) == IF benefit[j] THEN Smallest(m, j) ELSE Largest(m, j)
      closeness(i) == LET best == Separation(m, w, i, good)
                          worst == Separation(m, w, i, bad)
                      IN  IF best[1] + worst[1] = 0 THEN Whole(1) ELSE Over(worst, Plus(best, worst))
      coefficients == [i \in DOMAIN m |-> closeness(i)]
  IN  [coefficients |-> coefficients, best |-> FirstLargest(coefficients)]

(* Criteria are normalised to what the candidates span, the reference cut to
   it; every criterion counts as a benefit. *)
Normalised(m, x, j) == Quotient(x - Smallest(m, j), IF Span(m, j) = 0 THEN 1 ELSE Span(m, j))
Bounded(x) == IF x[1] < 0 THEN Whole(0) ELSE IF x[1] > x[2] THEN Whole(1) ELSE x
Apart(x, y) == <<Size(Minus(x, y)[1]), Minus(x, y)[2]>>
Deltas(m, reference) ==
  [i \in DOMAIN m |-> [j \in DOMAIN reference |->
     Apart(Bounded(Normalised(m, reference[j], j)), Normalised(m, m[i][j], j))]]
AllOf(delta) == UNION {ToSet(delta[i]) : i \in DOMAIN delta}
Extreme(all, below(_, _)) == CHOOSE x \in all : \A y \in all : below(y, x)

(* The coefficient of a distance, 0 when even the smallest denominator is. *)
Gamma(d, least, shift) == IF Plus(d, shift)[1] = 0 THEN Whole(0) ELSE Over(Plus(least, shift), Plus(d, shift))
Mean(row) == Over(Total(row), Whole(Len(row)))
Graded(grades) == [grades |-> grades, best |-> FirstLargest(grades)]
Coefficients(delta, least, shift) ==
  Tabulated([i \in DOMAIN delta |-> Mean([j \in DOMAIN delta[i] |-> Gamma(delta[i][j], least, shift)])])

GradesOf(delta, all, rho) ==
  Coefficients(delta, Extreme(all, LAMBDA y, x : AtMost(x, y)), Times(rho, Extreme(all, AtMost)))
ho_decision_gra(m, reference, rho) ==
  Graded(Once(LAMBDA delta : GradesOf(delta, AllOf(delta), IF rho[1] <= 0 THEN Quotient(1, 2) ELSE rho),
              Deltas(m, reference)))

MIHLinkType == {"802_3", "802_11", "802_16", "3GPP", "3GPP2"}

(* Mutant: the bonus goes to every link that is not the present one. *)
OffloadAnywhere(current, links, prefer) ==
  LET utility(l) == 10 * l.quality - l.cost + (IF prefer /\ l.type # current THEN 200 ELSE 0)
                      + IF l.type = current THEN 100 ELSE 0
  IN  FirstLargest([i \in DOMAIN links |-> Whole(utility(links[i]))])

(* In thousandths: a tenth of the cost is taken off the quality. *)
ho_mih_vertical_decision(current, links, prefer) ==
  LET utility(l) == 10 * l.quality - l.cost + (IF prefer /\ l.type = "802_11" THEN 200 ELSE 0)
                      + IF l.type = current THEN 100 ELSE 0
  IN  FirstLargest([i \in DOMAIN links |-> Whole(utility(links[i]))])

-----------------------------------------------------------------------------
(* A mobility controller *)

NslInit == nsl = [step |-> "start"]

NslCompare == \E a, b \in NslLevels, h \in NslHys, t \in NslLevels, cio \in {0, 3} :
  /\ nsl.step = "start"
  /\ nsl' = [step |-> "compared", margin |-> h, levels |-> <<a, b>>,
             moves |-> [i \in 1 .. 2 |->
               LET s == <<a, b>>[i]
                   n == <<b, a>>[i]
               IN  <<ho_decision_hysteresis(s, n, h), ho_decision_event_a3(s, n, 2, h, 0, cio, 0).entry,
                     ho_decision_rssi_threshold(s, n, t, h), ho_decision_sinr(s, n, t, h)>>],
             a3 |-> ho_decision_event_a3(a, b, 2, h, 0, cio, 0),
             a5 |-> ho_decision_event_a5(a, b, t, t + 5, h, cio, 0),
             samples |-> <<>>, due |-> FALSE]

(* The next sample of the same pair of cells, or of one where no event is. *)
NslSample ==
  /\ nsl.step = "compared" /\ Len(nsl.samples) < 4
  /\ \E met \in {nsl.a5.entry, FALSE} :
     nsl' = [nsl EXCEPT !.samples = <<met>> \o @, !.due = ho_decision_ttt_evaluate(<<met>> \o nsl.samples, 3)]

NslSelect == \E m \in NslMatrices, w \in NslWeights, b1, b2 \in BOOLEAN :
  /\ nsl.step = "start"
  /\ LET benefit == <<b1, b2>>
         top == <<Largest(m, 1), Largest(m, 2)>>
     IN  nsl' = [step |-> "selected", m |-> m, benefit |-> benefit, weights |-> w,
                 sum |-> ho_decision_weighted_sum(m, w, benefit).best,
                 topsis |-> ho_decision_topsis(m, w, benefit).best,
                 grey |-> ho_decision_gra(m, top, Quotient(1, 2))]

NslOffload == \E links \in NslMihs, current \in {"802_11", "3GPP"} :
  /\ nsl.step = "start"
  /\ nsl' = [step |-> "vertical", links |-> links, current |-> current,
             plain |-> ho_mih_vertical_decision(current, links, FALSE),
             offload |-> ho_mih_vertical_decision(current, links, TRUE)]

NslNext == NslCompare \/ NslSample \/ NslSelect \/ NslOffload

NslSpec == NslInit /\ [][NslNext]_nsl

-----------------------------------------------------------------------------
(* Properties *)

(* No rule sends a user to and fro between two cells at the same levels, an
   event is never entered and left at once, and the time to trigger has passed
   only when the newest samples all met the condition. *)
NoSwingBack ==
  nsl.step = "compared" =>
    /\ \A r \in {1, 3, 4} : nsl.margin > 0 => ~(nsl.moves[1][r] /\ nsl.moves[2][r])
    /\ nsl.moves[1][2] /\ nsl.moves[2][2] => nsl.margin + 2 < 3
    /\ ~(nsl.a3.entry /\ nsl.a3.leaving) /\ ~(nsl.a5.entry /\ nsl.a5.leaving)
    /\ nsl.due <=> Len(nsl.samples) >= 3 /\ \A i \in 1 .. 3 : nsl.samples[i]

BetterInAll(m, benefit, i, k) == \A j \in 1 .. 2 : IF benefit[j] THEN m[i][j] > m[k][j] ELSE m[i][j] < m[k][j]

(* No candidate beats the chosen one in every criterion; the grey grade, which
   takes every criterion for a benefit, gives 1 exactly to the ideal. *)
ChoiceUndominated ==
  nsl.step = "selected" =>
    \A i \in DOMAIN nsl.m :
      /\ ~BetterInAll(nsl.m, nsl.benefit, i, nsl.sum) /\ ~BetterInAll(nsl.m, nsl.benefit, i, nsl.topsis)
      /\ ~BetterInAll(nsl.m, <<TRUE, TRUE>>, i, nsl.grey.best)
      /\ (\E k \in DOMAIN nsl.m : nsl.m[k] # nsl.m[i]) =>
           (nsl.grey.grades[i] = Whole(1) <=> \A j \in 1 .. 2 : nsl.m[i][j] = Largest(nsl.m, j) \/ Span(nsl.m, j) = 0)

(* Preferring Wi-Fi never moves the choice away from Wi-Fi, nor from one link
   to another that is not Wi-Fi. *)
OffloadToWifi ==
  nsl.step = "vertical" /\ nsl.plain # nsl.offload => nsl.links[nsl.offload].type = "802_11"

SelectionSound == NoSwingBack /\ ChoiceUndominated /\ OffloadToWifi

-----------------------------------------------------------------------------
(***************************************************************************)
(* What surrounds a handover in mini-handover-mobility: measurement reports *)
(* and statistics (src/handover_types.c), candidates of a conditional       *)
(* handover, prediction of the next cell, admission, load balancing and the *)
(* other decisions of src/handover_optimize.c, and the procedures of        *)
(* src/handover_protocol.c beside the X2 handover.                          *)
(*                                                                          *)
(* Levels are whole dB, shares percent, times whole milliseconds.           *)
(***************************************************************************)

CONSTANTS
  HasLists,     \* neighbours of a report: cell and level
  HasTracks,    \* per cell, its level at time 0 and its change per report
  HasLoads,     \* loads of a target cell
  HasNeighbors, \* channel and level of the neighbours of a Wi-Fi station
  HasTrials     \* bound on handovers counted and corrections made

ASSUME AssistAssumption ==
  /\ HasTrials \in Nat
  /\ HasLoads \subseteq [num_active_ues : Nat, total_prbs : Nat, used_prbs : Nat]

VARIABLE has

-----------------------------------------------------------------------------
(* Reports *)

MAX_MEAS_CELLS == 8

meas_quantity_init == [rsrp |-> -200, rsrq |-> -30, sinr |-> -40, rssi |-> -200, cqi |-> 0, bler |-> 1]

(* meas_quantity_is_valid *)
Valid(mq) == mq.rsrp \in -199 .. -21 /\ mq.rsrq \in -30 .. 0 /\ mq.rssi \in -199 .. -21

Cleared == [rsrp |-> 0, rsrq |-> 0, sinr |-> 0, rssi |-> 0, cqi |-> 0, bler |-> 0]

meas_report_init(ue, serving) ==
  [ue |-> ue, serving |-> serving, meas |-> Cleared, neighbours |-> <<>>, detected |-> FALSE, at |-> 0]

(* Mutant: the report is one longer than its table. *)
AddBeyond(report, pci, rsrp, rsrq, sinr) ==
  IF Len(report.neighbours) > MAX_MEAS_CELLS THEN report
  ELSE [report EXCEPT !.neighbours = Append(@, [pci |-> pci, meas |-> [Cleared EXCEPT !.rsrp = rsrp, !.rsrq = rsrq, !.sinr = sinr]]),
                      !.detected = TRUE]

(* The power and the quality indicator of a neighbour stay cleared. *)
meas_report_add_neighbour(report, pci, rsrp, rsrq, sinr) ==
  IF Len(report.neighbours) >= MAX_MEAS_CELLS THEN report
  ELSE [report EXCEPT !.neighbours = Append(@, [pci |-> pci, meas |-> [Cleared EXCEPT !.rsrp = rsrp, !.rsrq = rsrq, !.sinr = sinr]]),
                      !.detected = TRUE]

Reported(serving, level, at, list) ==
  FoldLeft(LAMBDA r, n : meas_report_add_neighbour(r, n[1], n[2], -10, 5),
           [meas_report_init(7, serving) EXCEPT !.meas = [meas_quantity_init EXCEPT !.rsrp = level], !.at = at], list)

(* Mutant: the list is kept in the order of the report. *)
AsReported(report, least, most) ==
  LET strong == SelectSeq(report.neighbours, LAMBDA n : n.meas.rsrp >= least)
  IN  SubSeq([i \in DOMAIN strong |-> strong[i].pci], 1, IF Len(strong) < most THEN Len(strong) ELSE most)

(* ho_conditional_prepare: insertion into a list that falls, after equals. *)
ho_conditional_prepare(report, least, most) ==
  LET strong == SelectSeq(report.neighbours, LAMBDA n : n.meas.rsrp >= least)
      insert(sorted, n) == LET k == Cardinality({i \in DOMAIN sorted : sorted[i].meas.rsrp >= n.meas.rsrp})
                           IN  SubSeq(sorted, 1, k) \o <<n>> \o SubSeq(sorted, k + 1, Len(sorted))
      list == FoldLeft(insert, <<>>, strong)
  IN  SubSeq([i \in DOMAIN list |-> list[i].pci], 1, IF Len(list) < most THEN Len(list) ELSE most)

ho_conditional_evaluate(serving, target, servingThreshold, targetThreshold, ttt) ==
  serving < servingThreshold /\ target > targetThreshold /\ ttt

-----------------------------------------------------------------------------
(* The next cell, from a straight line through the levels of each *)

MAX_UNIQUE_CELLS == 16

Known(cells, pci) ==
  IF pci \in {cells[i] : i \in DOMAIN cells} \/ Len(cells) >= MAX_UNIQUE_CELLS THEN cells ELSE Append(cells, pci)

(* The level of a cell in a report, -200 for none. *)
LevelOf(report, pci) ==
  IF report.serving = pci THEN report.meas.rsrp
  ELSE LET places == {i \in DOMAIN report.neighbours : report.neighbours[i].pci = pci}
       IN  IF places = {} THEN -200
           ELSE report.neighbours[CHOOSE i \in places : \A j \in places : i <= j].meas.rsrp

(* The line through the samples, at a time after the first report. *)
SamplesOf(history, pci) ==
  SelectSeq([r \in DOMAIN history |-> [t |-> history[r].at - history[1].at, y |-> LevelOf(history[r], pci)]],
            LAMBDA s : s.y > -199)
Sums(seen) ==
  FoldLeft(LAMBDA x, s : [n |-> x.n + 1, t |-> x.t + s.t, y |-> x.y + s.y, ty |-> x.ty + s.t * s.y, tt |-> x.tt + s.t * s.t],
           [n |-> 0, t |-> 0, y |-> 0, ty |-> 0, tt |-> 0], seen)
Slope(num, den) == IF den = 0 THEN Whole(0) ELSE Quotient(num, den)
Line(x, n, when) ==
  [count |-> x.n,
   level |-> Plus(Quotient(x.y, n), Times(Slope(x.n * x.ty - x.t * x.y, x.n * x.tt - x.t * x.t),
                                          Minus(Whole(when), Quotient(x.t, n))))]
Fitted(x, when) == Line(x, IF x.n = 0 THEN 1 ELSE x.n, when)
Extrapolated(history, pci, when) == Fitted(Sums(SamplesOf(history, pci)), when)

UniqueCells(history) ==
  FoldLeft(LAMBDA c, r : FoldLeft(LAMBDA d, n : Known(d, n.pci), Known(c, r.serving), r.neighbours), <<>>, history)

(* Cells seen twice and not below every level, ranked by where their line is. *)
Lines(history, cells, when) ==
  SelectSeq([i \in DOMAIN cells |-> [pci |-> cells[i], line |-> Extrapolated(history, cells[i], when)]],
            LAMBDA c : c.line.count >= 2 /\ Below(Whole(-200), c.line.level))
Highest(ranked, default) ==
  IF ranked = <<>> THEN default ELSE ranked[FirstLargest([i \in DOMAIN ranked |-> ranked[i].line.level])].pci
PredictAt(history, when) ==
  IF Len(history) < 2 THEN IF history[1].neighbours = <<>> THEN 0 ELSE history[1].neighbours[1].pci
  ELSE Highest(Lines(history, UniqueCells(history), when), history[Len(history)].serving)

ho_predict_next_cell(history, horizon) == PredictAt(history, history[Len(history)].at - history[1].at + horizon)

-----------------------------------------------------------------------------
(* The target cell *)

CellLoadInfo == [num_active_ues : Nat, total_prbs : Nat, used_prbs : Nat]

(* least is the number of users from which on one more costs each of them no
   more than max_sinr_degradation_db, which 10 log(1 + 1/n) falls below. *)
ho_admission_control(load, prbs, threshold, sinr, least) ==
  /\ prbs > 0
  /\ load.total_prbs - load.used_prbs >= prbs
  /\ 100 * (load.used_prbs + prbs) <= threshold * load.total_prbs
  /\ load.num_active_ues > 0 => load.num_active_ues >= least
  /\ sinr >= -6

ho_daps_evaluate(ueCapable, targetCapable, available, required) ==
  ueCapable /\ targetCapable /\ available >= required /\ required >= 2

(* 1.5 J are saved for a dB; a low battery asks for twice the cost. *)
ho_energy_efficient_decision(gain, battery, cost, low) ==
  gain >= 0 /\ 3 * gain > 2 * cost * IF battery < low THEN 2 ELSE 1

Cut(x, lo, hi) == IF x > hi THEN hi ELSE IF x < lo THEN lo ELSE x

(* In tenths of a dB, for steps of whole dB and loads of whole tenths. *)
ho_optimize_cio(cio, serving, target, step, most) ==
  Cut(cio - (step * (Cut(target, 0, 100) - Cut(serving, 0, 100))) \div 10, -most, most)

-----------------------------------------------------------------------------
(* Statistics *)

ho_stats_init == [total |-> 0, successful |-> 0, failed |-> 0, pingpong |-> 0, duration |-> Whole(0),
                  success_rate |-> Whole(1), pingpong_rate |-> Whole(0)]

(* Mutant: the rate is of the failures counted so far. *)
RateOfFailures(stats, success, pingpong, duration) ==
  LET total == stats.total + 1
      successful == stats.successful + IF success THEN 1 ELSE 0
      flagged == stats.pingpong + IF pingpong THEN 1 ELSE 0
  IN  [stats EXCEPT !.total = total, !.successful = successful, !.pingpong = flagged,
                    !.failed = @ + IF success THEN 0 ELSE 1,
                    !.success_rate = Quotient(successful, stats.failed + successful + 1), !.pingpong_rate = Quotient(flagged, total)]

(* The first duration is taken as it is, later ones move the mean by 0.3. *)
ho_stats_update(stats, success, pingpong, duration) ==
  LET total == stats.total + 1
      successful == stats.successful + IF success THEN 1 ELSE 0
      flagged == stats.pingpong + IF pingpong THEN 1 ELSE 0
      mean == IF total = 1 THEN Whole(duration)
              ELSE Plus(Times(Quotient(7, 10), stats.duration), Quotient(3 * duration, 10))
  IN  [total |-> total, successful |-> successful, failed |-> stats.failed + IF success THEN 0 ELSE 1,
       pingpong |-> flagged, duration |-> IF success THEN mean ELSE stats.duration,
       success_rate |-> Quotient(successful, total), pingpong_rate |-> Quotient(flagged, total)]

ho_latency_breakdown(interval, ttt, x2, rach, path, daps) ==
  LET execution == IF daps THEN 0 ELSE 15 + rach
  IN  [measurement |-> interval + ttt, preparation |-> 2 * x2, execution |-> execution, completion |-> 2 * path,
       total |-> interval + ttt + 2 * x2 + execution + 2 * path]

ho_latency_estimate(interval, ttt, x2, rach, path, daps) ==
  ho_latency_breakdown(interval, ttt, x2, rach, path, daps).total

-----------------------------------------------------------------------------
(* Other procedures *)

ho_nr_n2_procedure_step(xn, amf, sessions) ==
  IF xn /\ sessions <= 16 THEN [feasible |-> TRUE, n2 |-> FALSE] ELSE [feasible |-> amf, n2 |-> amf]

WiFiFTState == {"INITIAL", "AUTH_REQUEST", "AUTH_RESPONSE", "REASSOC_REQUEST", "REASSOC_RESPONSE", "COMPLETE", "FAILED"}

(* Mutant: the key is asked for again on every step. *)
FtAskAgain(state, key) ==
  LET after == [INITIAL |-> "AUTH_REQUEST", AUTH_REQUEST |-> "AUTH_RESPONSE",
                AUTH_RESPONSE |-> "REASSOC_REQUEST", REASSOC_REQUEST |-> "REASSOC_RESPONSE", REASSOC_RESPONSE |-> "COMPLETE"]
  IN  IF state \in DOMAIN after THEN [goes |-> TRUE, next |-> IF key THEN after[state] ELSE "FAILED"]
      ELSE [goes |-> FALSE, next |-> state]

(* The key is asked for at the start only. *)
ho_wifi_ft_procedure_step(state, key) ==
  LET after == [INITIAL |-> IF key THEN "AUTH_REQUEST" ELSE "FAILED", AUTH_REQUEST |-> "AUTH_RESPONSE",
                AUTH_RESPONSE |-> "REASSOC_REQUEST", REASSOC_REQUEST |-> "REASSOC_RESPONSE", REASSOC_RESPONSE |-> "COMPLETE"]
  IN  IF state \in DOMAIN after THEN [goes |-> TRUE, next |-> after[state]] ELSE [goes |-> FALSE, next |-> state]

(* Element id, length, and six bytes a neighbour: three of a hash of its
   address, which are left as one, a reserved one, its channel and its level
   between -100 and -30 dBm on a scale to 255. *)
ho_wifi_11k_neighbor_report(neighbors) ==
  LET body == FlattenSeq([i \in DOMAIN neighbors |->
                <<neighbors[i].hash, neighbors[i].hash, neighbors[i].hash, 0, neighbors[i].channel % 256,
                  ((Cut(neighbors[i].rssi, -100, -30) + 100) * 255) \div 70>>])
  IN  IF Len(neighbors) > 32 THEN <<>> ELSE <<52, Len(body) % 256>> \o body

-----------------------------------------------------------------------------
(* A network that uses them *)

HasInit == has = [step |-> "start"]

HasPrepare == \E list \in HasLists, least \in {-110, -95}, most \in {2, 8} :
  /\ has.step = "start"
  /\ \E report \in {Reported(1, -100, 0, list)} :
       has' = [step |-> "prepared", list |-> list, report |-> report, least |-> least, most |-> most,
               candidates |-> ho_conditional_prepare(report, least, most), went |-> 0]

(* The user watches the candidates with levels of its own, later ones. *)
HasExecute ==
  /\ has.step = "prepared" /\ has.went = 0
  /\ \E c \in DOMAIN has.candidates, serving, target \in {-120, -100, -80} :
       /\ ho_conditional_evaluate(serving, target, -110, -105, TRUE)
       /\ has' = [has EXCEPT !.went = has.candidates[c]]

(* Levels that change evenly, reported two or three times; one cell may be
   missing from the first report. *)
HasPredict == \E tracks \in HasTracks, n \in 2 .. 3, late \in BOOLEAN, horizon \in {0, 1, 3} :
  /\ has.step = "start"
  /\ LET level(c, t) == tracks[c][1] + t * tracks[c][2]
         listed(t) == IF late /\ t = 0 THEN <<2>> ELSE <<2, 3>>
         report(t) == Reported(1, level(1, t), t, [i \in DOMAIN listed(t) |-> <<listed(t)[i], level(listed(t)[i], t)>>])
     IN  has' = [step |-> "predicted", tracks |-> tracks, at |-> n - 1 + horizon, late |-> late, n |-> n,
                 next |-> ho_predict_next_cell([r \in 1 .. n |-> report(r - 1)], horizon)]

(* Users ask for admission one by one; who is admitted uses its blocks. *)
HasOpen == \E load \in HasLoads, threshold \in {80, 95} :
  /\ has.step = "start"
  /\ has' = [step |-> "serving", load |-> load, threshold |-> threshold, first |-> load]

HasAdmit == \E prbs \in {0, 5, 20}, sinr \in {-7, 10} :
  /\ has.step = "serving" /\ ho_admission_control(has.load, prbs, has.threshold, sinr, 2)
  /\ has' = [has EXCEPT !.load.used_prbs = @ + prbs, !.load.num_active_ues = @ + 1]

HasBalance == \E serving \in {-10, 30, 90}, target \in {20, 90, 120}, step \in {1, 20} :
  /\ \/ has.step = "start"
     \/ has.step = "balanced" /\ has.round < HasTrials
  /\ LET before == IF has.step = "start" THEN 0 ELSE has.cio
     IN  has' = [step |-> "balanced", before |-> before, loads |-> <<serving, target>>,
                 cio |-> ho_optimize_cio(before, serving, target, step, 60),
                 round |-> IF has.step = "start" THEN 1 ELSE has.round + 1]

HasCount == \E success, pingpong \in BOOLEAN, duration \in {20, 50} :
  /\ \/ has.step = "start"
     \/ has.step = "counted" /\ Len(has.outcomes) < HasTrials
  /\ LET before == IF has.step = "start" THEN ho_stats_init ELSE has.stats
     IN  has' = [step |-> "counted", stats |-> ho_stats_update(before, success, pingpong, duration),
                 outcomes |-> Append(IF has.step = "start" THEN <<>> ELSE has.outcomes, <<success, pingpong>>)]

(* The key for the new access point may leave the cache meanwhile. *)
HasRoam == \E key \in BOOLEAN :
  /\ has.step \in {"start", "roaming"}
  /\ LET before == IF has.step = "start" THEN "INITIAL" ELSE has.ft
         step == ho_wifi_ft_procedure_step(before, key)
     IN  /\ step.goes
         /\ has' = [step |-> "roaming", ft |-> step.next, keys |-> Append(IF has.step = "start" THEN <<>> ELSE has.keys, key)]

HasNeighbor == \E neighbors \in HasNeighbors :
  /\ has.step = "start"
  /\ has' = [step |-> "listed", neighbors |-> neighbors, bytes |-> ho_wifi_11k_neighbor_report(neighbors)]

HasDecide == \E a, b \in BOOLEAN, n \in {1, 2, 16, 17}, gain \in {-1, 0, 2, 3}, battery \in {10, 50} :
  /\ has.step = "start"
  /\ has' = [step |-> "decided", links |-> <<a, b>>, sessions |-> n, n2 |-> ho_nr_n2_procedure_step(a, b, n),
             daps |-> ho_daps_evaluate(a, b, 16, n), gain |-> gain,
             energy |-> ho_energy_efficient_decision(gain, battery, 2, 20),
             energyFull |-> ho_energy_efficient_decision(gain, 100, 2, 20),
             latency |-> [d \in BOOLEAN |-> ho_latency_estimate(40, 160, n, 20, 10, d)]]

HasNext == \/ HasPrepare \/ HasExecute \/ HasPredict \/ HasOpen \/ HasAdmit \/ HasBalance
           \/ HasCount \/ HasRoam \/ HasNeighbor \/ HasDecide

HasSpec == HasInit /\ [][HasNext]_has

-----------------------------------------------------------------------------
(* Properties *)

(* Candidates of a conditional handover are the strongest cells of the report
   that are strong enough, strongest first, and a user goes to one of those;
   a report never holds more than its table, nor a neighbour measurement that
   the library itself calls valid. *)
CandidatesStrongest ==
  has.step = "prepared" =>
    LET cells == has.report.neighbours
        level(pci) == LevelOf(has.report, pci)
        c == has.candidates
    IN  /\ Len(cells) = (IF Len(has.list) < 8 THEN Len(has.list) ELSE 8)
        /\ \A i \in DOMAIN cells : ~Valid(cells[i].meas)
        /\ \A i \in DOMAIN c : level(c[i]) >= has.least /\ \A j \in DOMAIN c : i < j => level(c[i]) >= level(c[j])
        /\ \A i \in DOMAIN cells :
             cells[i].meas.rsrp >= has.least /\ (\A j \in DOMAIN c : c[j] # cells[i].pci) =>
               Len(c) = has.most /\ cells[i].meas.rsrp <= level(c[has.most])
        /\ has.went # 0 => \E i \in DOMAIN has.list : has.list[i][1] = has.went /\ has.list[i][2] >= has.least

(* Of cells whose levels change evenly the prediction is the one that will be
   the strongest, of those seen twice. *)
PredictsStrongest ==
  has.step = "predicted" =>
    LET level(c) == has.tracks[c][1] + has.at * has.tracks[c][2]
        seen == IF has.late /\ has.n = 2 THEN {1, 2} ELSE {1, 2, 3}
    IN  (\E c \in seen : level(c) > -200) => has.next \in seen /\ \A c \in seen : level(c) <= level(has.next)

(* Admission by itself never fills a cell beyond the threshold, and lets a
   user in beside a single one under no circumstances. *)
AdmissionHolds ==
  has.step = "serving" =>
    /\ has.load = has.first \/ 100 * has.load.used_prbs <= has.threshold * has.load.total_prbs
    /\ has.first.num_active_ues = 1 => has.load = has.first

(* The offset stays within its limits, and falls when the target is the more
   loaded of the two cells, as the purpose in handover_optimize.c:206 and the
   comment above the assignment ask for.  The formulas of handover_optimize.h:107
   and handover_optimize.c:209 add the difference where the code subtracts it:
   by them the offset would rise, towards the fuller cell. *)
BalancesLoad ==
  has.step = "balanced" =>
    /\ has.cio \in -60 .. 60
    /\ has.loads[1] < has.loads[2] => has.cio <= has.before
    /\ has.loads[1] > has.loads[2] => has.cio >= has.before

(* The counters and rates are those of the handovers there were. *)
StatisticsAgree ==
  has.step = "counted" =>
    LET n == Len(has.outcomes)
        good == Cardinality({i \in 1 .. n : has.outcomes[i][1]})
        swung == Cardinality({i \in 1 .. n : has.outcomes[i][2]})
        s == has.stats
    IN  /\ s.total = n /\ s.successful = good /\ s.failed = n - good /\ s.pingpong = swung
        /\ s.success_rate = Quotient(good, n) /\ s.pingpong_rate = Quotient(swung, n)
        /\ AtMost(s.duration, Whole(50)) /\ s.duration[1] >= 0

(* A transition that began with the key in the cache completes after five
   steps whatever happens to the cache, and one that began without fails. *)
FastTransitionDecided ==
  has.step = "roaming" =>
    /\ has.ft = "COMPLETE" => Len(has.keys) = 5 /\ has.keys[1]
    /\ has.ft = "FAILED" <=> ~has.keys[1]

(* A reader of the neighbour report finds every neighbour's channel and level
   where the length says. *)
NeighborsListed ==
  has.step = "listed" =>
    IF Len(has.neighbors) > 32 THEN has.bytes = <<>>
    ELSE /\ has.bytes[2] = Len(has.bytes) - 2 /\ Len(has.bytes) = 2 + 6 * Len(has.neighbors)
         /\ \A i, j \in DOMAIN has.neighbors :
              /\ has.bytes[2 + 6 * i - 1] = has.neighbors[i].channel % 256
              /\ has.neighbors[i].rssi <= has.neighbors[j].rssi => has.bytes[2 + 6 * i] <= has.bytes[2 + 6 * j]
              /\ has.bytes[2 + 6 * i] \in 0 .. 255

(* A handover is refused only when neither interface can carry it; a low
   battery never makes one worth while that is not so with a full one. *)
DecisionsConsistent ==
  has.step = "decided" =>
    /\ has.n2.feasible <=> (has.links[1] /\ has.sessions <= 16) \/ has.links[2]
    /\ has.n2.n2 => has.links[2]
    /\ has.energy => has.energyFull
    /\ has.latency[TRUE] < has.latency[FALSE]

AssistSound ==
  /\ CandidatesStrongest /\ PredictsStrongest /\ AdmissionHolds /\ BalancesLoad
  /\ StatisticsAgree /\ FastTransitionDecided /\ NeighborsListed /\ DecisionsConsistent
=============================================================================
