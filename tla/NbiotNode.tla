------------------------------ MODULE NbiotNode -----------------------------
(***************************************************************************)
(* The NB-IoT node of mini-lora-nbiot: the power saving machine of          *)
(* src/nbiot_power.c, driven with time steps of any length, and the cell    *)
(* search of src/nbiot_phy.c, on samples of any kind.                       *)
(*                                                                          *)
(* Times are whole units, currents micro-amperes.  A synchronization signal *)
(* is what it is generated from: the root of its Zadoff-Chu sequence, its   *)
(* cyclic shift and its scrambling.  The search gives the decoder the       *)
(* samples as they came and the frame number 0, so that any identity may    *)
(* correlate best, whichever cell is on the air.                            *)
(*                                                                          *)
(* The second part has the codes and signals of the air interface.          *)
(***************************************************************************)
EXTENDS Integers, Sequences, FiniteSetsExt, Bits

CONSTANTS
  NbT3324, NbT3412, NbTau,   \* t3324_seconds, t3412_seconds, tau_duration_sec
  NbSteps,                   \* time steps the machine is advanced by
  NbCells                    \* identities whose signal the samples may be most like

(* Timers run for a while, time passes in every step, and identities are
   those of the standard. *)
ASSUME NbAssumption ==
  /\ NbT3324 \in Nat \ {0} /\ NbT3412 \in Nat \ {0} /\ NbTau \in Nat \ {0}
  /\ NbSteps \subseteq Nat \ {0} /\ IsFiniteSet(NbSteps) /\ NbSteps # {}
  /\ NbCells \subseteq 0 .. 503 /\ NbCells # {}

VARIABLES
  nbPsm,    \* nbiot_psm_state_t without its constants
  nbAway,   \* history: time since the device was last active
  nbUsed,   \* history: charge and time of this cycle; fine while all steps are 1
  nbSearch  \* nbiot_cell_search_t

nbVars == <<nbPsm, nbAway, nbUsed, nbSearch>>

-----------------------------------------------------------------------------
(* nbiot_power.c *)

psm_state == {"ACTIVE", "ACTIVE_TIMER", "PSM", "TAU"}

nbiot_psm_init == [state |-> "ACTIVE", t3324 |-> 0, t3412 |-> 0, tau_count |-> 0]

nbiot_psm_current(state) == CASE state = "PSM" -> 3 [] state = "TAU" -> 200000
                              [] state = "ACTIVE" -> 50000 [] state = "ACTIVE_TIMER" -> 5000

(* Time and charge of a cycle, whose ratio is the average current: one unit
   active, T3324 idle, the rest of T3412 in PSM, and the update. *)
PsmTime == Max({0, NbT3412 - NbT3324 - NbTau})
CycleTime == 1 + NbT3324 + PsmTime + NbTau
CycleCharge == nbiot_psm_current("ACTIVE") + NbT3324 * nbiot_psm_current("ACTIVE_TIMER")
                 + PsmTime * nbiot_psm_current("PSM") + NbTau * nbiot_psm_current("TAU")

(* Mutant: the period is counted from the end of the active timer. *)
AdvanceLate(p, dt) ==
  CASE p.state = "ACTIVE" -> [p EXCEPT !.state = "ACTIVE_TIMER", !.t3324 = 0, !.t3412 = 0]
    [] p.state = "ACTIVE_TIMER" ->
         IF p.t3324 + dt >= NbT3324 THEN [p EXCEPT !.state = "PSM", !.t3324 = 0, !.t3412 = 0]
         ELSE [p EXCEPT !.t3324 = @ + dt]
    [] p.state = "PSM" ->
         IF p.t3412 + dt >= NbT3412 THEN [p EXCEPT !.state = "TAU", !.t3412 = 0]
         ELSE [p EXCEPT !.t3412 = @ + dt]
    [] p.state = "TAU" ->
         IF p.t3324 + dt >= NbTau THEN [p EXCEPT !.state = "ACTIVE", !.t3324 = 0, !.tau_count = 1 - @]
         ELSE [p EXCEPT !.t3324 = @ + dt]

(* The step that leaves ACTIVE counts for neither timer; one expiry is seen
   per step, and what a step overshoots is lost.  The count of updates is kept
   modulo 2. *)
nbiot_psm_advance(p, dt) ==
  CASE p.state = "ACTIVE" -> [p EXCEPT !.state = "ACTIVE_TIMER", !.t3324 = 0, !.t3412 = 0]
    [] p.state = "ACTIVE_TIMER" ->
         IF p.t3324 + dt >= NbT3324 THEN [p EXCEPT !.state = "PSM", !.t3324 = 0, !.t3412 = @ + dt]
         ELSE [p EXCEPT !.t3324 = @ + dt, !.t3412 = @ + dt]
    [] p.state = "PSM" ->
         IF p.t3412 + dt >= NbT3412 THEN [p EXCEPT !.state = "TAU", !.t3412 = 0]
         ELSE [p EXCEPT !.t3412 = @ + dt]
    [] p.state = "TAU" ->
         IF p.t3324 + dt >= NbTau THEN [p EXCEPT !.state = "ACTIVE", !.t3324 = 0, !.tau_count = 1 - @]
         ELSE [p EXCEPT !.t3324 = @ + dt]

(* Coverage level and repetitions by received power in dBm. *)
nbiot_select_ce_level(rsrp) ==
  IF rsrp >= -110 THEN [level |-> 0, reps |-> 1]
  ELSE IF rsrp >= -120 THEN [level |-> 0, reps |-> 4]
  ELSE IF rsrp >= -125 THEN [level |-> 1, reps |-> 16]
  ELSE IF rsrp >= -130 THEN [level |-> 1, reps |-> 64]
  ELSE IF rsrp >= -135 THEN [level |-> 2, reps |-> 256]
  ELSE IF rsrp >= -140 THEN [level |-> 2, reps |-> 1024]
  ELSE [level |-> 2, reps |-> 2048]

TransportBlock == <<16, 24, 56, 88, 120, 160, 208, 256, 328, 408, 504, 600, 680>>

(* Bits per second, rounded down; an unknown scheme counts as the first. *)
nbiot_data_rate_with_ce(mcs, reps, uplink) ==
  LET tbs == TransportBlock[IF mcs <= 12 THEN mcs + 1 ELSE 1]
  IN  (1000 * IF uplink THEN tbs \div 6 ELSE tbs) \div Max({1, reps})

-----------------------------------------------------------------------------
(* nbiot_phy.c *)

cell_search_state == {"SCANNING", "NSSS_DECODE", "NPBCH_DECODE", "COMPLETE", "FAILED"}

MaxPcid == 504

(* The secondary signal: the root of the sequence, its shift by the frame
   number, and its scrambling. *)
nbiot_nsss_generate(pci, sfn) ==
  [root |-> Max({1, (pci \div 3) % 131}), shift |-> 33 * ((sfn \div 2) % 4), scrambling |-> pci % 3]

(* The first of the best candidates: those with the same signal as one that
   the samples are most like. *)
nbiot_nsss_decode_pci(signal, sfn) ==
  Min({pci \in 0 .. MaxPcid - 1 : nbiot_nsss_generate(pci, sfn) = signal})

nbiot_cell_search_init == [state |-> "SCANNING", detected_pci |-> 0]

(* The primary signal is found or not.  The samples of subframe 9 are not
   demodulated before they are compared, always with the signals of frame 0:
   which identity they are most like is open.  FAILED and COMPLETE are
   final. *)
nbiot_cell_search_process(search, found, nearest) ==
  CASE search.state = "SCANNING" -> [search EXCEPT !.state = IF found THEN "NSSS_DECODE" ELSE "FAILED"]
    [] search.state = "NSSS_DECODE" ->
         [search EXCEPT !.state = "NPBCH_DECODE",
                        !.detected_pci = nbiot_nsss_decode_pci(nbiot_nsss_generate(nearest, 0), 0)]
    [] search.state = "NPBCH_DECODE" -> [search EXCEPT !.state = "COMPLETE"]
    [] OTHER -> search

-----------------------------------------------------------------------------
NbInit == /\ nbPsm = nbiot_psm_init
          /\ nbAway = 0
          /\ nbUsed = [charge |-> 0, time |-> 0, fine |-> TRUE]
          /\ nbSearch = nbiot_cell_search_init

(* Time passes; the charge drawn is that of the state left. *)
NbAdvance == \E dt \in NbSteps :
  LET old == IF nbPsm.state = "ACTIVE" THEN [charge |-> 0, time |-> 0, fine |-> TRUE] ELSE nbUsed
  IN  /\ nbPsm' = nbiot_psm_advance(nbPsm, dt)
      /\ nbAway' = IF nbPsm.state = "ACTIVE" THEN 0 ELSE nbAway + dt
      /\ nbUsed' = [charge |-> old.charge + dt * nbiot_psm_current(nbPsm.state),
                    time |-> old.time + dt, fine |-> old.fine /\ dt = 1]
      /\ UNCHANGED nbSearch

(* A search runs once the node is awake. *)
NbSearch == \E found \in BOOLEAN, nearest \in NbCells :
  /\ nbPsm.state = "ACTIVE"
  /\ nbSearch' = nbiot_cell_search_process(nbSearch, found, nearest)
  /\ UNCHANGED <<nbPsm, nbAway, nbUsed>>

NbNext == NbAdvance \/ NbSearch

NbSpec == NbInit /\ [][NbNext]_nbVars

-----------------------------------------------------------------------------
(* Properties *)

(* However long the steps are, the device is back within its period: the
   end of PSM and the end of the update overshoot by less than a step each. *)
LongestStep == Max(NbSteps)

BackInTime ==
  nbAway <= Max({NbT3412, NbT3324 + LongestStep}) - 1 + LongestStep + NbTau - 1 + LongestStep

(* The estimate of the average current is on the safe side: a cycle run in
   unit steps draws no more than it says. *)
EstimateIsSafe ==
  nbPsm.state = "ACTIVE" /\ nbUsed.fine /\ nbUsed.time > 0
    => nbUsed.charge * CycleTime <= CycleCharge * nbUsed.time

(* The search never names the identities 3 to 5 and from 393 on, though a
   cell may have them (nbiot_phy.h and the comment of nbiot_nsss_generate tell
   of 0 to 503): the root is taken modulo 131 and is never zero, so that each
   of them has the signal of an earlier one, and the first is kept.  That it
   names the cell on the air is not promised: the samples are not demodulated
   and the frame is taken as 0. *)
SearchNames == nbSearch.detected_pci \in 0 .. 2 \cup 6 .. 392

(* Power saving, its estimate, and what the cell search can name. *)
NodeSound == BackInTime /\ EstimateIsSafe /\ SearchNames

-----------------------------------------------------------------------------
(***************************************************************************)
(* Codes and signals of the NB-IoT air interface (mini-lora-nbiot,          *)
(* src/nbiot_phy.c): the tail-biting convolutional code, the hopping        *)
(* pattern, and the primary synchronization signal with its detector.       *)
(*                                                                          *)
(* The phase of a sample of a Zadoff-Chu sequence is an exact multiple of   *)
(* pi over its length, so a sample is a sign and an exponent.               *)
(***************************************************************************)

CONSTANTS
  NbaBlocks,  \* blocks of bits to code
  NbaCells,   \* cell identities
  NbaPulses   \* what a frame of samples may hold

VARIABLE nba

-----------------------------------------------------------------------------
(* Mutant: the register starts empty. *)
EmptyRegister(input) ==
  LET n == Len(input)
      past(i, k) == IF i > k THEN input[i - k] ELSE 0
      coded(i) == LET s(k) == past(i, k) IN <<(s(0) + s(1) + s(2) + s(3) + s(5)) % 2, (s(0) + s(2) + s(4) + s(5)) % 2,
                                              (s(0) + s(1) + s(3) + s(4)) % 2>>
  IN  FlattenSeq([i \in 1 .. n |-> coded(i)])

(* The last six bits start the register, the oldest of them in the place of
   the newest; of a shorter block they are taken round. *)
nbiot_tbcc_encode(input) ==
  LET n == Len(input)
      last(i) == IF n >= 6 THEN input[n - 6 + i] ELSE input[((2 * n - 1 - (6 - i)) % n) + 1]
      past(i, k) == IF i > k THEN input[i - k] ELSE last(k - i + 1)
      coded(i) == LET s(k) == past(i, k) IN <<(s(0) + s(1) + s(2) + s(3) + s(5)) % 2, (s(0) + s(2) + s(4) + s(5)) % 2,
                                              (s(0) + s(1) + s(3) + s(4)) % 2>>
  IN  FlattenSeq([i \in 1 .. n |-> coded(i)])

(* x -> 1664525 x + 1013904223 modulo 2^32, in halves. *)
NextState(x) ==
  LET low == x[2] * 26125 + 62303
  IN  <<(x[2] * 25 + ((x[1] * 26125) % 65536) + 15470 + (low \div 65536)) % 65536, low % 65536>>

(* Mutant: slots take the twelfths of the range of the state. *)
TwelfthOfRange(pci, slots) ==
  LET state == Iterate(LAMBDA s, i : Append(s, NextState(s[i])), <<<<0, pci>>>>, slots)
  IN  [i \in 1 .. slots |-> (state[i + 1][1] * 12) \div 65536]

nbiot_hopping_pattern(pci, slots) ==
  LET state == Iterate(LAMBDA s, i : Append(s, NextState(s[i])), <<<<0, pci>>>>, slots)
  IN  [i \in 1 .. slots |-> ((state[i + 1][1] % 12) * 4 + state[i + 1][2]) % 12]

(* Sample n as the multiple of pi / len in its phase, modulo 2 len. *)
nbiot_zadoff_chu(len, root) ==
  IF root \notin 1 .. len - 1 THEN <<>> ELSE [n \in 1 .. len |-> (-(root * (n - 1) * n)) % (2 * len)]

(* Symbols 3 to 13 of a subframe, on all carriers alike: the sign and phase;
   the first three are empty. *)
nbiot_npss_generate(pci) ==
  [symbol \in 0 .. 13 |->
     IF symbol < 3 THEN [sign |-> 0, phase |-> 0]
     ELSE [sign |-> IF pci % 3 = 0 /\ symbol % 2 = 0 THEN -1 ELSE 1, phase |-> nbiot_zadoff_chu(11, 5)[symbol - 2]]]

(* The first offset at which a window of samples is most like that a frame
   later, or -1: samples are whole numbers, frames have a hundredth of the
   rate, windows a tenth of a frame. *)
nbiot_npss_detect(samples, rate, threshold) ==
  LET frame == rate \div 100
      window == rate \div 1000
      last == Min({frame, Len(samples) - frame - window})
      like(t) == LET sum == FoldLeft(LAMBDA a, n : a + samples[t + n] * samples[t + n + frame], 0, UpTo(window))
                 IN  IF sum < 0 THEN -sum ELSE sum
      likeness == [t \in 0 .. last - 1 |-> like(t)]
      best == Max({likeness[t] : t \in 0 .. last - 1} \cup {0})
  IN  IF Len(samples) < 2 * frame \/ best < threshold * window THEN -1
      ELSE IF best = 0 THEN 0 ELSE Min({t \in 0 .. last - 1 : likeness[t] = best})

(* The default cell: what differs from 0. *)
nbiot_cell_config_init_default ==
  [deployment |-> "STANDALONE", pci |-> 0, dl_freq |-> 806, ul_freq |-> 847, ul_scs |-> 15, sfn |-> 0,
   sib1_repetitions |-> 4, ce_level |-> 0, npdcch_max_repetitions |-> 16, npdsch_max_repetitions |-> 16,
   rsrp |-> -90, rsrq |-> -10, sinr |-> 5]

(* examples/nbiot_demo.c, but for the secondary signal; powers in twelfths *)
nbiot_demo ==
  [zc |-> nbiot_zadoff_chu(11, 5),
   power |-> FoldLeft(LAMBDA p, k : p + 12 * nbiot_npss_generate(0)[k].sign * nbiot_npss_generate(0)[k].sign, 0, UpTo(13)),
   hop |-> nbiot_hopping_pattern(100, 16), mcl |-> 23 - (-141)]

-----------------------------------------------------------------------------
NbaInit == nba = [at |-> "start"]

NbaEncode == \E block \in NbaBlocks : \E turn \in 1 .. Len(block) - 1 :
  /\ nba.at = "start"
  /\ \E turned \in {SubSeq(block, turn + 1, Len(block)) \o SubSeq(block, 1, turn)} :
       nba' = [at |-> "coded", block |-> block, turn |-> turn, turned |-> turned,
                code |-> nbiot_tbcc_encode(block), turnedCode |-> nbiot_tbcc_encode(turned)]

NbaHop == \E pci \in NbaCells :
  /\ nba.at = "start"
  /\ nba' = [at |-> "hopping", pci |-> pci, pattern |-> nbiot_hopping_pattern(pci, 20), npss |-> nbiot_npss_generate(pci)]

(* Frames that hold the same pulse at the same place. *)
NbaListen == \E frames \in 2 .. 3, place \in 0 .. 19, pulse \in NbaPulses :
  /\ nba.at = "start" /\ place + Len(pulse) <= 20
  /\ LET frame == [i \in 1 .. 20 |-> IF i - place \in 1 .. Len(pulse) THEN pulse[i - place] ELSE 0]
         samples == [i \in 1 .. 20 * frames |-> frame[((i - 1) % 20) + 1]]
     IN  nba' = [at |-> "heard", frames |-> frames, place |-> place, pulse |-> pulse,
                 start |-> nbiot_npss_detect(samples, 2000, 1)]

NbaShow == nba.at = "start" /\ nba' = [at |-> "shown", demo |-> nbiot_demo, cell |-> nbiot_cell_config_init_default]

NbaNext == NbaEncode \/ NbaHop \/ NbaListen \/ NbaShow

NbaSpec == NbaInit /\ [][NbaNext]_nba

-----------------------------------------------------------------------------
(* Properties *)

(* What tail-biting is for: the code of a block turned round is the code of
   the block turned round.  It holds from the sixth bit on, and where the last
   six bits read the same backwards: the register is started the wrong way
   round. *)
TailBites ==
  nba.at = "coded" =>
    LET n == Len(nba.block)
        mirrored(b) == n >= 6 /\ \A k \in 1 .. 3 : b[n - 6 + k] = b[n + 1 - k]
        same(i) == \A k \in 1 .. 3 : nba.turnedCode[3 * (i - 1) + k] = nba.code[3 * ((i + nba.turn - 1) % n) + k]
    IN  \A i \in 1 .. n :
          (i > 5 \/ mirrored(nba.turned)) /\ (((i + nba.turn - 1) % n) + 1 > 5 \/ mirrored(nba.block)) => same(i)

(* A transmission never stays on a subcarrier for two slots, and any four
   slots in a row are spread over the four classes of subcarriers modulo 4. *)
HopsSpread ==
  nba.at = "hopping" =>
    /\ \A i \in 1 .. 19 : nba.pattern[i] # nba.pattern[i + 1]
    /\ \A i \in 1 .. 17 : {nba.pattern[j] % 4 : j \in i .. i + 3} = 0 .. 3

(* The primary signal has 11 symbols of the same power, whose phases read the
   same backwards, and in every third cell signs that alternate. *)
PrimarySignal ==
  nba.at = "hopping" =>
    /\ \A symbol \in 0 .. 13 : nba.npss[symbol].sign = 0 <=> symbol < 3
    /\ \A k \in 3 .. 12 : nba.npss[k].sign # nba.npss[k + 1].sign <=> nba.pci % 3 = 0
    /\ \A k \in 3 .. 13 : nba.npss[k].phase = nba.npss[16 - k].phase

(* The detector finds where a pulse of a window or more begins if it lies whole
   in the samples it searches. *)
PulseFound ==
  nba.at = "heard" =>
    /\ nba.start \in -1 .. 19
    /\ nba.frames = 3 \/ nba.place + 2 <= 18 =>
         nba.start \in nba.place - 1 .. nba.place + Len(nba.pulse) - 1

DemoPower == nba.at = "shown" => nba.demo.power = 12 * 11 /\ nba.demo.mcl = 164

(* A weaker signal never gets a better coverage level, fewer repetitions or,
   whatever the scheme, more bits per second. *)
CoverageOrdered ==
  nba.at = "shown" => \A r \in -145 .. -105 :
    LET weak == nbiot_select_ce_level(r)
        strong == nbiot_select_ce_level(r + 1)
    IN  /\ weak.level >= strong.level /\ weak.reps >= strong.reps
        /\ \A mcs \in 0 .. 13, uplink \in BOOLEAN :
             nbiot_data_rate_with_ce(mcs, weak.reps, uplink) <= nbiot_data_rate_with_ce(mcs, strong.reps, uplink)

AirSound == TailBites /\ HopsSpread /\ PrimarySignal /\ PulseFound /\ DemoPower /\ CoverageOrdered
=============================================================================
