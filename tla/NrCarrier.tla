------------------------------ MODULE NrCarrier -----------------------------
(***************************************************************************)
(* Numerologies, carriers and bandwidth parts of mini-5g-nr-phy,            *)
(* src/nr_phy_common.c, with its tables of modulation and coding schemes,   *)
(* and the grid and the waveform of src/nr_phy_ofdm.c.                      *)
(*                                                                          *)
(* Frequencies are counted in MHz, rates of codes in halves of 1/1024,      *)
(* efficiencies in 1/10000.  A Fourier transform is not computed: a sample  *)
(* of a waveform is its number and the grid it is the transform of, and a   *)
(* receiver that reads the samples of one grid from 0 on has that grid.     *)
(*                                                                          *)
(* The second part has the synchronisation to a cell.                       *)
(***************************************************************************)
EXTENDS Bits, FiniteSetsExt

CONSTANTS
  NbwBandwidths,  \* of a carrier
  NbwParts,       \* triples of an id, a first and a number of blocks
  NbwBlocks,      \* loads of a transport block: elements, rate, order, layers
  NbwGrids        \* mu and the number of blocks of a waveform

VARIABLES carrier, waveform

nrcVars == <<carrier, waveform>>

NR_MAX_MU == 4
NR_NUM_SC_PER_RB == 12
NR_MAX_BWP == 4
NR_MIN_BWP_RB == 24

nr_scs_khz(mu) == 15 * 2 ^ mu
nr_symbols_per_slot(cp) == IF cp = 0 THEN 14 ELSE 12
nr_slots_per_subframe(mu) == 2 ^ mu
nr_slots_per_frame(mu) == 10 * 2 ^ mu

(* The first row of the table that holds the bandwidth, or its last. *)
PrbTable(mu) ==
  CASE mu = 0 -> << <<5, 25>>, <<10, 52>>, <<15, 79>>, <<20, 106>>, <<25, 133>>, <<30, 160>>, <<40, 216>>, <<50, 270>> >>
    [] mu = 1 -> << <<5, 11>>, <<10, 24>>, <<15, 38>>, <<20, 51>>, <<25, 65>>, <<30, 78>>, <<40, 106>>, <<50, 133>>,
                    <<60, 162>>, <<80, 217>>, <<100, 273>> >>
    [] mu = 2 -> << <<10, 11>>, <<15, 18>>, <<20, 24>>, <<25, 31>>, <<30, 38>>, <<40, 51>>, <<50, 65>>, <<60, 79>>,
                    <<80, 107>>, <<100, 135>>, <<200, 264>> >>
    [] OTHER -> << <<50, 32>>, <<100, 66>>, <<200, 132>>, <<400, 264>> >>

nr_prb_count_for_bw(bw, mu) ==
  LET rows == PrbTable(mu)
  IN  rows[Min({i \in DOMAIN rows : bw <= rows[i][1]} \cup {Len(rows)})][2]

nr_numerology_init(mu, cp) ==
  [mu |-> mu, scs_khz |-> nr_scs_khz(mu), slots_per_subframe |-> 2 ^ mu, slots_per_frame |-> 10 * 2 ^ mu,
   symbols_per_slot |-> nr_symbols_per_slot(cp), max_rb |-> nr_prb_count_for_bw(100, mu)]

NumerologyAllowed(mu, cp) == mu \in 0 .. NR_MAX_MU /\ (cp = 1 => mu = 2)

(* A power of two that holds the carrier, unless it is beyond 4096. *)
nr_fft_size_min(mu, prbs) ==
  Min({4096, Max({128 * 2 ^ mu, 2 ^ Min({n \in 0 .. 14 : 2 ^ n >= prbs * NR_NUM_SC_PER_RB})})})

(* The lengths 144 and 160 are taken in samples of a transform of 128. *)
nr_cp_length(symbol, fft, mu) ==
  LET cp == 144 + IF symbol % (7 * 2 ^ mu) = 0 THEN 16 ELSE 0
  IN  (cp * fft + 128 * 2 ^ mu - 1) \div (128 * 2 ^ mu)

-----------------------------------------------------------------------------
(* Schemes and block sizes *)

mcs_table1 ==
  << <<2, 240, 2344>>, <<2, 314, 3066>>, <<2, 386, 3770>>, <<2, 502, 4902>>, <<2, 616, 6016>>, <<2, 758, 7402>>,
     <<2, 898, 8770>>, <<2, 1052, 10273>>, <<2, 1204, 11758>>, <<2, 1358, 13262>>, <<4, 680, 13281>>,
     <<4, 756, 14766>>, <<4, 868, 16953>>, <<4, 980, 19141>>, <<4, 1106, 21602>>, <<4, 1232, 24063>>,
     <<4, 1316, 25703>>, <<6, 876, 25664>>, <<6, 932, 27305>>, <<6, 1034, 30293>>, <<6, 1134, 33223>>,
     <<6, 1232, 36094>>, <<6, 1332, 39023>>, <<6, 1438, 42129>>, <<6, 1544, 45234>>, <<6, 1644, 48164>>,
     <<6, 1746, 51152>>, <<6, 1820, 53320>>, <<6, 1896, 55547>>, <<2, 0, 0>>, <<4, 0, 0>>, <<6, 0, 0>> >>

mcs_table2 ==
  << <<2, 240, 2344>>, <<2, 386, 3770>>, <<2, 616, 6016>>, <<2, 898, 8770>>, <<2, 1204, 11758>>, <<4, 756, 14766>>,
     <<4, 868, 16953>>, <<4, 980, 19141>>, <<4, 1106, 21602>>, <<4, 1232, 24063>>, <<4, 1316, 25703>>,
     <<6, 932, 27305>>, <<6, 1034, 30293>>, <<6, 1134, 33223>>, <<6, 1232, 36094>>, <<6, 1332, 39023>>,
     <<6, 1438, 42129>>, <<6, 1544, 45234>>, <<6, 1644, 48164>>, <<6, 1746, 51152>>, <<8, 1365, 53320>>,
     <<8, 1422, 55547>>, <<8, 1508, 58906>>, <<8, 1594, 62266>>, <<8, 1682, 65703>>, <<8, 1770, 69141>>,
     <<8, 1833, 71602>>, <<8, 1896, 74063>>, <<2, 0, 0>>, <<4, 0, 0>>, <<6, 0, 0>>, <<8, 0, 0>> >>

nr_mcs_lookup(index, table) ==
  LET row == CASE table = 1 -> mcs_table1[index + 1]
               [] table = 2 -> mcs_table2[index + 1]
               [] table = 3 -> mcs_table1[(IF index < 28 THEN index ELSE 28) + 1]
  IN  [order |-> row[1], rate |-> row[2], efficiency |-> row[3]]

nr_mcs_from_efficiency(target, table) ==
  LET enough == {i \in 0 .. 28 : nr_mcs_lookup(i, table).efficiency >= target}
  IN  IF enough = {} THEN -1 ELSE Min(enough)

Log2Of(x, unit) == Max({n \in 0 .. 20 : x >= unit * 2 ^ n \/ n = 0})

(* bits is n_info in 1/1024.  A small block is first divided by a power of
   two that leaves a quotient below 16, from which 24 are then taken. *)
SmallBlock(bits) ==
  LET n == Log2Of(bits, 1024)
      unit == 2 ^ (IF n > 2 THEN n - 3 ELSE 0)
      quotient == (bits \div (1024 * unit)) - 24
  IN  8 * (((IF quotient < 1 THEN 1 ELSE quotient) * unit + 7) \div 8)

LargeBlock(bits, rate) ==
  LET m == bits - 24 * 1024
      n == Max({0, Log2Of(m, 1024) - 5})
      quantized == 2 ^ n * ((m + 512 * 2 ^ n) \div (1024 * 2 ^ n))
      less == IF rate > 256 /\ quantized > 8424 THEN 24 ELSE 0
  IN  8 * ((quantized - less + 7) \div 8)

nr_tbs_calculate(res, rate, order, layers) ==
  LET bits == res * rate * order * layers
  IN  Max({24, IF bits <= 3824 * 1024 THEN SmallBlock(bits) ELSE LargeBlock(bits, rate)})

-----------------------------------------------------------------------------
(* Carriers and bandwidth parts *)

Part(id, first, blocks, mu, active) ==
  [bwp_id |-> id, start_prb |-> first, num_prb |-> blocks, numerology_mu |-> mu, is_active |-> active]

nr_carrier_config_init(bw, mu) ==
  LET blocks == nr_prb_count_for_bw(bw, mu)
  IN  [numerology_mu |-> mu, num_prb |-> blocks, bwps |-> <<Part(0, 0, blocks, mu, TRUE)>>, active_bwp_id |-> 0]

(* Mutant: a part that is configured again takes a new place. *)
AlwaysAppend(cfg, id, first, blocks, mu) ==
  IF id >= NR_MAX_BWP \/ blocks < NR_MIN_BWP_RB \/ first + blocks > cfg.num_prb \/ Len(cfg.bwps) = NR_MAX_BWP THEN cfg
  ELSE [cfg EXCEPT !.bwps = Append(@, Part(id, first, blocks, mu, id = cfg.active_bwp_id))]

nr_bwp_configure(cfg, id, first, blocks, mu) ==
  LET known == {i \in DOMAIN cfg.bwps : cfg.bwps[i].bwp_id = id}
      part == Part(id, first, blocks, mu, id = cfg.active_bwp_id)
      refused == \/ id \notin 0 .. NR_MAX_BWP - 1 \/ blocks < NR_MIN_BWP_RB
                 \/ first < 0 \/ first + blocks > cfg.num_prb
                 \/ known = {} /\ Len(cfg.bwps) >= NR_MAX_BWP
  IN  IF refused THEN cfg
      ELSE [cfg EXCEPT !.bwps = IF known = {} THEN Append(@, part) ELSE [@ EXCEPT ![Min(known)] = part]]

-----------------------------------------------------------------------------
(* Grids and waveforms; an element is the number of its symbol, 0 if empty. *)

(* Frequency first, over the elements the mask leaves. *)
MappedElements(mask, subcarriers, symbols) ==
  SelectSeq([i \in 1 .. subcarriers * symbols |-> <<(i - 1) % subcarriers, (i - 1) \div subcarriers>>],
            LAMBDA e : e \notin mask)

nr_ofdm_resource_mapping(data, mask, subcarriers, symbols) ==
  LET places == MappedElements(mask, subcarriers, symbols)
  IN  [e \in (0 .. subcarriers - 1) \X (0 .. symbols - 1) |->
         LET at == {i \in DOMAIN places : i <= Len(data) /\ places[i] = e}
         IN  IF at = {} THEN 0 ELSE data[Min(at)]]

nr_ofdm_resource_demapping(grid, mask, subcarriers, symbols) ==
  LET places == MappedElements(mask, subcarriers, symbols)
  IN  [i \in DOMAIN places |-> grid[places[i]]]

(* Half of the carrier below and half above the empty middle. *)
Bin(active, fft, sc) == IF sc < active \div 2 THEN fft - (active \div 2) + sc ELSE sc + 1

Grid(active, fft, data, first) ==
  [b \in 0 .. fft - 1 |-> LET at == {sc \in first .. first + Len(data) - 1 : Bin(active, fft, sc) = b}
                          IN  IF at = {} THEN 0 ELSE data[Min(at) - first + 1]]

(* A prefix as long as the transform or longer begins with samples from
   before it, which were never written. *)
nr_ofdm_modulate(mu, prbs, symbol, data, first) ==
  LET fft == nr_fft_size_min(mu, prbs)
      cp == nr_cp_length(symbol, fft, mu)
      grid == Tabulated(Grid(prbs * NR_NUM_SC_PER_RB, fft, data, first))
      sample(n) == [n |-> n, of |-> grid]
  IN  [i \in 1 .. fft + cp |-> IF i > cp THEN sample(i - cp - 1)
                               ELSE IF fft - cp + i - 1 < 0 THEN [n |-> -1, of |-> <<>>] ELSE sample(fft - cp + i - 1)]

nr_ofdm_demodulate(mu, prbs, symbol, samples, count, first) ==
  LET fft == nr_fft_size_min(mu, prbs)
      cp == nr_cp_length(symbol, fft, mu)
      whole == \A n \in 1 .. fft : samples[cp + n] = [n |-> n - 1, of |-> samples[cp + 1].of]
  IN  [i \in 1 .. count |-> IF whole THEN samples[cp + 1].of[Bin(prbs * NR_NUM_SC_PER_RB, fft, first + i - 1)] ELSE -1]

-----------------------------------------------------------------------------
(* Steps of a station *)

NbwInit == carrier = [num_prb |-> 0] /\ waveform = [step |-> "none"]

NbwCarrier == \E bw \in NbwBandwidths, mu \in 0 .. NR_MAX_MU :
  /\ carrier.num_prb = 0 /\ waveform.step = "none"
  /\ carrier' = nr_carrier_config_init(bw, mu)
  /\ UNCHANGED waveform

NbwConfigure == \E p \in NbwParts :
  /\ carrier.num_prb > 0
  /\ carrier' = nr_bwp_configure(carrier, p[1], p[2], p[3], carrier.numerology_mu)
  /\ UNCHANGED waveform

NbwSend == \E g \in NbwGrids, symbol \in {0, 3}, range \in {<<0, 12>>, <<3, 7>>} :
  /\ carrier.num_prb = 0 /\ waveform.step = "none"
  /\ LET data == UpTo(range[2])
     IN  waveform' = [step |-> "sent", mu |-> g[1], prbs |-> g[2], symbol |-> symbol, first |-> range[1], data |-> data,
                      samples |-> Stored(nr_ofdm_modulate(g[1], g[2], symbol, data, range[1]))]
  /\ UNCHANGED carrier

NbwReceive ==
  /\ waveform.step = "sent"
  /\ waveform' = [step |-> "received", data |-> waveform.data,
                  got |-> nr_ofdm_demodulate(waveform.mu, waveform.prbs, waveform.symbol, waveform.samples,
                                             Len(waveform.data), waveform.first)]
  /\ UNCHANGED carrier

NbwMap == \E mask \in {{}, {<<0, 1>>}, {<<1, 0>>, <<2, 0>>, <<0, 2>>}}, n \in 1 .. 9 :
  /\ carrier.num_prb = 0 /\ waveform.step = "none"
  /\ LET grid == nr_ofdm_resource_mapping(UpTo(n), mask, 3, 3)
     IN  waveform' = [step |-> "mapped", data |-> UpTo(n), mask |-> mask,
                      touched |-> {e \in mask : grid[e] # 0},
                      got |-> nr_ofdm_resource_demapping(grid, mask, 3, 3)]
  /\ UNCHANGED carrier

NbwBlock == \E b \in NbwBlocks :
  /\ carrier.num_prb = 0 /\ waveform.step = "none"
  /\ waveform' = [step |-> "block", info |-> (b[1] * b[2] * b[3] * b[4]) \div 1024,
                  tbs |-> nr_tbs_calculate(b[1], b[2], b[3], b[4])]
  /\ UNCHANGED carrier

NbwNext == NbwBlock \/ NbwCarrier \/ NbwConfigure \/ NbwSend \/ NbwReceive \/ NbwMap

NbwSpec == NbwInit /\ [][NbwNext]_nrcVars

-----------------------------------------------------------------------------
(* Properties *)

(* Whatever parts are configured in whatever order, each lies in the carrier,
   no id has two of them, and exactly the active id's part is active. *)
PartsConsistent ==
  carrier.num_prb > 0 =>
    LET parts == carrier.bwps
    IN  /\ Len(parts) <= NR_MAX_BWP
        /\ \A i, j \in DOMAIN parts : parts[i].bwp_id = parts[j].bwp_id => i = j
        /\ \A i \in DOMAIN parts : /\ parts[i].start_prb + parts[i].num_prb <= carrier.num_prb
                                   /\ parts[i].is_active <=> parts[i].bwp_id = carrier.active_bwp_id
        /\ \E i \in DOMAIN parts : parts[i].is_active

(* What was sent is received, although the prefix may not have been written,
   and what a mask keeps free is never touched; a mapped word loses only what
   has no place. *)
GridReturned ==
  /\ waveform.step = "received" => waveform.got = waveform.data
  /\ waveform.step = "mapped" =>
       /\ waveform.touched = {}
       /\ \A i \in DOMAIN waveform.got : waveform.got[i] = IF i \in DOMAIN waveform.data THEN waveform.data[i] ELSE 0

(* Blocks are whole bytes, and fit in what the resources carry, the least
   block of 24 bits and rounding apart. *)
BlocksFit ==
  waveform.step = "block" => /\ waveform.tbs % 8 = 0
                             /\ waveform.tbs <= Max({24, waveform.info + (waveform.info \div 32) + 8})

CarrierSound == PartsConsistent /\ GridReturned /\ BlocksFit

-----------------------------------------------------------------------------
(***************************************************************************)
(* Synchronisation of mini-5g-nr-phy, src/nr_phy_ssb.c: the sequences a     *)
(* cell is recognised by, their detection in a received signal, the search  *)
(* for a cell, and its broadcast information.                               *)
(*                                                                          *)
(* Samples are whole numbers, the real part of the signal; its imaginary    *)
(* part is 0.  Correlations are compared by their size, as the code does    *)
(* with their squares.                                                      *)
(***************************************************************************)

CONSTANTS
  NssCells,    \* pairs nid1, nid2 of the cells
  NssTimings,  \* first samples of the primary sequence
  NssPayloads  \* broadcast payloads, as sequences of bits

VARIABLE nss

NR_PSS_LEN == 127
NR_SSS_LEN == 127
NR_NID1_MAX == 336
NR_PBCH_PAYLOAD_BITS == 56

(* x(i + 7) = x(i + 4) + x(i), from the first seven bits. *)
MSequence(first) == Iterate(LAMBDA x, i : Append(x, (x[i + 4] + x[i]) % 2), first, 127)
PrimaryBits == Stored(MSequence(<<0, 1, 1, 0, 1, 1, 1>>))
SecondaryBits == Stored(MSequence(<<1, 0, 0, 0, 0, 0, 0>>))

nr_pss_sequence(nid2) == [n \in 1 .. NR_PSS_LEN |-> 1 - 2 * PrimaryBits[((n - 1 + 43 * nid2) % 127) + 1]]

(* Both factors are the same sequence, shifted. *)
nr_sss_sequence(nid1, nid2) ==
  LET m0 == 15 * (nid1 \div 112) + 5 * nid2
      m1 == nid1 % 112
  IN  [n \in 1 .. NR_SSS_LEN |->
         (1 - 2 * SecondaryBits[((n - 1 + m0) % 127) + 1]) * (1 - 2 * SecondaryBits[((n - 1 + m1) % 127) + 1])]

(* The size of the correlation at an offset; rests are skipped. *)
Correlation(signal, offset, sequence) ==
  LET sum == FoldFunctionOnSet(+, 0, [n \in 1 .. 127 |-> signal[offset + n] * sequence[n]],
                               {n \in 1 .. 127 : signal[offset + n] # 0})
  IN  IF sum < 0 THEN -sum ELSE sum

(* The first of the keys with the greatest value, or the default if all are 0. *)
Leading(best, key, v) == IF v > best.v THEN [key |-> key, v |-> v] ELSE best
FirstGreatest(keys, value(_), default) ==
  Iterate(LAMBDA best, k : Leading(best, keys[k], value(keys[k])), [key |-> default, v |-> 0], Len(keys))

(* Every fourth offset over the three sequences, then each around the best. *)
Strongest(candidates, signal, default) ==
  FirstGreatest(candidates, LAMBDA c : Correlation(signal, c[2], nr_pss_sequence(c[1])), default)
Coarse(reach) == FlattenSeq([nid2 \in 1 .. 3 |-> [k \in 1 .. (reach + 3) \div 4 |-> <<nid2 - 1, 4 * (k - 1)>>]])
Fine(best, reach) ==
  LET from == Max({0, best[2] - 4})
  IN  [k \in 1 .. Max({0, Min({reach, best[2] + 4}) - from}) |-> <<best[1], from + k - 1>>]
Timed(found) == [nid2 |-> found.key[1], best_timing |-> found.key[2], corr_peak |-> found.v]
Refined(signal, best, reach) == Timed(Strongest(Fine(best, reach), signal, best))
Reach(signal) == Max({0, Len(signal) - NR_PSS_LEN})
nr_pss_detect(signal) ==
  Refined(signal, Strongest(Coarse(Reach(signal)), signal, <<0, 0>>).key, Reach(signal))

Resembling(received, nid2, ids) ==
  FirstGreatest(ids, LAMBDA id : Correlation(received, 0, nr_sss_sequence(id, nid2)), 0)
Named(best, nid2) == [nid1 |-> best.key, corr_peak |-> best.v, nid |-> 3 * best.key + nid2, detected |-> best.v > 0]

(* Mutant: a later candidate that is as good wins. *)
DetectLast(received, nid2) ==
  Named(Resembling(received, nid2, [k \in 1 .. NR_NID1_MAX |-> NR_NID1_MAX - k]), nid2)

nr_sss_detect(received, nid2) ==
  Named(Resembling(received, nid2, [k \in 1 .. NR_NID1_MAX |-> k - 1]), nid2)

(* The second sequence is taken from a fixed distance behind the first; the
   index of the block is decided by the rounding of correlations of sequences
   that do not depend on it, and by what was never received: any will do. *)
Behind(timing, fft, len) == Max({0, Min({timing + 2 * fft + (fft \div 8), len - NR_SSS_LEN})})
Second(signal, offset) == Stored(SubSeq(signal, offset + 1, offset + NR_SSS_LEN))
Searched(pss, sss, index) ==
  [nid1 |-> sss.nid1, nid2 |-> pss.nid2, nid |-> sss.nid, timing |-> pss.best_timing, ssb_index |-> index,
   mib |-> [sfn_6msb |-> 0, subcarrier_spacing_common |-> 0, dmrs_type_a_position |-> 2, cell_barred |-> 0]]
SearchedFrom(pss, signal, fft, index) ==
  Searched(pss, nr_sss_detect(Second(signal, Behind(pss.best_timing, fft, Len(signal))), pss.nid2), index)
nr_cell_search(signal, fft, index) == SearchedFrom(nr_pss_detect(signal), signal, fft, index)

(* Ten times the mean power; the unit in decibels is left out. *)
nr_ssb_rsrp(received) == (10 * FoldFunction(+, 0, [n \in DOMAIN received |-> received[n] * received[n]])) \div NR_SSS_LEN

-----------------------------------------------------------------------------
(* Broadcast information *)

(* seed * 1103515245 + 12345, of which bit 16 needs the lower 17. *)
NextSeed(seed) == ((4 * (((seed \div 4) * 20077) % 32768)) + (seed % 4) * 20077 + 12345) % 131072

nr_pbch_scramble_bits(bits, nid) ==
  LET run == Iterate(LAMBDA s, i : LET next == NextSeed(s.seed)
                                   IN  [seed |-> next, out |-> Append(s.out, (bits[i] + (next \div 65536)) % 2)],
                     [seed |-> nid + 1, out |-> <<>>], Len(bits))
  IN  run.out

(* The payload is repeated over 432 symbols of two bits, by their signs. *)
nr_pbch_payload_encode(bits) ==
  [i \in 1 .. 432 |-> LET sign(k) == 1 - 2 * bits[((2 * i - 2 + k) % NR_PBCH_PAYLOAD_BITS) + 1] IN <<sign(0), sign(1)>>]

MibFields == << <<"sfn_6msb", 0, 6>>, <<"subcarrier_spacing_common", 6, 1>>, <<"ssb_subcarrier_offset", 7, 4>>,
                <<"dmrs_type_a_position", 11, 1>>, <<"pdcch_config_sib1", 12, 8>>, <<"cell_barred", 20, 1>>,
                <<"intra_freq_reselection", 21, 1>> >>

nr_mib_decode(bits) ==
  [name \in {MibFields[i][1] : i \in DOMAIN MibFields} |->
     LET field == MibFields[CHOOSE i \in DOMAIN MibFields : MibFields[i][1] = name]
     IN  FromMsb(SubSeq(bits, field[2] + 1, field[2] + field[3]))]

-----------------------------------------------------------------------------
(* A terminal that is switched on *)

Fft == 64
SignalOf(cell, timing, gain) ==
  LET sss == timing + 2 * Fft + (Fft \div 8)
      part(n) == CASE n \in timing + 1 .. timing + NR_PSS_LEN /\ n <= sss -> nr_pss_sequence(cell[2])[n - timing]
                   [] n \in sss + 1 .. sss + NR_SSS_LEN -> nr_sss_sequence(cell[1], cell[2])[n - sss]
                   [] OTHER -> 0
  IN  [n \in 1 .. timing + 2 * Fft + (Fft \div 8) + NR_SSS_LEN + 9 |-> gain * part(n)]

NssInit == nss = [step |-> "start"]

NssDetect == \E nid2 \in 0 .. 2, timing \in NssTimings, gain \in {1, -2} :
  /\ nss.step = "start"
  /\ \E signal \in {Zeros(timing) \o [n \in 1 .. 127 |-> gain * nr_pss_sequence(nid2)[n]] \o Zeros(9)} :
       nss' = [step |-> "timed", nid2 |-> nid2, timing |-> timing, found |-> nr_pss_detect(signal)]

NssIdentify == \E cell \in NssCells, gain \in {1, -2} :
  /\ nss.step = "start"
  /\ \E sent \in {Stored(nr_sss_sequence(cell[1], cell[2]))} :
     \E received \in {Stored([n \in 1 .. 127 |-> gain * sent[n]])} :
     \E found \in {nr_sss_detect(received, cell[2])} :
       nss' = [step |-> "identified", cell |-> cell, found |-> found, sent |-> sent,
               power |-> nr_ssb_rsrp(received), gain |-> gain, reread |-> Stored(nr_sss_sequence(found.nid1, cell[2]))]

NssSearch == \E cell \in NssCells, timing \in NssTimings, index \in 0 .. 1 :
  /\ nss.step = "start"
  /\ \E signal \in {Stored(SignalOf(cell, timing, 1))} : \E found \in {nr_cell_search(signal, Fft, index)} :
       nss' = [step |-> "searched", cell |-> cell, timing |-> timing, found |-> found,
               sent |-> Stored(nr_sss_sequence(cell[1], cell[2])), reread |-> Stored(nr_sss_sequence(found.nid1, cell[2]))]

NssBroadcast == \E payload \in NssPayloads, nid \in {0, 7, 1007} :
  /\ nss.step = "start"
  /\ \E symbols \in {Stored(nr_pbch_payload_encode(Stored(nr_pbch_scramble_bits(payload, nid))))} :
     \E heard \in {Stored([i \in 1 .. 56 |->
                     IF symbols[((i + 1) \div 2) + 28 * (i % 3)][((i - 1) % 2) + 1] = 1 THEN 0 ELSE 1])} :
     \E read \in {Stored(nr_pbch_scramble_bits(heard, nid))} :
       nss' = [step |-> "broadcast", payload |-> payload, read |-> read, mib |-> nr_mib_decode(read),
               other |-> {i \in 1 .. 22 : nr_mib_decode(Flip(payload, i)) = nr_mib_decode(payload)}]

NssNext == NssDetect \/ NssIdentify \/ NssSearch \/ NssBroadcast

NssSpec == NssInit /\ [][NssNext]_nss

-----------------------------------------------------------------------------
(* Properties *)

(* A primary sequence that begins at a multiple of the coarse step is found
   there, with its identity, at any gain. *)
TimingFound ==
  nss.step = "timed" => nss.found.nid2 = nss.nid2 /\ nss.found.best_timing = nss.timing

(* The identity found has the sequence that was received, and is the least
   with it: identities that share their sequence are never told apart, and
   never taken for one that has another. *)
IdentityFound ==
  nss.step = "identified" =>
    /\ nss.found.detected /\ nss.reread = nss.sent
    /\ nss.found.nid1 <= nss.cell[1] /\ nss.found.nid % 3 = nss.cell[2]
    /\ nss.power = 10 * nss.gain * nss.gain

(* In a burst of both sequences the search finds the timing and a cell with
   these sequences. *)
CellFound ==
  nss.step = "searched" => /\ nss.found.timing = nss.timing /\ nss.found.nid2 = nss.cell[2]
                           /\ nss.reread = nss.sent /\ nss.found.nid = 3 * nss.found.nid1 + nss.found.nid2

(* Any one of the repetitions gives the payload, and each bit of the MIB has
   a field of its own. *)
BroadcastRead ==
  nss.step = "broadcast" => nss.read = nss.payload /\ nss.other = {} /\ nss.mib = nr_mib_decode(nss.payload)

SyncSound == TimingFound /\ IdentityFound /\ CellFound /\ BroadcastRead
=============================================================================
