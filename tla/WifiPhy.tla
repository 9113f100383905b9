------------------------------- MODULE WifiPhy ------------------------------
(***************************************************************************)
(* The OFDM physical layer of mini-wifi-bluetooth, src/wifi_phy.c: the       *)
(* carriers of data and pilots, the symbol built from them, constellations,  *)
(* the space-time code and the interleaver.                                 *)
(*                                                                          *)
(* Amplitudes are whole numbers, without the factor that normalises a        *)
(* constellation; what is received is in quarters of a step of its grid.     *)
(* The transform is taken as it is: its samples are numbered.               *)
(*                                                                          *)
(* The second part has the channel codes.                                   *)
(***************************************************************************)
EXTENDS Bits, FiniteSetsExt

CONSTANTS
  WpyPrefixes,  \* lengths of the cyclic prefix
  WpyNoises,    \* quarters of a step that a channel adds
  WpyGains,     \* gains of a channel, as pairs of whole numbers
  WpyCbps       \* coded bits of an interleaved symbol

VARIABLE wpy

-----------------------------------------------------------------------------
(* Carriers *)

Fft(bw) == [b \in {20, 40, 80, 160} |-> 64 * (b \div 20)][bw]
DataCarriers(bw) == [b \in {20, 40, 80, 160} |-> CASE b = 20 -> 48 [] b = 40 -> 108 [] b = 80 -> 234 [] b = 160 -> 468][bw]
PilotCarriers(bw) == [b \in {20, 40, 80, 160} |-> CASE b = 20 -> 4 [] b = 40 -> 6 [] b = 80 -> 8 [] b = 160 -> 16][bw]

CarrierBin(bw, k) == IF k >= 0 THEN k ELSE Fft(bw) + k

(* Pilots are where the standard has them at 20 MHz and evenly spaced else;
   data fills the rest in order.  Places of data_indices beyond the carriers
   that are left keep what the allocation gave: they are not in the map. *)
ofdm_subcarrier_map_init(bw) ==
  LET half == IF bw = 20 THEN 26 ELSE DataCarriers(bw) \div 2
      step == DataCarriers(bw) \div (PilotCarriers(bw) + 1)
      pilots == IF bw = 20 THEN <<-21, -7, 7, 21>> ELSE [i \in 1 .. PilotCarriers(bw) |-> i * step - half]
      isPilot(k) == \E i \in DOMAIN pilots : pilots[i] = k
      data == SelectSeq([i \in 1 .. 2 * half + 1 |-> i - 1 - half], LAMBDA k : k # 0 /\ ~isPilot(k))
  IN  [fft_size |-> Fft(bw), n_data |-> DataCarriers(bw), n_pilots |-> PilotCarriers(bw),
       pilot_indices |-> Stored([i \in DOMAIN pilots |-> CarrierBin(bw, pilots[i])]),
       data_indices |-> Stored([i \in DOMAIN data |-> CarrierBin(bw, data[i])]),
       pilot_values |-> <<1, 1, 1, -1>>]

(* The register gives its oldest bit and takes the sum of the oldest and the
   fourth; a symbol uses as many bits as it has pilots, and the first counts. *)
PilotRegister(n) == Iterate(LAMBDA r, i : Append(Tail(r), (r[1] + r[4]) % 2), [i \in 1 .. 7 |-> 1], n)
pilot_polarity(symbol, pilots) == IF PilotRegister(symbol * pilots)[1] = 0 THEN 1 ELSE -1

(* The pilot values of the map play no part here. *)
ofdm_insert_pilots(freq, indices, symbol) ==
  [b \in DOMAIN freq |-> IF \E i \in DOMAIN indices : indices[i] = b THEN pilot_polarity(symbol, Len(indices)) ELSE freq[b]]

(* The training sequence, from carrier -26 on. *)
LtsValues == <<1, 1, -1, -1, 1, 1, -1, 1, -1, 1, 1, 1, 1, 1, 1, -1, -1, 1, 1, -1, 1, -1, 1, 1, 1, 1, 0,
               1, -1, -1, 1, 1, -1, 1, -1, 1, -1, -1, -1, -1, -1, 1, 1, -1, -1, 1, -1, 1, -1, 1, 1, 1, 1>>

ofdm_generate_lts(n_fft) ==
  [b \in 0 .. n_fft - 1 |-> IF b <= 26 THEN LtsValues[b + 27] ELSE IF b >= n_fft - 26 THEN LtsValues[b - n_fft + 27] ELSE 0]

(* What goes into the transform: data, then pilots, then nothing at 0. *)
CarrierValues(data, map, symbol) ==
  LET polarity == pilot_polarity(symbol, map.n_pilots)
      pilotAt(b) == {i \in DOMAIN map.pilot_indices : map.pilot_indices[i] = b}
      dataAt(b) == {i \in DOMAIN map.data_indices : map.data_indices[i] = b}
      value(b) == CASE b = 0 -> 0
                    [] b # 0 /\ pilotAt(b) # {} -> polarity * map.pilot_values[((Max(pilotAt(b)) - 1) % 4) + 1]
                    [] b # 0 /\ pilotAt(b) = {} /\ dataAt(b) # {} -> data[Max(dataAt(b))]
                    [] OTHER -> 0
  IN  [b \in 0 .. map.fft_size - 1 |-> value(b)]

(* The samples of a symbol: its last ones, then all, by their number. *)
ofdm_build_symbol(freq, n_cp) ==
  LET n_fft == Cardinality(DOMAIN freq)
  IN  [i \in 1 .. n_cp + n_fft |-> IF i <= n_cp THEN n_fft - n_cp + i - 1 ELSE i - n_cp - 1]

-----------------------------------------------------------------------------
(* Constellations *)

MODULATION == {"BPSK", "QPSK", "16QAM", "64QAM", "256QAM"}
SymbolBits(mod) == [BPSK |-> 1, QPSK |-> 2, 16QAM |-> 4, 64QAM |-> 6, 256QAM |-> 8][mod]

Gray4 == <<0, 1, 3, 2, 6, 7, 5, 4, 12, 13, 15, 14, 10, 11, 9, 8>>
Levels(mod) ==
  CASE mod = "QPSK" -> <<-1, 1>>
    [] mod = "16QAM" -> <<-3, -1, 3, 1>>
    [] mod = "64QAM" -> <<-7, -5, -1, -3, 3, 1, 5, 7>>
    [] mod = "256QAM" -> [b \in 1 .. 16 |-> 2 * Gray4[b] - 15]

(* The lower half of the bits gives the first component. *)
constellation_map(bits, mod) ==
  LET side == 2 ^ (SymbolBits(mod) \div 2)
  IN  IF mod = "BPSK" THEN <<2 * (bits % 2) - 1, 0>>
      ELSE <<Levels(mod)[(bits % side) + 1], Levels(mod)[((bits \div side) % side) + 1]>>

(* round() of a number of quarters: halves away from 0. *)
Rounded(q) == IF q >= 0 THEN (q + 2) \div 4 ELSE -((2 - q) \div 4)

InverseGray == <<0, 1, 3, 2, 6, 7, 5, 4, 12, 13, 15, 14, 10, 11, 9, 8>>

(* The level is the one at or below the rounded value.  QPSK has no bits. *)
constellation_demap_hard(received, mod) ==
  LET side == 2 ^ (SymbolBits(mod) \div 2)
      clamped(x) == Max({1 - side, Min({side - 1, Rounded(x)})})
      bits(x) == IF side = 2 THEN 0 ELSE InverseGray[((clamped(x) + side - 1) \div 2) + 1]
  IN  IF mod = "BPSK" THEN (IF received[1] >= 0 THEN 1 ELSE 0)
      ELSE bits(received[1]) + side * bits(received[2])

Size(x) == IF x < 0 THEN -x ELSE x

(* Soft values in quarters, without the factor of the noise, the first bit of a component
   before the next: its sign, then the distance to each fold of the levels. *)
SoftComponent(x, bits) ==
  LET fold == Iterate(LAMBDA f, k : Append(f, 4 * 2 ^ (bits - k) - Size(f[k])), <<x>>, bits - 1)
  IN  [k \in 1 .. bits |-> IF k = 1 THEN 2 * x ELSE fold[k]]

constellation_demap_soft(received, mod) ==
  IF mod = "BPSK" THEN <<2 * received[1]>>
  ELSE SoftComponent(received[1], SymbolBits(mod) \div 2) \o SoftComponent(received[2], SymbolBits(mod) \div 2)

-----------------------------------------------------------------------------
(* Space-time code *)

Cmul(x, y) == <<x[1] * y[1] - x[2] * y[2], x[1] * y[2] + x[2] * y[1]>>
Conj(x) == <<x[1], -x[2]>>
Cadd(x, y) == <<x[1] + y[1], x[2] + y[2]>>
Cneg(x) == <<-x[1], -x[2]>>

(* By time and antenna. *)
stbc_alamouti_encode_full(s0, s1) == << <<s0, s1>>, <<Cneg(Conj(s1)), Conj(s0)>> >>

(* Mutant: the second symbol is combined with the wrong sign. *)
DecodeAdded(r0, r1, h0, h1) ==
  << Cadd(Cmul(Conj(h0), r0), Cmul(h1, Conj(r1))), Cadd(Cmul(Conj(h1), r0), Cmul(h0, Conj(r1))) >>

(* Both symbols, times the power of the channel. *)
stbc_alamouti_decode(r0, r1, h0, h1) ==
  << Cadd(Cmul(Conj(h0), r0), Cmul(h1, Conj(r1))), Cadd(Cmul(Conj(h1), r0), Cneg(Cmul(h0, Conj(r1)))) >>

-----------------------------------------------------------------------------
(* Interleaver: the first permutation of the standard *)

interleaver_80211a(input) ==
  LET n == Len(input)
      from(i) == 16 * (i % (n \div 16)) + (i \div (n \div 16))
  IN  [i \in 1 .. n |-> input[from(i - 1) + 1]]

(* Places no position leads to keep what they had, 0 here. *)
deinterleaver_80211a(received) ==
  LET n == Len(received)
      to(i) == 16 * i - (n - 1) * ((16 * i) \div n)
      from == Tabulated([k \in 0 .. n - 1 |-> {i \in 0 .. n - 1 : to(i) = k}])
  IN  [k \in 1 .. n |-> IF from[k - 1] = {} THEN 0 ELSE received[Max(from[k - 1]) + 1]]

-----------------------------------------------------------------------------
(* A sender, a channel and a receiver *)

WpyInit == wpy = [step |-> "start"]

WpyMap == \E bw \in {20, 40, 80, 160} :
  wpy.step = "start" /\ wpy' = [step |-> "mapped", bw |-> bw, map |-> ofdm_subcarrier_map_init(bw)]

(* At 20 MHz every place of the map is filled: its symbols can be built. *)
WpyBuild == \E symbol \in {0, 3, 5}, n_cp \in WpyPrefixes :
  /\ wpy.step = "mapped" /\ wpy.bw = 20
  /\ LET data == [i \in 1 .. 48 |-> 100 + i]
         freq == CarrierValues(data, wpy.map, symbol)
     IN  wpy' = [step |-> "built", symbol |-> symbol, map |-> wpy.map, n_cp |-> n_cp, freq |-> Tabulated(freq),
                 lts |-> Tabulated(ofdm_generate_lts(64)), samples |-> ofdm_build_symbol(freq, n_cp),
                 pilots |-> Tabulated(ofdm_insert_pilots(freq, wpy.map.pilot_indices, symbol))]

(* One component of a symbol, received beside its level. *)
WpyReceive == \E mod \in MODULATION, noise \in WpyNoises : \E bits \in 0 .. 2 ^ SymbolBits(mod) - 1 :
  /\ wpy.step = "start"
  /\ LET point == constellation_map(bits, mod)
         received == <<4 * point[1] + noise, 4 * point[2] - noise>>
     IN  wpy' = [step |-> "received", mod |-> mod, bits |-> bits, noise |-> noise,
                 hard |-> constellation_demap_hard(received, mod), soft |-> constellation_demap_soft(received, mod)]

WpySpaceTime == \E h0, h1 \in WpyGains, s0 \in {<<1, -3>>, <<-1, 0>>}, s1 \in {<<1, 1>>, <<3, -1>>} :
  /\ wpy.step = "start"
  /\ LET sent == stbc_alamouti_encode_full(s0, s1)
         heard(t) == Cadd(Cmul(h0, sent[t][1]), Cmul(h1, sent[t][2]))
     IN  wpy' = [step |-> "combined", symbols |-> <<s0, s1>>, power |-> Cmul(h0, Conj(h0))[1] + Cmul(h1, Conj(h1))[1],
                 got |-> stbc_alamouti_decode(heard(1), heard(2), h0, h1)]

WpyInterleave == \E n \in WpyCbps :
  /\ wpy.step = "start"
  /\ \E mixed \in {Stored(interleaver_80211a(UpTo(n)))} :
       wpy' = [step |-> "interleaved", mixed |-> mixed, back |-> Stored(deinterleaver_80211a(mixed))]

WpyNext == WpyMap \/ WpyBuild \/ WpyReceive \/ WpySpaceTime \/ WpyInterleave

WpySpec == WpyInit /\ [][WpyNext]_wpy

-----------------------------------------------------------------------------
(* Properties *)

(* Data and pilots never share a carrier, none lies at 0 or among the guards
   at the edge of the band, and at 20 MHz every data symbol has a carrier. *)
CarriersApart ==
  wpy.step = "mapped" =>
    LET bins(s) == {s[i] : i \in DOMAIN s}
        used == bins(wpy.map.data_indices) \cup bins(wpy.map.pilot_indices)
    IN  /\ Cardinality(used) = Len(wpy.map.data_indices) + wpy.map.n_pilots
        /\ used \subseteq 1 .. wpy.map.fft_size - 1
        /\ \A b \in used : \E c \in used : b + c = wpy.map.fft_size \/ wpy.bw # 20
        /\ wpy.bw = 20 => Len(wpy.map.data_indices) = wpy.map.n_data

(* A symbol carries every data value once, on carriers the training sequence
   has too; its prefix is what it ends with, so that it is cyclic. *)
SymbolCyclic ==
  wpy.step = "built" =>
    /\ \A i \in 1 .. 48 : Cardinality({b \in DOMAIN wpy.freq : wpy.freq[b] = 100 + i}) = 1
    /\ \A b \in DOMAIN wpy.freq : (wpy.freq[b] # 0) <=> (wpy.lts[b] # 0)
    /\ \A i \in 1 .. Len(wpy.samples) - 64 : wpy.samples[i] = wpy.samples[i + 64]
    /\ \A i \in 1 .. Len(wpy.samples) - 1 : wpy.samples[i + 1] = (wpy.samples[i] + 1) % 64

(* Two ways to insert pilots agree on all but the last of four. *)
PilotsAgree ==
  wpy.step = "built" =>
    \A i \in 1 .. 4 : wpy.freq[wpy.map.pilot_indices[i]]
                        = wpy.pilots[wpy.map.pilot_indices[i]] * IF i = 4 THEN -1 ELSE 1

(* BPSK and 16-QAM come back by hard decision, from half a step below a level
   to one and a half above it, and BPSK, QPSK and 16-QAM by the signs of their
   soft values.  That the hard decision finds the bits of the nearest point, as
   wifi_phy.c:537 says, is not so for the others: QPSK is read as no bits, and
   64- and 256-QAM are read by another table than they were mapped with
   (wifi_phy.c:597); of these, two points are still never read alike. *)
SymbolsReturn ==
  wpy.step = "received" =>
    LET half == SymbolBits(wpy.mod) \div 2
        sign(k) == IF wpy.soft[k] > 0 THEN 1 ELSE 0
        signs == IF wpy.mod = "BPSK" THEN <<sign(1)>>
                 ELSE Reverse([k \in 1 .. half |-> sign(k)]) \o Reverse([k \in 1 .. half |-> sign(half + k)])
        clean(bits) == LET point == constellation_map(bits, wpy.mod)
                       IN  constellation_demap_hard(<<4 * point[1], 4 * point[2]>>, wpy.mod)
    IN  /\ wpy.mod \in {"BPSK", "16QAM"} /\ wpy.noise \in -1 .. 1 => wpy.hard = wpy.bits
        /\ wpy.noise \in -1 .. 1 => wpy.hard = clean(wpy.bits)
        /\ wpy.mod # "QPSK" /\ wpy.noise = 0 =>
             \A bits \in 0 .. 2 ^ SymbolBits(wpy.mod) - 1 : wpy.hard = clean(bits) => wpy.bits = bits
        /\ wpy.mod \in {"BPSK", "QPSK", "16QAM"} /\ Size(wpy.noise) < 4 => FromLsb(signs) = wpy.bits

(* The code's combination returns both symbols over any pair of channels. *)
SymbolsCombined ==
  wpy.step = "combined" => \A i \in 1 .. 2 : \A c \in 1 .. 2 : wpy.got[i][c] = wpy.power * wpy.symbols[i][c]

(* The interleaver is undone, and of more than one row it parts neighbours. *)
Uninterleaved ==
  wpy.step = "interleaved" =>
    /\ \A k \in DOMAIN wpy.back : wpy.back[k] = k
    /\ Len(wpy.mixed) > 16 => \A i \in 1 .. Len(wpy.mixed) - 1 : Size(wpy.mixed[i] - wpy.mixed[i + 1]) > 1

WifiPhySound == CarriersApart /\ SymbolCyclic /\ PilotsAgree /\ SymbolsReturn /\ SymbolsCombined /\ Uninterleaved

-----------------------------------------------------------------------------
(***************************************************************************)
(* The channel codes of mini-wifi-bluetooth, src/wifi_coding.c: the          *)
(* convolutional encoder, the Viterbi decoder, puncturing, the systematic    *)
(* code called LDPC, and the frame check sequence.                          *)
(*                                                                          *)
(* The decoder's trellis is not the encoder's: it shifts the other way, and  *)
(* what it expects of a branch depends on the state alone.  It is modelled   *)
(* as it is: it finds the word of its own trellis that is nearest to what    *)
(* the encoder sent, which is not the word that was encoded.                *)
(***************************************************************************)

CONSTANTS
  WcdWords,     \* information words, as sequences of bits
  WcdFrames,    \* frames, as sequences of bytes
  WcdCodes      \* codeword length and rate of the systematic code

VARIABLE wcd

VIT_N_STATES == 64
VIT_TRACEBACK == 36

(* Delays of the inputs that go into each of the two outputs. *)
Taps == << {0, 2, 3, 5, 6}, {0, 3, 4, 5, 6} >>

(* Both output bits of every input bit and of six zero bits after them. *)
conv_encode(input) ==
  LET bit(i) == IF i \in DOMAIN input THEN input[i] ELSE 0
      out(i, g) == Cardinality({j \in Taps[g] : bit(i - j) = 1}) % 2
  IN  [k \in 1 .. 2 * (Len(input) + 6) |-> out((k + 1) \div 2, IF k % 2 = 1 THEN 1 ELSE 2)]

-----------------------------------------------------------------------------
(* Viterbi decoder *)

Unreached == 1000000

(* What the decoder expects when it leaves a state: the new bit is not in it. *)
gen_output ==
  Tabulated([s \in 0 .. VIT_N_STATES - 1 |->
               [g \in 1 .. 2 |-> Cardinality({j \in Taps[g] \ {0} : BitOf(s, j - 1) = 1}) % 2]])

(* A stage: of the two states that lead to one, the first of the better. *)
Stage(metric, a, b) ==
  LET cost == Tabulated([s \in 0 .. VIT_N_STATES - 1 |->
                IF metric[s] >= Unreached THEN Unreached
                ELSE metric[s] + (IF gen_output[s][1] = a THEN 0 ELSE 1) + (IF gen_output[s][2] = b THEN 0 ELSE 1)])
      from(s) == LET p == 2 * (s % 32)
                 IN  IF cost[p] >= Unreached /\ cost[p + 1] >= Unreached THEN 0
                     ELSE IF cost[p + 1] < cost[p] THEN p + 1 ELSE p
      best == Tabulated([s \in 0 .. VIT_N_STATES - 1 |-> from(s)])
  IN  [metric |-> Tabulated([s \in 0 .. VIT_N_STATES - 1 |->
                    LET p == 2 * (s % 32) IN Min({cost[p], cost[p + 1]})]),
       survivor |-> best]

(* Fewer stages than the traceback are refused; the last six bits are tail. *)
viterbi_decode(encoded) ==
  LET stages == Len(encoded) \div 2
      run == Iterate(LAMBDA acc, t : Append(acc, Stage(acc[t].metric, encoded[2 * t - 1], encoded[2 * t])),
                     <<[metric |-> Tabulated([s \in 0 .. VIT_N_STATES - 1 |-> IF s = 0 THEN 0 ELSE Unreached]),
                        survivor |-> <<>>]>>, stages)
      last == run[stages + 1].metric
      best == Min({s \in DOMAIN last : \A t \in DOMAIN last : last[s] <= last[t]})
      back == Iterate(LAMBDA path, k : Append(path, run[stages + 2 - k].survivor[path[k]]), <<best>>, stages)
  IN  [i \in 1 .. stages - 6 |-> back[stages + 1 - i] \div 32]

(* What the decoder expects along the path of a word. *)
Trellis(input) ==
  LET bit(i) == IF i \in DOMAIN input THEN input[i] ELSE 0
      out(i, g) == Cardinality({j \in Taps[g] \ {0} : bit(i - (7 - j)) = 1}) % 2
  IN  [k \in 1 .. 2 * Len(input) |-> out((k + 1) \div 2, IF k % 2 = 1 THEN 1 ELSE 2)]

-----------------------------------------------------------------------------
(* Puncturing *)

Patterns ==
  [r \in {<<1, 2>>, <<2, 3>>, <<3, 4>>, <<5, 6>>} |->
     CASE r = <<2, 3>> -> <<1, 1, 1, 0>>
       [] r = <<3, 4>> -> <<1, 1, 0, 1, 1, 0>>
       [] r = <<5, 6>> -> <<1, 1, 1, 0, 0, 1, 1, 0, 0, 1>>
       [] OTHER -> <<1>>]

Kept(rate, i) == Patterns[rate][((i - 1) % Len(Patterns[rate])) + 1] = 1
count_ones(pattern) == FoldLeft(+, 0, pattern)

conv_puncture(encoded, rate) ==
  LET kept == {i \in DOMAIN encoded : Kept(rate, i)}
  IN  [k \in 1 .. Cardinality(kept) |->
         encoded[CHOOSE i \in kept : Cardinality({j \in kept : j <= i}) = k]]

(* Mutant: the position in what was received moves with every bit. *)
DepunctureByPlace(received, rate) ==
  LET ones == count_ones(Patterns[rate])
      n == ((Len(received) + ones - 1) \div ones) * Len(Patterns[rate])
  IN  [i \in 1 .. n |-> IF Kept(rate, i) /\ i <= Len(received) THEN received[i] ELSE 0]

(* Whole periods; zeros where nothing was sent and after the end. *)
conv_depuncture(received, rate) ==
  LET ones == count_ones(Patterns[rate])
      n == ((Len(received) + ones - 1) \div ones) * Len(Patterns[rate])
      place == Stored([i \in 1 .. n |-> Cardinality({j \in 1 .. i : Kept(rate, j)})])
  IN  [i \in 1 .. n |-> IF Kept(rate, i) /\ place[i] <= Len(received) THEN received[place[i]] ELSE 0]

-----------------------------------------------------------------------------
(* Systematic code *)

ldpc_params_init(n_codeword, num, den) ==
  [n_codeword |-> n_codeword, n_info |-> (n_codeword * num) \div den, z_factor |-> n_codeword \div 24]

(* Groups of z parity bits, each the sum of three of any five groups of
   information and of the group before: of all groups up to it. *)
ldpc_encode(info, params) ==
  LET z == params.z_factor
      groups == (params.n_codeword - params.n_info) \div z
      covered(column) == [q \in 1 .. groups |-> Cardinality({<<g, p>> \in column \X (0 .. q - 1) : (g + p) % 5 < 3}) % 2]
      parity(word) == [b \in 1 .. z |->
        Once(LAMBDA c : Stored(covered(c)), {g \in 0 .. (params.n_info \div z) - 1 : word[g * z + b] = 1})]
  IN  Once(LAMBDA word : Once(LAMBDA sums :
             word \o [i \in 1 .. groups * z |-> sums[((i - 1) % z) + 1][((i - 1) \div z) + 1]]
                  \o Zeros(params.n_codeword - params.n_info - groups * z), Stored(parity(word))), Stored(info))

-----------------------------------------------------------------------------
(* Frame check sequence *)

(* Three entries are not those of the polynomial 0xEDB88320. *)
crc32_table ==
  Tabulated([n \in Byte |->
    CASE n = 72 -> <<30727, 51657>>
      [] n = 157 -> <<36542, 65437>>
      [] n = 187 -> <<23731, 43428>>
      [] OTHER -> Iterate(LAMBDA c, k : IF c[2] % 2 = 1 THEN Xor32(Shr32(c, 1), <<60856, 33568>>) ELSE Shr32(c, 1),
                          <<0, n>>, 8)])

crc32_80211(data) ==
  Not32(Iterate(LAMBDA c, i : Xor32(Shr32(c, 8), crc32_table[XorByte(c[2] % 256, data[i])]),
                <<65535, 65535>>, Len(data)))

-----------------------------------------------------------------------------
(* A sender and a receiver *)

WcdInit == wcd = [step |-> "start"]

WcdDecode == \E word \in WcdWords, wrong \in {0, 1, 17, 40} :
  /\ wcd.step = "start"
  /\ LET received == Stored(Flip(conv_encode(word \o Zeros(34 - Len(word))), wrong))
     IN  wcd' = [step |-> "decoded", received |-> received, got |-> viterbi_decode(received)]

WcdPuncture == \E word \in WcdWords, rate \in DOMAIN Patterns :
  /\ wcd.step = "start"
  /\ LET coded == Stored(conv_encode(word))
     IN  wcd' = [step |-> "punctured", rate |-> rate, word |-> word, coded |-> coded,
                 back |-> Stored(conv_depuncture(Stored(conv_puncture(coded, rate)), rate))]

WcdProtect == \E code \in WcdCodes :
  /\ wcd.step = "start"
  /\ LET params == ldpc_params_init(code[1], code[2], code[3])
         word == Stored([i \in 1 .. params.n_info |-> IF (i * i) % 7 = 2 THEN 1 ELSE 0])
     IN  wcd' = [step |-> "protected", params |-> params, word |-> word, coded |-> ldpc_encode(word, params)]

(* One bit of the information differs: its place decides the rest. *)
WcdCompare == \E place \in {1, 28, 90, 161} :
  /\ wcd.step = "protected" /\ place <= wcd.params.n_info
  /\ \E other \in {ldpc_encode(Flip(wcd.word, place), wcd.params)} :
       wcd' = [step |-> "compared", params |-> wcd.params, place |-> place,
               differ |-> {i \in DOMAIN other : other[i] # wcd.coded[i]}]

(* A byte of a frame is damaged on its way. *)
WcdDamage == \E frame \in WcdFrames, at \in 1 .. 3, flip \in {1, 128, 72, 255} :
  /\ wcd.step = "start" /\ at <= Len(frame)
  /\ wcd' = [step |-> "damaged", frame |-> frame, at |-> at,
             fcs |-> crc32_80211(frame),
             other |-> crc32_80211([frame EXCEPT ![at] = XorByte(@, flip)])]

WcdNext == WcdDecode \/ WcdPuncture \/ WcdProtect \/ WcdCompare \/ WcdDamage

WcdSpec == WcdInit /\ [][WcdNext]_wcd

-----------------------------------------------------------------------------
(* Properties *)

(* What is decoded is, with six bits more, at least as near to what was
   received as any other word is along its path through the decoder's trellis:
   best predecessors, and the way back through them, fit.  (Encoder and decoder
   stand for different codes, wifi_coding.c:83 and :214-220: a word that was
   encoded is not what is decoded of it.) *)
NearestPath ==
  wcd.step = "decoded" =>
    LET others == {word \o Zeros(40 - Len(word)) : word \in WcdWords} \cup {Flip(Zeros(40), i) : i \in 0 .. 40}
        apart(path) == Cardinality({i \in DOMAIN wcd.received : path[i] # wcd.received[i]})
        distance(word) == Once(apart, Stored(Trellis(word)))
        ends == {distance(wcd.got \o Msb(tail, 6)) : tail \in 0 .. 63}
    IN  \A other \in others : Min(ends) <= distance(other)

(* What comes back of a punctured word is the word where it was sent and 0
   elsewhere, and reaches to its end, for lengths that break a period too. *)
PuncturedInPlace ==
  wcd.step = "punctured" =>
    /\ Len(wcd.back) >= Len(wcd.coded) \/ \A i \in Len(wcd.back) + 1 .. Len(wcd.coded) : ~Kept(wcd.rate, i)
    /\ \A i \in DOMAIN wcd.back :
         wcd.back[i] = IF i <= Len(wcd.coded) /\ Kept(wcd.rate, i) THEN wcd.coded[i] ELSE 0

(* Every information bit of a whole group is covered by parity, in its own
   column of the groups. *)
ColumnCovered ==
  wcd.step = "compared" =>
    LET z == wcd.params.z_factor
        parity == {i \in wcd.differ : i > wcd.params.n_info}
    IN  /\ wcd.differ \ parity = {wcd.place}
        /\ wcd.place <= (wcd.params.n_info \div z) * z =>
             parity # {} /\ \A i \in parity : (i - wcd.params.n_info) % z = wcd.place % z

(* A damaged byte is seen, despite the entries of the table that are wrong. *)
DamageSeen == wcd.step = "damaged" => wcd.fcs # wcd.other

WifiCodingSound == NearestPath /\ PuncturedInPlace /\ ColumnCovered /\ DamageSeen
=============================================================================
