------------------------------ MODULE NrControl -----------------------------
(***************************************************************************)
(* The channel coding of mini-5g-nr-phy, src/nr_phy_coding.c: the cyclic    *)
(* redundancy checks, the LDPC code with its circular buffer and min-sum    *)
(* decoder, and the polar code with its sub-block interleaver.              *)
(*                                                                          *)
(* Packed bits are sequences of bits, soft values whole numbers: positive   *)
(* for a 0.  Soft values of the min-sum decoder are multiples of 256, so    *)
(* that four scalings by 3/4 are exact.  Codewords of the polar code have   *)
(* at most 64 bits.                                                         *)
(*                                                                          *)
(* The second part has the control and data channels that use the codes.    *)
(***************************************************************************)
EXTENDS Bits, FiniteSetsExt, NrCarrier

CONSTANTS
  NcLifts,      \* pairs of a base graph and a number of information bits
  NcBuffers,    \* pairs of the start and the length of a reading of the buffer
  NcPolars,     \* triples K, crc_len and E of the polar code
  NcPatterns    \* information words, as functions of the position

VARIABLE nc  \* a word on its way

NR_LDPC_MAX_Z == 384

-----------------------------------------------------------------------------
(* Checks over whole bytes; the register starts and ends inverted. *)

Xor24(x, y) == 65536 * XorByte(x \div 65536, y \div 65536) + Xor16(x % 65536, y % 65536)

CrcStep(crc, bit, width, poly) ==
  LET shifted == (2 * crc + bit) % 2 ^ width
  IN  IF BitOf(crc, width - 1) = 1 THEN Xor24(shifted, poly) ELSE shifted

Crc(data, width, poly) ==
  LET bits == FlattenSeq([i \in 1 .. Len(data) |-> Msb(data[i], 8)])
  IN  IF data = <<>> THEN 0
      ELSE 2 ^ width - 1 - Iterate(LAMBDA crc, i : CrcStep(crc, bits[i], width, poly),
                                   2 ^ width - 1, Len(bits))

(* 0xB2B117, 0x840619, 0x1021, 0x21 and 0x621 below the leading term. *)
nr_crc24c(data) == Crc(data, 24, 11710743)
nr_crc24a(data) == Crc(data, 24, 8652313)
nr_crc16(data) == Crc(data, 16, 4129)
nr_crc6(data) == Crc(data, 6, 33)
nr_crc11(data) == Crc(data, 11, 1569)
NrChecks(data) == <<nr_crc24c(data), nr_crc24a(data), nr_crc16(data), nr_crc6(data), nr_crc11(data)>>

nr_bits_pack(bits) ==
  [b \in 1 .. (Len(bits) + 7) \div 8 |->
     FromMsb([i \in 1 .. 8 |-> IF 8 * b - 8 + i <= Len(bits) THEN bits[8 * b - 8 + i] ELSE 0])]
nr_bits_unpack(packed, n) == [i \in 1 .. n |-> IF (i - 1) \div 8 < Len(packed)
                                               THEN Msb(packed[((i - 1) \div 8) + 1], 8)[((i - 1) % 8) + 1] ELSE 0]

-----------------------------------------------------------------------------
(* LDPC *)

LiftingSizes == FlattenSeq([j \in 1 .. 8 |-> [a \in 1 .. 8 |-> <<2, 3, 5, 7, 9, 11, 13, 15>>[a] * 2 ^ j]])

(* The first size of the table that holds the word, or the greatest. *)
nr_ldpc_init(bg, K) ==
  LET columns == IF bg = 1 THEN 68 ELSE 52
      parity == IF bg = 1 THEN 46 ELSE 42
      fit == {i \in DOMAIN LiftingSizes : /\ LiftingSizes[i] <= NR_LDPC_MAX_Z
                                          /\ (columns - 4) * LiftingSizes[i] >= K}
      Z == IF fit = {} THEN NR_LDPC_MAX_Z ELSE LiftingSizes[Min(fit)]
  IN  [bg |-> bg, Z_c |-> Z, K |-> K, N |-> columns * Z, num_sys_cols |-> 2, num_info_cols |-> columns - parity,
       num_parity_cols |-> parity, num_core_parity |-> 4, num_ext_parity |-> parity - 4, num_punctured |-> 2]

(* Two empty columns, the information, and one column of parity over the
   first columns; the rest of the word is empty. *)
nr_ldpc_encode(ctx, info) ==
  LET Z == ctx.Z_c
      head == Zeros(2 * Z) \o info
      columns == ctx.num_sys_cols + ctx.num_info_cols
      parity(z) == Cardinality({c \in 2 .. columns - 1 : c * Z + z < Len(head) /\ head[c * Z + z + 1] = 1}) % 2
  IN  head \o [z \in 1 .. Z |-> parity(z - 1)] \o Zeros(ctx.N - Len(head) - Z)

(* The circular buffer is read from k0 on; what is read lands there again. *)
nr_ldpc_rate_match(word, k0, E) == [i \in 1 .. E |-> word[((k0 + i - 1) % Len(word)) + 1]]

(* Mutant: the receiver starts at the head of the buffer. *)
RecoverFromHead(N, k0, llr) ==
  LET used == IF Len(llr) < N THEN Len(llr) ELSE N
  IN  [p \in 1 .. N |-> IF p <= used THEN llr[p] ELSE 0]

nr_ldpc_rate_recover(N, k0, llr) ==
  LET used == IF Len(llr) < N THEN Len(llr) ELSE N
  IN  [p \in 1 .. N |-> LET from == (((p - 1 - k0) % N) + 1) IN IF from <= used THEN llr[from] ELSE 0]

(* A check node over the values it is joined to: their least size under the
   product of their signs, scaled by 3/4. *)
CheckNode(values, N, Z, c) ==
  LET joined == {v \in 0 .. (IF N < (c + 10) * Z THEN N ELSE (c + 10) * Z) - 1 : (v + c) % 7 # 0}
      size(x) == IF x < 0 THEN -x ELSE x
      least == Min({size(values[v + 1]) : v \in joined})
      odd == Cardinality({v \in joined : values[v + 1] < 0}) % 2 = 1
  IN  ((IF odd THEN -3 ELSE 3) * least) \div 4

(* Every check node sends one value to all bits, and only the messages of the
   first node change between the rounds; it takes four rounds to call the
   decoder converged. *)
nr_ldpc_decode_min_sum(ctx, llr, max_iter) ==
  LET checks == ctx.num_parity_cols * ctx.Z_c
      rounds == IF max_iter < 4 THEN max_iter ELSE 4
      others == Iterate(LAMBDA sum, c : sum + CheckNode(llr, ctx.N, ctx.Z_c, c), 0, checks - 1)
      next(v2c, t) == LET sum == others + CheckNode([v \in 1 .. ctx.N |-> v2c[v] + llr[v]], ctx.N, ctx.Z_c, 0)
                      IN  Stored([v \in 1 .. ctx.N |-> llr[v] + sum])
      final == Iterate(next, Zeros(ctx.N), rounds)
      hard == [v \in 1 .. ctx.N |-> IF final[v] >= 0 THEN 0 ELSE 1]
  IN  [converged |-> max_iter >= 4, hard_decision |-> hard, output |-> SubSeq(hard, 2 * ctx.Z_c + 1, 2 * ctx.Z_c + ctx.K)]

nr_ldpc_llr_to_hard(llr) == [i \in 1 .. Len(llr) |-> IF llr[i] >= 0 THEN 0 ELSE 1]

-----------------------------------------------------------------------------
(* Polar code *)

(* polar_q_1024, of which codes of 64 bits use the entries below 64. *)
polar_q ==
  <<0, 1, 2, 4, 8, 16, 32, 3, 5, 9, 6, 17, 10, 18, 12, 33, 20, 34, 24, 36, 7, 11, 40, 19, 13, 48, 14, 21, 35, 26, 37,
    25, 22, 38, 41, 28, 42, 49, 44, 50, 15, 52, 23, 56, 27, 39, 29, 43, 30, 45, 51, 46, 53, 54, 57, 58, 60, 31, 47,
    55, 59, 61, 62, 63>>

(* The information set is the beginning of the sequence; a code lengthened to
   32 bits keeps its smaller number of stages. *)
nr_polar_init(K, E, crc_len) ==
  LET total == K + crc_len + IF K + crc_len > 19 THEN 3 ELSE 0
      n == Min({s \in 0 .. 6 : 2 ^ s >= total})
      N == IF n < 5 THEN 32 ELSE 2 ^ n
  IN  [N |-> N, n |-> n, K |-> K, crc_length |-> crc_len, E |-> E,
       rate_match_mode |-> IF E >= N THEN 1 ELSE IF 3 * E <= 2 * N THEN 2 ELSE 3,
       info_set |-> SubSeq(SelectSeq(polar_q, LAMBDA ch : ch < N), 1, total)]

polar_butterfly(u, stage) ==
  [i \in 1 .. Len(u) |-> IF BitOf(i - 1, stage) = 0 THEN (u[i] + u[i + 2 ^ stage]) % 2 ELSE u[i]]

PolarTransform(u, n) == Iterate(LAMBDA v, s : Stored(polar_butterfly(v, s - 1)), u, n)

(* Information and check bits fill the set in the order of the positions. *)
InfoPositions(ctx) == {ctx.info_set[k] : k \in 1 .. ctx.K + ctx.crc_length}
nr_polar_encode(ctx, info) ==
  LET bit(i) == IF i \in InfoPositions(ctx) THEN info[Cardinality({j \in InfoPositions(ctx) : j <= i})] ELSE 0
  IN  PolarTransform([i \in 1 .. ctx.N |-> bit(i - 1)], ctx.n)

(* Written by rows of 32, read by columns. *)
nr_polar_subblock_interleave(word) ==
  LET rows == Len(word) \div 32
  IN  [d \in 1 .. Len(word) |-> word[32 * ((d - 1) % rows) + ((d - 1) \div rows) + 1]]

nr_polar_rate_match(word, E) ==
  LET N == Len(word)
      bits == Stored(nr_polar_subblock_interleave(word))
      start == IF E < N /\ 3 * E <= 2 * N THEN N - E ELSE 0
  IN  [i \in 1 .. E |-> bits[((start + i - 1) % N) + 1]]

(* Repetitions of a bit are averaged; the mean is kept as its sum. *)
nr_polar_rate_recover(llr, N, mode) ==
  LET E == Len(llr)
      sum(p) == FoldFunctionOnSet(+, 0, llr, {i \in 1 .. E : (i - 1) % N = p - 1})
  IN  [p \in 1 .. N |-> CASE E >= N -> sum(p)
                          [] E < N /\ mode = 2 -> IF p > N - E THEN llr[p - (N - E)] ELSE 0
                          [] OTHER -> IF p <= E THEN llr[p] ELSE 0]

-----------------------------------------------------------------------------
(* Words on their way *)

Soft(bits, amplitude) == [i \in 1 .. Len(bits) |-> IF bits[i] = 0 THEN amplitude ELSE -amplitude]
Word(pattern, n) == [i \in 1 .. n |-> pattern[((i - 1) % Len(pattern)) + 1]]

NcInit == nc = [step |-> "start"]

NcCheck == \E p \in NcPatterns :
  /\ nc.step = "start"
  /\ LET data == nr_bits_pack(Word(p, 40)) IN nc' = [step |-> "checked", data |-> data, checks |-> NrChecks(data)]

(* A burst of at most six bits is in the reach of every check. *)
NcDamage == \E at \in 0 .. 34, burst \in {1, 5, 33, 63} :
  /\ nc.step = "checked"
  /\ LET bits == nr_bits_unpack(nc.data, 40)
         hurt == [i \in 1 .. 40 |-> IF i - 1 - at \in 0 .. 5 THEN (bits[i] + BitOf(burst, i - 1 - at)) % 2 ELSE bits[i]]
     IN  nc' = [step |-> "damaged", before |-> nc.checks, after |-> NrChecks(nr_bits_pack(hurt)),
                changed |-> hurt # bits, returned |-> nr_bits_unpack(nr_bits_pack(hurt), 40) = hurt]

NcLdpcEncode == \E l \in NcLifts, p \in NcPatterns :
  /\ nc.step = "start"
  /\ LET ctx == nr_ldpc_init(l[1], l[2])
         info == Word(p, ctx.K)
     IN  nc' = [step |-> "ldpc", ctx |-> ctx, info |-> info, word |-> Stored(nr_ldpc_encode(ctx, info))]

NcLdpcChange == \E at \in {1, 2, nc.ctx.K} :
  /\ nc.step = "ldpc"
  /\ LET other == nr_ldpc_encode(nc.ctx, Flip(nc.info, at))
     IN  nc' = [step |-> "compared", distance |-> Cardinality({i \in 1 .. nc.ctx.N : other[i] # nc.word[i]})]

NcLdpcTransfer == \E b \in NcBuffers :
  /\ nc.step = "ldpc"
  /\ LET sent == nr_ldpc_rate_match(nc.word, b[1], b[2])
         read == nr_ldpc_rate_recover(nc.ctx.N, b[1], Soft(sent, 1))
     IN  nc' = [step |-> "recovered", word |-> nc.word, read |-> Stored(read),
                expected |-> IF b[2] < nc.ctx.N THEN b[2] ELSE nc.ctx.N]

(* One bit is received with another strength. *)
NcLdpcDecode == \E at \in {1, 2 * nc.ctx.Z_c + 1}, value \in {-1024, 256}, rounds \in {3, 5} :
  /\ nc.step = "ldpc"
  /\ LET llr == [Soft(nc.word, 512) EXCEPT ![at] = value]
     IN  nc' = [step |-> "decoded", llr |-> llr, result |-> nr_ldpc_decode_min_sum(nc.ctx, llr, rounds)]

NcPolarEncode == \E k \in NcPolars, p \in NcPatterns :
  /\ nc.step = "start"
  /\ LET ctx == nr_polar_init(k[1], k[3], k[2])
         info == Word(p, ctx.K + ctx.crc_length)
     IN  nc' = [step |-> "polar", ctx |-> ctx, info |-> info, word |-> nr_polar_encode(ctx, info)]

NcPolarTransfer ==
  /\ nc.step = "polar"
  /\ LET sent == nr_polar_rate_match(nc.word, nc.ctx.E)
         read == nr_polar_rate_recover(Soft(sent, 1), nc.ctx.N, nc.ctx.rate_match_mode)
     IN  nc' = [step |-> "recovered", word |-> Stored(nr_polar_subblock_interleave(nc.word)), read |-> Stored(read),
                expected |-> IF nc.ctx.E < nc.ctx.N THEN nc.ctx.E ELSE nc.ctx.N]

NcNext == \/ NcCheck \/ NcDamage \/ NcLdpcEncode \/ NcPolarEncode
          \/ nc.step = "ldpc" /\ (NcLdpcChange \/ NcLdpcTransfer \/ NcLdpcDecode)
          \/ NcPolarTransfer

NcSpec == NcInit /\ [][NcNext]_nc

-----------------------------------------------------------------------------
(* Properties *)

(* A short burst is seen by every check, and packing loses nothing. *)
BurstSeen ==
  nc.step = "damaged" => nc.returned /\ (nc.changed => \A i \in 1 .. 5 : nc.before[i] # nc.after[i])

(* A change of one information bit is seen in its column of parity too. *)
ParityCovers == nc.step = "compared" => nc.distance = 2

(* Whatever part of the buffer was sent, and however often, each soft value is
   back at its bit, and no other place of the buffer has one. *)
BackInPlace ==
  nc.step = "recovered" =>
    /\ Cardinality({p \in DOMAIN nc.read : nc.read[p] # 0}) = nc.expected
    /\ \A p \in DOMAIN nc.read : nc.read[p] # 0 => (nc.read[p] > 0 <=> nc.word[p] = 0)

(* The decoder never decides for 1 at a bit and for 0 at one received more
   surely as a 1, and decides for no 1 when no value is negative. *)
DecisionsOrdered ==
  nc.step = "decoded" =>
    LET llr == nc.llr
        hard == nc.result.hard_decision
        ones == {llr[i] : i \in {j \in DOMAIN llr : hard[j] = 1}}
        zeros == {llr[i] : i \in {j \in DOMAIN llr : hard[j] = 0}}
    IN  /\ \A x \in ones, y \in zeros : x < y
        /\ Cardinality({i \in DOMAIN llr : llr[i] < 0}) = 0 => ones = {}

(* The transform undoes itself: the receiver of a word without errors finds
   the information in its set, and nothing beside it. *)
PolarInverse ==
  nc.step = "polar" =>
    LET u == PolarTransform(nc.word, nc.ctx.n)
        places == InfoPositions(nc.ctx)
    IN  \A i \in 0 .. nc.ctx.N - 1 :
          u[i + 1] = IF i \in places THEN nc.info[Cardinality({j \in places : j <= i})] ELSE 0

CodingSound == BurstSeen /\ ParityCovers /\ BackInPlace /\ DecisionsOrdered /\ PolarInverse

-----------------------------------------------------------------------------
(***************************************************************************)
(* The downlink control and data channels of mini-5g-nr-phy,                *)
(* src/nr_phy_pdcch.c: where a terminal looks for its control information,  *)
(* the information packed into bits, the allocation read from it, and the   *)
(* chain a transport block takes to symbols and back.                       *)
(*                                                                          *)
(* Symbols are pairs of whole numbers, without the factor that scales a     *)
(* constellation; channels have gain 1 or 0 and turn by a right angle.      *)
(***************************************************************************)

CONSTANTS
  NccSpaces,   \* searches: blocks, candidates per level, slot, rnti, user specific
  NccDcis,     \* control information, as sequences of field values
  NccParts,    \* first and number of blocks of a bandwidth part
  NccBlocks    \* transport blocks, as sequences of bytes

VARIABLE ncc

NR_MOD == {"BPSK", "QPSK", "QAM16", "QAM64", "QAM256", "QAM1024"}

nr_modulation_order(mod) ==
  [BPSK |-> 1, QPSK |-> 2, QAM16 |-> 4, QAM64 |-> 6, QAM256 |-> 8, QAM1024 |-> 10][mod]

-----------------------------------------------------------------------------
(* Search spaces *)

(* x % n of C, which keeps the sign. *)
Rem(x, n) == IF x < 0 THEN -((-x) % n) ELSE x % n

(* a * b % 65537 over int, for a below 2^16: a product beyond the width of int
   is taken modulo 2^32, as compilers do; 2^32 is 1 modulo 65537. *)
WideRem(a, b) ==
  LET size == IF b < 0 THEN -b ELSE b
      rest == ((((a * (size \div 256)) % 65537) * 256) + a * (size % 256)) % 65537
      over == size > 2147483647 \div a
      value == IF over THEN -((65537 + 1 - rest) % 65537) ELSE rest
  IN  IF b < 0 THEN -value ELSE value

SearchOffset(slot, rnti) ==
  LET a == <<39827, 39829, 39839>>[(rnti % 3) + 1]
  IN  Iterate(LAMBDA y, i : WideRem(a, y + slot), a, 4)

(* Mutant: the hash is reduced by the number of elements. *)
HashByElements(blocks, candidates, slot, rnti, uss, most) ==
  LET elements == IF blocks \div 6 > 0 THEN blocks \div 6 ELSE blocks
      start(L, M, m) ==
        L * IF uss THEN Rem(SearchOffset(slot, rnti) + ((m * elements) \div (L * M)) + rnti, elements)
                   ELSE m % (elements \div L)
      level(i) == LET L == 2 ^ (i - 1)
                  IN  [m \in 1 .. IF elements < L THEN 0 ELSE candidates[i] |->
                         [candidate_index |-> m - 1, aggr_level |-> L, start_cce |-> start(L, candidates[i], m - 1)]]
      found == FlattenSeq([i \in 1 .. 5 |-> level(i)])
  IN  SubSeq(found, 1, Min({most, Len(found)}))

nr_pdcch_get_candidates(blocks, candidates, slot, rnti, uss, most) ==
  LET elements == IF blocks \div 6 > 0 THEN blocks \div 6 ELSE blocks
      start(L, M, m) ==
        L * IF uss THEN Rem(SearchOffset(slot, rnti) + ((m * elements) \div (L * M)) + rnti, elements \div L)
                   ELSE m % (elements \div L)
      level(i) == LET L == 2 ^ (i - 1)
                  IN  [m \in 1 .. IF elements < L THEN 0 ELSE candidates[i] |->
                         [candidate_index |-> m - 1, aggr_level |-> L, start_cce |-> start(L, candidates[i], m - 1)]]
      found == FlattenSeq([i \in 1 .. 5 |-> level(i)])
  IN  SubSeq(found, 1, Min({most, Len(found)}))

-----------------------------------------------------------------------------
(* Control information *)

DciFields ==
  <<"freq_domain_assign", "time_domain_assign", "vrb_to_prb_mapping", "mcs", "new_data_indicator", "redundancy_version",
    "harq_process_number", "downlink_assignment_index", "tpc_command", "pucch_resource_indicator",
    "pdsch_to_harq_feedback">>
DciWidths == <<13, 4, 1, 5, 1, 2, 4, 2, 2, 3, 3>>

nr_dci_1_0_pack(dci) == FlattenSeq([f \in 1 .. 11 |-> Msb(dci[f], DciWidths[f])])

(* Fields are read from the bits that are there. *)
nr_dci_1_0_unpack(bits) ==
  [f \in 1 .. 11 |->
     LET before == FoldLeft(+, 0, SubSeq(DciWidths, 1, f - 1))
         last == Min({before + DciWidths[f], Len(bits)})
     IN  FromMsb(SubSeq(bits, before + 1, last))]

(* The code is taken over as many bytes as there are bits: what follows the
   information in memory, zero bytes here, is part of it. *)
CodeBytes(bits, n) == SubSeq(nr_bits_pack(bits) \o Zeros(n), 1, n)

CodeFor(bits, n, rnti) ==
  LET crc == nr_crc24c(Stored(CodeBytes(bits, n)))
  IN  65536 * (crc \div 65536) + Xor16(crc % 65536, rnti % 65536)

nr_dci_crc_attach(bits, rnti) == bits \o Msb(CodeFor(bits, Len(bits), rnti), 24)

nr_dci_crc_check(bits, rnti) ==
  LET n == Len(bits) - 24
  IN  FromMsb(SubSeq(bits, n + 1, n + 24)) = CodeFor(bits, n, rnti)

(* The assignment's upper bits are the first block, its lower six the number,
   cut at the end of the part. *)
nr_pdsch_alloc_from_dci(dci, part) ==
  LET first == part[1] + (dci[1] \div 64)
      asked == Max({1, dci[1] % 64})
      scheme == nr_mcs_lookup(dci[4], 2)
  IN  [start_prb |-> first,
       num_prb |-> IF first + asked > part[1] + part[2] THEN part[1] + part[2] - first ELSE asked,
       start_symbol |-> 2, num_symbols |-> nr_symbols_per_slot(0) - 2,
       modulation |-> CHOOSE m \in NR_MOD : nr_modulation_order(m) = scheme.order,
       num_layers |-> 1, rv |-> dci[6], harq_process_id |-> dci[7], ndi |-> dci[5]]

-----------------------------------------------------------------------------
(* The data channel *)

(* Two registers of 31 bits, written as the sequences that pass their ends;
   c_init is rnti * 2^15 + n_id, and its first bit is set. *)
Sequence1(n) == Iterate(LAMBDA x, i : Append(x, (x[i + 3] + x[i]) % 2), <<1>> \o Zeros(30), n)
Sequence2(n, init) ==
  Iterate(LAMBDA y, i : Append(y, (y[i + 3] + y[i + 2] + y[i + 1] + y[i]) % 2), <<1>> \o Tail(init), n)

GoldSequence(n, rnti, n_id) ==
  XorBits(Stored(SubSeq(Sequence1(n), 1, n)),
          Stored(SubSeq(Sequence2(n, Msb((rnti + (n_id \div 32768)) % 65536, 16) \o Msb(n_id % 32768, 15)), 1, n)))

nr_pdsch_scramble(bits, rnti, n_id) == XorBits(bits, Stored(GoldSequence(Len(bits), rnti, n_id)))

nr_pdsch_modulate(bits, mod) ==
  LET order == nr_modulation_order(mod)
      value(b) == CASE mod = "QPSK" -> 1 - 2 * b[1]
                    [] mod = "QAM16" -> IF b[1] = 1 THEN 3 - 2 * b[2] ELSE 2 * b[2] - 3
                    [] mod = "QAM64" -> 2 * FromMsb(b) - 7
                    [] OTHER -> 0
      half(s, h) == SubSeq(bits, (s - 1) * order + h * (order \div 2) + 1, (s - 1) * order + (h + 1) * (order \div 2))
  IN  [s \in 1 .. Len(bits) \div order |-> <<value(half(s, 0)), value(half(s, 1))>>]

(* The sign of each soft bit; schemes above 16 points have none. *)
nr_pdsch_demodulate_soft(symbols, mod) ==
  LET order == nr_modulation_order(mod)
      size(x) == IF x < 0 THEN -x ELSE x
      llr(i) == LET s == symbols[((i - 1) \div order) + 1]
                    k == (i - 1) % order
                IN  CASE mod = "QPSK" -> s[k + 1]
                      [] mod = "QAM16" -> IF k % 2 = 0 THEN s[(k \div 2) + 1] ELSE 2 - size(s[(k \div 2) + 1])
                      [] OTHER -> 0
  IN  [i \in 1 .. Len(symbols) * order |-> llr(i)]

(* The block and its code are repeated over all elements; beyond is the byte
   that follows the block in memory, which its code covers too. *)
nr_pdsch_full_chain_tx(block, beyond, alloc) ==
  LET n == 8 * Len(block)
      crc == nr_crc24c(Stored(block \o [i \in 1 .. n - Len(block) |-> beyond]))
      coded == Stored(nr_bits_unpack(block, n) \o Msb(crc, 24))
      length == alloc.num_prb * NR_NUM_SC_PER_RB * alloc.num_symbols * nr_modulation_order(alloc.modulation)
      word == Stored([i \in 1 .. length |-> coded[((i - 1) % Len(coded)) + 1]])
  IN  [allocation |-> alloc, rnti |-> 4660,
       qam_symbols |-> Stored(nr_pdsch_modulate(Stored(nr_pdsch_scramble(word, 4660, alloc.start_prb)), alloc.modulation))]

Turned(s, h) == <<s[1] * h[1] - s[2] * h[2], s[1] * h[2] + s[2] * h[1]>>

(* Symbols are turned back, those of an empty channel taken as 0. *)
nr_pdsch_full_chain_rx(received, channel, ctx) ==
  LET eq == Stored([i \in DOMAIN received |-> Turned(received[i], <<channel[i][1], -channel[i][2]>>)])
      hard == nr_ldpc_llr_to_hard(Stored(nr_pdsch_demodulate_soft(eq, ctx.allocation.modulation)))
  IN  nr_bits_pack(Stored(nr_pdsch_scramble(Stored(hard), ctx.rnti, ctx.allocation.start_prb)))

(* Symbols by turns to the layers; each layer begins where a layer of the
   rounded-down length would, and a place may be written again. *)
nr_layer_mapping(symbols, layers) ==
  LET per == Len(symbols) \div layers
      place(i) == ((i - 1) % layers) * per + ((i - 1) \div layers)
  IN  [p \in {place(i) : i \in DOMAIN symbols} |-> symbols[Max({i \in DOMAIN symbols : place(i) = p})]]

-----------------------------------------------------------------------------
(* A terminal *)

NccInit == ncc = [step |-> "start"]

NccSearch == \E s \in NccSpaces :
  /\ ncc.step = "start"
  /\ ncc' = [step |-> "searched", space |-> s, elements |-> IF s[1] < 6 THEN s[1] ELSE s[1] \div 6,
             found |-> Stored(nr_pdcch_get_candidates(s[1], s[2], s[3], s[4], s[5], 40))]

(* Some of the bits may be missing. *)
NccControl == \E dci \in NccDcis, n \in {12, 13, 29, 40} :
  /\ ncc.step = "start"
  /\ ncc' = [step |-> "read", dci |-> dci, n |-> n, read |-> nr_dci_1_0_unpack(SubSeq(nr_dci_1_0_pack(dci), 1, n))]

(* The code of a terminal, checked by several. *)
NccCode == \E rnti \in {1, 4660} :
  /\ ncc.step = "read" /\ ncc.n = 40
  /\ \E coded \in {nr_dci_crc_attach(Stored(nr_dci_1_0_pack(ncc.dci)), rnti)} :
       ncc' = [step |-> "coded", accepting |-> {r \in {1, 2, 4660, 65535} : nr_dci_crc_check(coded, r)}]

NccAllocate == \E dci \in NccDcis, part \in NccParts :
  /\ ncc.step = "start"
  /\ ncc' = [step |-> "allocated", part |-> part, alloc |-> nr_pdsch_alloc_from_dci(dci, part)]

(* The channel turns every other symbol, and loses one. *)
NccTransport == \E block \in NccBlocks, beyond \in {0, 255}, lost \in {20} :
  /\ ncc.step = "allocated" /\ ncc.alloc.num_prb = 1 /\ ncc.alloc.modulation \in {"QPSK", "QAM16"}
  /\ \E ctx \in {nr_pdsch_full_chain_tx(block, beyond, ncc.alloc)} :
     \E channel \in {Stored([i \in DOMAIN ctx.qam_symbols |->
                       IF i = lost THEN <<0, 0>> ELSE IF i % 2 = 0 THEN <<0, -1>> ELSE <<1, 0>>])} :
     \E received \in {Stored([i \in DOMAIN channel |-> Turned(ctx.qam_symbols[i], channel[i])])} :
       ncc' = [step |-> "carried", modulation |-> ncc.alloc.modulation, lost |-> lost, block |-> block,
               got |-> SubSeq(nr_pdsch_full_chain_rx(received, channel, ctx), 1, Len(block))]

NccLayers == \E n \in 1 .. 12, layers \in 1 .. 4 :
  /\ ncc.step = "start"
  /\ ncc' = [step |-> "layered", n |-> n, layers |-> layers, mapped |-> nr_layer_mapping(UpTo(n), layers)]

NccNext == NccSearch \/ NccControl \/ NccCode \/ NccAllocate \/ NccTransport \/ NccLayers

NccSpec == NccInit /\ [][NccNext]_ncc

-----------------------------------------------------------------------------
(* Properties *)

(* Candidates lie at a multiple of their level before the end of the set, and
   those of one level never overlap when the set has room for all. *)
CandidatesApart ==
  ncc.step = "searched" =>
    LET c == ncc.found
    IN  /\ \A i \in DOMAIN c : /\ c[i].start_cce % c[i].aggr_level = 0
                               /\ c[i].start_cce + c[i].aggr_level <= ncc.elements
        /\ \A i, j \in DOMAIN c :
             /\ i # j /\ c[i].aggr_level = c[j].aggr_level
             /\ c[i].aggr_level * Cardinality({k \in DOMAIN c : c[k].aggr_level = c[i].aggr_level}) <= ncc.elements
             => c[i].start_cce # c[j].start_cce

(* Control information is read as it was written, field by field as far as the
   bits reach, and no two terminals take the same bits for theirs. *)
ControlRead ==
  /\ ncc.step = "coded" => Cardinality(ncc.accepting) <= 1
  /\ ncc.step = "read" =>
       \A f \in 1 .. 11 : LET last == FoldLeft(+, 0, SubSeq(DciWidths, 1, f))
                          IN  /\ last <= ncc.n => ncc.read[f] = ncc.dci[f]
                              /\ last - DciWidths[f] >= ncc.n => ncc.read[f] = 0

(* An allocation never reaches beyond its part, and has blocks exactly when it
   begins within it. *)
AllocationInside ==
  ncc.step = "allocated" =>
    /\ ncc.alloc.start_prb + ncc.alloc.num_prb <= ncc.part[1] + ncc.part[2]
    /\ ncc.alloc.num_prb >= 1 <=> ncc.alloc.start_prb < ncc.part[1] + ncc.part[2]

(* A block comes back from QPSK through any channel that is known, whatever
   lies behind it in memory; a lost symbol costs its own two bits at most.
   From 16 points every bit comes back inverted. *)
BlockCarried ==
  ncc.step = "carried" =>
    LET sent == nr_bits_unpack(ncc.block, 8 * Len(ncc.block))
        got == nr_bits_unpack(ncc.got, 8 * Len(ncc.block))
        wrong == {i \in DOMAIN sent : (got[i] = sent[i]) # (ncc.modulation = "QPSK")}
        order == nr_modulation_order(ncc.modulation)
    IN  \A i \in wrong : ((i - 1) \div order) + 1 = ncc.lost

(* Without a rest every symbol has its place, in order in its layer. *)
LayersKeepAll ==
  ncc.step = "layered" /\ ncc.n % ncc.layers = 0 =>
    \A p \in 0 .. ncc.n - 1 : LET per == ncc.n \div ncc.layers
                              IN  ncc.mapped[p] = (p % per) * ncc.layers + (p \div per) + 1

ControlSound == CandidatesApart /\ ControlRead /\ AllocationInside /\ BlockCarried /\ LayersKeepAll
=============================================================================
