------------------------------ MODULE LoraModem ------------------------------
(***************************************************************************)
(* The chirp modem of mini-lora-nbiot (src/lora_modem.c): a symbol is sent  *)
(* as a cyclic shift of the base up-chirp, and detected by multiplying with *)
(* a chirp and taking the strongest bin of a discrete Fourier transform.    *)
(*                                                                          *)
(* The arithmetic is exact.  Every sample is a power of w = exp(j pi / N),  *)
(* of order 2N with w^N = -1, and is written as its exponent; amplitudes    *)
(* are equal and left out.  The channel is perfect.                         *)
(***************************************************************************)
EXTENDS Integers, FiniteSetsExt

CONSTANT SF   \* spreading factor

VARIABLES
  sent,  \* symbol of the chirp on the air, or NoSymbol
  got    \* symbol the receiver has detected, or NoSymbol

vars == <<sent, got>>

N == 2 ^ SF
Symbols == 0 .. N - 1
NoSymbol == -1
Power == 0 .. 2 * N - 1   \* exponents of w

Init == sent = NoSymbol /\ got = NoSymbol

(* The n-th sample of symbol k: the base chirp w^(n^2), shifted by k. *)
lora_chirp_sample(k, n) == (((n + k) % N) ^ 2) % (2 * N)

(* conj(base_down_chirp(n, N)) = conj(w^(-n^2)). *)
Dechirp(n) == n ^ 2

(* The term of sample n in bin b of the transform. *)
Term(k, b, n) == (lora_chirp_sample(k, n) + Dechirp(n) - 2 * b * n) % (2 * N)

(* The squared magnitude of a bin, a sum over pairs of terms: pairs of equal
   exponents count 1, pairs N apart -1; the others cancel in this transform. *)
Magnitude(k, b) ==
  LET count == [e \in Power |-> Cardinality({n \in Symbols : Term(k, b, n) = e})]
  IN  MapThenSumSet(LAMBDA e : count[e] * (count[e] - count[(e + N) % (2 * N)]), Power)

(* Bins of exactly equal magnitude are told apart by rounding alone. *)
lora_demodulate_symbol_fft(k) ==
  LET magnitude == [b \in Symbols |-> Magnitude(k, b)]
      peak == Max({magnitude[b] : b \in Symbols})
  IN  {b \in Symbols : magnitude[b] = peak}

Transmit(k) == /\ sent = NoSymbol
               /\ sent' = k
               /\ UNCHANGED got

Detect == /\ sent # NoSymbol /\ got = NoSymbol
          /\ got' \in lora_demodulate_symbol_fft(sent)
          /\ UNCHANGED sent

Next == Detect \/ \E k \in Symbols : Transmit(k)

Spec == Init /\ [][Next]_vars

-----------------------------------------------------------------------------
(* A comment of lora_chirp_sample says "The DFT then peaks at bin k,
   recovering the symbol value": what is detected is what was sent. *)
SymbolRecovered == got # NoSymbol => got = sent
=============================================================================
