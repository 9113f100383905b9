-------------------------------- MODULE Exact -------------------------------
(***************************************************************************)
(* The numbers that the libraries keep as double, where their values are    *)
(* fractions: a fraction is a pair of a numerator and a positive            *)
(* denominator without common factor.  Rounding is left out.                *)
(*                                                                          *)
(* The functions log10 and pow follow, in fixed point.                      *)
(***************************************************************************)
EXTENDS Integers, Sequences, SequencesExt

Gcd[a \in Nat, b \in Nat] == IF b = 0 THEN a ELSE Gcd[b, a % b]

Size(n) == IF n < 0 THEN -n ELSE n

Sign(x) == IF x < 0 THEN -1 ELSE 1

(* n / d, for d # 0 *)
Lowered(n, d, g) == <<(Sign(d) * n) \div g, Size(d) \div g>>
Quotient(n, d) == Lowered(n, d, Gcd[Size(n), Size(d)])

Whole(n) == <<n, 1>>

(* The denominators are reduced first, so that products stay small. *)
Added(x, y, g) == Quotient(x[1] * (y[2] \div g) + y[1] * (x[2] \div g), x[2] * (y[2] \div g))
Plus(x, y) == Added(x, y, Gcd[x[2], y[2]])
Crossed(x, y, g, h) == Quotient((x[1] \div g) * (y[1] \div h), (x[2] \div h) * (y[2] \div g))
Times(x, y) == Crossed(x, y, Gcd[Size(x[1]), y[2]], Gcd[Size(y[1]), x[2]])
Negative(x) == <<-x[1], x[2]>>
Minus(x, y) == Plus(x, Negative(y))
Over(x, y) == Times(x, IF y[1] < 0 THEN <<-y[2], -y[1]>> ELSE <<y[2], y[1]>>)
AtMost(x, y) == Minus(x, y)[1] <= 0
Below(x, y) == Minus(x, y)[1] < 0
Total(s) == FoldLeft(Plus, Whole(0), s)

(* The place of the first of the largest elements of a sequence. *)
FirstLargest(s) ==
  CHOOSE i \in DOMAIN s : \A j \in DOMAIN s : AtMost(s[j], s[i]) /\ (j < i => Below(s[j], s[i]))

-----------------------------------------------------------------------------
(***************************************************************************)
(* The functions log10 and pow of the C library on whole numbers, in fixed  *)
(* point: logarithms in ten-thousandths, levels in hundredths of a dB,      *)
(* ratios of powers in thousandths.  A logarithm is within 2 of the exact   *)
(* one, a power within a hundredth of its value.                            *)
(***************************************************************************)

(* The bits of log2 behind the point, for m / 2^14 between 1 and 2: squaring
   doubles the logarithm. *)
Fraction[k \in 0 .. 12, m \in Nat] ==
  IF k = 0 THEN 0
  ELSE LET s == ((m * m) + 8192) \div 16384
       IN  IF s >= 32768 THEN 2^(k - 1) + Fraction[k - 1, s \div 2] ELSE Fraction[k - 1, s]

Exponent[n \in Nat] == IF n < 2 THEN 0 ELSE 1 + Exponent[n \div 2]

(* log2 of a positive number, in units of 2^-12 *)
Log2(n) ==
  LET e == Exponent[n]
  IN  (e * 4096) + Fraction[12, IF e <= 14 THEN n * 2^(14 - e) ELSE n \div 2^(e - 14)]

(* log10(2) / 4096 is 7526 over 102400000. *)
Log10(n) == (Log2(n) * 7526) \div 10240

(* 10 log10 n, in hundredths of a dB *)
Db(n) == Log10(n) \div 10

TenthPowers == <<1000, 1259, 1585, 1995, 2512, 3162, 3981, 5012, 6310, 7943, 10000>>

(* 10^(x / 10) for x dB, in thousandths: whole dB from the table, what lies
   between on a straight line. *)
Linear(x) ==
  LET q == x \div 1000
      k == (x % 1000) \div 100
      m == (TenthPowers[k + 1] * (100 - (x % 100)) + TenthPowers[k + 2] * (x % 100)) \div 100
  IN  IF q >= 5 THEN m * 10^5 ELSE IF q >= 0 THEN m * 10^q ELSE IF q >= -5 THEN m \div 10^(-q) ELSE 0

(* The level of the sum of two powers, from the difference of their levels. *)
PowerSum(a, b) ==
  LET most == IF a > b THEN a ELSE b
      least == IF a > b THEN b ELSE a
  IN  most + Db(1000 + Linear(least - most)) - Db(1000)

(* What a product or quotient of two such numbers is, rounded towards 0. *)
Scaled(x, y, unit) == Sign(x) * Sign(y) * (((Sign(x) * x) * (Sign(y) * y)) \div unit)
=============================================================================
