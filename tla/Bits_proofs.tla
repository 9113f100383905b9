------------------------------ MODULE Bits_proofs ------------------------------
(***************************************************************************)
(* Lemmas about numbers, sequences and the operators of Bits that the       *)
(* proofs of several components need: loops and folds round by round, parts *)
(* of sequences, sequences of sequences, and exclusive or bit by bit.       *)
(***************************************************************************)
EXTENDS Bits, FiniteSetTheorems, SequenceTheorems, WellFoundedInduction, TLAPS
-----------------------------------------------------------------------------
(***************************************************************************)
(* Numbers and loops.  The library has no induction that the provers can    *)
(* cite, so what holds of every round is proved by a least counterexample.  *)
(***************************************************************************)

(* Some numbers have a least one. *)
LEMMA LeastOf ==
  ASSUME NEW T, T \subseteq Nat, T # {}
  PROVE  \E n \in T : \A m \in T : n <= m
<1> DEFINE R == OpToRel(<, Nat)
<1>1. PICK n \in T : \A m \in T : ~(<<m, n>> \in R)
  <2>1. IsWellFoundedOn(R, Nat)
    BY NatLessThanWellFounded
  <2> HIDE DEF R
  <2> QED BY <2>1, WFMin
<1>2. \A m \in Nat : m < n => <<m, n>> \in R
  BY DEF OpToRel
<1>3. \A m \in T : ~(m < n)
  BY <1>1, <1>2
<1> QED BY <1>3

(* Induction over the rounds of a loop. *)
LEMMA ByRounds ==
  ASSUME NEW S, NEW n \in Nat, 0 \in S, \A i \in 1 .. n : i - 1 \in S => i \in S
  PROVE  \A i \in 0 .. n : i \in S
<1> DEFINE T == {i \in 0 .. n : i \notin S}
<1> SUFFICES ASSUME T # {} PROVE FALSE
  OBVIOUS
<1>1. PICK k \in T : \A m \in T : k <= m
  <2>1. T \subseteq Nat
    OBVIOUS
  <2> HIDE DEF T
  <2> QED BY <2>1, LeastOf, Zenon
<1>2. k \in 1 .. n
  BY <1>1
<1>3. k - 1 \in 0 .. n /\ ~(k <= k - 1)
  BY <1>2
<1>4. k - 1 \in S
  BY <1>1, <1>3
<1> QED BY <1>1, <1>2, <1>4

(* What is chosen of a set of one. *)
LEMMA OnlyOne == \A x : (CHOOSE y \in {x} : TRUE) = x
  OBVIOUS
-----------------------------------------------------------------------------
(***************************************************************************)
(* Parts of sequences.                                                      *)
(***************************************************************************)

(* Parts of two sequences that are alike element by element. *)
LEMMA PartsEqual ==
  ASSUME NEW S, NEW s, NEW t, NEW m \in Int, NEW n \in Int, NEW k \in Int, NEW l \in Int, n - m = l - k,
         \A i \in m .. n : s[i] \in S, \A i \in m .. n : s[i] = t[k + (i - m)]
  PROVE  SubSeq(s, m, n) = SubSeq(t, k, l)
<1>1. CASE n < m
  <2>1. l < k
    BY <1>1
  <2> QED BY <1>1, <2>1, SubSeqEmpty
<1>2. CASE m <= n
  <2>1. k <= l /\ l - k + 1 = n - m + 1
    BY <1>2
  <2>2. \A i \in k .. l : m + (i - k) \in m .. n /\ k + ((m + (i - k)) - m) = i
    OBVIOUS
  <2>3. \A i \in k .. l : t[i] \in S
    BY <2>2
  <2>4. /\ SubSeq(s, m, n) \in Seq(S) /\ Len(SubSeq(s, m, n)) = n - m + 1
        /\ \A i \in 1 .. n - m + 1 : SubSeq(s, m, n)[i] = s[m + i - 1]
    BY <1>2, SubSeqProperties
  <2>5. /\ SubSeq(t, k, l) \in Seq(S) /\ Len(SubSeq(t, k, l)) = l - k + 1
        /\ \A i \in 1 .. l - k + 1 : SubSeq(t, k, l)[i] = t[k + i - 1]
    BY <2>1, <2>3, SubSeqProperties
  <2>6. \A i \in 1 .. n - m + 1 : m + i - 1 \in m .. n /\ k + ((m + i - 1) - m) = k + i - 1
    OBVIOUS
  <2>7. \A i \in 1 .. n - m + 1 : SubSeq(s, m, n)[i] = SubSeq(t, k, l)[i]
    BY <2>1, <2>4, <2>5, <2>6

  <2> QED BY <2>1, <2>4, <2>5, <2>7, SeqEqual
<1> QED BY <1>1, <1>2

(* A part of a sequence, and a part of that. *)
LEMMA PartIs ==
  ASSUME NEW S, NEW s \in Seq(S), NEW m \in Nat \ {0}, NEW n \in Nat, n <= Len(s), m <= n + 1
  PROVE  /\ SubSeq(s, m, n) \in Seq(S) /\ Len(SubSeq(s, m, n)) = n - m + 1
         /\ \A i \in 1 .. n - m + 1 : SubSeq(s, m, n)[i] = s[m + i - 1]
<1>1. m \in Int /\ n \in Int /\ \A i \in m .. n : s[i] \in S
  <2>1. \A i \in m .. n : i \in 1 .. Len(s)
    BY LenProperties
  <2> QED BY <2>1, ElementOfSeq
<1>2. /\ SubSeq(s, m, n) \in Seq(S) /\ Len(SubSeq(s, m, n)) = IF m <= n THEN n - m + 1 ELSE 0
      /\ \A i \in 1 .. n - m + 1 : SubSeq(s, m, n)[i] = s[m + i - 1]
  BY <1>1, SubSeqProperties
<1> QED BY <1>2

(* The part of a part is a part. *)
LEMMA PartOfPart ==
  ASSUME NEW S, NEW s \in Seq(S), NEW a \in Nat \ {0}, NEW b \in Nat, b <= Len(s), a <= b + 1,
         NEW m \in Nat \ {0}, NEW n \in Nat, n <= b - a + 1
  PROVE  SubSeq(SubSeq(s, a, b), m, n) = SubSeq(s, a + m - 1, a + n - 1)
<1> DEFINE t == SubSeq(s, a, b)
           k == a + m - 1
           l == a + n - 1
<1>1. t \in Seq(S) /\ Len(t) = b - a + 1 /\ \A i \in 1 .. b - a + 1 : t[i] = s[a + i - 1]
  BY PartIs
<1> HIDE DEF t
<1>2. \A i \in m .. n : i \in 1 .. Len(t) /\ i \in 1 .. b - a + 1 /\ k + (i - m) = a + i - 1
  BY <1>1
<1>3. \A i \in m .. n : t[i] \in S /\ t[i] = s[k + (i - m)]
  BY <1>1, <1>2, ElementOfSeq
<1>4. m \in Int /\ n \in Int /\ k \in Int /\ l \in Int /\ n - m = l - k
  OBVIOUS
<1> HIDE DEF k, l
<1>5. SubSeq(t, m, n) = SubSeq(s, k, l)
  BY <1>3, <1>4, PartsEqual
<1> QED BY <1>5 DEF t, k, l

(* A part of a concatenation that ends in its first member, and one that
   begins in it and takes the second to its end. *)
LEMMA PartOfFirst ==
  ASSUME NEW S, NEW s \in Seq(S), NEW t \in Seq(S), NEW m \in Nat \ {0}, NEW n \in Nat, n <= Len(s)
  PROVE  SubSeq(s \o t, m, n) = SubSeq(s, m, n)
<1> DEFINE c == s \o t
<1>1. c \in Seq(S) /\ \A i \in 1 .. Len(s) : c[i] = s[i]
  BY ConcatProperties, LenProperties
<1> HIDE DEF c
<1>2. \A i \in m .. n : i \in 1 .. Len(s) /\ m + (i - m) = i
  BY LenProperties
<1>3. \A i \in m .. n : c[i] \in S /\ c[i] = s[m + (i - m)]
  BY <1>1, <1>2, ElementOfSeq
<1>4. m \in Int /\ n \in Int /\ n - m = n - m
  OBVIOUS
<1>5. SubSeq(c, m, n) = SubSeq(s, m, n)
  BY <1>3, <1>4, PartsEqual
<1> QED BY <1>5 DEF c

(* What follows within the second member of a concatenation. *)
LEMMA RestOfBoth ==
  ASSUME NEW S, NEW s \in Seq(S), NEW t \in Seq(S), NEW m \in Nat \ {0}, m <= Len(s) + 1
  PROVE  SubSeq(s, m, Len(s)) \o t = SubSeq(s \o t, m, Len(s) + Len(t))
<1> DEFINE c == s \o t
           p == SubSeq(s, m, Len(s))
           q == SubSeq(c, m, Len(s) + Len(t))
           r == p \o t
<1>1. Len(s) \in Nat /\ Len(t) \in Nat
  BY LenProperties
<1>2. /\ c \in Seq(S) /\ Len(c) = Len(s) + Len(t)
      /\ \A i \in 1 .. Len(s) + Len(t) : c[i] = IF i <= Len(s) THEN s[i] ELSE t[i - Len(s)]
  BY ConcatProperties
<1> HIDE DEF c
<1>3. p \in Seq(S) /\ Len(p) = Len(s) - m + 1 /\ \A i \in 1 .. Len(s) - m + 1 : p[i] = s[m + i - 1]
  BY <1>1, PartIs
<1>4. /\ q \in Seq(S) /\ Len(q) = Len(s) + Len(t) - m + 1
      /\ \A i \in 1 .. Len(s) + Len(t) - m + 1 : q[i] = c[m + i - 1]
  <2>1. Len(s) + Len(t) \in Nat /\ Len(s) + Len(t) <= Len(c) /\ m <= Len(s) + Len(t) + 1
    BY <1>1, <1>2
  <2> QED BY <1>2, <2>1, PartIs
<1> HIDE DEF p, q
<1>5. /\ r \in Seq(S) /\ Len(r) = Len(p) + Len(t)
      /\ \A i \in 1 .. Len(p) + Len(t) : r[i] = IF i <= Len(p) THEN p[i] ELSE t[i - Len(p)]
  BY <1>3, ConcatProperties
<1> HIDE DEF r
<1>6. Len(r) = Len(q)
  BY <1>1, <1>3, <1>4, <1>5
<1>7. ASSUME NEW i \in 1 .. Len(r) PROVE r[i] = q[i]
  <2>1. i \in Nat /\ i <= Len(s) + Len(t) - m + 1 /\ i >= 1
    BY <1>1, <1>3, <1>5
  <2>2. q[i] = c[m + i - 1] /\ m + i - 1 \in 1 .. Len(s) + Len(t)
    BY <1>1, <1>4, <2>1
  <2>3. CASE i <= Len(p)
    <3>1. i \in 1 .. Len(s) - m + 1 /\ m + i - 1 <= Len(s)
      BY <1>1, <1>3, <2>1, <2>3
    <3>2. r[i] = p[i] /\ p[i] = s[m + i - 1]
      BY <1>3, <1>5, <2>3, <3>1
    <3> QED BY <1>2, <2>2, <3>1, <3>2
  <2>4. CASE ~(i <= Len(p))
    <3>1. ~(m + i - 1 <= Len(s)) /\ i - Len(p) = (m + i - 1) - Len(s)
      BY <1>1, <1>3, <2>1, <2>4
    <3> QED BY <1>2, <1>5, <2>2, <2>4, <3>1
  <2> QED BY <2>3, <2>4
<1>8. r = q
  BY <1>4, <1>5, <1>6, <1>7, SeqEqual
<1> QED BY <1>8 DEF p, q, r, c

(* Sequences put together. *)
LEMMA Concat ==
  ASSUME NEW S, NEW s \in Seq(S), NEW t \in Seq(S)
  PROVE  /\ s \o t \in Seq(S)
         /\ Len(s \o t) = Len(s) + Len(t)
         /\ \A i \in 1 .. Len(s) : (s \o t)[i] = s[i]
         /\ \A i \in 1 .. Len(t) : (s \o t)[Len(s) + i] = t[i]
<1>1. Len(s) \in Nat /\ Len(t) \in Nat
  BY LenProperties
<1>2. \A i \in 1 .. Len(s) + Len(t) : (s \o t)[i] = IF i <= Len(s) THEN s[i] ELSE t[i - Len(s)]
  BY ConcatProperties, Zenon
<1>3. \A i \in 1 .. Len(s) : i \in 1 .. Len(s) + Len(t) /\ i <= Len(s)
  BY <1>1
<1>4. \A i \in 1 .. Len(t) : /\ Len(s) + i \in 1 .. Len(s) + Len(t) /\ ~(Len(s) + i <= Len(s))
                             /\ (Len(s) + i) - Len(s) = i
  BY <1>1
<1>5. \A i \in 1 .. Len(s) : (s \o t)[i] = s[i]
  BY <1>2, <1>3, Zenon
<1>6. \A i \in 1 .. Len(t) : (s \o t)[Len(s) + i] = t[i]
  BY <1>2, <1>4, Zenon
<1> QED BY <1>5, <1>6, ConcatProperties, Zenon

(* An array is a sequence of its length. *)
LEMMA ArraySeq ==
  ASSUME NEW S, NEW k \in Nat, NEW f \in [1 .. k -> S]
  PROVE  f \in Seq(S) /\ Len(f) = k
<1>1. f \in Seq(S)
  BY SeqDef
<1> QED BY <1>1, LenProperties

(* A function written out element by element remains what it is. *)
LEMMA StoredIs ==
  ASSUME NEW V, NEW n \in Nat, NEW s \in [1 .. n -> V]
  PROVE  Stored(s) = s
<1>1. s \in Seq(V)
  BY SeqDef
<1> QED BY <1>1, ConcatEmptySeq DEF Stored
-----------------------------------------------------------------------------
(***************************************************************************)
(* Sequences of sequences, one after the other.                              *)
(***************************************************************************)

(* The table of the concatenation of the first sequences. *)
Flat(seqs, n, f) == f = [i \in 1 .. n |-> IF i = 1 THEN seqs[i] ELSE f[i - 1] \o seqs[i]]

(* A concatenation of sequences exists, one sequence after the other. *)
LEMMA FlatExists ==
  ASSUME NEW seqs, NEW n \in Nat \ {0}
  PROVE  \E f : Flat(seqs, n, f)
<1> DEFINE S == {i \in 0 .. n - 1 : \E f : Flat(seqs, i + 1, f)}
<1>1. 0 \in S
  <2> DEFINE f == [i \in 1 .. 0 + 1 |-> seqs[i]]
  <2>1. f = [i \in 1 .. 0 + 1 |-> IF i = 1 THEN seqs[i] ELSE f[i - 1] \o seqs[i]]
    OBVIOUS
  <2> HIDE DEF f
  <2>2. Flat(seqs, 0 + 1, f)
    BY <2>1 DEF Flat
  <2> QED BY <2>2
<1>2. ASSUME NEW i \in 1 .. n - 1, i - 1 \in S PROVE i \in S
  <2>0. i - 1 + 1 = i /\ i \in 0 .. n - 1
    OBVIOUS
  <2>1. PICK f : Flat(seqs, i, f)
    BY <1>2, <2>0
  <2> DEFINE g == [j \in 1 .. i + 1 |-> IF j = i + 1 THEN f[i] \o seqs[i + 1] ELSE f[j]]
             T(s, j) == s \o seqs[j]
  <2> HIDE DEF T
  <2>2. f = [j \in 1 .. i |-> IF j = 1 THEN seqs[j] ELSE T(f[j - 1], j)]
    BY <2>1 DEF Flat, T
  <2>3. g = [j \in 1 .. i + 1 |-> IF j = i + 1 THEN T(f[i], i + 1) ELSE f[j]]
    BY DEF T
  <2> HIDE DEF g
  <2>8. \A j \in 1 .. i : f[j] = IF j = 1 THEN seqs[j] ELSE T(f[j - 1], j)
    BY <2>2, Zenon
  <2>9. \A j \in 1 .. i : j \in 1 .. i + 1 /\ j # i + 1 /\ (j # 1 => j - 1 \in 1 .. i)
    OBVIOUS
  <2>4. \A j \in 1 .. i : g[j] = f[j] /\ f[j] = IF j = 1 THEN seqs[j] ELSE T(f[j - 1], j)
    BY <2>3, <2>8, <2>9
  <2>5. \A j \in 1 .. i + 1 : g[j] = IF j = 1 THEN seqs[j] ELSE T(g[j - 1], j)
    BY <2>3, <2>4
  <2>6. g = [j \in 1 .. i + 1 |-> IF j = 1 THEN seqs[j] ELSE T(g[j - 1], j)]
    BY <2>3, <2>5
  <2>7. Flat(seqs, i + 1, g)
    BY <2>6, Zenon DEF Flat, T
  <2> QED BY <2>0, <2>7
<1> HIDE DEF S
<1>3. n - 1 \in Nat /\ n - 1 \in 0 .. n - 1
  OBVIOUS
<1>4. \A i \in 0 .. n - 1 : i \in S
  BY <1>1, <1>2, <1>3, ByRounds
<1>5. n - 1 \in S
  BY <1>3, <1>4
<1>6. \E f : Flat(seqs, n - 1 + 1, f)
  BY <1>5 DEF S
<1>7. n - 1 + 1 = n
  OBVIOUS
<1> QED BY <1>6, <1>7

(* Place j of row h, in rows of k places. *)
LEMMA Place ==
  ASSUME NEW k \in Nat, NEW i \in Nat, NEW h \in 1 .. i, NEW j \in 1 .. k
  PROVE  k * (h - 1) + j \in 1 .. k * i
<1> DEFINE a == h - 1
           b == i - h
<1>1. a \in Nat /\ b \in Nat /\ i = a + 1 + b
  OBVIOUS
<1> HIDE DEF a, b
<1>2. k * a \in Nat /\ k * b \in Nat /\ k * (a + 1 + b) = k * a + k + k * b
  BY <1>1
<1> DEFINE x == k * a
           y == k * b
           z == k * (a + 1 + b)
<1> HIDE DEF x, y, z
<1>3. x + j \in 1 .. z
  BY <1>2 DEF x, y, z
<1> QED BY <1>1, <1>3 DEF x, z, a

(* FlattenSeq of n sequences of one length: each stands behind those before it. *)
LEMMA FlattenAt ==
  ASSUME NEW V, NEW n \in Nat \ {0}, NEW k \in Nat, NEW seqs \in [1 .. n -> Seq(V)],
         \A i \in 1 .. n : Len(seqs[i]) = k
  PROVE  /\ FlattenSeq(seqs) \in Seq(V) /\ Len(FlattenSeq(seqs)) = k * n
         /\ \A i \in 1 .. n : \A j \in 1 .. k : FlattenSeq(seqs)[k * (i - 1) + j] = seqs[i][j]
<1>1. Len(seqs) = n
  <2>1. seqs \in Seq(Seq(V))
    BY IsASeq
  <2> QED BY <2>1, LenProperties
<1> DEFINE flatten == CHOOSE f : Flat(seqs, n, f)
<1>2. Flat(seqs, n, flatten)
  BY FlatExists, Zenon
<1>3. FlattenSeq(seqs) = flatten[n]
  <2>1. Len(seqs) # 0
    BY <1>1
  <2>2. FlattenSeq(seqs) =
          (CHOOSE f : f = [i \in 1 .. Len(seqs) |-> IF i = 1 THEN seqs[i] ELSE f[i - 1] \o seqs[i]])[Len(seqs)]
    BY <2>1, Zenon DEF FlattenSeq
  <2> QED BY <1>1, <2>2, Zenon DEF Flat
<1> HIDE DEF flatten
<1>4. \A i \in 1 .. n : flatten[i] = IF i = 1 THEN seqs[i] ELSE flatten[i - 1] \o seqs[i]
  BY <1>2, Zenon DEF Flat
<1> DEFINE Good(s, i) == /\ s \in Seq(V) /\ Len(s) = k * i
                         /\ \A h \in 1 .. i : \A j \in 1 .. k : s[k * (h - 1) + j] = seqs[h][j]
           S == {i \in 0 .. n - 1 : Good(flatten[i + 1], i + 1)}
<1>5. 0 \in S
  <2>1. 1 \in 1 .. n /\ 0 + 1 = 1 /\ k * 1 = k /\ 0 \in 0 .. n - 1
    OBVIOUS
  <2>2. flatten[1] = seqs[1]
    BY <1>4, <2>1
  <2>3. seqs[1] \in Seq(V) /\ Len(seqs[1]) = k
    BY <2>1
  <2>4. \A h \in 1 .. 1 : \A j \in 1 .. k : h = 1 /\ k * (h - 1) + j = j
    OBVIOUS
  <2>5. Good(flatten[1], 1)
    BY <2>1, <2>2, <2>3, <2>4
  <2> QED BY <2>1, <2>5, Zenon
<1>6. ASSUME NEW i \in 1 .. n - 1, i - 1 \in S PROVE i \in S
  <2>1. i - 1 + 1 = i /\ i \in 0 .. n - 1 /\ i + 1 \in 1 .. n /\ i + 1 # 1 /\ i + 1 - 1 = i /\ i \in Nat
    OBVIOUS
  <2>2. Good(flatten[i], i)
    BY <1>6, <2>1, Zenon
  <2> DEFINE s == flatten[i]
             t == seqs[i + 1]
             c == s \o t
  <2>3. flatten[i + 1] = c
    <3> DEFINE a == i + 1
    <3>1. a \in 1 .. n /\ a # 1 /\ a - 1 = i
      BY <2>1
    <3> HIDE DEF a
    <3>2. flatten[a] = flatten[a - 1] \o seqs[a]
      BY <1>4, <3>1
    <3>3. flatten[a] = flatten[i] \o seqs[a]
      BY <3>1, <3>2, Zenon
    <3> QED BY <3>3 DEF a
  <2>4. t \in Seq(V) /\ Len(t) = k
    BY <2>1
  <2>5. s \in Seq(V) /\ Len(s) = k * i /\ \A h \in 1 .. i : \A j \in 1 .. k : s[k * (h - 1) + j] = seqs[h][j]
    BY <2>2
  <2> HIDE DEF s, t, Good, S
  <2>6. /\ c \in Seq(V) /\ Len(c) = Len(s) + Len(t)
        /\ \A j \in 1 .. Len(s) : c[j] = s[j]
        /\ \A j \in 1 .. Len(t) : c[Len(s) + j] = t[j]
    <3>1. \A u, v \in Seq(V) : /\ u \o v \in Seq(V) /\ Len(u \o v) = Len(u) + Len(v)
                               /\ \A j \in 1 .. Len(u) : (u \o v)[j] = u[j]
                               /\ \A j \in 1 .. Len(v) : (u \o v)[Len(u) + j] = v[j]
      BY Concat
    <3> QED BY <2>4, <2>5, <3>1, Zenon
  <2>7. k * i \in Nat /\ k * i + k = k * (i + 1)
    OBVIOUS
  <2> HIDE DEF c
  <2>8. Len(c) = k * (i + 1)
    BY <2>4, <2>5, <2>6, <2>7
  <2>9. ASSUME NEW h \in 1 .. i + 1, NEW j \in 1 .. k PROVE c[k * (h - 1) + j] = seqs[h][j]
    <3>1. CASE h \in 1 .. i
      <4>1. k * (h - 1) + j \in 1 .. k * i
        BY <2>1, <3>1, Place
      <4> QED BY <2>5, <2>6, <3>1, <4>1
    <3>2. CASE h = i + 1
      <4>1. k * (h - 1) = Len(s)
        BY <2>1, <2>5, <3>2
      <4>2. c[Len(s) + j] = t[j]
        BY <2>4, <2>6
      <4> QED BY <3>2, <4>1, <4>2 DEF t
    <3> QED BY <2>1, <3>1, <3>2
  <2>10. Good(c, i + 1)
    BY <2>6, <2>8, <2>9, Zenon DEF Good
  <2> QED BY <2>1, <2>3, <2>10, Zenon DEF S
<1> HIDE DEF S, Good
<1>7. n - 1 \in Nat /\ n - 1 \in 0 .. n - 1 /\ n - 1 + 1 = n
  OBVIOUS
<1>8. \A i \in 0 .. n - 1 : i \in S
  BY <1>5, <1>6, <1>7, ByRounds
<1>9. Good(flatten[n], n)
  BY <1>7, <1>8 DEF S
<1> QED BY <1>3, <1>9, Zenon DEF Good

(* The beginning of such a sequence. *)
LEMMA FlattenIs ==
  ASSUME NEW V, NEW n \in Nat \ {0}, NEW k \in Nat, NEW seqs \in [1 .. n -> Seq(V)],
         \A i \in 1 .. n : Len(seqs[i]) = k
  PROVE  /\ FlattenSeq(seqs) \in Seq(V) /\ Len(FlattenSeq(seqs)) = k * n
         /\ \A j \in 1 .. k : FlattenSeq(seqs)[j] = seqs[1][j]
<1> DEFINE i == 1
<1>1. i \in 1 .. n /\ \A j \in 1 .. k : k * (i - 1) + j = j
  OBVIOUS
<1> HIDE DEF i
<1>2. /\ FlattenSeq(seqs) \in Seq(V) /\ Len(FlattenSeq(seqs)) = k * n
      /\ \A h \in 1 .. n : \A j \in 1 .. k : FlattenSeq(seqs)[k * (h - 1) + j] = seqs[h][j]
  BY FlattenAt
<1>3. \A j \in 1 .. k : FlattenSeq(seqs)[k * (i - 1) + j] = seqs[i][j]
  BY <1>1, <1>2, Zenon
<1>4. \A j \in 1 .. k : FlattenSeq(seqs)[j] = seqs[i][j]
  BY <1>1, <1>3
<1> QED BY <1>2, <1>4, Zenon DEF i
-----------------------------------------------------------------------------
(***************************************************************************)
(* Exclusive or of bytes, from the recursive definition of x & y.           *)
(***************************************************************************)

(* The bits two bytes share, one by one. *)
Pair(x, y) == (x % 2) * (y % 2)
Shared(x, y) ==
  Pair(x, y) + 2 * Pair(x \div 2, y \div 2) + 4 * Pair(x \div 4, y \div 4) + 8 * Pair(x \div 8, y \div 8)
  + 16 * Pair(x \div 16, y \div 16) + 32 * Pair(x \div 32, y \div 32) + 64 * Pair(x \div 64, y \div 64)
  + 128 * Pair(x \div 128, y \div 128)

(* A bit two numbers share is a bit; an even number has no last bit to share. *)
LEMMA PairIs == \A x, y \in Nat : Pair(x, y) \in {0, 1} /\ (x % 2 = 0 => Pair(x, y) = 0)
<1> SUFFICES ASSUME NEW x \in Nat, NEW y \in Nat
             PROVE  Pair(x, y) \in {0, 1} /\ (x % 2 = 0 => Pair(x, y) = 0)
  OBVIOUS
<1> DEFINE a == x % 2
           b == y % 2
<1>1. (a = 0 \/ a = 1) /\ (b = 0 \/ b = 1)
  OBVIOUS
<1>2. Pair(x, y) = a * b
  BY DEF Pair
<1> HIDE DEF a, b
<1>3. a * b \in {0, 1} /\ (a = 0 => a * b = 0)
  BY <1>1
<1> QED BY <1>2, <1>3 DEF a

(* What two bytes share, by halves. *)
LEMMA SharedIs ==
  ASSUME NEW x \in Byte, NEW y \in Byte
  PROVE  Shared(x, y) = IF x = 0 THEN 0 ELSE 2 * Shared(x \div 2, y \div 2) + (x % 2) * (y % 2)
<1>1. x \in Nat /\ y \in Nat /\ x < 256 /\ y < 256
  BY DEF Byte
<1>2. \A z \in Nat : /\ (z \div 2) \div 2 = z \div 4 /\ (z \div 2) \div 4 = z \div 8
                     /\ (z \div 2) \div 8 = z \div 16 /\ (z \div 2) \div 16 = z \div 32
                     /\ (z \div 2) \div 32 = z \div 64 /\ (z \div 2) \div 64 = z \div 128
                     /\ (z < 256 => (z \div 2) \div 128 = 0)
                     /\ z \div 2 \in Nat /\ z \div 4 \in Nat /\ z \div 8 \in Nat /\ z \div 16 \in Nat
                     /\ z \div 32 \in Nat /\ z \div 64 \in Nat /\ z \div 128 \in Nat
  OBVIOUS
<1>3. CASE x = 0
  <2>1. 0 % 2 = 0 /\ 0 \div 2 = 0 /\ 0 \div 4 = 0 /\ 0 \div 8 = 0 /\ 0 \div 16 = 0 /\ 0 \div 32 = 0
        /\ 0 \div 64 = 0 /\ 0 \div 128 = 0
    OBVIOUS
  <2>2. \A z \in Nat : Pair(0, z) = 0
    BY <2>1, PairIs
  <2>3. /\ Pair(x, y) = 0 /\ Pair(x \div 2, y \div 2) = 0 /\ Pair(x \div 4, y \div 4) = 0
        /\ Pair(x \div 8, y \div 8) = 0 /\ Pair(x \div 16, y \div 16) = 0 /\ Pair(x \div 32, y \div 32) = 0
        /\ Pair(x \div 64, y \div 64) = 0 /\ Pair(x \div 128, y \div 128) = 0
    BY <1>1, <1>2, <1>3, <2>1, <2>2
  <2> QED BY <1>3, <2>3 DEF Shared
<1>4. CASE x # 0
  <2> DEFINE u == x \div 2
             v == y \div 2
  <2>1. /\ Pair(u, v) \in {0, 1} /\ Pair(x, y) \in {0, 1}
        /\ Pair(x \div 4, y \div 4) \in {0, 1} /\ Pair(x \div 8, y \div 8) \in {0, 1}
        /\ Pair(x \div 16, y \div 16) \in {0, 1} /\ Pair(x \div 32, y \div 32) \in {0, 1}
        /\ Pair(x \div 64, y \div 64) \in {0, 1} /\ Pair(x \div 128, y \div 128) \in {0, 1}
    BY <1>1, <1>2, PairIs
  <2>2. /\ u \div 2 = x \div 4 /\ u \div 4 = x \div 8 /\ u \div 8 = x \div 16 /\ u \div 16 = x \div 32
        /\ u \div 32 = x \div 64 /\ u \div 64 = x \div 128 /\ u \div 128 = 0
    BY <1>1, <1>2
  <2>3. /\ v \div 2 = y \div 4 /\ v \div 4 = y \div 8 /\ v \div 8 = y \div 16 /\ v \div 16 = y \div 32
        /\ v \div 32 = y \div 64 /\ v \div 64 = y \div 128 /\ v \div 128 = 0
    BY <1>1, <1>2
  <2>4. Pair(u \div 128, v \div 128) = 0
    BY <2>2, <2>3, PairIs
  <2> HIDE DEF u, v
  <2>5. Shared(u, v) = Pair(u, v) + 2 * Pair(x \div 4, y \div 4) + 4 * Pair(x \div 8, y \div 8)
          + 8 * Pair(x \div 16, y \div 16) + 16 * Pair(x \div 32, y \div 32) + 32 * Pair(x \div 64, y \div 64)
          + 64 * Pair(x \div 128, y \div 128) + 128 * 0
    BY <2>2, <2>3, <2>4 DEF Shared
  <2>6. Shared(x, y) = Pair(x, y) + 2 * Pair(u, v) + 4 * Pair(x \div 4, y \div 4) + 8 * Pair(x \div 8, y \div 8)
          + 16 * Pair(x \div 16, y \div 16) + 32 * Pair(x \div 32, y \div 32) + 64 * Pair(x \div 64, y \div 64)
          + 128 * Pair(x \div 128, y \div 128)
    BY Zenon DEF Shared, u, v
  <2>7. Shared(x, y) = 2 * Shared(u, v) + Pair(x, y)
    BY <2>1, <2>5, <2>6
  <2> QED BY <1>4, <2>7, Zenon DEF Pair, u, v
<1> QED BY <1>3, <1>4

(* The recursive definition of x & y holds for all bytes. *)
LEMMA OverlapIs ==
  \A x, y \in Byte : Overlap[x][y] = IF x = 0 THEN 0 ELSE 2 * Overlap[x \div 2][y \div 2] + (x % 2) * (y % 2)
<1> DEFINE E(f, x, y) == IF x = 0 THEN 0 ELSE 2 * f[x \div 2][y \div 2] + (x % 2) * (y % 2)
           Is(f) == f = [x \in Byte |-> [y \in Byte |-> E(f, x, y)]]
           g == [x \in Byte |-> [y \in Byte |-> Shared(x, y)]]
<1>1. ASSUME NEW x \in Byte, NEW y \in Byte PROVE Shared(x, y) = E(g, x, y)
  <2>1. x \div 2 \in Byte /\ y \div 2 \in Byte
    BY DEF Byte
  <2>2. g[x \div 2][y \div 2] = Shared(x \div 2, y \div 2)
    BY <2>1
  <2> HIDE DEF g
  <2> QED BY <2>2, SharedIs, Zenon
<1>2. g = [x \in Byte |-> [y \in Byte |-> Shared(x, y)]]
  OBVIOUS
<1> HIDE DEF g, E
<1>3. Is(g)
  <2>1. \A x \in Byte : [y \in Byte |-> Shared(x, y)] = [y \in Byte |-> E(g, x, y)]
    BY <1>1, Zenon
  <2> QED BY <1>2, <2>1
<1>4. Overlap = CHOOSE f : Is(f)
  BY Zenon DEF Overlap, E
<1>5. Is(Overlap)
  BY <1>3, <1>4, Zenon
<1>6. ASSUME NEW x \in Byte, NEW y \in Byte PROVE Overlap[x][y] = E(Overlap, x, y)
  <2> HIDE DEF Is
  <2>1. Overlap = [a \in Byte |-> [b \in Byte |-> E(Overlap, a, b)]]
    BY <1>5, Zenon DEF Is
  <2>2. Overlap[x] = [b \in Byte |-> E(Overlap, x, b)]
    BY <2>1, Zenon
  <2> QED BY <2>2, Zenon
<1> QED BY <1>6, Zenon DEF E

(* The exclusive or of two numbers, by halves. *)
Differ(x, y) == x + y - 2 * Overlap[x][y]

(* Exclusive or of two digits. *)
Digit(a, b) == (a + b) % 2

(* The exclusive or of two bits, and undone. *)
LEMMA DigitIs ==
  \A a, b \in {0, 1} : Digit(a, b) \in {0, 1} /\ Digit(a, b) = a + b - 2 * (a * b) /\ Digit(Digit(a, b), b) = a
BY DEF Digit

(* x & y is a number. *)
LEMMA OverlapInt == \A x, y \in Byte : Overlap[x][y] \in Int
<1> DEFINE T == {x \in Byte : \E y \in Byte : Overlap[x][y] \notin Int}
<1> SUFFICES ASSUME T # {} PROVE FALSE
  OBVIOUS
<1>1. PICK x \in T : \A z \in T : x <= z
  <2>1. T \subseteq Nat
    BY DEF Byte
  <2> HIDE DEF T
  <2> QED BY <2>1, LeastOf, Zenon
<1>2. PICK y \in Byte : Overlap[x][y] \notin Int
  BY <1>1
<1>3. x \in Byte /\ Overlap[x][y] = IF x = 0 THEN 0 ELSE 2 * Overlap[x \div 2][y \div 2] + (x % 2) * (y % 2)
  BY <1>1, OverlapIs
<1>4. x # 0 /\ x \div 2 \in Byte /\ y \div 2 \in Byte /\ ~(x <= x \div 2)
  <2>1. x # 0
    BY <1>2, <1>3
  <2> QED BY <1>3, <2>1 DEF Byte
<1>5. Overlap[x \div 2][y \div 2] \in Int
  BY <1>1, <1>4
<1>6. (x % 2) * (y % 2) \in Int
  <2>1. x % 2 \in {0, 1} /\ y % 2 \in {0, 1}
    BY <1>3 DEF Byte
  <2> DEFINE a == x % 2
             b == y % 2
  <2> HIDE DEF a, b
  <2>2. a * b \in Int
    BY <2>1 DEF a, b
  <2> QED BY <2>2 DEF a, b
<1>7. 2 * Overlap[x \div 2][y \div 2] + (x % 2) * (y % 2) \in Int
  BY <1>5, <1>6
<1> QED BY <1>2, <1>3, <1>4, <1>7

(* The exclusive or of the last bits, and that of the halves. *)
LEMMA DifferHalves ==
  ASSUME NEW x \in Byte, NEW y \in Byte
  PROVE  /\ Differ(x, y) = 2 * Differ(x \div 2, y \div 2) + Digit(x % 2, y % 2)
         /\ Differ(x, y) \in Int
<1> DEFINE u == x \div 2
           v == y \div 2
           a == x % 2
           b == y % 2
           o == Overlap[u][v]
           p == Overlap[x][y]
<1>1. u \in Byte /\ v \in Byte /\ a \in {0, 1} /\ b \in {0, 1} /\ x = 2 * u + a /\ y = 2 * v + b
      /\ x \in Int /\ y \in Int /\ u \in Int /\ v \in Int /\ (x = 0 => u = 0 /\ a = 0)
  BY DEF Byte
<1>2. p = IF x = 0 THEN 0 ELSE 2 * o + a * b
  BY OverlapIs, Zenon
<1>3. o \in Int /\ p \in Int
  BY <1>1, OverlapInt
<1>4. u = 0 => o = 0
  BY <1>1, OverlapIs
<1>5. Digit(a, b) = a + b - 2 * (a * b)
  BY <1>1, DigitIs
<1> HIDE DEF u, v, a, b, o, p
<1>6. a * b \in {0, 1} /\ (a = 0 => a * b = 0)
  BY <1>1
<1>7. p = 2 * o + a * b
  BY <1>1, <1>2, <1>3, <1>4, <1>6
<1> DEFINE c == a * b
<1>8. c \in Int /\ a \in Int /\ b \in Int
  BY <1>1, <1>6
<1> HIDE DEF c
<1>9. x + y - 2 * p = 2 * (u + v - 2 * o) + (a + b - 2 * c)
  <2>1. p = 2 * o + c
    BY <1>7 DEF c
  <2> QED BY <1>1, <1>3, <1>8, <2>1
<1>10. x + y - 2 * p \in Int
  BY <1>1, <1>3
<1> QED BY <1>5, <1>9, <1>10, Zenon DEF Differ, u, v, a, b, o, p, c

(* A sum is no longer than its members, and undoes itself. *)
Top == <<0, 1, 3, 7, 15, 31, 63, 127, 255>>

(* What exclusive or by a number does is undone by doing it again. *)
Undone(x, y, t) == Differ(x, y) \in 0 .. t /\ Differ(Differ(x, y), y) = x

(* If this holds of numbers of k bits, then of those of one bit more. *)
LEMMA UndoneNext ==
  ASSUME NEW t \in 0 .. 127, \A x, y \in 0 .. t : Undone(x, y, t)
  PROVE  \A x, y \in 0 .. 2 * t + 1 : Undone(x, y, 2 * t + 1)
<1> SUFFICES ASSUME NEW x \in 0 .. 2 * t + 1, NEW y \in 0 .. 2 * t + 1
             PROVE  Undone(x, y, 2 * t + 1)
  OBVIOUS
<1> DEFINE u == x \div 2
           v == y \div 2
           a == x % 2
           b == y % 2
           d == Differ(u, v)
           e == Digit(a, b)
           z == Differ(x, y)
<1>1. /\ u \in 0 .. t /\ v \in 0 .. t /\ a \in {0, 1} /\ b \in {0, 1} /\ x = 2 * u + a
      /\ x \in Byte /\ y \in Byte /\ x \in Int /\ u \in Int
  BY DEF Byte
<1>2. d \in 0 .. t /\ Differ(d, v) = u
  <2> HIDE DEF u, v
  <2>1. Undone(u, v, t)
    BY <1>1
  <2> QED BY <2>1, Zenon DEF Undone
<1>3. e \in {0, 1} /\ Digit(e, b) = a
  <2> HIDE DEF a, b
  <2> QED BY <1>1, DigitIs
<1>4. z = 2 * d + e
  BY <1>1, DifferHalves
<1> HIDE DEF d, e, z, a, u
<1>5. z \in 0 .. 2 * t + 1 /\ z \in Byte /\ z \div 2 = d /\ z % 2 = e
  BY <1>2, <1>3, <1>4 DEF Byte
<1>6. Differ(z, y) = 2 * Differ(z \div 2, v) + Digit(z % 2, b)
  BY <1>1, <1>5, DifferHalves
<1>7. Differ(z, y) = 2 * u + a
  BY <1>2, <1>3, <1>5, <1>6, Zenon
<1>8. Differ(z, y) = x
  BY <1>1, <1>7
<1> QED BY <1>5, <1>8, Zenon DEF Undone, z

(* It holds of numbers of up to eight bits: of bytes and of halves of them. *)
LEMMA DifferWithin == \A k \in 0 .. 8 : \A x, y \in 0 .. Top[k + 1] : Undone(x, y, Top[k + 1])
<1> DEFINE S == {k \in 0 .. 8 : \A x, y \in 0 .. Top[k + 1] : Undone(x, y, Top[k + 1])}
<1>1. 0 \in S
  <2>1. Overlap[0][0] = 0
    <3>1. 0 \in Byte
      BY DEF Byte
    <3> QED BY <3>1, OverlapIs
  <2>2. Differ(0, 0) = 0
    BY <2>1 DEF Differ
  <2>3. Undone(0, 0, 0)
    BY <2>2 DEF Undone
  <2>4. Top[0 + 1] = 0 /\ \A x \in 0 .. 0 : x = 0
    BY DEF Top
  <2> QED BY <2>3, <2>4
<1>2. ASSUME NEW k \in 1 .. 8, k - 1 \in S PROVE k \in S
  <2>1. Top[k] \in 0 .. 127 /\ Top[k + 1] = 2 * Top[k] + 1 /\ k - 1 + 1 = k
    <3>1. k = 1 \/ k = 2 \/ k = 3 \/ k = 4 \/ k = 5 \/ k = 6 \/ k = 7 \/ k = 8
      OBVIOUS
    <3>2. /\ Top[1] = 0 /\ Top[2] = 1 /\ Top[3] = 3 /\ Top[4] = 7 /\ Top[5] = 15 /\ Top[6] = 31
          /\ Top[7] = 63 /\ Top[8] = 127 /\ Top[9] = 255
      BY DEF Top
    <3> QED BY <3>1, <3>2
  <2>2. \A x, y \in 0 .. Top[k] : Undone(x, y, Top[k])
    BY <1>2, <2>1
  <2> DEFINE t == Top[k]
  <2> HIDE DEF t
  <2>3. \A x, y \in 0 .. 2 * t + 1 : Undone(x, y, 2 * t + 1)
    <3>1. t \in 0 .. 127 /\ \A x, y \in 0 .. t : Undone(x, y, t)
      BY <2>1, <2>2 DEF t
    <3> QED BY <3>1, UndoneNext
  <2>4. \A x, y \in 0 .. Top[k + 1] : Undone(x, y, Top[k + 1])
    BY <2>1, <2>3 DEF t
  <2> QED BY <2>4
<1> HIDE DEF S
<1>3. 8 \in Nat
  OBVIOUS
<1>4. \A k \in 0 .. 8 : k \in S
  BY <1>1, <1>2, <1>3, ByRounds
<1> QED BY <1>4 DEF S

(* It is, for bytes and for half bytes. *)
LEMMA DifferUndone ==
  /\ \A x, y \in Byte : Undone(x, y, 255)
  /\ \A x, y \in 0 .. 15 : Undone(x, y, 15)
<1>1. 8 \in 0 .. 8 /\ 4 \in 0 .. 8 /\ Top[8 + 1] = 255 /\ Top[4 + 1] = 15
  BY DEF Top
<1>2. \A x, y \in 0 .. Top[8 + 1] : Undone(x, y, Top[8 + 1])
  BY <1>1, DifferWithin
<1>3. \A x, y \in 0 .. Top[4 + 1] : Undone(x, y, Top[4 + 1])
  BY <1>1, DifferWithin
<1>4. \A x, y \in 0 .. 255 : Undone(x, y, 255)
  BY <1>1, <1>2, Zenon
<1>5. \A x, y \in 0 .. 15 : Undone(x, y, 15)
  BY <1>1, <1>3, Zenon
<1> QED BY <1>4, <1>5, Zenon DEF Byte

(* XorByte is that of the two numbers. *)
LEMMA XorByteIs == \A x, y \in Byte : XorByte(x, y) = Differ(x, y)
<1> DEFINE e(i, j) == i + j - 2 - 2 * Overlap[i - 1][j - 1]
           row(i) == [j \in 1 .. 256 |-> e(i, j)]
           table == [i \in 1 .. 256 |-> Stored(row(i))]
           n == 256
<1>0. n \in Nat
  OBVIOUS
<1>1. \A i \in 1 .. 256 : Stored(row(i)) = row(i)
  <2> SUFFICES ASSUME NEW i \in 1 .. 256 PROVE Stored(row(i)) = row(i)
    OBVIOUS
  <2> DEFINE r == row(i)
             V == {e(i, j) : j \in 1 .. 256}
  <2>1. r \in [1 .. n -> V]
    <3> HIDE DEF e
    <3> QED OBVIOUS
  <2> HIDE DEF r, V, n
  <2>2. Stored(r) = r
    BY <1>0, <2>1, StoredIs
  <2> QED BY <2>2, Zenon DEF r
<1>2. Stored(table) = table
  <2> DEFINE V == {Stored(row(i)) : i \in 1 .. 256}
             t(i) == Stored(row(i))
  <2>1. table \in [1 .. n -> V]
    <3> HIDE DEF t
    <3>1. [i \in 1 .. 256 |-> t(i)] \in [1 .. n -> {t(i) : i \in 1 .. 256}]
      OBVIOUS
    <3> QED BY <3>1, Zenon DEF t
  <2> HIDE DEF table, V, n
  <2> QED BY <1>0, <2>1, StoredIs
<1>3. XorTable = Stored(table)
  BY Zenon DEF XorTable
<1>4. ASSUME NEW x \in Byte, NEW y \in Byte PROVE XorByte(x, y) = Differ(x, y)
  <2> DEFINE a == x + 1
             b == y + 1
  <2>1. a \in 1 .. 256 /\ b \in 1 .. 256 /\ a - 1 = x /\ b - 1 = y /\ a + b - 2 = x + y
    BY DEF Byte
  <2> HIDE DEF a, b
  <2>2. table[a] = row(a)
    BY <1>1, <2>1, Zenon
  <2>3. row(a)[b] = e(a, b)
    BY <2>1, Zenon
  <2>4. XorByte(x, y) = e(a, b)
    BY <1>2, <1>3, <2>2, <2>3, Zenon DEF XorByte, a, b
  <2>5. e(a, b) = x + y - 2 * Overlap[x][y]
    <3>1. Overlap[a - 1][b - 1] = Overlap[x][y]
      BY <2>1, Zenon
    <3>2. Overlap[x][y] \in Int
      BY OverlapInt
    <3>3. e(a, b) = a + b - 2 - 2 * Overlap[x][y]
      BY <3>1, Zenon
    <3> HIDE DEF e
    <3> DEFINE o == Overlap[x][y]
    <3> HIDE DEF o
    <3>4. a + b - 2 - 2 * o = x + y - 2 * o
      BY <2>1, <3>2 DEF o
    <3> QED BY <3>3, <3>4, Zenon DEF o
  <2> QED BY <2>4, <2>5 DEF Differ
<1> QED BY <1>4, Zenon

(* The exclusive or of two bytes is a byte, and a second one undoes the first. *)
LEMMA XorIs == \A x, y \in Byte : XorByte(x, y) \in Byte /\ XorByte(XorByte(x, y), y) = x
<1>4. \A x, y \in Byte : XorByte(x, y) = Differ(x, y)
  BY XorByteIs
<1>5. ASSUME NEW x \in Byte, NEW y \in Byte
      PROVE  XorByte(x, y) \in Byte /\ XorByte(XorByte(x, y), y) = x
  <2>1. XorByte(x, y) = Differ(x, y)
    BY <1>4
  <2>2. Differ(x, y) \in Byte /\ Differ(Differ(x, y), y) = x
    BY DifferUndone DEF Undone, Byte
  <2>3. XorByte(Differ(x, y), y) = Differ(Differ(x, y), y)
    BY <1>4, <2>2
  <2> QED BY <2>1, <2>2, <2>3
<1> QED BY <1>5, Zenon

(* The exclusive or of two halves is one. *)
LEMMA XorHalves == \A x, y \in 0 .. 15 : XorByte(x, y) \in 0 .. 15
<1> SUFFICES ASSUME NEW x \in 0 .. 15, NEW y \in 0 .. 15 PROVE XorByte(x, y) \in 0 .. 15
  OBVIOUS
<1>1. x \in Byte /\ y \in Byte
  BY DEF Byte
<1>2. XorByte(x, y) = Differ(x, y)
  BY <1>1, XorByteIs
<1>3. Undone(x, y, 15)
  BY DifferUndone
<1> QED BY <1>2, <1>3 DEF Undone
-----------------------------------------------------------------------------
(***************************************************************************)
(* Exclusive or of 16 bits, from that of their bytes: a number is the sum   *)
(* of its binary digits, and the digits are added without a carry.          *)
(***************************************************************************)

(* Words of sixteen digits, and the numbers they are. *)
Places == 0 .. 15
Wide == [Places -> Bit]
Word16 == {n \in Nat : n < 65536}

(* The digits of a byte, from place o on, and of 16 bits. *)
Eight(b, o) ==
  b[o] + 2 * b[o + 1] + 4 * b[o + 2] + 8 * b[o + 3] + 16 * b[o + 4] + 32 * b[o + 5] + 64 * b[o + 6] + 128 * b[o + 7]
Number(b) == Eight(b, 0) + 256 * Eight(b, 8)
Added(a, b) == [i \in Places |-> Digit(a[i], b[i])]

(* The sum of digits. *)
Weighed(a, b, c, d, e, f, g, h) == a + 2 * b + 4 * c + 8 * d + 16 * e + 32 * f + 64 * g + 128 * h

(* The two bytes of a word as sums of single digits. *)
LEMMA EightIs ==
  /\ \A b : Eight(b, 0) = Weighed(b[0], b[1], b[2], b[3], b[4], b[5], b[6], b[7])
  /\ \A b : Eight(b, 8) = Weighed(b[8], b[9], b[10], b[11], b[12], b[13], b[14], b[15])
<1>1. 0 + 1 = 1 /\ 0 + 2 = 2 /\ 0 + 3 = 3 /\ 0 + 4 = 4 /\ 0 + 5 = 5 /\ 0 + 6 = 6 /\ 0 + 7 = 7
  OBVIOUS
<1>2. 8 + 1 = 9 /\ 8 + 2 = 10 /\ 8 + 3 = 11 /\ 8 + 4 = 12 /\ 8 + 5 = 13 /\ 8 + 6 = 14 /\ 8 + 7 = 15
  OBVIOUS
<1> QED BY <1>1, <1>2, Zenon DEF Eight, Weighed

(* Eight digits are a byte, which has no others. *)
LEMMA WeighedIs ==
  /\ \A a, b, c, d, e, f, g, h \in Bit : Weighed(a, b, c, d, e, f, g, h) \in Byte
  /\ \A x \in Byte : \E a, b, c, d, e, f, g, h \in Bit : x = Weighed(a, b, c, d, e, f, g, h)
<1>1. \A a, b, c, d, e, f, g, h \in Bit : Weighed(a, b, c, d, e, f, g, h) \in Byte
  BY DEF Weighed, Bit, Byte
<1>2. ASSUME NEW x \in Byte
      PROVE  \E a, b, c, d, e, f, g, h \in Bit : x = Weighed(a, b, c, d, e, f, g, h)
  <2>1. x \in Int /\ 0 <= x /\ x <= 255
    BY <1>2 DEF Byte
  <2>2. x = Weighed(x % 2, (x \div 2) % 2, (x \div 4) % 2, (x \div 8) % 2, (x \div 16) % 2, (x \div 32) % 2,
                    (x \div 64) % 2, (x \div 128) % 2)
    BY <2>1 DEF Weighed
  <2>3. /\ x % 2 \in Bit /\ (x \div 2) % 2 \in Bit /\ (x \div 4) % 2 \in Bit /\ (x \div 8) % 2 \in Bit
        /\ (x \div 16) % 2 \in Bit /\ (x \div 32) % 2 \in Bit /\ (x \div 64) % 2 \in Bit /\ (x \div 128) % 2 \in Bit
    BY <2>1 DEF Bit
  <2> QED BY <2>2, <2>3, Zenon
<1> QED BY <1>1, <1>2, Zenon

(* The digits of a byte. *)
LEMMA DigitsFrom ==
  ASSUME NEW x \in Wide, NEW o \in {0, 8}
  PROVE  /\ o \in Places /\ o + 1 \in Places /\ o + 2 \in Places /\ o + 3 \in Places
         /\ o + 4 \in Places /\ o + 5 \in Places /\ o + 6 \in Places /\ o + 7 \in Places
         /\ x[o] \in Bit /\ x[o + 1] \in Bit /\ x[o + 2] \in Bit /\ x[o + 3] \in Bit
         /\ x[o + 4] \in Bit /\ x[o + 5] \in Bit /\ x[o + 6] \in Bit /\ x[o + 7] \in Bit
<1>1. /\ o \in Places /\ o + 1 \in Places /\ o + 2 \in Places /\ o + 3 \in Places
      /\ o + 4 \in Places /\ o + 5 \in Places /\ o + 6 \in Places /\ o + 7 \in Places
  BY DEF Places
<1>2. \A i \in Places : x[i] \in Bit
  BY DEF Wide
<1> QED BY <1>1, <1>2, Zenon

(* The exclusive or of two bytes, digit by digit. *)
LEMMA DifferDigits ==
  ASSUME NEW x \in Wide, NEW y \in Wide, NEW o \in {0, 8}
  PROVE  XorByte(Eight(x, o), Eight(y, o)) = Eight(Added(x, y), o)
<1>91. PICK a, b, c, d, e, f, g, h : /\ a = x[o] /\ b = x[o + 1] /\ c = x[o + 2] /\ d = x[o + 3]
                                    /\ e = x[o + 4] /\ f = x[o + 5] /\ g = x[o + 6] /\ h = x[o + 7]
  BY Zenon
<1>92. PICK p, q, r, s, t, u, v, w : /\ p = y[o] /\ q = y[o + 1] /\ r = y[o + 2] /\ s = y[o + 3]
                                    /\ t = y[o + 4] /\ u = y[o + 5] /\ v = y[o + 6] /\ w = y[o + 7]
  BY Zenon
<1>93. /\ a \in Bit /\ b \in Bit /\ c \in Bit /\ d \in Bit /\ e \in Bit /\ f \in Bit /\ g \in Bit /\ h \in Bit
      /\ p \in Bit /\ q \in Bit /\ r \in Bit /\ s \in Bit /\ t \in Bit /\ u \in Bit /\ v \in Bit /\ w \in Bit
  BY <1>91, <1>92, DigitsFrom, Zenon
<1>94. Eight(x, o) = Weighed(a, b, c, d, e, f, g, h) /\ Eight(y, o) = Weighed(p, q, r, s, t, u, v, w)
  BY <1>91, <1>92, Zenon DEF Eight, Weighed
<1>0. Differ(0, 0) = 0
  <2>1. 0 \in Byte
    BY DEF Byte
  <2>2. Overlap[0][0] = 0
    BY <2>1, OverlapIs
  <2> QED BY <2>2 DEF Differ
<1>1. \A i, j \in Bit : Digit(i, j) \in Int
  BY DigitIs DEF Bit
<1>2. /\ Digit(a, p) \in Int /\ Digit(b, q) \in Int /\ Digit(c, r) \in Int /\ Digit(d, s) \in Int
      /\ Digit(e, t) \in Int /\ Digit(f, u) \in Int /\ Digit(g, v) \in Int /\ Digit(h, w) \in Int
  BY <1>1, <1>93
<1>3. PICK h8, w8 : h8 = 0 /\ w8 = 0 /\ Differ(h8, w8) = 0
  BY <1>0
<1>4. PICK h7, w7 : /\ h7 = h + 2 * h8 /\ w7 = w + 2 * w8
                    /\ h7 \in 0 .. 1 /\ w7 \in 0 .. 1
                    /\ Differ(h7, w7) \in Int
                    /\ Differ(h7, w7) = Digit(h, w) + 2 * Differ(h8, w8)
  <2>1. PICK m, n : m = h + 2 * h8 /\ n = w + 2 * w8
    OBVIOUS
  <2>2. /\ m \in Byte /\ n \in Byte /\ m \in 0 .. 1 /\ n \in 0 .. 1
        /\ m \div 2 = h8 /\ n \div 2 = w8 /\ m % 2 = h /\ n % 2 = w
    <3>1. /\ 0 <= h8 /\ h8 <= 0 /\ h8 \in Int
          /\ 0 <= w8 /\ w8 <= 0 /\ w8 \in Int
      BY <1>3
    <3> QED BY <1>93, <2>1, <3>1 DEF Bit, Byte
  <2>3. Differ(m, n) = 2 * Differ(h8, w8) + Digit(h, w) /\ Differ(m, n) \in Int
    BY <2>2, DifferHalves
  <2>4. Differ(m, n) = Digit(h, w) + 2 * Differ(h8, w8)
    BY <1>2, <1>3, <2>3
  <2> QED BY <2>1, <2>2, <2>3, <2>4
<1>5. PICK h6, w6 : /\ h6 = g + 2 * h7 /\ w6 = v + 2 * w7
                    /\ h6 \in 0 .. 3 /\ w6 \in 0 .. 3
                    /\ Differ(h6, w6) \in Int
                    /\ Differ(h6, w6) = Digit(g, v) + 2 * Differ(h7, w7)
  <2>1. PICK m, n : m = g + 2 * h7 /\ n = v + 2 * w7
    OBVIOUS
  <2>2. /\ m \in Byte /\ n \in Byte /\ m \in 0 .. 3 /\ n \in 0 .. 3
        /\ m \div 2 = h7 /\ n \div 2 = w7 /\ m % 2 = g /\ n % 2 = v
    <3>1. /\ 0 <= h7 /\ h7 <= 1 /\ h7 \in Int
          /\ 0 <= w7 /\ w7 <= 1 /\ w7 \in Int
      BY <1>4
    <3> QED BY <1>93, <2>1, <3>1 DEF Bit, Byte
  <2>3. Differ(m, n) = 2 * Differ(h7, w7) + Digit(g, v) /\ Differ(m, n) \in Int
    BY <2>2, DifferHalves
  <2>4. Differ(m, n) = Digit(g, v) + 2 * Differ(h7, w7)
    BY <1>2, <1>4, <2>3
  <2> QED BY <2>1, <2>2, <2>3, <2>4
<1>6. PICK h5, w5 : /\ h5 = f + 2 * h6 /\ w5 = u + 2 * w6
                    /\ h5 \in 0 .. 7 /\ w5 \in 0 .. 7
                    /\ Differ(h5, w5) \in Int
                    /\ Differ(h5, w5) = Digit(f, u) + 2 * Differ(h6, w6)
  <2>1. PICK m, n : m = f + 2 * h6 /\ n = u + 2 * w6
    OBVIOUS
  <2>2. /\ m \in Byte /\ n \in Byte /\ m \in 0 .. 7 /\ n \in 0 .. 7
        /\ m \div 2 = h6 /\ n \div 2 = w6 /\ m % 2 = f /\ n % 2 = u
    <3>1. /\ 0 <= h6 /\ h6 <= 3 /\ h6 \in Int
          /\ 0 <= w6 /\ w6 <= 3 /\ w6 \in Int
      BY <1>5
    <3> QED BY <1>93, <2>1, <3>1 DEF Bit, Byte
  <2>3. Differ(m, n) = 2 * Differ(h6, w6) + Digit(f, u) /\ Differ(m, n) \in Int
    BY <2>2, DifferHalves
  <2>4. Differ(m, n) = Digit(f, u) + 2 * Differ(h6, w6)
    BY <1>2, <1>5, <2>3
  <2> QED BY <2>1, <2>2, <2>3, <2>4
<1>7. PICK h4, w4 : /\ h4 = e + 2 * h5 /\ w4 = t + 2 * w5
                    /\ h4 \in 0 .. 15 /\ w4 \in 0 .. 15
                    /\ Differ(h4, w4) \in Int
                    /\ Differ(h4, w4) = Digit(e, t) + 2 * Differ(h5, w5)
  <2>1. PICK m, n : m = e + 2 * h5 /\ n = t + 2 * w5
    OBVIOUS
  <2>2. /\ m \in Byte /\ n \in Byte /\ m \in 0 .. 15 /\ n \in 0 .. 15
        /\ m \div 2 = h5 /\ n \div 2 = w5 /\ m % 2 = e /\ n % 2 = t
    <3>1. /\ 0 <= h5 /\ h5 <= 7 /\ h5 \in Int
          /\ 0 <= w5 /\ w5 <= 7 /\ w5 \in Int
      BY <1>6
    <3> QED BY <1>93, <2>1, <3>1 DEF Bit, Byte
  <2>3. Differ(m, n) = 2 * Differ(h5, w5) + Digit(e, t) /\ Differ(m, n) \in Int
    BY <2>2, DifferHalves
  <2>4. Differ(m, n) = Digit(e, t) + 2 * Differ(h5, w5)
    BY <1>2, <1>6, <2>3
  <2> QED BY <2>1, <2>2, <2>3, <2>4
<1>8. PICK h3, w3 : /\ h3 = d + 2 * h4 /\ w3 = s + 2 * w4
                    /\ h3 \in 0 .. 31 /\ w3 \in 0 .. 31
                    /\ Differ(h3, w3) \in Int
                    /\ Differ(h3, w3) = Digit(d, s) + 2 * Differ(h4, w4)
  <2>1. PICK m, n : m = d + 2 * h4 /\ n = s + 2 * w4
    OBVIOUS
  <2>2. /\ m \in Byte /\ n \in Byte /\ m \in 0 .. 31 /\ n \in 0 .. 31
        /\ m \div 2 = h4 /\ n \div 2 = w4 /\ m % 2 = d /\ n % 2 = s
    <3>1. /\ 0 <= h4 /\ h4 <= 15 /\ h4 \in Int
          /\ 0 <= w4 /\ w4 <= 15 /\ w4 \in Int
      BY <1>7
    <3> QED BY <1>93, <2>1, <3>1 DEF Bit, Byte
  <2>3. Differ(m, n) = 2 * Differ(h4, w4) + Digit(d, s) /\ Differ(m, n) \in Int
    BY <2>2, DifferHalves
  <2>4. Differ(m, n) = Digit(d, s) + 2 * Differ(h4, w4)
    BY <1>2, <1>7, <2>3
  <2> QED BY <2>1, <2>2, <2>3, <2>4
<1>9. PICK h2, w2 : /\ h2 = c + 2 * h3 /\ w2 = r + 2 * w3
                    /\ h2 \in 0 .. 63 /\ w2 \in 0 .. 63
                    /\ Differ(h2, w2) \in Int
                    /\ Differ(h2, w2) = Digit(c, r) + 2 * Differ(h3, w3)
  <2>1. PICK m, n : m = c + 2 * h3 /\ n = r + 2 * w3
    OBVIOUS
  <2>2. /\ m \in Byte /\ n \in Byte /\ m \in 0 .. 63 /\ n \in 0 .. 63
        /\ m \div 2 = h3 /\ n \div 2 = w3 /\ m % 2 = c /\ n % 2 = r
    <3>1. /\ 0 <= h3 /\ h3 <= 31 /\ h3 \in Int
          /\ 0 <= w3 /\ w3 <= 31 /\ w3 \in Int
      BY <1>8
    <3> QED BY <1>93, <2>1, <3>1 DEF Bit, Byte
  <2>3. Differ(m, n) = 2 * Differ(h3, w3) + Digit(c, r) /\ Differ(m, n) \in Int
    BY <2>2, DifferHalves
  <2>4. Differ(m, n) = Digit(c, r) + 2 * Differ(h3, w3)
    BY <1>2, <1>8, <2>3
  <2> QED BY <2>1, <2>2, <2>3, <2>4
<1>10. PICK h1, w1 : /\ h1 = b + 2 * h2 /\ w1 = q + 2 * w2
                    /\ h1 \in 0 .. 127 /\ w1 \in 0 .. 127
                    /\ Differ(h1, w1) \in Int
                    /\ Differ(h1, w1) = Digit(b, q) + 2 * Differ(h2, w2)
  <2>1. PICK m, n : m = b + 2 * h2 /\ n = q + 2 * w2
    OBVIOUS
  <2>2. /\ m \in Byte /\ n \in Byte /\ m \in 0 .. 127 /\ n \in 0 .. 127
        /\ m \div 2 = h2 /\ n \div 2 = w2 /\ m % 2 = b /\ n % 2 = q
    <3>1. /\ 0 <= h2 /\ h2 <= 63 /\ h2 \in Int
          /\ 0 <= w2 /\ w2 <= 63 /\ w2 \in Int
      BY <1>9
    <3> QED BY <1>93, <2>1, <3>1 DEF Bit, Byte
  <2>3. Differ(m, n) = 2 * Differ(h2, w2) + Digit(b, q) /\ Differ(m, n) \in Int
    BY <2>2, DifferHalves
  <2>4. Differ(m, n) = Digit(b, q) + 2 * Differ(h2, w2)
    BY <1>2, <1>9, <2>3
  <2> QED BY <2>1, <2>2, <2>3, <2>4
<1>11. PICK h0, w0 : /\ h0 = a + 2 * h1 /\ w0 = p + 2 * w1
                    /\ h0 \in 0 .. 255 /\ w0 \in 0 .. 255
                    /\ Differ(h0, w0) \in Int
                    /\ Differ(h0, w0) = Digit(a, p) + 2 * Differ(h1, w1)
  <2>1. PICK m, n : m = a + 2 * h1 /\ n = p + 2 * w1
    OBVIOUS
  <2>2. /\ m \in Byte /\ n \in Byte /\ m \in 0 .. 255 /\ n \in 0 .. 255
        /\ m \div 2 = h1 /\ n \div 2 = w1 /\ m % 2 = a /\ n % 2 = p
    <3>1. /\ 0 <= h1 /\ h1 <= 127 /\ h1 \in Int
          /\ 0 <= w1 /\ w1 <= 127 /\ w1 \in Int
      BY <1>10
    <3> QED BY <1>93, <2>1, <3>1 DEF Bit, Byte
  <2>3. Differ(m, n) = 2 * Differ(h1, w1) + Digit(a, p) /\ Differ(m, n) \in Int
    BY <2>2, DifferHalves
  <2>4. Differ(m, n) = Digit(a, p) + 2 * Differ(h1, w1)
    BY <1>2, <1>10, <2>3
  <2> QED BY <2>1, <2>2, <2>3, <2>4
<1>12. Differ(h0, w0) = Weighed(Digit(a, p), Digit(b, q), Digit(c, r), Digit(d, s),
                                      Digit(e, t), Digit(f, u), Digit(g, v), Digit(h, w))
  BY <1>2, <1>3, <1>4, <1>5, <1>6, <1>7, <1>8, <1>9, <1>10, <1>11 DEF Weighed
<1>13. h0 = Weighed(a, b, c, d, e, f, g, h) /\ w0 = Weighed(p, q, r, s, t, u, v, w)
  BY <1>93, <1>3, <1>4, <1>5, <1>6, <1>7, <1>8, <1>9, <1>10, <1>11 DEF Weighed, Bit
<1>14. XorByte(h0, w0) = Differ(h0, w0)
  <2>1. h0 \in Byte /\ w0 \in Byte
    BY <1>11 DEF Byte
  <2> QED BY <2>1, XorByteIs
<1>15. Eight(Added(x, y), o) = Weighed(Digit(a, p), Digit(b, q), Digit(c, r), Digit(d, s),
                                       Digit(e, t), Digit(f, u), Digit(g, v), Digit(h, w))
  <2>1. \A i \in Places : Added(x, y)[i] = Digit(x[i], y[i])
    BY DEF Added
  <2> DEFINE z == Added(x, y)
  <2> HIDE DEF z
  <2>2. /\ z[o] = Digit(a, p) /\ z[o + 1] = Digit(b, q) /\ z[o + 2] = Digit(c, r) /\ z[o + 3] = Digit(d, s)
        /\ z[o + 4] = Digit(e, t) /\ z[o + 5] = Digit(f, u) /\ z[o + 6] = Digit(g, v) /\ z[o + 7] = Digit(h, w)
    BY <1>91, <1>92, <2>1, DigitsFrom, Zenon DEF z
  <2> QED BY <2>2, Zenon DEF Eight, Weighed, z
<1> QED BY <1>94, <1>12, <1>13, <1>14, <1>15, Zenon

(* The digits of a byte are its only ones. *)
LEMMA NextDigit ==
  ASSUME NEW i \in Bit, NEW j \in Bit, NEW m \in Int, NEW n \in Int, i + 2 * m = j + 2 * n
  PROVE  i = j /\ m = n
BY DEF Bit

(* A byte of a word fixes its eight digits. *)
LEMMA EightOnce ==
  ASSUME NEW x \in Wide, NEW y \in Wide, NEW o \in {0, 8}, Eight(x, o) = Eight(y, o)
  PROVE  /\ x[o] = y[o] /\ x[o + 1] = y[o + 1] /\ x[o + 2] = y[o + 2] /\ x[o + 3] = y[o + 3]
         /\ x[o + 4] = y[o + 4] /\ x[o + 5] = y[o + 5] /\ x[o + 6] = y[o + 6] /\ x[o + 7] = y[o + 7]
<1>1. PICK a, b, c, d, e, f, g, h : /\ a = x[o] /\ b = x[o + 1] /\ c = x[o + 2] /\ d = x[o + 3]
                                    /\ e = x[o + 4] /\ f = x[o + 5] /\ g = x[o + 6] /\ h = x[o + 7]
  BY Zenon
<1>2. PICK p, q, r, s, t, u, v, w : /\ p = y[o] /\ q = y[o + 1] /\ r = y[o + 2] /\ s = y[o + 3]
                                    /\ t = y[o + 4] /\ u = y[o + 5] /\ v = y[o + 6] /\ w = y[o + 7]
  BY Zenon
<1>3. /\ a \in Bit /\ b \in Bit /\ c \in Bit /\ d \in Bit /\ e \in Bit /\ f \in Bit /\ g \in Bit /\ h \in Bit
      /\ p \in Bit /\ q \in Bit /\ r \in Bit /\ s \in Bit /\ t \in Bit /\ u \in Bit /\ v \in Bit /\ w \in Bit
  BY <1>1, <1>2, DigitsFrom, Zenon
<1>4. Eight(x, o) = Weighed(a, b, c, d, e, f, g, h) /\ Eight(y, o) = Weighed(p, q, r, s, t, u, v, w)
  BY <1>1, <1>2, Zenon DEF Eight, Weighed
<1>5. /\ a \in Int /\ b \in Int /\ c \in Int /\ d \in Int /\ e \in Int /\ f \in Int /\ g \in Int /\ h \in Int
      /\ p \in Int /\ q \in Int /\ r \in Int /\ s \in Int /\ t \in Int /\ u \in Int /\ v \in Int /\ w \in Int
  BY <1>3 DEF Bit
<1>6. a = p /\ b + 2 * c + 4 * d + 8 * e + 16 * f + 32 * g + 64 * h = q + 2 * r + 4 * s + 8 * t + 16 * u + 32 * v + 64 * w
  <2>1. PICK m, n \in Int : m = b + 2 * c + 4 * d + 8 * e + 16 * f + 32 * g + 64 * h /\ n = q + 2 * r + 4 * s + 8 * t + 16 * u + 32 * v + 64 * w
    BY <1>5
  <2>2. a + 2 * m = p + 2 * n
    <3>1. Weighed(a, b, c, d, e, f, g, h) = Weighed(p, q, r, s, t, u, v, w)
      BY <1>4, Zenon
    <3>2. /\ a + 2 * b + 4 * c + 8 * d + 16 * e + 32 * f + 64 * g + 128 * h
            = p + 2 * q + 4 * r + 8 * s + 16 * t + 32 * u + 64 * v + 128 * w
      BY <3>1, Zenon DEF Weighed
    <3> QED BY <1>5, <2>1, <3>2
  <2>3. a = p /\ m = n
    BY <1>3, <2>1, <2>2, NextDigit
  <2> QED BY <2>1, <2>3
<1>7. b = q /\ c + 2 * d + 4 * e + 8 * f + 16 * g + 32 * h = r + 2 * s + 4 * t + 8 * u + 16 * v + 32 * w
  <2>1. PICK m, n \in Int : m = c + 2 * d + 4 * e + 8 * f + 16 * g + 32 * h /\ n = r + 2 * s + 4 * t + 8 * u + 16 * v + 32 * w
    BY <1>5
  <2>2. b + 2 * m = q + 2 * n
    BY <1>5, <1>6, <2>1
  <2>3. b = q /\ m = n
    BY <1>3, <2>1, <2>2, NextDigit
  <2> QED BY <2>1, <2>3
<1>8. c = r /\ d + 2 * e + 4 * f + 8 * g + 16 * h = s + 2 * t + 4 * u + 8 * v + 16 * w
  <2>1. PICK m, n \in Int : m = d + 2 * e + 4 * f + 8 * g + 16 * h /\ n = s + 2 * t + 4 * u + 8 * v + 16 * w
    BY <1>5
  <2>2. c + 2 * m = r + 2 * n
    BY <1>5, <1>7, <2>1
  <2>3. c = r /\ m = n
    BY <1>3, <2>1, <2>2, NextDigit
  <2> QED BY <2>1, <2>3
<1>9. d = s /\ e + 2 * f + 4 * g + 8 * h = t + 2 * u + 4 * v + 8 * w
  <2>1. PICK m, n \in Int : m = e + 2 * f + 4 * g + 8 * h /\ n = t + 2 * u + 4 * v + 8 * w
    BY <1>5
  <2>2. d + 2 * m = s + 2 * n
    BY <1>5, <1>8, <2>1
  <2>3. d = s /\ m = n
    BY <1>3, <2>1, <2>2, NextDigit
  <2> QED BY <2>1, <2>3
<1>10. e = t /\ f + 2 * g + 4 * h = u + 2 * v + 4 * w
  <2>1. PICK m, n \in Int : m = f + 2 * g + 4 * h /\ n = u + 2 * v + 4 * w
    BY <1>5
  <2>2. e + 2 * m = t + 2 * n
    BY <1>5, <1>9, <2>1
  <2>3. e = t /\ m = n
    BY <1>3, <2>1, <2>2, NextDigit
  <2> QED BY <2>1, <2>3
<1>11. f = u /\ g + 2 * h = v + 2 * w
  <2>1. PICK m, n \in Int : m = g + 2 * h /\ n = v + 2 * w
    BY <1>5
  <2>2. f + 2 * m = u + 2 * n
    BY <1>5, <1>10, <2>1
  <2>3. f = u /\ m = n
    BY <1>3, <2>1, <2>2, NextDigit
  <2> QED BY <2>1, <2>3
<1>12. g = v /\ h = w
  <2>1. PICK m, n \in Int : m = h /\ n = w
    BY <1>5
  <2>2. g + 2 * m = v + 2 * n
    BY <1>5, <1>11, <2>1
  <2>3. g = v /\ m = n
    BY <1>3, <2>1, <2>2, NextDigit
  <2> QED BY <2>1, <2>3
<1> QED BY <1>1, <1>2, <1>6, <1>7, <1>8, <1>9, <1>10, <1>11, <1>12

(* The digits, and the two bytes they are. *)
LEMMA DigitsIn ==
  ASSUME NEW b \in Wide
  PROVE  /\ b[0] \in Bit /\ b[1] \in Bit /\ b[2] \in Bit /\ b[3] \in Bit
         /\ b[4] \in Bit /\ b[5] \in Bit /\ b[6] \in Bit /\ b[7] \in Bit
         /\ b[8] \in Bit /\ b[9] \in Bit /\ b[10] \in Bit /\ b[11] \in Bit
         /\ b[12] \in Bit /\ b[13] \in Bit /\ b[14] \in Bit /\ b[15] \in Bit
BY DEF Wide, Places

(* The two halves of a word are bytes. *)
LEMMA BytesOf ==
  ASSUME NEW b \in Wide
  PROVE  Eight(b, 0) \in Byte /\ Eight(b, 8) \in Byte
<1>1. Weighed(b[0], b[1], b[2], b[3], b[4], b[5], b[6], b[7]) \in Byte
  BY DigitsIn, WeighedIs, Zenon
<1>2. Weighed(b[8], b[9], b[10], b[11], b[12], b[13], b[14], b[15]) \in Byte
  BY DigitsIn, WeighedIs, Zenon
<1> QED BY <1>1, <1>2, EightIs, Zenon

(* Every number of 16 bits has its digits, and one sequence of them. *)
LEMMA WordOf ==
  ASSUME NEW x \in Byte, NEW y \in Byte
  PROVE  x + 256 * y \in Word16
BY DEF Byte, Word16

(* Words are the numbers of 16 bits. *)
LEMMA NumberIs ==
  /\ \A b \in Wide : Number(b) \in Word16
  /\ \A x \in Word16 : \E b \in Wide : x = Number(b)
<1>1. ASSUME NEW b \in Wide PROVE Number(b) \in Word16
  <2>1. Eight(b, 0) \in Byte /\ Eight(b, 8) \in Byte
    BY BytesOf
  <2>2. PICK x, y \in Byte : x = Eight(b, 0) /\ y = Eight(b, 8)
    BY <2>1
  <2>3. x + 256 * y \in Word16
    BY WordOf
  <2> QED BY <2>2, <2>3, Zenon DEF Number
<1>2. ASSUME NEW x \in Word16 PROVE \E b \in Wide : x = Number(b)
  <2>1. x % 256 \in Byte /\ x \div 256 \in Byte /\ x = (x % 256) + 256 * (x \div 256)
    BY DEF Word16, Byte
  <2>2. PICK b0, b1, b2, b3, b4, b5, b6, b7 \in Bit : x % 256 = Weighed(b0, b1, b2, b3, b4, b5, b6, b7)
    BY <2>1, WeighedIs
  <2>3. PICK b8, b9, b10, b11, b12, b13, b14, b15 \in Bit :
          x \div 256 = Weighed(b8, b9, b10, b11, b12, b13, b14, b15)
    BY <2>1, WeighedIs
  <2> DEFINE b == [i \in Places |-> CASE i = 0 -> b0 [] i = 1 -> b1 [] i = 2 -> b2 [] i = 3 -> b3 [] i = 4 -> b4
                                      [] i = 5 -> b5 [] i = 6 -> b6 [] i = 7 -> b7 [] i = 8 -> b8 [] i = 9 -> b9
                                      [] i = 10 -> b10 [] i = 11 -> b11 [] i = 12 -> b12 [] i = 13 -> b13
                                      [] i = 14 -> b14 [] OTHER -> b15]
  <2>4. /\ b[0] = b0 /\ b[1] = b1 /\ b[2] = b2 /\ b[3] = b3 /\ b[4] = b4 /\ b[5] = b5 /\ b[6] = b6 /\ b[7] = b7
        /\ b[8] = b8 /\ b[9] = b9 /\ b[10] = b10 /\ b[11] = b11 /\ b[12] = b12 /\ b[13] = b13 /\ b[14] = b14
        /\ b[15] = b15
    BY DEF Places
  <2>5. b \in Wide
    BY DEF Wide, Places
  <2> HIDE DEF b
  <2>6. Eight(b, 0) = x % 256 /\ Eight(b, 8) = x \div 256
    BY <2>2, <2>3, <2>4, EightIs, Zenon
  <2>7. x = Number(b)
    BY <2>1, <2>6, Zenon DEF Number
  <2> QED BY <2>5, <2>7
<1> QED BY <1>1, <1>2, Zenon

(* Different words are different numbers. *)
LEMMA NumberOnce ==
  ASSUME NEW a \in Wide, NEW b \in Wide, Number(a) = Number(b)
  PROVE  a = b
<1>3. Eight(a, 0) \in Byte /\ Eight(b, 0) \in Byte /\ Eight(a, 8) \in Byte /\ Eight(b, 8) \in Byte
  BY BytesOf
<1>4. Eight(a, 0) = Eight(b, 0) /\ Eight(a, 8) = Eight(b, 8)
  <2>1. PICK x, y, u, v \in Byte : x = Eight(a, 0) /\ y = Eight(a, 8) /\ u = Eight(b, 0) /\ v = Eight(b, 8)
    BY <1>3, Zenon
  <2>2. x + 256 * y = u + 256 * v
    BY <2>1, Zenon DEF Number
  <2>3. x = u /\ y = v
    BY <2>2 DEF Byte
  <2> QED BY <2>1, <2>3, Zenon
<1>6. /\ a[0] = b[0] /\ a[0 + 1] = b[0 + 1] /\ a[0 + 2] = b[0 + 2] /\ a[0 + 3] = b[0 + 3]
      /\ a[0 + 4] = b[0 + 4] /\ a[0 + 5] = b[0 + 5] /\ a[0 + 6] = b[0 + 6] /\ a[0 + 7] = b[0 + 7]
  BY <1>4, EightOnce
<1>7. /\ a[8] = b[8] /\ a[8 + 1] = b[8 + 1] /\ a[8 + 2] = b[8 + 2] /\ a[8 + 3] = b[8 + 3]
      /\ a[8 + 4] = b[8 + 4] /\ a[8 + 5] = b[8 + 5] /\ a[8 + 6] = b[8 + 6] /\ a[8 + 7] = b[8 + 7]
  BY <1>4, EightOnce
<1>8. \A i \in Places : a[i] = b[i]
  BY <1>6, <1>7 DEF Places
<1> QED BY <1>8 DEF Wide

(* Two numbers are added without a carry, digit by digit. *)
LEMMA AddedIs ==
  ASSUME NEW a \in Wide, NEW b \in Wide
  PROVE  Added(a, b) \in Wide /\ Xor16(Number(a), Number(b)) = Number(Added(a, b))
<1>1. \A i \in 0 .. 15 : a[i] \in Bit /\ b[i] \in Bit
  BY DEF Wide, Places
<1>2. Added(a, b) \in Wide /\ \A i \in 0 .. 15 : Added(a, b)[i] = Digit(a[i], b[i])
  BY <1>1, DigitIs DEF Wide, Places, Added, Bit
<1> DEFINE c == Added(a, b)
<1> HIDE DEF c
<1>3. XorByte(Eight(a, 0), Eight(b, 0)) = Eight(c, 0)
  BY DifferDigits DEF c
<1>4. XorByte(Eight(a, 8), Eight(b, 8)) = Eight(c, 8)
  BY DifferDigits DEF c
<1>5. ASSUME NEW d \in Wide
      PROVE  Number(d) \div 256 = Eight(d, 8) /\ Number(d) % 256 = Eight(d, 0)
  <2>1. Eight(d, 0) \in Byte /\ Eight(d, 8) \in Byte
    BY BytesOf
  <2>2. \A x, y \in Byte : (x + 256 * y) \div 256 = y /\ (x + 256 * y) % 256 = x
    BY DEF Byte
  <2> QED BY <2>1, <2>2, Zenon DEF Number
<1>6. Xor16(Number(a), Number(b)) = 256 * XorByte(Eight(a, 8), Eight(b, 8)) + XorByte(Eight(a, 0), Eight(b, 0))
  <2>1. \A x, y : Xor16(x, y) = 256 * XorByte(x \div 256, y \div 256) + XorByte(x % 256, y % 256)
    BY Zenon DEF Xor16, Bytewise, XorByte
  <2> QED BY <1>5, <2>1, Zenon
<1>7. Eight(c, 8) \in Int /\ Eight(c, 0) \in Int
  <2>1. Eight(c, 8) \in Byte /\ Eight(c, 0) \in Byte
    BY <1>2, BytesOf DEF c
  <2> QED BY <2>1 DEF Byte
<1>8. 256 * Eight(c, 8) + Eight(c, 0) = Eight(c, 0) + 256 * Eight(c, 8)
  BY <1>7
<1>9. Xor16(Number(a), Number(b)) = Number(c)
  BY <1>3, <1>4, <1>6, <1>8, Zenon DEF Number
<1> QED BY <1>2, <1>9, Zenon DEF c

(* A byte is the lower half of some word. *)
LEMMA ByteDigits == \A x \in Byte : \E b \in Wide : x = Eight(b, 0)
<1> SUFFICES ASSUME NEW x \in Byte PROVE \E b \in Wide : x = Eight(b, 0)
  OBVIOUS
<1>1. x \in Word16
  BY DEF Byte, Word16
<1>2. PICK b \in Wide : x = Number(b)
  BY <1>1, NumberIs
<1>3. PICK u, v \in Byte : u = Eight(b, 0) /\ v = Eight(b, 8)
  BY BytesOf
<1>4. x = u + 256 * v
  BY <1>2, <1>3, Zenon DEF Number
<1>5. x = u
  BY <1>4 DEF Byte
<1> QED BY <1>3, <1>5, Zenon

(* Exclusive or commutes and associates, as the addition of digits does. *)
LEMMA XorAlgebra ==
  /\ \A x, y \in Byte : XorByte(x, y) = XorByte(y, x)
  /\ \A x, y, z \in Byte : XorByte(XorByte(x, y), z) = XorByte(x, XorByte(y, z))
<1>1. \A a, b \in Bit : Digit(a, b) \in Bit /\ Digit(a, b) = Digit(b, a)
  BY DEF Digit, Bit
<1>2. \A a, b, c \in Bit : Digit(Digit(a, b), c) = Digit(a, Digit(b, c))
  BY DEF Digit, Bit
<1>3. \A a, b \in Wide : Added(a, b) \in Wide
  BY AddedIs
<1>4. \A a, b \in Wide : XorByte(Eight(a, 0), Eight(b, 0)) = Eight(Added(a, b), 0)
  <2>1. 0 \in {0, 8}
    OBVIOUS
  <2> QED BY <2>1, DifferDigits, Zenon
<1>5. \A a \in Wide : \A i \in Places : a[i] \in Bit
  BY DEF Wide
<1>6. ASSUME NEW x \in Byte, NEW y \in Byte PROVE XorByte(x, y) = XorByte(y, x)
  <2>1. PICK a \in Wide, b \in Wide : x = Eight(a, 0) /\ y = Eight(b, 0)
    BY ByteDigits, Zenon
  <2>2. Added(a, b) = Added(b, a)
    BY <1>1, <1>5 DEF Added
  <2> QED BY <1>4, <2>1, <2>2, Zenon
<1>7. ASSUME NEW x \in Byte, NEW y \in Byte, NEW z \in Byte
      PROVE  XorByte(XorByte(x, y), z) = XorByte(x, XorByte(y, z))
  <2>1. PICK a \in Wide, b \in Wide, c \in Wide : x = Eight(a, 0) /\ y = Eight(b, 0) /\ z = Eight(c, 0)
    BY ByteDigits, Zenon
  <2>2. Added(Added(a, b), c) = Added(a, Added(b, c))
    BY <1>2, <1>5 DEF Added
  <2>3. Added(a, b) \in Wide /\ Added(b, c) \in Wide
    BY <1>3
  <2>4. /\ XorByte(x, y) = Eight(Added(a, b), 0) /\ XorByte(y, z) = Eight(Added(b, c), 0)
        /\ XorByte(Eight(Added(a, b), 0), z) = Eight(Added(Added(a, b), c), 0)
        /\ XorByte(x, Eight(Added(b, c), 0)) = Eight(Added(a, Added(b, c)), 0)
    BY <1>4, <2>1, <2>3
  <2> QED BY <2>2, <2>4, Zenon
<1> QED BY <1>6, <1>7, Zenon

(* One side of an exclusive or fixes the other. *)
LEMMA XorOnce ==
  /\ \A x, y, z \in Byte : XorByte(x, z) = XorByte(y, z) => x = y
  /\ \A x, y, z \in Byte : XorByte(z, x) = XorByte(z, y) => x = y
<1>1. ASSUME NEW x \in Byte, NEW y \in Byte, NEW z \in Byte, XorByte(x, z) = XorByte(y, z) PROVE x = y
  <2>1. XorByte(XorByte(x, z), z) = x /\ XorByte(XorByte(y, z), z) = y
    BY XorIs
  <2> QED BY <1>1, <2>1, Zenon
<1>2. ASSUME NEW x \in Byte, NEW y \in Byte, NEW z \in Byte, XorByte(z, x) = XorByte(z, y) PROVE x = y
  <2>1. XorByte(x, z) = XorByte(y, z)
    BY <1>2, XorAlgebra
  <2> QED BY <1>1, <2>1
<1> QED BY <1>1, <1>2

(* What is added on both sides cancels out. *)
LEMMA XorCancels ==
  \A k, m, y, c \in Byte : XorByte(XorByte(XorByte(k, m), y), XorByte(k, c)) = XorByte(XorByte(m, y), c)
<1> SUFFICES ASSUME NEW k \in Byte, NEW m \in Byte, NEW y \in Byte, NEW c \in Byte
             PROVE  XorByte(XorByte(XorByte(k, m), y), XorByte(k, c)) = XorByte(XorByte(m, y), c)
  OBVIOUS
<1> DEFINE w == XorByte(m, y)
<1>1. w \in Byte /\ XorByte(w, k) \in Byte
  BY XorIs
<1>2. XorByte(XorByte(k, m), y) = XorByte(w, k)
  BY <1>1, XorAlgebra
<1>3. XorByte(XorByte(w, k), XorByte(k, c)) = XorByte(XorByte(XorByte(w, k), k), c)
  BY <1>1, XorAlgebra
<1>4. XorByte(XorByte(w, k), k) = w
  BY <1>1, XorIs
<1> HIDE DEF w
<1> QED BY <1>2, <1>3, <1>4, Zenon DEF w
-----------------------------------------------------------------------------
(***************************************************************************)
(* Folds over a sequence, which the library defines by a recursion over the *)
(* sets of its indices: they run through it from its first element on.      *)
(***************************************************************************)

(* The largest of some of the first n numbers. *)
LEMMA MaxIs ==
  ASSUME NEW n \in Nat, NEW s \in SUBSET (1 .. n), s # {}
  PROVE  Max(s) \in s /\ \A y \in s : y <= Max(s)
<1> DEFINE T == {n - x : x \in s}
<1>1. T \subseteq Nat /\ T # {}
  <2>1. PICK x : x \in s
    OBVIOUS
  <2>2. n - x \in T
    BY <2>1
  <2>3. \A y \in s : n - y \in Nat
    <3>1. \A y \in 1 .. n : n - y \in Nat
      OBVIOUS
    <3> QED BY <3>1
  <2> QED BY <2>2, <2>3
<1>2. PICK m \in T : \A k \in T : m <= k
  <2> HIDE DEF T
  <2> QED BY <1>1, LeastOf, Zenon
<1>3. PICK x \in s : m = n - x
  BY <1>2
<1>4. \A y \in s : x >= y
  <2> SUFFICES ASSUME NEW y \in s PROVE x >= y
    OBVIOUS
  <2>1. m <= n - y
    BY <1>2
  <2> QED BY <1>3, <2>1
<1>5. Max(s) \in s /\ \A y \in s : Max(s) >= y
  BY <1>3, <1>4, Zenon DEF Max
<1> QED BY <1>5

(* The indices up to the i-th. *)
LEMMA MaxOfFirst ==
  ASSUME NEW n \in Nat, NEW i \in 1 .. n
  PROVE  Max(1 .. i) = i /\ (1 .. i) \ {i} = 1 .. i - 1 /\ 1 .. i # {} /\ 1 .. i \in SUBSET (1 .. n)
<1>1. 1 .. i \in SUBSET (1 .. n) /\ 1 .. i # {} /\ i \in 1 .. i
  OBVIOUS
<1>2. Max(1 .. i) \in 1 .. i /\ \A y \in 1 .. i : y <= Max(1 .. i)
  BY <1>1, MaxIs
<1>3. Max(1 .. i) = i
  BY <1>1, <1>2
<1> QED BY <1>1, <1>3

(* The table of a fold: what it is over each set of indices. *)
Folded(T, base, seq, n, f) ==
  \A s \in SUBSET (1 .. n) : f[s] = IF s = {} THEN base ELSE T[f[s \ {Max(s)}]][seq[Max(s)]]

(* Every fold of a table has one. *)
LEMMA FoldExists ==
  ASSUME NEW X, NEW Y, NEW T \in [X -> [Y -> X]], NEW base \in X, NEW n \in Nat, NEW seq \in [1 .. n -> Y]
  PROVE  \E f \in [SUBSET (1 .. n) -> X] : Folded(T, base, seq, n, f)
<1> DEFINE S == {i \in 0 .. n : \E f \in [SUBSET (1 .. i) -> X] : Folded(T, base, seq, i, f)}
<1>1. 0 \in S
  <2> DEFINE f == [s \in SUBSET (1 .. 0) |-> base]
  <2>1. f \in [SUBSET (1 .. 0) -> X]
    OBVIOUS
  <2>2. \A s \in SUBSET (1 .. 0) : s = {}
    OBVIOUS
  <2>3. Folded(T, base, seq, 0, f)
    BY <2>2 DEF Folded
  <2>4. 0 \in 0 .. n
    OBVIOUS
  <2> HIDE DEF f
  <2> QED BY <2>1, <2>3, <2>4, Zenon
<1>2. ASSUME NEW i \in 1 .. n, i - 1 \in S PROVE i \in S
  <2>1. PICK f \in [SUBSET (1 .. i - 1) -> X] : Folded(T, base, seq, i - 1, f)
    BY <1>2
  <2> DEFINE g == [s \in SUBSET (1 .. i) |-> IF i \in s THEN T[f[s \ {i}]][seq[i]] ELSE f[s]]
  <2>2. ASSUME NEW s \in SUBSET (1 .. i)
        PROVE  /\ s \ {i} \in SUBSET (1 .. i - 1) /\ (i \notin s => s \in SUBSET (1 .. i - 1))
               /\ s \ {i} \in SUBSET (1 .. i)
    <3>1. \A j \in 1 .. i : j # i => j \in 1 .. i - 1
      OBVIOUS
    <3> QED BY <3>1
  <2>3. g \in [SUBSET (1 .. i) -> X]
    <3> SUFFICES ASSUME NEW s \in SUBSET (1 .. i)
                 PROVE  (IF i \in s THEN T[f[s \ {i}]][seq[i]] ELSE f[s]) \in X
      OBVIOUS
    <3>1. CASE i \in s
      <4>1. f[s \ {i}] \in X /\ seq[i] \in Y
        BY <2>1, <2>2
      <4>2. T[f[s \ {i}]][seq[i]] \in X
        BY <4>1
      <4> QED BY <3>1, <4>2
    <3>2. CASE i \notin s
      BY <2>1, <2>2, <3>2
    <3> QED BY <3>1, <3>2
  <2>4. ASSUME NEW s \in SUBSET (1 .. i)
        PROVE  g[s] = IF s = {} THEN base ELSE T[g[s \ {Max(s)}]][seq[Max(s)]]
    <3>1. CASE i \in s
      <4>1. Max(s) = i
        <5>1. Max(s) \in s /\ \A y \in s : y <= Max(s)
          <6>1. i \in Nat /\ s # {}
            BY <3>1
          <6> QED BY <6>1, MaxIs
        <5>2. Max(s) <= i /\ i <= Max(s) /\ Max(s) \in Int
          <6>1. Max(s) \in 1 .. i /\ i <= Max(s)
            BY <3>1, <5>1, Zenon
          <6>2. \A y \in 1 .. i : y <= i /\ y \in Int
            OBVIOUS
          <6> QED BY <6>1, <6>2, Zenon
        <5> QED BY <5>2
      <4>2. s \ {i} \in SUBSET (1 .. i) /\ i \notin s \ {i}
        BY <2>2
      <4>3. g[s \ {i}] = f[s \ {i}]
        BY <4>2
      <4>4. g[s] = T[f[s \ {i}]][seq[i]]
        BY <3>1
      <4> QED BY <3>1, <4>1, <4>3, <4>4
    <3>2. CASE i \notin s
      <4>1. s \in SUBSET (1 .. i - 1) /\ s \ {Max(s)} \in SUBSET (1 .. i) /\ i \notin s \ {Max(s)}
        BY <2>2, <3>2
      <4>2. f[s] = IF s = {} THEN base ELSE T[f[s \ {Max(s)}]][seq[Max(s)]]
        BY <2>1, <4>1 DEF Folded
      <4>3. g[s] = f[s] /\ g[s \ {Max(s)}] = f[s \ {Max(s)}]
        BY <3>2, <4>1
      <4> QED BY <4>2, <4>3
    <3> QED BY <3>1, <3>2
  <2>5. Folded(T, base, seq, i, g)
    BY <2>4, Zenon DEF Folded
  <2>6. i \in 0 .. n
    OBVIOUS
  <2> HIDE DEF g
  <2> QED BY <2>3, <2>5, <2>6, Zenon
<1> HIDE DEF S
<1>3. \A i \in 0 .. n : i \in S
  BY <1>1, <1>2, ByRounds
<1>4. n \in S
  BY <1>3
<1> QED BY <1>4 DEF S

(* The parity of a sequence of bits, one after the other. *)
LEMMA ParityIs ==
  ASSUME NEW n \in Nat, NEW seq \in [1 .. n -> Bit]
  PROVE  \E c \in [0 .. n -> Bit] : /\ c[0] = 0 /\ c[n] = Parity(seq)
                                 /\ \A i \in 1 .. n : c[i] = (c[i - 1] + seq[i]) % 2
<1> DEFINE T == [x \in Bit |-> [y \in Bit |-> (x + y) % 2]]
           Is(f) == f = [s \in SUBSET DOMAIN seq |->
                           IF s = {} THEN 0 ELSE (f[s \ {Max(s)}] + seq[Max(s)]) % 2]
<1>1. 0 \in Bit /\ \A x \in Bit, y \in Bit : (x + y) % 2 \in Bit
  BY DEF Bit
<1>2. T \in [Bit -> [Bit -> Bit]] /\ \A x \in Bit, y \in Bit : T[x][y] = (x + y) % 2
  BY <1>1
<1> HIDE DEF T
<1>3. PICK f \in [SUBSET (1 .. n) -> Bit] : Folded(T, 0, seq, n, f)
  BY <1>1, <1>2, FoldExists
<1>4. DOMAIN seq = 1 .. n
  OBVIOUS
<1>5. ASSUME NEW s \in SUBSET (1 .. n)
      PROVE  f[s] = IF s = {} THEN 0 ELSE (f[s \ {Max(s)}] + seq[Max(s)]) % 2
  <2>1. CASE s = {}
    BY <1>3, <2>1 DEF Folded
  <2>2. CASE s # {}
    <3>1. Max(s) \in 1 .. n
      BY <2>2, MaxIs
    <3>2. f[s \ {Max(s)}] \in Bit /\ seq[Max(s)] \in Bit
      BY <3>1
    <3>3. f[s] = T[f[s \ {Max(s)}]][seq[Max(s)]]
      BY <1>3, <2>2, Zenon DEF Folded
    <3>4. T[f[s \ {Max(s)}]][seq[Max(s)]] = (f[s \ {Max(s)}] + seq[Max(s)]) % 2
      BY <1>2, <3>2, Zenon
    <3> QED BY <2>2, <3>3, <3>4, Zenon
  <2> QED BY <2>1, <2>2
<1>6. Is(f)
  BY <1>4, <1>5, Zenon
<1>7. Parity(seq) = (CHOOSE g : Is(g))[DOMAIN seq]
  BY Zenon DEF Parity, FoldLeft, MapThenFoldSet
<1>8. PICK g : Is(g) /\ Parity(seq) = g[DOMAIN seq]
  BY <1>6, <1>7, Zenon
<1>9. \A s \in SUBSET (1 .. n) : g[s] = IF s = {} THEN 0 ELSE (g[s \ {Max(s)}] + seq[Max(s)]) % 2
  BY <1>4, <1>8, Zenon
<1> HIDE DEF Is
<1> DEFINE c == [i \in 0 .. n |-> g[1 .. i]]
<1>10. c[0] = 0
  <2>1. 1 .. 0 = {} /\ {} \in SUBSET (1 .. n) /\ 0 \in 0 .. n
    OBVIOUS
  <2> QED BY <1>9, <2>1, Zenon
<1>11. ASSUME NEW i \in 1 .. n PROVE c[i] = (c[i - 1] + seq[i]) % 2
  <2>1. i \in 0 .. n /\ i - 1 \in 0 .. n
    OBVIOUS
  <2>2. Max(1 .. i) = i /\ (1 .. i) \ {i} = 1 .. i - 1 /\ 1 .. i # {} /\ 1 .. i \in SUBSET (1 .. n)
    BY MaxOfFirst
  <2>3. g[1 .. i] = (g[(1 .. i) \ {Max(1 .. i)}] + seq[Max(1 .. i)]) % 2
    BY <1>9, <2>2, Zenon
  <2>4. c[i] = g[1 .. i] /\ c[i - 1] = g[1 .. i - 1]
    BY <2>1
  <2> HIDE DEF c
  <2> QED BY <2>2, <2>3, <2>4, Zenon
<1>12. n \in 0 .. n /\ c[n] = Parity(seq)
  BY <1>4, <1>8
<1> HIDE DEF c
<1>13. \A i \in 0 .. n : c[i] \in Bit
  <2> DEFINE S == {i \in 0 .. n : c[i] \in Bit}
  <2>1. 0 \in S
    BY <1>1, <1>10
  <2>2. ASSUME NEW i \in 1 .. n, i - 1 \in S PROVE i \in S
    <3>1. c[i - 1] \in Bit /\ seq[i] \in Bit /\ i \in 0 .. n
      BY <2>2
    <3>2. (c[i - 1] + seq[i]) % 2 \in Bit
      BY <1>1, <3>1, Zenon
    <3>3. c[i] = (c[i - 1] + seq[i]) % 2
      BY <1>11
    <3> QED BY <3>1, <3>2, <3>3
  <2> HIDE DEF S
  <2>3. \A i \in 0 .. n : i \in S
    BY <2>1, <2>2, ByRounds
  <2> QED BY <2>3 DEF S
<1>14. c \in [0 .. n -> Bit]
  BY <1>13 DEF c
<1> QED BY <1>10, <1>11, <1>12, <1>14, Zenon

(* The number that bits are, the most significant first. *)
LEMMA FromMsbIs ==
  ASSUME NEW n \in Nat, NEW seq \in [1 .. n -> Bit]
  PROVE  \E c \in [0 .. n -> Nat] : /\ c[0] = 0 /\ c[n] = FromMsb(seq)
                                 /\ \A i \in 1 .. n : c[i] = 2 * c[i - 1] + seq[i]
<1> DEFINE T == [x \in Nat |-> [y \in Bit |-> 2 * x + y]]
           Is(f) == f = [s \in SUBSET DOMAIN seq |->
                           IF s = {} THEN 0 ELSE 2 * f[s \ {Max(s)}] + seq[Max(s)]]
<1>1. 0 \in Nat /\ \A x \in Nat, y \in Bit : 2 * x + y \in Nat
  BY DEF Bit
<1>2. T \in [Nat -> [Bit -> Nat]] /\ \A x \in Nat, y \in Bit : T[x][y] = 2 * x + y
  BY <1>1
<1> HIDE DEF T
<1>3. PICK f \in [SUBSET (1 .. n) -> Nat] : Folded(T, 0, seq, n, f)
  BY <1>1, <1>2, FoldExists
<1>4. DOMAIN seq = 1 .. n
  OBVIOUS
<1>5. ASSUME NEW s \in SUBSET (1 .. n)
      PROVE  f[s] = IF s = {} THEN 0 ELSE 2 * f[s \ {Max(s)}] + seq[Max(s)]
  <2>1. CASE s = {}
    BY <1>3, <2>1 DEF Folded
  <2>2. CASE s # {}
    <3>1. Max(s) \in 1 .. n
      BY <2>2, MaxIs
    <3>2. f[s \ {Max(s)}] \in Nat /\ seq[Max(s)] \in Bit
      BY <3>1
    <3>3. f[s] = T[f[s \ {Max(s)}]][seq[Max(s)]]
      BY <1>3, <2>2, Zenon DEF Folded
    <3>4. T[f[s \ {Max(s)}]][seq[Max(s)]] = 2 * f[s \ {Max(s)}] + seq[Max(s)]
      BY <1>2, <3>2, Zenon
    <3> QED BY <2>2, <3>3, <3>4, Zenon
  <2> QED BY <2>1, <2>2
<1>6. Is(f)
  BY <1>4, <1>5, Zenon
<1>7. FromMsb(seq) = (CHOOSE g : Is(g))[DOMAIN seq]
  BY Zenon DEF FromMsb, FoldLeft, MapThenFoldSet
<1>8. PICK g : Is(g) /\ FromMsb(seq) = g[DOMAIN seq]
  BY <1>6, <1>7, Zenon
<1>9. \A s \in SUBSET (1 .. n) : g[s] = IF s = {} THEN 0 ELSE 2 * g[s \ {Max(s)}] + seq[Max(s)]
  BY <1>4, <1>8, Zenon
<1> HIDE DEF Is
<1> DEFINE c == [i \in 0 .. n |-> g[1 .. i]]
<1>10. c[0] = 0
  <2>1. 1 .. 0 = {} /\ {} \in SUBSET (1 .. n) /\ 0 \in 0 .. n
    OBVIOUS
  <2> QED BY <1>9, <2>1, Zenon
<1>11. ASSUME NEW i \in 1 .. n PROVE c[i] = 2 * c[i - 1] + seq[i]
  <2>1. i \in 0 .. n /\ i - 1 \in 0 .. n
    OBVIOUS
  <2>2. Max(1 .. i) = i /\ (1 .. i) \ {i} = 1 .. i - 1 /\ 1 .. i # {} /\ 1 .. i \in SUBSET (1 .. n)
    BY MaxOfFirst
  <2>3. g[1 .. i] = 2 * g[(1 .. i) \ {Max(1 .. i)}] + seq[Max(1 .. i)]
    BY <1>9, <2>2, Zenon
  <2>4. c[i] = g[1 .. i] /\ c[i - 1] = g[1 .. i - 1]
    BY <2>1
  <2> HIDE DEF c
  <2> QED BY <2>2, <2>3, <2>4, Zenon
<1>12. n \in 0 .. n /\ c[n] = FromMsb(seq)
  BY <1>4, <1>8
<1> HIDE DEF c
<1>13. \A i \in 0 .. n : c[i] \in Nat
  <2> DEFINE S == {i \in 0 .. n : c[i] \in Nat}
  <2>1. 0 \in S
    BY <1>1, <1>10
  <2>2. ASSUME NEW i \in 1 .. n, i - 1 \in S PROVE i \in S
    <3>1. c[i - 1] \in Nat /\ seq[i] \in Bit /\ i \in 0 .. n
      BY <2>2
    <3>2. 2 * c[i - 1] + seq[i] \in Nat
      BY <1>1, <3>1, Zenon
    <3>3. c[i] = 2 * c[i - 1] + seq[i]
      BY <1>11
    <3> QED BY <3>1, <3>2, <3>3
  <2> HIDE DEF S
  <2>3. \A i \in 0 .. n : i \in S
    BY <2>1, <2>2, ByRounds
  <2> QED BY <2>3 DEF S
<1>14. c \in [0 .. n -> Nat]
  BY <1>13 DEF c
<1> QED BY <1>10, <1>11, <1>12, <1>14, Zenon
-----------------------------------------------------------------------------
(***************************************************************************)
(* Arrays of bits and sequences of them.                                    *)
(***************************************************************************)

(* An array of bits is a sequence of them, and the other way round. *)
LEMMA BitsSeq == \A n \in Nat : \A f \in [1 .. n -> Bit] : f \in Seq(Bit) /\ Len(f) = n
  BY ArraySeq

LEMMA SeqBits == \A s \in Seq(Bit) : \A n \in Nat : Len(s) = n => s \in [1 .. n -> Bit]
<1> SUFFICES ASSUME NEW s \in Seq(Bit), NEW n \in Nat, Len(s) = n PROVE s \in [1 .. n -> Bit]
  OBVIOUS
<1> QED BY LenProperties

(* Two sequences of bits, joined. *)
LEMMA BitsConcat ==
  \A s, t \in Seq(Bit) : /\ s \o t \in Seq(Bit) /\ Len(s \o t) = Len(s) + Len(t)
                         /\ \A i \in 1 .. Len(s) : (s \o t)[i] = s[i]
                         /\ \A i \in 1 .. Len(t) : (s \o t)[Len(s) + i] = t[i]
  BY Concat

(* An array of bits with one more at its end. *)
LEMMA OneMore ==
  ASSUME NEW n \in Nat, NEW x \in [1 .. n -> Bit], NEW e \in Bit
  PROVE  \E w \in [1 .. n + 1 -> Bit] : w = Append(x, e) /\ (\A i \in 1 .. n : w[i] = x[i]) /\ w[n + 1] = e
<1>1. x \in Seq(Bit) /\ Len(x) = n
  BY ArraySeq
<1>2. Append(x, e) \in Seq(Bit) /\ Len(Append(x, e)) = n + 1
  BY <1>1
<1>3. \A i \in 1 .. n : Append(x, e)[i] = x[i]
  BY <1>1, AppendProperties
<1>4. Append(x, e)[n + 1] = e
  BY <1>1, AppendProperties
<1> DEFINE w == Append(x, e)
<1>7. w \in Seq(Bit) /\ Len(w) = n + 1
  BY <1>2
<1>6. w = Append(x, e) /\ (\A i \in 1 .. n : w[i] = x[i]) /\ w[n + 1] = e
  BY <1>3, <1>4
<1> HIDE DEF w
<1>5. w \in [1 .. n + 1 -> Bit]
  BY <1>7, SeqBits
<1> QED BY <1>5, <1>6

(* Two arrays of bits, joined. *)
LEMMA TwoJoined ==
  ASSUME NEW n \in Nat, NEW m \in Nat, NEW x \in [1 .. n -> Bit], NEW y \in [1 .. m -> Bit]
  PROVE  \E w \in [1 .. n + m -> Bit] :
            w = x \o y /\ (\A i \in 1 .. n : w[i] = x[i]) /\ \A i \in 1 .. m : w[n + i] = y[i]
<1>1. x \in Seq(Bit) /\ Len(x) = n /\ y \in Seq(Bit) /\ Len(y) = m
  BY ArraySeq
<1> DEFINE w == x \o y
<1>2. /\ w \in Seq(Bit) /\ Len(w) = Len(x) + Len(y) /\ (\A i \in 1 .. Len(x) : w[i] = x[i])
      /\ \A i \in 1 .. Len(y) : w[Len(x) + i] = y[i]
  BY <1>1, BitsConcat, Zenon
<1>3. w = x \o y
  OBVIOUS
<1> HIDE DEF w
<1>4. w \in [1 .. n + m -> Bit]
  BY <1>1, <1>2, SeqBits
<1>5. (\A i \in 1 .. n : w[i] = x[i]) /\ \A i \in 1 .. m : w[n + i] = y[i]
  BY <1>1, <1>2
<1> QED BY <1>3, <1>4, <1>5

(* A part of an array of bits, and the part it starts with. *)
LEMMA PartBits ==
  ASSUME NEW n \in Nat, NEW s \in [1 .. n -> Bit], NEW a \in Nat, NEW k \in Nat, a + k <= n
  PROVE  \E w \in [1 .. k -> Bit] : w = SubSeq(s, a + 1, a + k) /\ \A i \in 1 .. k : w[i] = s[a + i]
<1>1. s \in Seq(Bit) /\ Len(s) = n
  BY ArraySeq
<1> DEFINE l == a + 1
           h == a + k
           w == SubSeq(s, l, h)
<1>2. l \in Nat \ {0} /\ h \in Nat /\ h <= Len(s) /\ l <= h + 1
  BY <1>1
<1>3. h - l + 1 = k /\ \A i \in 1 .. k : l + i - 1 = a + i
  OBVIOUS
<1>4. w = SubSeq(s, a + 1, a + k)
  OBVIOUS
<1> HIDE DEF l, h
<1>5. w \in Seq(Bit) /\ Len(w) = h - l + 1 /\ \A i \in 1 .. h - l + 1 : w[i] = s[l + i - 1]
  BY <1>1, <1>2, PartIs
<1> HIDE DEF w
<1>6. w \in Seq(Bit) /\ Len(w) = k /\ \A i \in 1 .. k : w[i] = s[a + i]
  BY <1>3, <1>5
<1>7. w \in [1 .. k -> Bit]
  BY <1>6, SeqBits
<1> QED BY <1>4, <1>6, <1>7

LEMMA FirstBits ==
  ASSUME NEW n \in Nat, NEW s \in [1 .. n -> Bit], NEW k \in 0 .. n
  PROVE  \E w \in [1 .. k -> Bit] : w = SubSeq(s, 1, k) /\ \A i \in 1 .. k : w[i] = s[i]
<1>1. s \in Seq(Bit) /\ Len(s) = n
  BY ArraySeq
<1> DEFINE w == SubSeq(s, 1, k)
<1>2. k \in Nat /\ k <= Len(s) /\ 1 <= k + 1
  BY <1>1
<1>3. k - 1 + 1 = k /\ \A i \in 1 .. k : 1 + i - 1 = i
  OBVIOUS
<1>4. w = SubSeq(s, 1, k)
  OBVIOUS
<1>5. w \in Seq(Bit) /\ Len(w) = k - 1 + 1 /\ \A i \in 1 .. k - 1 + 1 : w[i] = s[1 + i - 1]
  BY <1>1, <1>2, PartIs
<1> HIDE DEF w
<1>6. w \in Seq(Bit) /\ Len(w) = k /\ \A i \in 1 .. k : w[i] = s[i]
  BY <1>3, <1>5
<1>7. w \in [1 .. k -> Bit]
  BY <1>6, SeqBits
<1> QED BY <1>4, <1>6, <1>7
=============================================================================
