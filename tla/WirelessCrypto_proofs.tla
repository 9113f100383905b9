---------------------- MODULE WirelessCrypto_proofs ----------------------
(***************************************************************************)
(* What the contexts of WirelessCrypto promise their callers, for every     *)
(* length and every way to cut a message: HashSound of WhSpec.              *)
(*                                                                          *)
(* The invariant says what a context is in terms of the message that was    *)
(* fed to it so far.  A SHA-256 context is the digest of the whole blocks   *)
(* of the message and what is left of it (Fed), an HMAC context two of      *)
(* those (Keyed), an RC4 context the stream after as many rounds as the     *)
(* message has bytes (RcCtx).  That the padded end of a message is hashed   *)
(* as the standard has it is shown by cases on where its last block ends.   *)
(***************************************************************************)
EXTENDS WirelessCrypto, Bits_proofs

-----------------------------------------------------------------------------
(***************************************************************************)
(* Digests: the compression of blocks in a chain.                           *)
(***************************************************************************)

(* Block b of a sequence. *)
Blk(p, b) == SubSeq(p, 64 * b - 63, 64 * b)
(* The digests of n blocks from a base. *)
Chain(p, base, n, f) ==
  f = [i \in 0 .. n |-> IF i = 0 THEN base ELSE sha256_transform(f[i - 1], Blk(p, i))]
Digest(p, base, n) == (CHOOSE f : Chain(p, base, n, f))[n]

(* The digests of n blocks, one after the other, are a chain. *)
LEMMA ChainExists ==
  ASSUME NEW p, NEW base, NEW n \in Nat
  PROVE  \E f : Chain(p, base, n, f)
<1> DEFINE S == {i \in 0 .. n : \E f : Chain(p, base, i, f)}
<1>1. 0 \in S
  <2> DEFINE f == [i \in 0 .. 0 |-> base]
  <2>1. f = [i \in 0 .. 0 |-> IF i = 0 THEN base ELSE sha256_transform(f[i - 1], Blk(p, i))]
    OBVIOUS
  <2> HIDE DEF f
  <2>2. 0 \in 0 .. n /\ Chain(p, base, 0, f)
    BY <2>1 DEF Chain
  <2> QED BY <2>2
<1>2. ASSUME NEW i \in 1 .. n, i - 1 \in S PROVE i \in S
  <2>1. PICK f : Chain(p, base, i - 1, f)
    BY <1>2
  <2> DEFINE g == [j \in 0 .. i |-> IF j = i THEN sha256_transform(f[i - 1], Blk(p, i)) ELSE f[j]]
             T(s, j) == sha256_transform(s, Blk(p, j))
  <2> HIDE DEF T
  <2>2. f = [j \in 0 .. i - 1 |-> IF j = 0 THEN base ELSE T(f[j - 1], j)]
    BY <2>1 DEF Chain, T
  <2>3. g = [j \in 0 .. i |-> IF j = i THEN T(f[i - 1], i) ELSE f[j]]
    BY DEF T
  <2> HIDE DEF g
  <2>8. \A j \in 0 .. i - 1 : f[j] = IF j = 0 THEN base ELSE T(f[j - 1], j)
    BY <2>2, Zenon
  <2>9. \A j \in 0 .. i - 1 : j \in 0 .. i /\ j # i /\ (j # 0 => j - 1 \in 0 .. i - 1)
    OBVIOUS
  <2>4. \A j \in 0 .. i - 1 : g[j] = f[j] /\ f[j] = IF j = 0 THEN base ELSE T(f[j - 1], j)
    BY <2>3, <2>8, <2>9
  <2>5. \A j \in 0 .. i : g[j] = IF j = 0 THEN base ELSE T(g[j - 1], j)
    BY <2>3, <2>4
  <2>6. g = [j \in 0 .. i |-> IF j = 0 THEN base ELSE T(g[j - 1], j)]
    BY <2>3, <2>5
  <2>7. Chain(p, base, i, g)
    BY <2>6, Zenon DEF Chain, T
  <2> QED BY <2>7
<1> HIDE DEF S
<1>3. \A i \in 0 .. n : i \in S
  BY <1>1, <1>2, ByRounds
<1>4. n \in S
  BY <1>3
<1> QED BY <1>4 DEF S

Absorb(p, base, n) ==
  Rounds(LAMBDA h, b : sha256_transform(h, SubSeq(p, 64 * b - 63, 64 * b)), base, 1, n)

(* The loop over n blocks of a sequence is the digest of the n blocks. *)
LEMMA Compressed ==
  ASSUME NEW p, NEW base, NEW n \in Nat
  PROVE  Absorb(p, base, n) = Digest(p, base, n)
<1> DEFINE after == CHOOSE f : f = [i \in 1 - 1 .. n |->
                      IF i = 1 - 1 THEN base
                      ELSE CHOOSE value \in {sha256_transform(before, SubSeq(p, 64 * i - 63, 64 * i))
                                            : before \in {f[i - 1]}} : TRUE]
<1>1. Absorb(p, base, n) = after[n]
  BY Zenon DEF Rounds, Absorb
<1>2. after = CHOOSE f : Chain(p, base, n, f)
  BY DEF Chain, Blk
<1> QED BY <1>1, <1>2 DEF Digest

(* A chain is one by its base and its blocks. *)
LEMMA ChainsAgree ==
  ASSUME NEW p, NEW base, NEW n \in Nat, NEW m \in Nat, n <= m, NEW f, NEW g,
         Chain(p, base, n, f), Chain(p, base, m, g)
  PROVE  \A i \in 0 .. n : f[i] = g[i]
<1> DEFINE T(s, j) == sha256_transform(s, Blk(p, j))
           S == {i \in 0 .. n : f[i] = g[i]}
<1>1. /\ \A i \in 0 .. n : f[i] = IF i = 0 THEN base ELSE T(f[i - 1], i)
      /\ \A i \in 0 .. m : g[i] = IF i = 0 THEN base ELSE T(g[i - 1], i)
  BY Zenon DEF Chain
<1> HIDE DEF T
<1>2. 0 \in S
  BY <1>1
<1>3. \A i \in 1 .. n : i - 1 \in S => i \in S
  BY <1>1
<1> HIDE DEF S
<1>4. \A i \in 0 .. n : i \in S
  BY <1>2, <1>3, ByRounds
<1> QED BY <1>4 DEF S

(* No block leaves the base; the digest of n blocks is that of n - 1 and the last. *)
LEMMA DigestNext ==
  ASSUME NEW p, NEW base
  PROVE  /\ Digest(p, base, 0) = base
         /\ \A n \in Nat \ {0} : Digest(p, base, n) = sha256_transform(Digest(p, base, n - 1), Blk(p, n))
<1>1. ASSUME NEW n \in Nat
      PROVE  \E f : Chain(p, base, n, f) /\ Digest(p, base, n) = f[n]
  <2> DEFINE f == CHOOSE f : Chain(p, base, n, f)
  <2>1. Chain(p, base, n, f)
    BY ChainExists, Zenon
  <2>2. Digest(p, base, n) = f[n]
    BY DEF Digest
  <2> HIDE DEF f
  <2> QED BY <2>1, <2>2, Zenon
<1>2. Digest(p, base, 0) = base
  <2>1. PICK f : Chain(p, base, 0, f) /\ Digest(p, base, 0) = f[0]
    BY <1>1
  <2>2. 0 \in 0 .. 0
    OBVIOUS
  <2> QED BY <2>1, <2>2, Zenon DEF Chain
<1>3. ASSUME NEW n \in Nat \ {0}
      PROVE  Digest(p, base, n) = sha256_transform(Digest(p, base, n - 1), Blk(p, n))
  <2>1. PICK f : Chain(p, base, n, f) /\ Digest(p, base, n) = f[n]
    BY <1>1
  <2>2. n - 1 \in Nat /\ n - 1 <= n /\ n - 1 \in 0 .. n - 1 /\ n \in 0 .. n /\ n # 0
    OBVIOUS
  <2>3. PICK g : Chain(p, base, n - 1, g) /\ Digest(p, base, n - 1) = g[n - 1]
    BY <1>1, <2>2
  <2>4. g[n - 1] = f[n - 1]
    BY <2>1, <2>2, <2>3, ChainsAgree
  <2>5. f[n] = sha256_transform(f[n - 1], Blk(p, n))
    BY <2>1, <2>2, Zenon DEF Chain
  <2> QED BY <2>1, <2>3, <2>4, <2>5
<1> QED BY <1>2, <1>3

(* Blocks that are alike from a place on carry a digest on alike. *)
LEMMA DigestSplit ==
  ASSUME NEW p, NEW q, NEW base, NEW a \in Nat, NEW n \in Nat,
         \A i \in 1 .. n : Blk(q, i) = Blk(p, a + i)
  PROVE  Digest(q, Digest(p, base, a), n) = Digest(p, base, a + n)
<1> DEFINE S == {i \in 0 .. n : Digest(q, Digest(p, base, a), i) = Digest(p, base, a + i)}
<1>1. 0 \in S
  <2>1. a + 0 = a
    OBVIOUS
  <2> QED BY <2>1, DigestNext
<1>2. ASSUME NEW i \in 1 .. n, i - 1 \in S PROVE i \in S
  <2> DEFINE d == Digest(p, base, a)
  <2>1. i \in Nat \ {0} /\ a + i \in Nat \ {0} /\ a + i - 1 = a + (i - 1) /\ i \in 0 .. n
    OBVIOUS
  <2>2. Digest(q, d, i) = sha256_transform(Digest(q, d, i - 1), Blk(q, i))
    BY <2>1, DigestNext
  <2>3. Digest(p, base, a + i) = sha256_transform(Digest(p, base, a + i - 1), Blk(p, a + i))
    BY <2>1, DigestNext
  <2>4. Digest(q, d, i - 1) = Digest(p, base, a + (i - 1)) /\ Blk(q, i) = Blk(p, a + i)
    BY <1>2
  <2> QED BY <2>1, <2>2, <2>3, <2>4
<1> HIDE DEF S
<1>3. \A i \in 0 .. n : i \in S
  BY <1>1, <1>2, ByRounds
<1>4. n \in S
  BY <1>3
<1> QED BY <1>4 DEF S

-----------------------------------------------------------------------------
(***************************************************************************)
(* SHA-256 contexts: fed a message, a context holds the digest of its whole *)
(* blocks and what is left of it.                                           *)
(***************************************************************************)

(* A context that was fed a message. *)
Whole(m) == Len(m) \div 64
Fed(m) == [state |-> Digest(m, sha256_h0, Whole(m)), bit_count |-> 512 * Whole(m),
           buffer |-> SubSeq(m, 64 * Whole(m) + 1, Len(m))]

(* sha256_init: a context that was fed nothing. *)
LEMMA FedNothing == sha256_init = Fed(<<>>)
<1>1. Len(<<>>) = 0 /\ Whole(<<>>) = 0 /\ 512 * 0 = 0 /\ 64 * 0 + 1 = 1
  BY DEF Whole
<1>2. SubSeq(<<>>, 1, 0) = <<>>
  BY SubSeqEmpty
<1>3. Digest(<<>>, sha256_h0, 0) = sha256_h0
  BY DigestNext
<1> QED BY <1>1, <1>2, <1>3, Zenon DEF Fed, sha256_init

Updated(ctx, pending, full) ==
  [state |-> Absorb(pending, ctx.state, full), bit_count |-> ctx.bit_count + 512 * full,
   buffer |-> SubSeq(pending, 64 * full + 1, Len(pending))]

(* sha256_update compresses the whole blocks of what is pending and keeps the rest. *)
LEMMA UpdateIs ==
  ASSUME NEW ctx, NEW data
  PROVE  sha256_update(ctx, data) = Updated(ctx, ctx.buffer \o data, Len(ctx.buffer \o data) \div 64)
BY Zenon DEF sha256_update, Absorb, Updated

(* sha256_update: a message may be fed piece by piece. *)
LEMMA FedMore ==
  ASSUME NEW S, NEW m \in Seq(S), NEW d \in Seq(S)
  PROVE  sha256_update(Fed(m), d) = Fed(m \o d)
<1> DEFINE c == m \o d
           q == Whole(m)
           buffer == SubSeq(m, 64 * q + 1, Len(m))
           pending == buffer \o d
           full == Len(pending) \div 64
           st == Digest(m, sha256_h0, q)
<1>1. Len(m) \in Nat /\ Len(d) \in Nat
  BY LenProperties
<1>2. q \in Nat /\ 64 * q <= Len(m) /\ Len(m) < 64 * q + 64
  BY <1>1 DEF Whole
<1>3. c \in Seq(S) /\ Len(c) = Len(m) + Len(d)
  BY ConcatProperties
<1> HIDE DEF q
<1>4. pending = SubSeq(c, 64 * q + 1, Len(c))
  <2>1. 64 * q + 1 \in Nat \ {0} /\ 64 * q + 1 <= Len(m) + 1
    BY <1>1, <1>2
  <2>2. SubSeq(m, 64 * q + 1, Len(m)) \o d = SubSeq(m \o d, 64 * q + 1, Len(m) + Len(d))
    BY <2>1, RestOfBoth
  <2> QED BY <1>3, <2>2, Zenon
<1>5. pending \in Seq(S) /\ Len(pending) = Len(c) - 64 * q
  <2>1. 64 * q + 1 \in Nat \ {0} /\ 64 * q + 1 <= Len(c) + 1 /\ Len(c) \in Nat /\ Len(c) <= Len(c)
        /\ Len(c) - (64 * q + 1) + 1 = Len(c) - 64 * q
    BY <1>1, <1>2, <1>3
  <2> QED BY <1>3, <1>4, <2>1, PartIs
<1> HIDE DEF pending, c
<1>6. full \in Nat /\ q + full = Whole(c) /\ 64 * full <= Len(pending)
  <2>1. \A k, l \in Nat : 64 * k <= l => /\ (l - 64 * k) \div 64 \in Nat
                                         /\ k + ((l - 64 * k) \div 64) = l \div 64
                                         /\ 64 * ((l - 64 * k) \div 64) <= l - 64 * k
    OBVIOUS
  <2>2. Len(c) \in Nat /\ 64 * q <= Len(c)
    BY <1>1, <1>2, <1>3
  <2>3. full = (Len(c) - 64 * q) \div 64
    BY <1>5, Zenon
  <2> HIDE DEF full
  <2>4. /\ full \in Nat /\ q + full = Len(c) \div 64 /\ 64 * full <= Len(c) - 64 * q
    BY <1>2, <2>1, <2>2, <2>3
  <2> QED BY <1>5, <2>4, Zenon DEF Whole
<1>7. Digest(c, sha256_h0, q) = st
  <2>1. \A i \in 1 .. q : Blk(m, i) = Blk(c, 0 + i)
    <3> SUFFICES ASSUME NEW i \in 1 .. q PROVE Blk(c, i) = Blk(m, i)
      OBVIOUS
    <3>1. 64 * i - 63 \in Nat \ {0} /\ 64 * i \in Nat /\ 64 * i <= Len(m)
      BY <1>1, <1>2
    <3> QED BY <3>1, PartOfFirst DEF Blk, c
  <2>2. Digest(m, Digest(c, sha256_h0, 0), q) = Digest(c, sha256_h0, 0 + q)
    BY <1>2, <2>1, DigestSplit
  <2>3. 0 + q = q
    BY <1>2
  <2> QED BY <2>2, <2>3, DigestNext
<1>8. Digest(pending, st, full) = Digest(c, sha256_h0, Whole(c))
  <2> HIDE DEF full
  <2>1. \A i \in 1 .. full : Blk(pending, i) = Blk(c, q + i)
    <3> SUFFICES ASSUME NEW i \in 1 .. full PROVE Blk(pending, i) = Blk(c, q + i)
      OBVIOUS
    <3> DEFINE a == 64 * q + 1
               k == 64 * i - 63
               l == 64 * i
    <3>1. /\ a \in Nat \ {0} /\ Len(c) \in Nat /\ Len(c) <= Len(c) /\ a <= Len(c) + 1
          /\ k \in Nat \ {0} /\ l \in Nat /\ l <= Len(c) - a + 1
      BY <1>1, <1>2, <1>3, <1>5, <1>6
    <3>2. a + k - 1 = 64 * (q + i) - 63 /\ a + l - 1 = 64 * (q + i)
      BY <1>2, <1>6
    <3> HIDE DEF a, k, l
    <3>3. SubSeq(SubSeq(c, a, Len(c)), k, l) = SubSeq(c, a + k - 1, a + l - 1)
      BY <1>3, <3>1, PartOfPart
    <3> QED BY <1>4, <3>2, <3>3, Zenon DEF Blk, a, k, l
  <2>2. Digest(pending, Digest(c, sha256_h0, q), full) = Digest(c, sha256_h0, q + full)
    BY <1>2, <1>6, <2>1, DigestSplit
  <2> QED BY <1>6, <1>7, <2>2
<1>9. SubSeq(pending, 64 * full + 1, Len(pending)) = SubSeq(c, 64 * Whole(c) + 1, Len(c))
  <2> HIDE DEF full
  <2> DEFINE a == 64 * q + 1
             k == 64 * full + 1
             l == Len(pending)
  <2>1. /\ a \in Nat \ {0} /\ Len(c) \in Nat /\ Len(c) <= Len(c) /\ a <= Len(c) + 1
        /\ k \in Nat \ {0} /\ l \in Nat /\ l <= Len(c) - a + 1
    BY <1>1, <1>2, <1>3, <1>5, <1>6
  <2>2. a + k - 1 = 64 * Whole(c) + 1 /\ a + l - 1 = Len(c)
    BY <1>1, <1>2, <1>3, <1>5, <1>6
  <2> HIDE DEF a, k, l
  <2>3. SubSeq(SubSeq(c, a, Len(c)), k, l) = SubSeq(c, a + k - 1, a + l - 1)
    BY <1>3, <2>1, PartOfPart
  <2> QED BY <1>4, <2>2, <2>3, Zenon DEF a, k, l
<1>10. 512 * q + 512 * full = 512 * Whole(c)
  BY <1>2, <1>6
<1>11. /\ Fed(m).state = st /\ Fed(m).bit_count = 512 * q /\ Fed(m).buffer = buffer
  BY DEF Fed, q
<1>12. sha256_update(Fed(m), d) =
         [state |-> Digest(pending, st, full), bit_count |-> 512 * q + 512 * full,
          buffer |-> SubSeq(pending, 64 * full + 1, Len(pending))]
  <2>1. Absorb(pending, st, full) = Digest(pending, st, full)
    <3> HIDE DEF st, full
    <3> QED BY <1>6, Compressed
  <2>2. sha256_update(Fed(m), d) = Updated(Fed(m), Fed(m).buffer \o d, Len(Fed(m).buffer \o d) \div 64)
    BY UpdateIs
  <2>3. sha256_update(Fed(m), d) = Updated(Fed(m), pending, full)
    BY <1>11, <2>2, Zenon DEF pending
  <2> HIDE DEF st, buffer, full
  <2> QED BY <1>11, <2>1, <2>3, Zenon DEF Updated
<1> HIDE DEF st, full, buffer
<1> QED BY <1>8, <1>9, <1>10, <1>12, Zenon DEF Fed, c

-----------------------------------------------------------------------------
(***************************************************************************)
(* The end of a message: the end mark, zeros and the length fill one block  *)
(* or two.                                                                  *)
(***************************************************************************)

(* The digest of a state. *)
Out(final) == FlattenSeq([i \in 1 .. 8 |-> Bytes32(final[i])])

(* What sha256_final does with a block that the length ends. *)
LEMMA LastOf ==
  ASSUME NEW s, NEW bits
  PROVE  LastBlock(s, bits) = Out(sha256_transform(s.state, SubSeq(s.rest \o Zeros(56), 1, 56) \o Length64(bits)))
<1> DEFINE last == sha256_transform(s.state, SubSeq(s.rest \o Zeros(56), 1, 56) \o Length64(bits))
<1>1. LastBlock(s, bits) = CHOOSE y \in {Out(x) : x \in {last}} : TRUE
  BY Zenon DEF LastBlock, Once, Out
<1>2. {Out(x) : x \in {last}} = {Out(last)}
  BY Zenon
<1> QED BY <1>1, <1>2, OnlyOne, Zenon

(* The hash of the standard: the digest of the padded message's blocks. *)
LEMMA StandardIs ==
  ASSUME NEW msg, Len(StandardPadding(msg)) \div 64 \in Nat
  PROVE  StandardHash(msg) = Out(Digest(StandardPadding(msg), sha256_h0, Len(StandardPadding(msg)) \div 64))
<1> DEFINE padded == StandardPadding(msg)
           n == Len(padded) \div 64
           last == Absorb(padded, sha256_h0, n)
<1>1. StandardHash(msg) = CHOOSE y \in {Out(x) : x \in {last}} : TRUE
  BY Zenon DEF StandardHash, Once, Out, Absorb
<1>2. {Out(x) : x \in {last}} = {Out(last)}
  BY Zenon
<1>3. last = Digest(padded, sha256_h0, n)
  <2> HIDE DEF padded, n
  <2>1. n \in Nat
    BY DEF n, padded
  <2> QED BY <2>1, Compressed
<1> QED BY <1>1, <1>2, <1>3, OnlyOne, Zenon

(* memset: a sequence of zeros. *)
LEMMA ZerosAre ==
  ASSUME NEW n \in Nat
  PROVE  Zeros(n) \in Seq(Nat) /\ Len(Zeros(n)) = n /\ \A i \in 1 .. n : Zeros(n)[i] = 0
BY DEF Zeros

(* A number as bytes is a sequence of numbers. *)
LEMMA BigEndianIs ==
  ASSUME NEW x \in Nat
  PROVE  BigEndian(x, 4) \in Seq(Nat) /\ Len(BigEndian(x, 4)) = 4
<1>1. \A i \in 1 .. 4 : (IF 4 - i > 3 THEN 0 ELSE (x \div PowersOf256[4 - i + 1]) % 256) \in Nat
  <2> SUFFICES ASSUME NEW i \in 1 .. 4 PROVE (x \div PowersOf256[4 - i + 1]) % 256 \in Nat
    BY Zenon
  <2>1. PowersOf256[4 - i + 1] \in {1, 256, 65536, 16777216}
    BY DEF PowersOf256
  <2> DEFINE p == PowersOf256[4 - i + 1]
  <2> HIDE DEF p
  <2>2. p = 1 \/ p = 256 \/ p = 65536 \/ p = 16777216
    BY <2>1 DEF p
  <2>3. (x \div p) % 256 \in Nat
    BY <2>2
  <2> QED BY <2>3 DEF p
<1>2. BigEndian(x, 4) = [i \in 1 .. 4 |-> IF 4 - i > 3 THEN 0 ELSE (x \div PowersOf256[4 - i + 1]) % 256]
  BY Zenon DEF BigEndian
<1>3. BigEndian(x, 4) \in [1 .. 4 -> Nat]
  BY <1>1, <1>2, Zenon
<1> HIDE DEF BigEndian
<1>4. BigEndian(x, 4) \in Seq(Nat)
  BY <1>3, SeqDef
<1> QED BY <1>3, <1>4, LenProperties

(* The length of a message takes eight bytes. *)
LEMMA LengthIs ==
  ASSUME NEW x \in Nat
  PROVE  Length64(x) \in Seq(Nat) /\ Len(Length64(x)) = 8
<1> DEFINE z == Zeros(4)
           b == BigEndian(x, 4)
<1>1. z \in Seq(Nat) /\ Len(z) = 4
  BY ZerosAre
<1>2. b \in Seq(Nat) /\ Len(b) = 4
  BY BigEndianIs
<1> HIDE DEF z, b
<1>3. z \o b \in Seq(Nat) /\ Len(z \o b) = 8
  <2>1. \A s, t \in Seq(Nat) : s \o t \in Seq(Nat) /\ Len(s \o t) = Len(s) + Len(t)
    BY ConcatProperties, Zenon
  <2>2. z \o b \in Seq(Nat) /\ Len(z \o b) = 4 + 4
    BY <1>1, <1>2, <2>1, Zenon
  <2>3. 4 + 4 = 8
    OBVIOUS
  <2> QED BY <2>2, <2>3, Zenon
<1> QED BY <1>3, Zenon DEF Length64, z, b

(* Four parts in a row. *)
Row(a, b, c, d) == a \o b \o c \o d
IsRow(g, T, a, b, c, d) ==
  /\ g \in Seq(T) /\ Len(g) = Len(a) + Len(b) + Len(c) + Len(d)
  /\ \A i \in 1 .. Len(a) : g[i] = a[i]
  /\ \A i \in 1 .. Len(b) : g[Len(a) + i] = b[i]
  /\ \A i \in 1 .. Len(c) : g[Len(a) + Len(b) + i] = c[i]
  /\ \A i \in 1 .. Len(d) : g[Len(a) + Len(b) + Len(c) + i] = d[i]

(* Each part of a row stands behind those before it. *)
LEMMA RowIs ==
  ASSUME NEW T, NEW a \in Seq(T), NEW b \in Seq(T), NEW c \in Seq(T), NEW d \in Seq(T)
  PROVE  IsRow(Row(a, b, c, d), T, a, b, c, d)
<1> DEFINE e == a \o b
           f == e \o c
           g == f \o d
<1>0. \A s, t \in Seq(T) :
        /\ s \o t \in Seq(T) /\ Len(s \o t) = Len(s) + Len(t)
        /\ \A i \in 1 .. Len(s) + Len(t) : (s \o t)[i] = IF i <= Len(s) THEN s[i] ELSE t[i - Len(s)]
  BY ConcatProperties, Zenon
<1>1. Len(a) \in Nat /\ Len(b) \in Nat /\ Len(c) \in Nat /\ Len(d) \in Nat
  BY LenProperties
<1>2. /\ e \in Seq(T) /\ Len(e) = Len(a) + Len(b)
      /\ \A i \in 1 .. Len(a) + Len(b) : e[i] = IF i <= Len(a) THEN a[i] ELSE b[i - Len(a)]
  BY ConcatProperties
<1> HIDE DEF e
<1>3. /\ f \in Seq(T) /\ Len(f) = Len(e) + Len(c)
      /\ \A i \in 1 .. Len(e) + Len(c) : f[i] = IF i <= Len(e) THEN e[i] ELSE c[i - Len(e)]
  BY <1>0, <1>2
<1> HIDE DEF f
<1>4. /\ g \in Seq(T) /\ Len(g) = Len(f) + Len(d)
      /\ \A i \in 1 .. Len(f) + Len(d) : g[i] = IF i <= Len(f) THEN f[i] ELSE d[i - Len(f)]
  BY <1>0, <1>3
<1> HIDE DEF g
<1>5. \A i \in 1 .. Len(a) : g[i] = a[i]
  BY <1>1, <1>2, <1>3, <1>4
<1>6. \A i \in 1 .. Len(b) : g[Len(a) + i] = b[i]
  <2> SUFFICES ASSUME NEW i \in 1 .. Len(b) PROVE g[Len(a) + i] = b[i]
    OBVIOUS
  <2> DEFINE k == Len(a) + i
  <2>1. k \in 1 .. Len(a) + Len(b) /\ ~(k <= Len(a)) /\ k - Len(a) = i /\ k \in Nat
    BY <1>1
  <2> HIDE DEF k
  <2>2. e[k] = b[i]
    BY <1>2, <2>1
  <2>3. f[k] = e[k] /\ g[k] = f[k]
    BY <1>1, <1>2, <1>3, <1>4, <2>1
  <2> QED BY <2>2, <2>3 DEF k
<1>7. \A i \in 1 .. Len(c) : g[Len(a) + Len(b) + i] = c[i]
  <2> SUFFICES ASSUME NEW i \in 1 .. Len(c) PROVE g[Len(a) + Len(b) + i] = c[i]
    OBVIOUS
  <2> DEFINE k == Len(a) + Len(b) + i
  <2>1. k \in 1 .. Len(e) + Len(c) /\ ~(k <= Len(e)) /\ k - Len(e) = i /\ k \in Nat
    BY <1>1, <1>2
  <2> HIDE DEF k
  <2>2. f[k] = c[i]
    BY <1>3, <2>1
  <2>3. g[k] = f[k]
    BY <1>1, <1>2, <1>3, <1>4, <2>1
  <2> QED BY <2>2, <2>3 DEF k
<1>8. \A i \in 1 .. Len(d) : g[Len(a) + Len(b) + Len(c) + i] = d[i]
  <2> SUFFICES ASSUME NEW i \in 1 .. Len(d) PROVE g[Len(a) + Len(b) + Len(c) + i] = d[i]
    OBVIOUS
  <2> DEFINE k == Len(a) + Len(b) + Len(c) + i
  <2>1. k \in 1 .. Len(f) + Len(d) /\ ~(k <= Len(f)) /\ k - Len(f) = i
    BY <1>1, <1>2, <1>3
  <2> HIDE DEF k
  <2> QED BY <1>4, <2>1 DEF k
<1>9. Row(a, b, c, d) = g
  BY Zenon DEF Row, e, f, g
<1>10. Len(g) = Len(a) + Len(b) + Len(c) + Len(d)
  BY <1>2, <1>3, <1>4
<1>11. IsRow(g, T, a, b, c, d)
  BY <1>4, <1>5, <1>6, <1>7, <1>8, <1>10, Zenon DEF IsRow
<1> QED BY <1>9, <1>11, Zenon

(* A sequence that begins like another has its first digests. *)
LEMMA DigestPrefix ==
  ASSUME NEW S, NEW m \in Seq(S), NEW c, \A i \in 1 .. Len(m) : c[i] = m[i],
         NEW base, NEW n \in Nat, 64 * n <= Len(m)
  PROVE  Digest(c, base, n) = Digest(m, base, n)
<1>1. \A i \in 1 .. n : Blk(m, i) = Blk(c, 0 + i)
  <2> SUFFICES ASSUME NEW i \in 1 .. n PROVE Blk(m, i) = Blk(c, 0 + i)
    OBVIOUS
  <2> DEFINE k == 64 * i - 63
             l == 64 * i
  <2>1. k \in Int /\ l \in Int /\ l - k = l - k /\ k >= 1 /\ l <= Len(m) /\ 0 + i = i /\ Len(m) \in Nat
    BY LenProperties
  <2> HIDE DEF k, l
  <2>2. \A j \in k .. l : j \in 1 .. Len(m) /\ k + (j - k) = j
    BY <2>1
  <2>3. \A j \in k .. l : m[j] \in S /\ m[j] = c[k + (j - k)]
    BY <2>2, ElementOfSeq
  <2>4. SubSeq(m, k, l) = SubSeq(c, k, l)
    BY <2>1, <2>3, PartsEqual
  <2> QED BY <2>1, <2>4, Zenon DEF Blk, k, l
<1>2. Digest(m, Digest(c, base, 0), n) = Digest(c, base, 0 + n)
  BY <1>1, DigestSplit
<1>3. 0 + n = n
  OBVIOUS
<1> QED BY <1>2, <1>3, DigestNext

(* What is left of a message, filled up to where the length goes. *)
Filled(rest, last) == SubSeq(rest \o Zeros(56), 1, 56) \o last

IsFilled(b, T, rest, last) ==
  /\ b \in Seq(T) /\ Len(b) = 64
  /\ \A i \in 1 .. 64 : b[i] = IF i <= Len(rest) THEN rest[i] ELSE IF i <= 56 THEN 0 ELSE last[i - 56]

(* A rest of at most 56 elements is filled up to a block of 64. *)
LEMMA FilledUp ==
  ASSUME NEW T, Nat \subseteq T, NEW rest \in Seq(T), Len(rest) <= 56, NEW last \in Seq(T), Len(last) = 8
  PROVE  IsFilled(Filled(rest, last), T, rest, last)
<1> DEFINE z == Zeros(56)
           c == rest \o z
           p == SubSeq(c, 1, 56)
           b == p \o last
<1>0. \A s, t \in Seq(T) :
        /\ s \o t \in Seq(T) /\ Len(s \o t) = Len(s) + Len(t)
        /\ \A i \in 1 .. Len(s) + Len(t) : (s \o t)[i] = IF i <= Len(s) THEN s[i] ELSE t[i - Len(s)]
  BY ConcatProperties, Zenon
<1>1. z \in Seq(T) /\ Len(z) = 56 /\ \A i \in 1 .. 56 : z[i] = 0
  <2>1. z \in Seq(Nat) /\ Len(z) = 56 /\ \A i \in 1 .. 56 : z[i] = 0
    <3>1. 56 \in Nat
      OBVIOUS
    <3> QED BY <3>1, ZerosAre, Zenon
  <2> HIDE DEF z
  <2> QED BY <2>1, SeqMonotonic
<1> HIDE DEF z
<1>2. Len(rest) \in Nat
  BY LenProperties
<1>3. /\ c \in Seq(T) /\ Len(c) = Len(rest) + 56
      /\ \A i \in 1 .. Len(rest) + 56 : c[i] = IF i <= Len(rest) THEN rest[i] ELSE z[i - Len(rest)]
  <2>1. /\ c \in Seq(T) /\ Len(c) = Len(rest) + Len(z)
        /\ \A i \in 1 .. Len(rest) + Len(z) : c[i] = IF i <= Len(rest) THEN rest[i] ELSE z[i - Len(rest)]
    BY <1>0, <1>1
  <2> HIDE DEF c
  <2> QED BY <1>1, <2>1
<1> HIDE DEF c
<1>4. p \in Seq(T) /\ Len(p) = 56 /\ \A i \in 1 .. 56 : p[i] = c[i]
  <2>1. 1 \in Nat \ {0} /\ 56 \in Nat /\ 56 <= Len(c) /\ 1 <= 56 + 1
    BY <1>2, <1>3
  <2>2. /\ SubSeq(c, 1, 56) \in Seq(T) /\ Len(SubSeq(c, 1, 56)) = 56 - 1 + 1
        /\ \A i \in 1 .. 56 - 1 + 1 : SubSeq(c, 1, 56)[i] = c[1 + i - 1]
    <3>1. \A s \in Seq(T), m \in Nat \ {0}, n \in Nat : n <= Len(s) /\ m <= n + 1 =>
            /\ SubSeq(s, m, n) \in Seq(T) /\ Len(SubSeq(s, m, n)) = n - m + 1
            /\ \A i \in 1 .. n - m + 1 : SubSeq(s, m, n)[i] = s[m + i - 1]
      BY PartIs, Zenon
    <3> QED BY <1>3, <2>1, <3>1, Zenon
  <2> HIDE DEF p
  <2>3. p = SubSeq(c, 1, 56)
    BY DEF p
  <2>4. \A i \in 1 .. 56 : i \in 1 .. 56 - 1 + 1 /\ 1 + i - 1 = i
    OBVIOUS
  <2>5. 56 - 1 + 1 = 56
    OBVIOUS
  <2> QED BY <2>2, <2>3, <2>4, <2>5, Zenon
<1> HIDE DEF p
<1>5. /\ b \in Seq(T) /\ Len(b) = 64
      /\ \A i \in 1 .. 64 : b[i] = IF i <= 56 THEN p[i] ELSE last[i - 56]
  <2>1. /\ b \in Seq(T) /\ Len(b) = Len(p) + Len(last)
        /\ \A i \in 1 .. Len(p) + Len(last) : b[i] = IF i <= Len(p) THEN p[i] ELSE last[i - Len(p)]
    BY <1>0, <1>4
  <2> HIDE DEF b
  <2>2. Len(p) + Len(last) = 64
    BY <1>4
  <2> QED BY <1>4, <2>1, <2>2, Zenon
<1> HIDE DEF b
<1>6. ASSUME NEW i \in 1 .. 64
      PROVE  b[i] = IF i <= Len(rest) THEN rest[i] ELSE IF i <= 56 THEN 0 ELSE last[i - 56]
  <2>1. b[i] = IF i <= 56 THEN p[i] ELSE last[i - 56]
    BY <1>5
  <2>2. CASE i <= 56
    <3>1. i \in 1 .. Len(rest) + 56 /\ i \in 1 .. 56
      BY <1>2, <2>2
    <3>2. b[i] = IF i <= Len(rest) THEN rest[i] ELSE z[i - Len(rest)]
      BY <1>3, <1>4, <2>1, <2>2, <3>1, Zenon
    <3>3. CASE i <= Len(rest)
      BY <3>2, <3>3
    <3>4. CASE ~(i <= Len(rest))
      <4>1. i - Len(rest) \in 1 .. 56
        <5>1. \A j \in 1 .. 64, k \in Nat : j <= 56 /\ ~(j <= k) => j - k \in 1 .. 56
          OBVIOUS
        <5> QED BY <1>2, <2>2, <3>4, <5>1, Zenon
      <4> QED BY <1>1, <2>2, <3>2, <3>4, <4>1, Zenon
    <3> QED BY <3>3, <3>4
  <2>3. CASE ~(i <= 56)
    <3>1. ~(i <= Len(rest))
      BY <1>2, <2>3
    <3> QED BY <2>1, <2>3, <3>1
  <2> QED BY <2>2, <2>3
<1>7. Filled(rest, last) = b
  BY Zenon DEF Filled, b, p, c, z
<1>8. IsFilled(b, T, rest, last)
  BY <1>5, <1>6, Zenon DEF IsFilled
<1> QED BY <1>7, <1>8, Zenon

Gap(m) == (55 - Len(m)) % 64

(* The padded message, part by part, fills blocks. *)
LEMMA PaddedIs ==
  ASSUME NEW T, Nat \subseteq T, NEW m \in Seq(T)
  PROVE  /\ Gap(m) \in Nat /\ Length64(8 * Len(m)) \in Seq(T) /\ Len(Length64(8 * Len(m))) = 8
         /\ StandardPadding(m) \in Seq(T) /\ Len(StandardPadding(m)) = Len(m) + Gap(m) + 9
         /\ \A i \in 1 .. Len(m) + Gap(m) + 9 : StandardPadding(m)[i] =
              IF i <= Len(m) THEN m[i] ELSE IF i = Len(m) + 1 THEN 128
              ELSE IF i <= Len(m) + 1 + Gap(m) THEN 0 ELSE Length64(8 * Len(m))[i - (Len(m) + 1 + Gap(m))]
<1> DEFINE L == Len(m)
           g == Gap(m)
           b == <<128>>
           z == Zeros(g)
           e == Length64(8 * L)
           P == Row(m, b, z, e)
<1>1. L \in Nat /\ 8 * L \in Nat
  BY LenProperties
<1>2. g \in Nat
  BY <1>1 DEF Gap
<1>3. StandardPadding(m) = P
  BY Zenon DEF StandardPadding, Row, Gap
<1>4. b \in Seq(T) /\ Len(b) = 1 /\ b[1] = 128
  <2>1. 128 \in T
    OBVIOUS
  <2> QED BY <2>1
<1>5. z \in Seq(T) /\ Len(z) = g /\ \A i \in 1 .. g : z[i] = 0
  <2> HIDE DEF g
  <2>1. z \in Seq(Nat) /\ Len(z) = g /\ \A i \in 1 .. g : z[i] = 0
    BY <1>2, ZerosAre, Zenon
  <2> HIDE DEF z
  <2> QED BY <2>1, SeqMonotonic
<1>6. e \in Seq(T) /\ Len(e) = 8
  <2> HIDE DEF L
  <2>1. e \in Seq(Nat) /\ Len(e) = 8
    BY <1>1, LengthIs, Zenon
  <2> HIDE DEF e
  <2> QED BY <2>1, SeqMonotonic
<1> HIDE DEF b, z, e, g
<1>7. /\ P \in Seq(T) /\ Len(P) = L + Len(b) + Len(z) + Len(e)
      /\ \A i \in 1 .. L : P[i] = m[i]
      /\ \A i \in 1 .. Len(b) : P[L + i] = b[i]
      /\ \A i \in 1 .. Len(z) : P[L + Len(b) + i] = z[i]
      /\ \A i \in 1 .. Len(e) : P[L + Len(b) + Len(z) + i] = e[i]
  <2>1. m \in Seq(T) /\ b \in Seq(T) /\ z \in Seq(T) /\ e \in Seq(T)
    BY <1>4, <1>5, <1>6
  <2>2. IsRow(Row(m, b, z, e), T, m, b, z, e)
    BY <2>1, RowIs
  <2> QED BY <2>2, Zenon DEF IsRow
<1> HIDE DEF P, L
<1>8. Len(P) = L + g + 9
  BY <1>1, <1>2, <1>4, <1>5, <1>6, <1>7
<1>9. ASSUME NEW i \in 1 .. L + g + 9
      PROVE  P[i] = IF i <= L THEN m[i] ELSE IF i = L + 1 THEN 128
                    ELSE IF i <= L + 1 + g THEN 0 ELSE e[i - (L + 1 + g)]
  <2>1. CASE i <= L
    <3>1. i \in 1 .. L
      BY <1>1, <2>1
    <3> QED BY <1>7, <2>1, <3>1
  <2>2. CASE i = L + 1
    <3>1. P[L + 1] = b[1] /\ ~(L + 1 <= L)
      BY <1>1, <1>4, <1>7
    <3> QED BY <1>4, <2>2, <3>1
  <2>3. CASE i > L + 1 /\ i <= L + 1 + g
    <3> DEFINE k == i - (L + 1)
    <3>1. k \in 1 .. g /\ L + 1 + k = i /\ ~(i <= L) /\ i # L + 1
      BY <1>1, <1>2, <2>3
    <3> HIDE DEF k
    <3>2. P[L + 1 + k] = z[k] /\ z[k] = 0
      BY <1>4, <1>5, <1>7, <3>1
    <3> QED BY <2>3, <3>1, <3>2
  <2>4. CASE i > L + 1 + g
    <3> DEFINE k == i - (L + 1 + g)
    <3>1. k \in 1 .. 8 /\ L + 1 + g + k = i /\ ~(i <= L) /\ i # L + 1 /\ ~(i <= L + 1 + g)
      BY <1>1, <1>2, <2>4
    <3>3. i - (L + 1 + g) = k
      OBVIOUS
    <3> HIDE DEF k
    <3>2. P[L + 1 + g + k] = e[k]
      BY <1>4, <1>5, <1>6, <1>7, <3>1
    <3> QED BY <3>1, <3>2, <3>3, Zenon
  <2> QED BY <1>1, <1>2, <2>1, <2>2, <2>3, <2>4
<1> QED BY <1>2, <1>3, <1>6, <1>7, <1>8, <1>9, Zenon DEF L, g, e

(* A block of 64 elements that stand behind the first k of a sequence. *)
IsBlock(B, T, s, k) == B \in Seq(T) /\ Len(B) = 64 /\ \A i \in 1 .. 64 : B[i] = s[k + i]

(* Two blocks that stand behind the same elements of one sequence are one. *)
LEMMA SameBlock ==
  ASSUME NEW T, NEW s \in Seq(T), NEW t \in Seq(T), Len(s) = 64, Len(t) = 64, \A i \in 1 .. 64 : s[i] = t[i]
  PROVE  s = t
<1>1. Len(s) = Len(t) /\ \A i \in 1 .. Len(s) : s[i] = t[i]
  BY Zenon
<1> QED BY <1>1, SeqEqual, Zenon

(* Block q + 1 of a sequence stands behind its first 64 q elements. *)
LEMMA BlkIs ==
  ASSUME NEW T, NEW s \in Seq(T), NEW b \in Nat, 64 * (b + 1) <= Len(s)
  PROVE  IsBlock(Blk(s, b + 1), T, s, 64 * b)
<1> DEFINE m == 64 * (b + 1) - 63
           n == 64 * (b + 1)
<1>1. m \in Nat \ {0} /\ n \in Nat /\ n <= Len(s) /\ m <= n + 1 /\ n - m + 1 = 64
  OBVIOUS
<1>2. \A i \in 1 .. 64 : m + i - 1 = 64 * b + i
  OBVIOUS
<1>3. Blk(s, b + 1) = SubSeq(s, m, n)
  BY DEF Blk
<1> HIDE DEF m, n
<1>4. /\ SubSeq(s, m, n) \in Seq(T) /\ Len(SubSeq(s, m, n)) = n - m + 1
      /\ \A i \in 1 .. n - m + 1 : SubSeq(s, m, n)[i] = s[m + i - 1]
  BY <1>1, PartIs
<1>5. \A i \in 1 .. 64 : SubSeq(s, m, n)[i] = s[m + i - 1]
  BY <1>1, <1>4, Zenon
<1>6. Len(SubSeq(s, m, n)) = 64
  BY <1>1, <1>4, Zenon
<1>7. \A i \in 1 .. 64 : Blk(s, b + 1)[i] = s[64 * b + i]
  BY <1>2, <1>3, <1>5
<1> QED BY <1>3, <1>4, <1>6, <1>7, Zenon DEF IsBlock

(* A sequence of 64 with the end mark behind a rest and zeros. *)
LEMMA MarkedOnly ==
  ASSUME NEW T, Nat \subseteq T, NEW a \in Seq(T), Len(a) <= 64
  PROVE  /\ a \o Zeros(64 - Len(a)) \in Seq(T) /\ Len(a \o Zeros(64 - Len(a))) = 64
         /\ \A i \in 1 .. 64 : (a \o Zeros(64 - Len(a)))[i] = IF i <= Len(a) THEN a[i] ELSE 0
<1> DEFINE k == 64 - Len(a)
           z == Zeros(k)
           c == a \o z
<1>1. Len(a) \in Nat /\ k \in Nat
  BY LenProperties
<1>2. z \in Seq(T) /\ Len(z) = k /\ \A i \in 1 .. k : z[i] = 0
  <2> HIDE DEF k
  <2>1. z \in Seq(Nat) /\ Len(z) = k /\ \A i \in 1 .. k : z[i] = 0
    BY <1>1, ZerosAre, Zenon
  <2> HIDE DEF z
  <2> QED BY <2>1, SeqMonotonic
<1> HIDE DEF z
<1>3. /\ c \in Seq(T) /\ Len(c) = Len(a) + Len(z)
      /\ \A i \in 1 .. Len(a) + Len(z) : c[i] = IF i <= Len(a) THEN a[i] ELSE z[i - Len(a)]
  BY <1>2, ConcatProperties
<1> HIDE DEF c
<1>4. Len(a) + Len(z) = 64
  BY <1>1, <1>2
<1>5. ASSUME NEW i \in 1 .. 64 PROVE c[i] = IF i <= Len(a) THEN a[i] ELSE 0
  <2>1. c[i] = IF i <= Len(a) THEN a[i] ELSE z[i - Len(a)]
    BY <1>3, <1>4
  <2>2. ~(i <= Len(a)) => i - Len(a) \in 1 .. k
    BY <1>1
  <2> HIDE DEF k
  <2> QED BY <1>2, <2>1, <2>2, Zenon
<1> QED BY <1>3, <1>4, <1>5, Zenon DEF c, z

(* What is left of a message, with its end mark; the padded message; a block
   that ends in a length. *)
IsMarked(a, T, m, q, r) ==
  a \in Seq(T) /\ Len(a) = r + 1 /\ (\A i \in 1 .. r : a[i] = m[64 * q + i]) /\ a[r + 1] = 128
IsPadded(P, T, m, L, g, last) ==
  /\ g \in Nat /\ last \in Seq(T) /\ Len(last) = 8
  /\ P \in Seq(T) /\ Len(P) = L + g + 9
  /\ \A i \in 1 .. L + g + 9 : P[i] = IF i <= L THEN m[i] ELSE IF i = L + 1 THEN 128
                                      ELSE IF i <= L + 1 + g THEN 0 ELSE last[i - (L + 1 + g)]
(* The last block, if the length fits behind the end mark. *)
Fits(q, r, L, g) == q \in Nat /\ r \in 0 .. 55 /\ L = 64 * q + r /\ g = 55 - r
(* ... it is the last of the padded message. *)
LEMMA OneBlock ==
  \A T, m, q, r, a, P, last, L, g :
    Nat \subseteq T /\ Fits(q, r, L, g) /\ IsMarked(a, T, m, q, r) /\ IsPadded(P, T, m, L, g, last)
    => Blk(P, q + 1) = Filled(a, last)
<1> SUFFICES ASSUME NEW T, Nat \subseteq T, NEW m, NEW q, NEW r, NEW a, NEW P, NEW last,
                    NEW L, NEW g, Fits(q, r, L, g),
                    IsMarked(a, T, m, q, r), IsPadded(P, T, m, L, g, last)
             PROVE  Blk(P, q + 1) = Filled(a, last)
  OBVIOUS
<1>a. q \in Nat /\ r \in 0 .. 55 /\ L = 64 * q + r /\ g = 55 - r
  BY DEF Fits
<1> DEFINE B == Blk(P, q + 1)
           F == Filled(a, last)
<1>0. P \in Seq(T) /\ 64 * (q + 1) <= Len(P) /\ a \in Seq(T) /\ Len(a) <= 56 /\ Len(a) = r + 1
      /\ last \in Seq(T) /\ Len(last) = 8
  BY <1>a DEF IsPadded, IsMarked
<1>1. IsBlock(B, T, P, 64 * q)
  BY <1>0, <1>a, BlkIs
<1>2. IsFilled(F, T, a, last)
  BY <1>0, FilledUp
<1> HIDE DEF B, F
<1>3. ASSUME NEW i \in 1 .. 64 PROVE B[i] = F[i]
  <2> DEFINE k == 64 * q + i
  <2>1. /\ k \in 1 .. L + g + 9 /\ (k <= L <=> i <= r) /\ (k = L + 1 <=> i = r + 1)
        /\ (k <= L + 1 + g <=> i <= 56) /\ k - (L + 1 + g) = i - 56
        /\ (i <= r => i \in 1 .. r /\ i <= r + 1) /\ (i <= r + 1 => i <= r \/ i = r + 1)
    BY <1>a
  <2>2. B[i] = P[k]
    BY <1>1 DEF IsBlock
  <2>3. \A j \in 1 .. L + g + 9 : P[j] = IF j <= L THEN m[j] ELSE IF j = L + 1 THEN 128
                                      ELSE IF j <= L + 1 + g THEN 0 ELSE last[j - (L + 1 + g)]
    BY Zenon DEF IsPadded
  <2>4. P[k] = IF k <= L THEN m[k] ELSE IF k = L + 1 THEN 128
               ELSE IF k <= L + 1 + g THEN 0 ELSE last[k - (L + 1 + g)]
    <3> HIDE DEF k
    <3> QED BY <2>1, <2>3
  <2>5. P[k] = IF i <= r THEN m[k] ELSE IF i = r + 1 THEN 128 ELSE IF i <= 56 THEN 0 ELSE last[i - 56]
    <3> HIDE DEF k
    <3> QED BY <2>1, <2>4, Zenon
  <2>6. F[i] = IF i <= r + 1 THEN a[i] ELSE IF i <= 56 THEN 0 ELSE last[i - 56]
    <3>1. F[i] = IF i <= Len(a) THEN a[i] ELSE IF i <= 56 THEN 0 ELSE last[i - 56]
      BY <1>2, Zenon DEF IsFilled
    <3> QED BY <1>0, <3>1
  <2>7. (\A j \in 1 .. r : a[j] = m[64 * q + j]) /\ a[r + 1] = 128
    BY Zenon DEF IsMarked
  <2>8. i <= r => a[i] = m[k]
    BY <2>1, <2>7, Zenon
  <2>9. i = r + 1 => a[i] = 128
    BY <2>7, Zenon
  <2>10. i = r + 1 => ~(i <= r) /\ i <= r + 1
    BY <1>a
  <2>11. CASE i <= r
    BY <2>1, <2>2, <2>5, <2>6, <2>8, <2>11, Zenon
  <2>12. CASE i = r + 1
    <3>1. ~(i <= r) /\ i <= r + 1
      BY <2>10, <2>12
    <3>2. P[k] = 128
      BY <2>5, <2>12, <3>1, Zenon
    <3> HIDE DEF k
    <3> QED BY <2>2, <2>6, <2>9, <2>12, <3>1, <3>2, Zenon
  <2>13. CASE ~(i <= r) /\ i # r + 1
    <3>1. ~(i <= r + 1)
      BY <2>1, <2>13
    <3> HIDE DEF k
    <3> QED BY <2>2, <2>5, <2>6, <2>13, <3>1, Zenon
  <2> QED BY <2>11, <2>12, <2>13
<1>4. B = F
  <2>1. B \in Seq(T) /\ Len(B) = 64 /\ F \in Seq(T) /\ Len(F) = 64
    BY <1>1, <1>2, Zenon DEF IsBlock, IsFilled
  <2>2. \A i \in 1 .. 64 : B[i] = F[i]
    BY <1>3
  <2> QED BY <2>1, <2>2, SameBlock
<1> QED BY <1>4 DEF B, F

(* The last two blocks, if it does not. *)
Alone(a) == a \o Zeros(64 - Len(a))
Spills(q, r, L, g) == q \in Nat /\ r \in 56 .. 63 /\ L = 64 * q + r /\ g = 119 - r
(* ... they are the last two of the padded message. *)
LEMMA TwoBlocks ==
  \A T, m, q, r, a, P, last, L, g :
    Nat \subseteq T /\ Spills(q, r, L, g) /\ IsMarked(a, T, m, q, r) /\ IsPadded(P, T, m, L, g, last)
    => Blk(P, q + 1) = Alone(a) /\ Blk(P, q + 2) = Filled(<<>>, last)
<1> SUFFICES ASSUME NEW T, Nat \subseteq T, NEW m, NEW q, NEW r, NEW a, NEW P, NEW last,
                    NEW L, NEW g, Spills(q, r, L, g),
                    IsMarked(a, T, m, q, r), IsPadded(P, T, m, L, g, last)
             PROVE  Blk(P, q + 1) = Alone(a) /\ Blk(P, q + 2) = Filled(<<>>, last)
  OBVIOUS
<1>a. q \in Nat /\ r \in 56 .. 63 /\ L = 64 * q + r /\ g = 119 - r
  BY DEF Spills
<1> DEFINE B == Blk(P, q + 1)
           C == Blk(P, q + 1 + 1)
           o == Alone(a)
           none == <<>>
           F == Filled(none, last)
<1>0. P \in Seq(T) /\ 64 * (q + 1) <= Len(P) /\ q + 1 \in Nat /\ 64 * (q + 1 + 1) <= Len(P)
      /\ a \in Seq(T) /\ Len(a) <= 64 /\ Len(a) = r + 1 /\ last \in Seq(T) /\ Len(last) = 8
  BY <1>a DEF IsPadded, IsMarked
<1>1. IsBlock(B, T, P, 64 * q)
  BY <1>0, <1>a, BlkIs
<1>2. IsBlock(C, T, P, 64 * (q + 1))
  BY <1>0, <1>a, BlkIs
<1>3. o \in Seq(T) /\ Len(o) = 64 /\ \A i \in 1 .. 64 : o[i] = IF i <= Len(a) THEN a[i] ELSE 0
  BY <1>0, MarkedOnly DEF Alone
<1>4. IsFilled(F, T, none, last) /\ Len(none) = 0
  <2>1. none \in Seq(T) /\ Len(none) = 0 /\ Len(none) <= 56
    OBVIOUS
  <2> HIDE DEF none
  <2> QED BY <1>0, <2>1, FilledUp
<1> HIDE DEF B, C, o, F, none
<1>5. \A j \in 1 .. L + g + 9 : P[j] = IF j <= L THEN m[j] ELSE IF j = L + 1 THEN 128
                                      ELSE IF j <= L + 1 + g THEN 0 ELSE last[j - (L + 1 + g)]
  BY Zenon DEF IsPadded
<1>6. ASSUME NEW i \in 1 .. 64 PROVE B[i] = o[i]
  <2> DEFINE k == 64 * q + i
  <2>1. /\ k \in 1 .. L + g + 9 /\ (k <= L <=> i <= r) /\ (k = L + 1 <=> i = r + 1)
        /\ k <= L + 1 + g
        /\ (i <= r => i \in 1 .. r /\ i <= r + 1) /\ (i <= r + 1 => i <= r \/ i = r + 1)
    BY <1>a
  <2>2. B[i] = P[k]
    BY <1>1 DEF IsBlock
  <2>4. P[k] = IF k <= L THEN m[k] ELSE IF k = L + 1 THEN 128
               ELSE IF k <= L + 1 + g THEN 0 ELSE last[k - (L + 1 + g)]
    <3> HIDE DEF k
    <3> QED BY <1>5, <2>1
  <2>5. P[k] = IF i <= r THEN m[k] ELSE IF i = r + 1 THEN 128 ELSE 0
    <3> HIDE DEF k
    <3> QED BY <2>1, <2>4, Zenon
  <2>6. o[i] = IF i <= r + 1 THEN a[i] ELSE 0
    BY <1>0, <1>3
  <2>7. (\A j \in 1 .. r : a[j] = m[64 * q + j]) /\ a[r + 1] = 128
    BY Zenon DEF IsMarked
  <2>8. i <= r => a[i] = m[k]
    BY <2>1, <2>7, Zenon
  <2>9. i = r + 1 => a[i] = 128
    BY <2>7, Zenon
  <2>10. i = r + 1 => ~(i <= r) /\ i <= r + 1
    BY <1>a
  <2>11. CASE i <= r
    BY <2>1, <2>2, <2>5, <2>6, <2>8, <2>11, Zenon
  <2>12. CASE i = r + 1
    <3>1. ~(i <= r) /\ i <= r + 1
      BY <2>10, <2>12
    <3>2. P[k] = 128
      BY <2>5, <2>12, <3>1, Zenon
    <3> HIDE DEF k
    <3> QED BY <2>2, <2>6, <2>9, <2>12, <3>1, <3>2, Zenon
  <2>13. CASE ~(i <= r) /\ i # r + 1
    <3>1. ~(i <= r + 1)
      BY <2>1, <2>13
    <3> HIDE DEF k
    <3> QED BY <2>2, <2>5, <2>6, <2>13, <3>1, Zenon
  <2> QED BY <2>11, <2>12, <2>13
<1>7. ASSUME NEW i \in 1 .. 64 PROVE C[i] = F[i]
  <2> DEFINE k == 64 * (q + 1) + i
  <2>1. /\ k \in 1 .. L + g + 9 /\ ~(k <= L) /\ k # L + 1
        /\ (k <= L + 1 + g <=> i <= 56) /\ k - (L + 1 + g) = i - 56 /\ ~(i <= 0)
    BY <1>a
  <2>2. C[i] = P[k]
    BY <1>2 DEF IsBlock
  <2>4. P[k] = IF k <= L THEN m[k] ELSE IF k = L + 1 THEN 128
               ELSE IF k <= L + 1 + g THEN 0 ELSE last[k - (L + 1 + g)]
    <3> HIDE DEF k
    <3> QED BY <1>5, <2>1
  <2>5. P[k] = IF i <= 56 THEN 0 ELSE last[i - 56]
    <3> HIDE DEF k
    <3> QED BY <2>1, <2>4, Zenon
  <2>6. F[i] = IF i <= 56 THEN 0 ELSE last[i - 56]
    BY <1>4, <2>1 DEF IsFilled
  <2> QED BY <2>2, <2>5, <2>6, Zenon
<1>8. B = o
  BY <1>1, <1>3, <1>6, SeqEqual DEF IsBlock
<1>9. C = F
  <2>1. C \in Seq(T) /\ Len(C) = 64 /\ F \in Seq(T) /\ Len(F) = 64
    BY <1>2, <1>4, Zenon DEF IsBlock, IsFilled
  <2>2. \A i \in 1 .. 64 : C[i] = F[i]
    BY <1>7
  <2> QED BY <2>1, <2>2, SameBlock
<1>10. q + 1 + 1 = q + 2
  BY <1>a
<1> QED BY <1>8, <1>9, <1>10 DEF B, C, o, F, none

(* The standard's padding, with the end mark and the zeros named. *)
LEMMA PaddingIs ==
  ASSUME NEW T, Nat \subseteq T, NEW m \in Seq(T)
  PROVE  IsPadded(StandardPadding(m), T, m, Len(m), Gap(m), Length64(8 * Len(m)))
BY PaddedIs, Zenon DEF IsPadded

(* The end mark is a sequence of one number. *)
LEMMA MarkIs ==
  ASSUME NEW T, Nat \subseteq T, NEW m \in Seq(T), NEW q \in Nat, NEW r \in Nat, Len(m) = 64 * q + r
  PROVE  /\ Len(SubSeq(m, 64 * q + 1, Len(m))) = r
         /\ IsMarked(Append(SubSeq(m, 64 * q + 1, Len(m)), 128), T, m, q, r)
<1> DEFINE k == 64 * q + 1
           L == Len(m)
           buf == SubSeq(m, k, L)
           a == Append(buf, 128)
<1>1. /\ k \in Nat \ {0} /\ L \in Nat /\ L <= Len(m) /\ k <= L + 1 /\ L - k + 1 = r
      /\ \A i \in 1 .. r : k + i - 1 = 64 * q + i
  OBVIOUS
<1> HIDE DEF k, L
<1>2. /\ SubSeq(m, k, L) \in Seq(T) /\ Len(SubSeq(m, k, L)) = L - k + 1
      /\ \A i \in 1 .. L - k + 1 : SubSeq(m, k, L)[i] = m[k + i - 1]
  BY <1>1, PartIs
<1>3. buf \in Seq(T) /\ Len(buf) = r /\ \A i \in 1 .. r : buf[i] = m[64 * q + i]
  BY <1>1, <1>2, Zenon
<1> HIDE DEF buf
<1>4. IsMarked(a, T, m, q, r)
  <2>1. 128 \in T
    OBVIOUS
  <2> QED BY <1>3, <2>1, AppendProperties DEF IsMarked
<1> HIDE DEF a
<1>5. Len(buf) = r /\ IsMarked(a, T, m, q, r)
  BY <1>3, <1>4
<1> QED BY <1>5, Zenon DEF a, buf, k, L

(* A digest with one more block. *)
LEMMA DigestStep ==
  ASSUME NEW p, NEW base, NEW n \in Nat
  PROVE  Digest(p, base, n + 1) = sha256_transform(Digest(p, base, n), Blk(p, n + 1))
<1> DEFINE k == n + 1
<1>1. k \in Nat \ {0} /\ k - 1 = n
  OBVIOUS
<1> HIDE DEF k
<1>2. Digest(p, base, k) = sha256_transform(Digest(p, base, k - 1), Blk(p, k))
  BY <1>1, DigestNext
<1> QED BY <1>1, <1>2, Zenon DEF k

(* A context that was fed a message gives its digest of the standard. *)
LEMMA Finished ==
  ASSUME NEW T, Nat \subseteq T, NEW m \in Seq(T)
  PROVE  sha256_final(Fed(m)) = StandardHash(m)
<1> DEFINE L == Len(m)
           q == Whole(m)
           r == L - 64 * q
           buf == SubSeq(m, 64 * q + 1, L)
           a == Append(buf, 128)
           P == StandardPadding(m)
           g == Gap(m)
           last == Length64(8 * L)
           st == Digest(m, sha256_h0, q)
           s == Marked(st, a, r + 1 > 56)
<1>1. q \in Nat /\ r \in 0 .. 63 /\ L = 64 * q + r /\ 512 * q + 8 * r = 8 * L
  <2>1. \A k \in Nat : /\ k \div 64 \in Nat /\ k - 64 * (k \div 64) \in 0 .. 63
                       /\ k = 64 * (k \div 64) + (k - 64 * (k \div 64))
                       /\ 512 * (k \div 64) + 8 * (k - 64 * (k \div 64)) = 8 * k
    OBVIOUS
  <2>2. Len(m) \in Nat
    BY LenProperties
  <2> QED BY <2>1, <2>2, Zenon DEF Whole
<1> HIDE DEF q, r
<1>2. Len(buf) = r /\ IsMarked(a, T, m, q, r)
  <2>1. q \in Nat /\ r \in Nat /\ Len(m) = 64 * q + r
    BY <1>1
  <2> QED BY <2>1, MarkIs
<1> HIDE DEF a, buf
<1>3. IsPadded(P, T, m, L, g, last)
  BY PaddingIs, Zenon
<1>4. sha256_final(Fed(m)) = LastBlock(s, 8 * L)
  <2>1. Fed(m).state = st /\ Fed(m).bit_count = 512 * q /\ Fed(m).buffer = buf
    BY DEF Fed, buf, q
  <2>2. sha256_final(Fed(m)) = LastBlock(Marked(st, a, Len(buf) + 1 > 56), 512 * q + 8 * Len(buf))
    BY <2>1, Zenon DEF sha256_final, a
  <2> QED BY <1>1, <1>2, <2>2, Zenon
<1>5. LastBlock(s, 8 * L) = Out(sha256_transform(s.state, Filled(s.rest, last)))
  BY LastOf, Zenon DEF Filled
<1>6. Len(P) \div 64 \in Nat => StandardHash(m) = Out(Digest(P, sha256_h0, Len(P) \div 64))
  BY StandardIs
<1>7. g = (55 - L) % 64
  BY DEF Gap
<1>8. \A n \in Nat : Digest(P, sha256_h0, n + 1) = sha256_transform(Digest(P, sha256_h0, n), Blk(P, n + 1))
  BY DigestStep, Zenon
<1> HIDE DEF P, g, last
<1>9. Len(P) = L + g + 9 /\ \A i \in 1 .. L : P[i] = m[i]
  <2>1. Len(P) = L + g + 9 /\ g \in Nat
    BY <1>3, Zenon DEF IsPadded
  <2>2. ASSUME NEW i \in 1 .. L PROVE P[i] = m[i]
    <3>1. L \in Nat
      BY LenProperties
    <3> HIDE DEF L
    <3>2. i \in 1 .. L + g + 9 /\ i <= L
      BY <2>1, <3>1
    <3> QED BY <1>3, <3>2, Zenon DEF IsPadded
  <2> QED BY <2>1, <2>2
<1>10. Digest(P, sha256_h0, q) = st
  <2>1. 64 * q <= Len(m) /\ \A i \in 1 .. Len(m) : P[i] = m[i]
    BY <1>1, <1>9
  <2> QED BY <1>1, <2>1, DigestPrefix
<1> HIDE DEF L, st
<1>11. CASE r <= 55
  <2>1. r \in 0 .. 55 /\ ~(r + 1 > 56)
    BY <1>1, <1>11
  <2>2. g = 55 - r
    BY <1>1, <1>7, <2>1
  <2>3. Len(P) \div 64 = q + 1 /\ q + 1 \in Nat \ {0} /\ q + 1 - 1 = q /\ q + 1 \in Nat
    <3>1. Len(P) = 64 * (q + 1)
      BY <1>1, <1>9, <2>1, <2>2
    <3> QED BY <1>1, <3>1
  <2>5. Blk(P, q + 1) = Filled(a, last)
    <3>1. q \in Nat /\ IsMarked(a, T, m, q, r)
      BY <1>1, <1>2
    <3> HIDE DEF s
    <3>2. Fits(q, r, L, g)
      BY <1>1, <2>1, <2>2 DEF Fits
    <3> QED BY <1>3, <3>1, <3>2, OneBlock
  <2>6. s.state = st /\ s.rest = a
    BY <2>1, Zenon DEF Marked
  <2> HIDE DEF s
  <2>7. Digest(P, sha256_h0, q + 1) = sha256_transform(st, Filled(a, last))
    <3>1. Digest(P, sha256_h0, q + 1) = sha256_transform(Digest(P, sha256_h0, q), Blk(P, q + 1))
      BY <1>1, <1>8, Zenon
    <3> QED BY <1>10, <2>5, <3>1, Zenon
  <2> QED BY <1>4, <1>5, <1>6, <2>3, <2>6, <2>7, Zenon
<1>12. CASE ~(r <= 55)
  <2>1. r \in 56 .. 63 /\ r + 1 > 56
    BY <1>1, <1>12
  <2>2. g = 119 - r
    BY <1>1, <1>7, <2>1
  <2>3. /\ Len(P) \div 64 = q + 2 /\ q + 2 \in Nat \ {0} /\ q + 1 \in Nat /\ q + 2 \in Nat
    <3>1. Len(P) = 64 * (q + 2)
      <4>1. Len(P) = 64 * q + r + (119 - r) + 9
        BY <1>1, <1>9, <2>2, Zenon
      <4>2. 64 * q + r + (119 - r) + 9 = 64 * (q + 2)
        BY <1>1, <2>1
      <4> QED BY <4>1, <4>2, Zenon
    <3> QED BY <1>1, <3>1
  <2>5. Blk(P, q + 1) = Alone(a) /\ Blk(P, q + 2) = Filled(<<>>, last)
    <3>1. q \in Nat /\ IsMarked(a, T, m, q, r)
      BY <1>1, <1>2
    <3> HIDE DEF s
    <3>2. Spills(q, r, L, g)
      BY <1>1, <2>1, <2>2 DEF Spills
    <3> QED BY <1>3, <3>1, <3>2, TwoBlocks
  <2>6. s.state = sha256_transform(st, Alone(a)) /\ s.rest = <<>>
    BY <2>1, Zenon DEF Marked, Alone
  <2> HIDE DEF s
  <2>7. Digest(P, sha256_h0, q + 1) = sha256_transform(st, Alone(a))
    <3>1. Digest(P, sha256_h0, q + 1) = sha256_transform(Digest(P, sha256_h0, q), Blk(P, q + 1))
      BY <1>1, <1>8, Zenon
    <3> QED BY <1>10, <2>5, <3>1, Zenon
  <2>8. Digest(P, sha256_h0, q + 2) = sha256_transform(Digest(P, sha256_h0, q + 1), Blk(P, q + 2))
    <3>1. Digest(P, sha256_h0, q + 1 + 1) = sha256_transform(Digest(P, sha256_h0, q + 1), Blk(P, q + 1 + 1))
      BY <1>8, <2>3, Zenon
    <3>2. q + 1 + 1 = q + 2
      BY <1>1
    <3> QED BY <3>1, <3>2, Zenon
  <2> QED BY <1>4, <1>5, <1>6, <2>3, <2>5, <2>6, <2>7, <2>8, Zenon
<1> QED BY <1>11, <1>12

-----------------------------------------------------------------------------
(***************************************************************************)
(* Sequences of sequences, and the form of digests, keys and messages.      *)
(***************************************************************************)

(* A digest is a sequence of 32 bytes, whatever the state it is made of. *)
LEMMA OutIs ==
  ASSUME NEW final
  PROVE  \E V : Out(final) \in Seq(V) /\ Len(Out(final)) = 32
<1> DEFINE V == {final[i][1] \div 256 : i \in 1 .. 8} \cup {final[i][1] % 256 : i \in 1 .. 8}
                \cup {final[i][2] \div 256 : i \in 1 .. 8} \cup {final[i][2] % 256 : i \in 1 .. 8}
           seqs == [i \in 1 .. 8 |-> Bytes32(final[i])]
<1>1. \A i \in 1 .. 8 : Bytes32(final[i]) \in Seq(V) /\ Len(Bytes32(final[i])) = 4
  <2> SUFFICES ASSUME NEW i \in 1 .. 8
               PROVE  Bytes32(final[i]) \in Seq(V) /\ Len(Bytes32(final[i])) = 4
    OBVIOUS
  <2> DEFINE a == final[i][1] \div 256
             b == final[i][1] % 256
             c == final[i][2] \div 256
             d == final[i][2] % 256
  <2>1. a \in V /\ b \in V /\ c \in V /\ d \in V
    BY Zenon
  <2>2. Bytes32(final[i]) = <<a, b, c, d>>
    BY DEF Bytes32
  <2> HIDE DEF a, b, c, d, V
  <2>3. <<a, b, c, d>> \in Seq(V) /\ Len(<<a, b, c, d>>) = 4
    BY <2>1
  <2> QED BY <2>2, <2>3
<1> HIDE DEF V
<1>2. seqs \in [1 .. 8 -> Seq(V)] /\ \A i \in 1 .. 8 : Len(seqs[i]) = 4
  BY <1>1
<1>3. Out(final) = FlattenSeq(seqs)
  BY DEF Out
<1> DEFINE n == 8
           k == 4
<1> HIDE DEF seqs
<1>4. n \in Nat \ {0} /\ k \in Nat /\ k * n = 32
  OBVIOUS
<1>5. seqs \in [1 .. n -> Seq(V)] /\ \A i \in 1 .. n : Len(seqs[i]) = k
  BY <1>2
<1> HIDE DEF n, k
<1>6. FlattenSeq(seqs) \in Seq(V) /\ Len(FlattenSeq(seqs)) = k * n
  BY <1>4, <1>5, FlattenIs
<1> QED BY <1>3, <1>4, <1>6, Zenon

(* The hash of a sequence is a digest. *)
LEMMA HashIs ==
  ASSUME NEW T, Nat \subseteq T, NEW m \in Seq(T)
  PROVE  \E V : StandardHash(m) \in Seq(V) /\ Len(StandardHash(m)) = 32
<1> DEFINE P == StandardPadding(m)
<1>1. Len(P) \in Nat
  <2>1. IsPadded(P, T, m, Len(m), Gap(m), Length64(8 * Len(m)))
    BY PaddingIs
  <2>2. P \in Seq(T)
    BY <2>1, Zenon DEF IsPadded
  <2> HIDE DEF P
  <2> QED BY <2>2, LenProperties
<1>2. Len(P) \div 64 \in Nat
  <2> HIDE DEF P
  <2> QED BY <1>1
<1>3. StandardHash(m) = Out(Digest(P, sha256_h0, Len(P) \div 64))
  BY <1>2, StandardIs
<1> QED BY <1>3, OutIs, Zenon

(* The sequences a key makes under a mask, and a message. *)
Sums == Nat \cup UNION {{XorByte(x, y) : y \in Nat} : x \in Nat}
(* hmac_sha256_init: a masked key is a block of 64 sums. *)
LEMMA MaskedIs ==
  ASSUME NEW key \in Seq(Nat), NEW mask \in Nat
  PROVE  Masked(key, mask) \in Seq(Sums)
<1>1. \A i \in 1 .. 64 : (IF i <= Len(key) THEN key[i] ELSE 0) \in Nat
  BY LenProperties, ElementOfSeq
<1>2. \A k \in Nat : XorByte(mask, k) \in Sums
  <2> SUFFICES ASSUME NEW k \in Nat PROVE XorByte(mask, k) \in Sums
    OBVIOUS
  <2> DEFINE of == {XorByte(mask, y) : y \in Nat}
  <2>1. XorByte(mask, k) \in of /\ of \in {{XorByte(x, y) : y \in Nat} : x \in Nat}
    BY Zenon
  <2> QED BY <2>1, Zenon DEF Sums
<1>3. \A i \in 1 .. 64 : XorByte(mask, IF i <= Len(key) THEN key[i] ELSE 0) \in Sums
  BY <1>1, <1>2, Zenon
<1> DEFINE e(i) == XorByte(mask, IF i <= Len(key) THEN key[i] ELSE 0)
           n == 64
<1>4. Masked(key, mask) = [i \in 1 .. n |-> e(i)] /\ n \in Nat /\ \A i \in 1 .. n : e(i) \in Sums
  BY <1>3 DEF Masked
<1> HIDE DEF e, n
<1>5. [i \in 1 .. n |-> e(i)] \in Seq(Sums)
  BY <1>4, IsASeq
<1> QED BY <1>4, <1>5, Zenon

(* A caller's message is a sequence of numbers, as long as it says. *)
LEMMA MessageIs ==
  ASSUME NEW n \in Nat
  PROVE  WhMessage(n) \in Seq(Nat) /\ Len(WhMessage(n)) = n
<1>1. WhMessage(n) \in [1 .. n -> Nat]
  BY DEF WhMessage
<1>2. WhMessage(n) \in Seq(Nat)
  BY <1>1, SeqDef
<1> QED BY <1>1, <1>2, LenProperties

(* A caller's key is one, too. *)
LEMMA KeyIs == WhKey \in Seq(Nat)
<1> DEFINE n == 20
<1>1. \A i \in 1 .. n : 11 * i \in Nat
  OBVIOUS
<1>2. WhKey = [i \in 1 .. n |-> 11 * i] /\ n \in Nat
  BY DEF WhKey
<1> HIDE DEF n
<1>3. [i \in 1 .. n |-> 11 * i] \in [1 .. n -> Nat]
  BY <1>1
<1>4. [i \in 1 .. n |-> 11 * i] \in Seq(Nat)
  BY <1>2, <1>3, SeqDef
<1> QED BY <1>2, <1>4, Zenon

(* Piece by piece, a message becomes longer. *)
LEMMA PieceIs ==
  ASSUME NEW from \in Nat, NEW len \in Nat
  PROVE  Piece(from, len) \in Seq(Nat) /\ WhMessage(from) \o Piece(from, len) = WhMessage(from + len)
         /\ Len(Piece(from, len)) = len
<1> DEFINE w == WhMessage(from + len)
           u == WhMessage(from)
           p == SubSeq(w, from + 1, from + len)
           c == u \o p
<1>1. w \in Seq(Nat) /\ Len(w) = from + len /\ u \in Seq(Nat) /\ Len(u) = from
  <2>1. from + len \in Nat
    OBVIOUS
  <2> QED BY <2>1, MessageIs
<1>2. \A i \in 1 .. from : u[i] = w[i]
  BY DEF WhMessage
<1> HIDE DEF w, u
<1>3. p \in Seq(Nat) /\ Len(p) = len /\ \A i \in 1 .. len : p[i] = w[from + i]
  <2> DEFINE a == from + 1
             b == from + len
  <2>1. a \in Nat \ {0} /\ b \in Nat /\ b <= Len(w) /\ a <= b + 1 /\ b - a + 1 = len
        /\ \A i \in 1 .. len : a + i - 1 = from + i
    BY <1>1
  <2> HIDE DEF a, b
  <2>2. /\ SubSeq(w, a, b) \in Seq(Nat) /\ Len(SubSeq(w, a, b)) = b - a + 1
        /\ \A i \in 1 .. b - a + 1 : SubSeq(w, a, b)[i] = w[a + i - 1]
    BY <1>1, <2>1, PartIs
  <2>3. p = SubSeq(w, a, b)
    BY DEF a, b
  <2> HIDE DEF p
  <2> QED BY <2>1, <2>2, <2>3
<1> HIDE DEF p
<1>4. /\ c \in Seq(Nat) /\ Len(c) = Len(u) + Len(p)
      /\ \A i \in 1 .. Len(u) + Len(p) : c[i] = IF i <= Len(u) THEN u[i] ELSE p[i - Len(u)]
  BY <1>1, <1>3, ConcatProperties
<1> HIDE DEF c
<1>5. ASSUME NEW i \in 1 .. from + len PROVE c[i] = w[i]
  <2>1. CASE i <= from
    BY <1>1, <1>2, <1>3, <1>4, <2>1
  <2>2. CASE ~(i <= from)
    <3>1. i - from \in 1 .. len /\ from + (i - from) = i
      BY <2>2
    <3> QED BY <1>1, <1>3, <1>4, <2>2, <3>1
  <2> QED BY <2>1, <2>2
<1>6. Len(c) = Len(w) /\ \A i \in 1 .. Len(c) : c[i] = w[i]
  BY <1>1, <1>3, <1>4, <1>5
<1>7. c = w
  BY <1>1, <1>4, <1>6, SeqEqual, Zenon
<1> QED BY <1>3, <1>7, Zenon DEF c, u, w, p, Piece

-----------------------------------------------------------------------------
(***************************************************************************)
(* HMAC.                                                                    *)
(***************************************************************************)

(* A keyed context that was fed a message. *)
Keyed(key, m) == [inner |-> Fed(Masked(key, 54) \o m), outer |-> Fed(Masked(key, 92))]

(* A first piece fed to a context that was fed nothing. *)
LEMMA FromNothing ==
  ASSUME NEW S, NEW d \in Seq(S)
  PROVE  sha256_update(sha256_init, d) = Fed(d) /\ d \o <<>> = d
<1> DEFINE none == <<>>
<1>1. none \in Seq(S) /\ none \o d = d /\ d \o none = d
  BY ConcatEmptySeq
<1>2. sha256_update(Fed(none), d) = Fed(none \o d)
  <2> HIDE DEF none
  <2> QED BY <1>1, FedMore
<1> QED BY <1>1, <1>2, FedNothing, Zenon

(* hmac_sha256_init: both contexts were fed the masked keys. *)
LEMMA KeyedNothing ==
  ASSUME NEW key \in Seq(Nat)
  PROVE  hmac_sha256_init(key) = Keyed(key, <<>>)
<1> DEFINE a == Masked(key, 54)
           b == Masked(key, 92)
<1>1. a \in Seq(Sums) /\ b \in Seq(Sums)
  <2>1. 54 \in Nat /\ 92 \in Nat
    OBVIOUS
  <2> QED BY <2>1, MaskedIs
<1> HIDE DEF a, b
<1>2. sha256_update(sha256_init, a) = Fed(a) /\ a \o <<>> = a
  BY <1>1, FromNothing
<1>3. sha256_update(sha256_init, b) = Fed(b)
  BY <1>1, FromNothing
<1>4. [inner |-> sha256_update(sha256_init, a), outer |-> sha256_update(sha256_init, b)]
        = [inner |-> Fed(a \o <<>>), outer |-> Fed(b)]
  BY <1>2, <1>3, Zenon
<1> QED BY <1>4, Zenon DEF hmac_sha256_init, Keyed, a, b

(* Messages over the numbers and the bytes an exclusive or makes. *)
LEMMA SumsWide == Nat \subseteq Sums
BY DEF Sums

(* hmac_sha256_update: a message may be fed piece by piece. *)
LEMMA KeyedMore ==
  ASSUME NEW key \in Seq(Nat), NEW S, NEW m \in Seq(S), NEW d \in Seq(S)
  PROVE  hmac_sha256_update(Keyed(key, m), d) = Keyed(key, m \o d)
<1> DEFINE a == Masked(key, 54)
           b == Fed(Masked(key, 92))
           T == Sums \cup S
<1>1. a \in Seq(T) /\ m \in Seq(T) /\ d \in Seq(T)
  <2>1. 54 \in Nat
    OBVIOUS
  <2>2. a \in Seq(Sums)
    BY <2>1, MaskedIs
  <2>3. Sums \subseteq T /\ S \subseteq T
    OBVIOUS
  <2> HIDE DEF a, T
  <2> QED BY <2>2, <2>3, SeqMonotonic
<1> HIDE DEF T, a, b
<1>2. a \o m \in Seq(T)
  BY <1>1, ConcatProperties
<1>3. sha256_update(Fed(a \o m), d) = Fed((a \o m) \o d)
  BY <1>1, <1>2, FedMore
<1>4. (a \o m) \o d = a \o (m \o d)
  BY <1>1, ConcatAssociative
<1>5. /\ Keyed(key, m) = [inner |-> Fed(a \o m), outer |-> b]
      /\ Keyed(key, m \o d) = [inner |-> Fed(a \o (m \o d)), outer |-> b]
  BY Zenon DEF Keyed, a, b
<1>6. hmac_sha256_update([inner |-> Fed(a \o m), outer |-> b], d)
        = [inner |-> sha256_update(Fed(a \o m), d), outer |-> b]
  <2> DEFINE x == Fed(a \o m)
             y(c) == sha256_update(c, d)
  <2>1. [[inner |-> x, outer |-> b] EXCEPT !.inner = y(@)] = [inner |-> y(x), outer |-> b]
    <3> HIDE DEF x, y
    <3> QED OBVIOUS
  <2> QED BY <2>1, Zenon DEF hmac_sha256_update
<1> QED BY <1>3, <1>4, <1>5, <1>6, Zenon

(* hmac_sha256_final gives the code of the standard. *)
LEMMA KeyedFinished ==
  ASSUME NEW key \in Seq(Nat), NEW S, NEW m \in Seq(S)
  PROVE  /\ hmac_sha256_final(Keyed(key, m)) = StandardMac(key, m)
         /\ \E W : StandardMac(key, m) \in Seq(W) /\ Len(StandardMac(key, m)) = 32
<1> DEFINE a == Masked(key, 54)
           b == Masked(key, 92)
           h == StandardHash(a \o m)
           R == Sums \cup S
<1>1. a \in Seq(R) /\ b \in Seq(R) /\ m \in Seq(R) /\ Nat \subseteq R
  <2>1. 54 \in Nat /\ 92 \in Nat
    OBVIOUS
  <2>2. a \in Seq(Sums) /\ b \in Seq(Sums)
    BY <2>1, MaskedIs
  <2>3. Sums \subseteq R /\ S \subseteq R /\ Nat \subseteq R
    BY SumsWide
  <2> HIDE DEF a, b, R
  <2> QED BY <2>2, <2>3, SeqMonotonic
<1> HIDE DEF a, b, R
<1>2. a \o m \in Seq(R)
  BY <1>1, ConcatProperties
<1>3. sha256_final(Fed(a \o m)) = h
  BY <1>1, <1>2, Finished
<1>4. PICK V : h \in Seq(V)
  BY <1>1, <1>2, HashIs
<1> HIDE DEF h
<1> DEFINE T == R \cup V
<1>5. b \in Seq(T) /\ h \in Seq(T) /\ Nat \subseteq T
  <2>1. R \subseteq T /\ V \subseteq T /\ Nat \subseteq T
    BY <1>1
  <2> HIDE DEF T
  <2> QED BY <1>1, <1>4, <2>1, SeqMonotonic
<1> HIDE DEF T
<1>6. sha256_update(Fed(b), h) = Fed(b \o h)
  BY <1>5, FedMore
<1>7. b \o h \in Seq(T)
  BY <1>5, ConcatProperties
<1>8. sha256_final(Fed(b \o h)) = StandardHash(b \o h)
  BY <1>5, <1>7, Finished
<1>9. Keyed(key, m).inner = Fed(a \o m) /\ Keyed(key, m).outer = Fed(b)
  BY DEF Keyed, a, b
<1>10. hmac_sha256_final(Keyed(key, m)) = StandardHash(b \o h)
  BY <1>3, <1>6, <1>8, <1>9, Zenon DEF hmac_sha256_final
<1>11. \E W : StandardHash(b \o h) \in Seq(W) /\ Len(StandardHash(b \o h)) = 32
  BY <1>5, <1>7, HashIs
<1> QED BY <1>10, <1>11, Zenon DEF StandardMac, a, b, h

(* The code of a message under a key, computed at once. *)
LEMMA MacIs ==
  ASSUME NEW key \in Seq(Nat), NEW S, NEW m \in Seq(S)
  PROVE  /\ hmac_sha256(key, m) = StandardMac(key, m)
         /\ \E W : StandardMac(key, m) \in Seq(W) /\ Len(StandardMac(key, m)) = 32
<1>1. hmac_sha256_init(key) = Keyed(key, <<>>)
  BY KeyedNothing
<1> DEFINE none == <<>>
<1>2. none \in Seq(S) /\ none \o m = m
  BY ConcatEmptySeq
<1>3. hmac_sha256_update(Keyed(key, none), m) = Keyed(key, none \o m)
  <2> HIDE DEF none
  <2> QED BY <1>2, KeyedMore
<1>4. /\ hmac_sha256_final(Keyed(key, m)) = StandardMac(key, m)
      /\ \E W : StandardMac(key, m) \in Seq(W) /\ Len(StandardMac(key, m)) = 32
  BY KeyedFinished
<1> QED BY <1>1, <1>2, <1>3, <1>4, Zenon DEF hmac_sha256

-----------------------------------------------------------------------------
(***************************************************************************)
(* PBKDF2.                                                                  *)
(***************************************************************************)

(* One link of the chain of codes, and the sum of n links. *)
Link(password, s) == [u |-> hmac_sha256(password, s.u), t |-> Stored(XorBytes(s.t, hmac_sha256(password, s.u)))]
Summed(password, first, n) ==
  Rounds(LAMBDA s, j : Once(LAMBDA u : [u |-> u, t |-> Stored(XorBytes(s.t, u))], hmac_sha256(password, s.u)),
         [u |-> first, t |-> first], 1, n).t

(* A round of PbkdfBlock is a link of the chain. *)
LEMMA LinkIs ==
  ASSUME NEW password, NEW s
  PROVE  Once(LAMBDA u : [u |-> u, t |-> Stored(XorBytes(s.t, u))], hmac_sha256(password, s.u)) = Link(password, s)
<1> DEFINE v == hmac_sha256(password, s.u)
           Op(u) == [u |-> u, t |-> Stored(XorBytes(s.t, u))]
<1>1. Once(LAMBDA u : [u |-> u, t |-> Stored(XorBytes(s.t, u))], hmac_sha256(password, s.u))
        = CHOOSE y \in {Op(u) : u \in {v}} : TRUE
  BY Zenon DEF Once
<1>2. {Op(u) : u \in {v}} = {Op(v)}
  BY Zenon
<1> QED BY <1>1, <1>2, OnlyOne, Zenon DEF Link

(* One round of the chain is one link. *)
LEMMA SummedOnce ==
  ASSUME NEW password, NEW first
  PROVE  Summed(password, first, 1) = Link(password, [u |-> first, t |-> first]).t
<1> DEFINE base == [u |-> first, t |-> first]
           chain(f) == f = [i \in 1 - 1 .. 1 |-> IF i = 1 - 1 THEN base
                        ELSE CHOOSE value \in {Once(LAMBDA u : [u |-> u, t |-> Stored(XorBytes(before.t, u))],
                                                    hmac_sha256(password, before.u))
                                               : before \in {f[i - 1]}} : TRUE]
           after == CHOOSE f : chain(f)
           g == [i \in 0 .. 1 |-> IF i = 0 THEN base ELSE Link(password, base)]
<1>1. Summed(password, first, 1) = after[1].t
  BY Zenon DEF Rounds, Summed
<1>2. \A x : (CHOOSE value \in {Once(LAMBDA u : [u |-> u, t |-> Stored(XorBytes(before.t, u))],
                                      hmac_sha256(password, before.u)) : before \in {x}} : TRUE)
                 = Link(password, x)
  <2> SUFFICES ASSUME NEW x
               PROVE  (CHOOSE value \in {Once(LAMBDA u : [u |-> u, t |-> Stored(XorBytes(before.t, u))],
                                      hmac_sha256(password, before.u)) : before \in {x}} : TRUE)
                 = Link(password, x)
    BY Zenon
  <2>1. {Once(LAMBDA u : [u |-> u, t |-> Stored(XorBytes(before.t, u))],
                                      hmac_sha256(password, before.u)) : before \in {x}} = {Link(password, x)}
    BY LinkIs, Zenon
  <2> QED BY <2>1, OnlyOne, Zenon
<1>3. \A f : chain(f) <=> f = [i \in 0 .. 1 |-> IF i = 0 THEN base ELSE Link(password, f[i - 1])]
  <2>1. 1 - 1 = 0
    OBVIOUS
  <2> QED BY <1>2, <2>1, Zenon
<1> HIDE DEF chain
<1> DEFINE L(x) == Link(password, x)
<1> HIDE DEF base
<1>4. chain(g)
  <2>1. g = [i \in 0 .. 1 |-> IF i = 0 THEN base ELSE L(base)]
    OBVIOUS
  <2> HIDE DEF g, L
  <2>2. \A i \in 0 .. 1 : i # 0 => i - 1 = 0
    OBVIOUS
  <2>3. g[0] = base
    BY <2>1
  <2>4. g = [i \in 0 .. 1 |-> IF i = 0 THEN base ELSE L(g[i - 1])]
    BY <2>1, <2>2, <2>3
  <2> QED BY <1>3, <2>4, Zenon DEF L
<1>5. chain(after)
  BY <1>4, Zenon
<1> HIDE DEF after, g
<1>6. after = [i \in 0 .. 1 |-> IF i = 0 THEN base ELSE Link(password, after[i - 1])]
  BY <1>3, <1>5, Zenon
<1>7. after[1] = Link(password, base)
  <2>1. 0 \in 0 .. 1 /\ 1 \in 0 .. 1 /\ 1 # 0 /\ 1 - 1 = 0
    OBVIOUS
  <2>2. after[0] = base
    BY <1>6, <2>1, Zenon
  <2>3. after[1] = Link(password, after[1 - 1])
    BY <1>6, <2>1, Zenon
  <2> QED BY <2>1, <2>2, <2>3, Zenon
<1> QED BY <1>1, <1>7, Zenon DEF base

(* With two iterations, a block of PBKDF2 is the sum of two codes in a chain. *)
LEMMA BlockIs ==
  ASSUME NEW password, NEW salt, NEW index
  PROVE  LET u1 == hmac_sha256(password, salt \o BigEndian(index, 4))
         IN  PbkdfBlock(password, salt, 2, index) = Stored(XorBytes(u1, hmac_sha256(password, u1)))
<1> DEFINE u1 == hmac_sha256(password, salt \o BigEndian(index, 4))
           Op(first) == Summed(password, first, 2 - 1)
<1>1. PbkdfBlock(password, salt, 2, index) = CHOOSE y \in {Op(first) : first \in {u1}} : TRUE
  BY Zenon DEF Once, PbkdfBlock, Summed
<1>2. {Op(first) : first \in {u1}} = {Op(u1)}
  BY Zenon
<1>3. PbkdfBlock(password, salt, 2, index) = Op(u1)
  BY <1>1, <1>2, OnlyOne, Zenon
<1>4. 2 - 1 = 1
  OBVIOUS
<1>5. Op(u1) = Link(password, [u |-> u1, t |-> u1]).t
  <2> HIDE DEF u1
  <2> QED BY <1>4, SummedOnce, Zenon
<1>6. Link(password, [u |-> u1, t |-> u1]).t = Stored(XorBytes(u1, hmac_sha256(password, u1)))
  <2> HIDE DEF u1
  <2>1. [u |-> u1, t |-> u1].u = u1 /\ [u |-> u1, t |-> u1].t = u1
    OBVIOUS
  <2> QED BY <2>1, Zenon DEF Link
<1> QED BY <1>3, <1>5, <1>6, Zenon

(* The exclusive or of two digests. *)
LEMMA SumIs ==
  ASSUME NEW u, NEW v, Len(u) = 32, Len(v) = 32
  PROVE  /\ \E W : XorBytes(u, v) \in Seq(W)
         /\ Len(XorBytes(u, v)) = 32 /\ Stored(XorBytes(u, v)) = XorBytes(u, v)
<1> DEFINE W == {XorByte(u[i], v[i]) : i \in 1 .. 32}
           n == 32
           x == [i \in 1 .. n |-> XorByte(u[i], v[i])]
<1>1. XorBytes(u, v) = x
  BY DEF XorBytes
<1>2. n \in Nat /\ \A i \in 1 .. n : XorByte(u[i], v[i]) \in W
  OBVIOUS
<1> DEFINE e(i) == XorByte(u[i], v[i])
<1> HIDE DEF W, e
<1>3. x \in Seq(W) /\ Len(x) = n
  <2>1. x = [i \in 1 .. n |-> e(i)] /\ \A i \in 1 .. n : e(i) \in W
    BY <1>2, Zenon DEF e
  <2> HIDE DEF x, n
  <2>2. x \in [1 .. n -> W]
    BY <2>1
  <2>3. x \in Seq(W)
    BY <1>2, <2>2, SeqDef
  <2>4. DOMAIN x = 1 .. n
    BY <2>2
  <2> QED BY <1>2, <2>3, <2>4, LenProperties
<1> HIDE DEF x
<1>4. Stored(x) = x
  BY <1>3, ConcatEmptySeq DEF Stored
<1> QED BY <1>1, <1>3, <1>4, Zenon DEF n

(* What the first block is salted with. *)
LEMMA FirstIndex == <<1, 2, 3>> \o BigEndian(1, 4) = <<1, 2, 3, 0, 0, 0, 1>>
<1>1. \A i \in 1 .. 4 : BigEndian(1, 4)[i] = IF i = 4 THEN 1 ELSE 0
  <2>1. /\ BigEndian(1, 4)[1] = 0 /\ BigEndian(1, 4)[2] = 0 /\ BigEndian(1, 4)[3] = 0 /\ BigEndian(1, 4)[4] = 1
    BY DEF BigEndian, PowersOf256
  <2> HIDE DEF BigEndian
  <2>2. \A i \in 1 .. 4 : i = 1 \/ i = 2 \/ i = 3 \/ i = 4
    OBVIOUS
  <2> QED BY <2>1, <2>2
<1> DEFINE b == BigEndian(1, 4)
           a == <<1, 2, 3>>
           c == a \o b
           d == <<1, 2, 3, 0, 0, 0, 1>>
<1>2. b \in Seq(Nat) /\ Len(b) = 4
  BY BigEndianIs
<1> HIDE DEF b
<1>3. a \in Seq(Nat) /\ Len(a) = 3 /\ a[1] = 1 /\ a[2] = 2 /\ a[3] = 3
  OBVIOUS
<1> HIDE DEF a
<1>4. /\ c \in Seq(Nat) /\ Len(c) = Len(a) + Len(b)
      /\ \A i \in 1 .. Len(a) + Len(b) : c[i] = IF i <= Len(a) THEN a[i] ELSE b[i - Len(a)]
  BY <1>2, <1>3, ConcatProperties
<1> HIDE DEF c
<1>5. /\ Len(c) = 7 /\ c[1] = 1 /\ c[2] = 2 /\ c[3] = 3 /\ c[4] = 0 /\ c[5] = 0 /\ c[6] = 0 /\ c[7] = 1
  <2>1. b[1] = 0 /\ b[2] = 0 /\ b[3] = 0 /\ b[4] = 1
    BY <1>1 DEF b
  <2>2. Len(a) + Len(b) = 7 /\ 4 - Len(a) = 1 /\ 5 - Len(a) = 2 /\ 6 - Len(a) = 3 /\ 7 - Len(a) = 4
    BY <1>2, <1>3
  <2>3. c[1] = a[1] /\ c[2] = a[2] /\ c[3] = a[3]
    BY <1>3, <1>4, <2>2
  <2>4. c[4] = b[1] /\ c[5] = b[2] /\ c[6] = b[3] /\ c[7] = b[4]
    <3>1. \A i \in 4 .. 7 : i \in 1 .. Len(a) + Len(b) /\ ~(i <= Len(a))
      BY <1>3, <2>2
    <3>2. \A i \in 4 .. 7 : c[i] = b[i - Len(a)]
      BY <1>4, <3>1
    <3>3. 4 \in 4 .. 7 /\ 5 \in 4 .. 7 /\ 6 \in 4 .. 7 /\ 7 \in 4 .. 7
      OBVIOUS
    <3>4. c[4] = b[4 - Len(a)] /\ c[5] = b[5 - Len(a)] /\ c[6] = b[6 - Len(a)] /\ c[7] = b[7 - Len(a)]
      BY <3>2, <3>3, Zenon
    <3> QED BY <2>2, <3>4, Zenon
  <2> QED BY <1>3, <1>4, <2>1, <2>2, <2>3, <2>4
<1>6. /\ d \in Seq(Nat) /\ Len(d) = 7 /\ d[1] = 1 /\ d[2] = 2 /\ d[3] = 3
      /\ d[4] = 0 /\ d[5] = 0 /\ d[6] = 0 /\ d[7] = 1
  OBVIOUS
<1> HIDE DEF d
<1>7. \A i \in 1 .. Len(c) : c[i] = d[i]
  <2>1. \A i \in 1 .. 7 : i = 1 \/ i = 2 \/ i = 3 \/ i = 4 \/ i = 5 \/ i = 6 \/ i = 7
    OBVIOUS
  <2> QED BY <1>5, <1>6, <2>1
<1>8. c = d
  BY <1>4, <1>5, <1>6, <1>7, SeqEqual
<1> QED BY <1>8 DEF a, b, c, d

Salted(b) == PbkdfBlock(WhKey, <<1, 2, 3>>, 2, b)

(* A block of the derived key is a sequence of 32; the first is the sum of two codes of the standard. *)
LEMMA SaltedIs ==
  ASSUME NEW b \in Nat
  PROVE  /\ \E W : Salted(b) \in Seq(W)
         /\ Len(Salted(b)) = 32
         /\ b = 1 => LET u1 == StandardMac(WhKey, <<1, 2, 3, 0, 0, 0, 1>>)
                     IN  Salted(b) = XorBytes(u1, StandardMac(WhKey, u1))
<1> DEFINE salt == <<1, 2, 3>>
           m == salt \o BigEndian(b, 4)
           u1 == hmac_sha256(WhKey, m)
           u2 == hmac_sha256(WhKey, u1)
<1>1. m \in Seq(Nat)
  <2>1. salt \in Seq(Nat)
    OBVIOUS
  <2> HIDE DEF salt
  <2>2. BigEndian(b, 4) \in Seq(Nat)
    BY BigEndianIs
  <2> HIDE DEF BigEndian
  <2> QED BY <2>1, <2>2, ConcatProperties
<1>2. Salted(b) = Stored(XorBytes(u1, u2))
  BY BlockIs, Zenon DEF Salted
<1>a. b = 1 => m = <<1, 2, 3, 0, 0, 0, 1>>
  BY FirstIndex
<1> HIDE DEF m
<1>3. u1 = StandardMac(WhKey, m)
  BY <1>1, KeyIs, MacIs
<1>4. PICK V : StandardMac(WhKey, m) \in Seq(V) /\ Len(StandardMac(WhKey, m)) = 32
  BY <1>1, KeyIs, MacIs
<1>5. u1 \in Seq(V) /\ Len(u1) = 32
  BY <1>3, <1>4, Zenon
<1> HIDE DEF u1
<1>6. u2 = StandardMac(WhKey, u1)
  BY <1>5, KeyIs, MacIs
<1>7. PICK W : StandardMac(WhKey, u1) \in Seq(W) /\ Len(StandardMac(WhKey, u1)) = 32
  BY <1>5, KeyIs, MacIs
<1>8. Len(u2) = 32
  BY <1>6, <1>7, Zenon
<1> HIDE DEF u2
<1>9. /\ \E X : XorBytes(u1, u2) \in Seq(X)
      /\ Len(XorBytes(u1, u2)) = 32 /\ Stored(XorBytes(u1, u2)) = XorBytes(u1, u2)
  BY <1>5, <1>8, SumIs
<1>10. Salted(b) = XorBytes(StandardMac(WhKey, m), StandardMac(WhKey, StandardMac(WhKey, m)))
  BY <1>2, <1>3, <1>6, <1>9, Zenon
<1> QED BY <1>2, <1>9, <1>10, <1>a, Zenon

DerivedAs(out, length) ==
  LET shared == IF length < 32 THEN length ELSE 32
  IN  /\ Len(out) = length
      /\ \E u1 \in {StandardMac(WhKey, <<1, 2, 3, 0, 0, 0, 1>>)} :
           \E first \in {XorBytes(u1, StandardMac(WhKey, u1))} :
             SubSeq(out, 1, shared) = SubSeq(first, 1, shared)

(* pbkdf2_hmac_sha256: a key of any length has this length and begins with the first block. *)
LEMMA DerivedIs ==
  ASSUME NEW dkLen \in {20, 32, 40}
  PROVE  DerivedAs(pbkdf2_hmac_sha256(WhKey, <<1, 2, 3>>, 2, dkLen), dkLen)
<1> DEFINE n == (dkLen + 31) \div 32
           seqs == [b \in 1 .. n |-> Salted(b)]
           F == FlattenSeq(seqs)
           out == SubSeq(F, 1, dkLen)
           shared == IF dkLen < 32 THEN dkLen ELSE 32
           X == {Salted(b)[i] : b \in Nat, i \in 1 .. 32}
           k == 32
<1>1. /\ n \in Nat \ {0} /\ dkLen <= 32 * n /\ dkLen \in Nat \ {0}
      /\ shared \in Nat \ {0} /\ shared <= 32 /\ shared <= dkLen
      /\ k \in Nat /\ k = 32 /\ k * n = 32 * n /\ 32 <= 32 * n /\ n \in Nat
  OBVIOUS
<1>2. pbkdf2_hmac_sha256(WhKey, <<1, 2, 3>>, 2, dkLen) = out
  BY Zenon DEF pbkdf2_hmac_sha256, Salted
<1> HIDE DEF n, shared, k
<1>3. ASSUME NEW b \in Nat PROVE Salted(b) \in Seq(X) /\ Len(Salted(b)) = k
  <2> DEFINE s == Salted(b)
  <2>1. PICK W : s \in Seq(W)
    BY SaltedIs
  <2>2. Len(s) = 32
    BY SaltedIs
  <2>3. \A i \in 1 .. 32 : s[i] \in X
    OBVIOUS
  <2> HIDE DEF s, X
  <2>4. s \in Seq(X)
    <3>1. k \in Nat /\ Len(s) = k /\ \A i \in 1 .. k : s[i] \in X
      BY <1>1, <2>2, <2>3
    <3>2. s \in [1 .. k -> W]
      BY <2>1, <3>1, LenProperties
    <3>3. s \in [1 .. k -> X]
      BY <3>1, <3>2
    <3> QED BY <3>1, <3>3, SeqDef
  <2>5. Len(s) = k
    BY <1>1, <2>2
  <2> QED BY <2>4, <2>5 DEF s
<1> HIDE DEF X
<1>4. seqs \in [1 .. n -> Seq(X)] /\ (\A b \in 1 .. n : Len(seqs[b]) = k) /\ seqs[1] = Salted(1)
  BY <1>1, <1>3
<1> HIDE DEF seqs
<1>5. /\ F \in Seq(X) /\ Len(F) = k * n
      /\ \A j \in 1 .. k : F[j] = seqs[1][j]
  <2>1. n \in Nat \ {0} /\ k \in Nat
    BY <1>1
  <2>2. seqs \in [1 .. n -> Seq(X)] /\ \A b \in 1 .. n : Len(seqs[b]) = k
    BY <1>4
  <2>3. /\ FlattenSeq(seqs) \in Seq(X) /\ Len(FlattenSeq(seqs)) = k * n
        /\ \A j \in 1 .. k : FlattenSeq(seqs)[j] = seqs[1][j]
    <3>1. FlattenSeq(seqs) \in Seq(X) /\ Len(FlattenSeq(seqs)) = k * n
      BY <2>1, <2>2, FlattenIs
    <3>2. \A j \in 1 .. k : FlattenSeq(seqs)[j] = seqs[1][j]
      BY <2>1, <2>2, FlattenIs
    <3> QED BY <3>1, <3>2
  <2> QED BY <2>3
<1> HIDE DEF F
<1>6. out \in Seq(X) /\ Len(out) = dkLen
  <2> DEFINE a == 1
  <2>1. a \in Nat \ {0} /\ dkLen \in Nat /\ dkLen <= Len(F) /\ a <= dkLen + 1 /\ dkLen - a + 1 = dkLen
    BY <1>1, <1>5
  <2> HIDE DEF a
  <2>2. SubSeq(F, a, dkLen) \in Seq(X) /\ Len(SubSeq(F, a, dkLen)) = dkLen - a + 1
    BY <1>5, <2>1, PartIs
  <2> QED BY <2>1, <2>2, Zenon DEF a
<1>7. SubSeq(out, 1, shared) = SubSeq(F, 1, shared)
  <2> DEFINE a == 1
  <2>1. a \in Nat \ {0} /\ dkLen \in Nat /\ dkLen <= Len(F) /\ a <= dkLen + 1 /\ shared \in Nat
        /\ shared <= dkLen - a + 1 /\ a + a - 1 = a /\ a + shared - 1 = shared
    BY <1>1, <1>5
  <2> HIDE DEF a
  <2>2. SubSeq(SubSeq(F, a, dkLen), a, shared) = SubSeq(F, a + a - 1, a + shared - 1)
    BY <1>5, <2>1, PartOfPart
  <2> QED BY <2>1, <2>2, Zenon DEF a
<1>8. SubSeq(F, 1, shared) = SubSeq(Salted(1), 1, shared)
  <2> DEFINE a == 1
             t == Salted(1)
  <2>0. t = seqs[1]
    BY <1>4
  <2> HIDE DEF t
  <2>1. a \in Int /\ shared \in Int /\ shared - a = shared - a
    BY <1>1
  <2>2. \A i \in a .. shared : i \in 1 .. k /\ i \in 1 .. Len(F) /\ a + (i - a) = i
    <3>1. k = 32 /\ 32 <= Len(F) /\ shared <= 32 /\ Len(F) \in Nat
      BY <1>1, <1>5
    <3> QED BY <1>1, <3>1
  <2>3. \A i \in a .. shared : F[i] \in X /\ F[i] = t[a + (i - a)]
    BY <1>5, <2>0, <2>2, ElementOfSeq
  <2> HIDE DEF a
  <2>4. SubSeq(F, a, shared) = SubSeq(t, a, shared)
    BY <2>1, <2>3, PartsEqual
  <2> QED BY <2>4, Zenon DEF a, t
<1>9. LET u1 == StandardMac(WhKey, <<1, 2, 3, 0, 0, 0, 1>>)
      IN  Salted(1) = XorBytes(u1, StandardMac(WhKey, u1))
  BY SaltedIs
<1> QED BY <1>2, <1>6, <1>7, <1>8, <1>9, Zenon DEF DerivedAs, shared

-----------------------------------------------------------------------------
(***************************************************************************)
(* Loops of RC4: what a number of rounds reaches, one by one and in the     *)
(* blocks of Iterate.                                                       *)
(***************************************************************************)

(* The two loops of RC4: the scheduling of the key and the stream. *)
KeyMove(s, i) ==
  LET j == (s.j + s.S[i] + WhKey[((i - 1) % Len(WhKey)) + 1]) % 256
  IN  [S |-> Swapped(s.S, i - 1, j), j |-> j]
Move(k, s, i) == IF k = "key" THEN KeyMove(s, i) ELSE Streamed(s)

(* What a loop reaches: round i starts from the value before it. *)
Path(k, base, a, b, f) == f = [i \in a .. b |-> IF i = a THEN base ELSE Move(k, f[i - 1], i)]
Reached(k, base, a, b) == (CHOOSE f : Path(k, base, a, b, f))[b]

(* A loop of n rounds reaches something. *)
LEMMA PathExists ==
  ASSUME NEW k, NEW base, NEW a \in Nat, NEW n \in Nat
  PROVE  \E f : Path(k, base, a, a + n, f)
<1> DEFINE S == {i \in 0 .. n : \E f : Path(k, base, a, a + i, f)}
           T(s, j) == Move(k, s, j)
<1> HIDE DEF T
<1>1. 0 \in S
  <2> DEFINE f == [i \in a .. a + 0 |-> base]
  <2>1. f = [i \in a .. a + 0 |-> IF i = a THEN base ELSE T(f[i - 1], i)]
    OBVIOUS
  <2> HIDE DEF f
  <2>2. Path(k, base, a, a + 0, f)
    BY <2>1, Zenon DEF Path, T
  <2>3. 0 \in 0 .. n
    OBVIOUS
  <2> QED BY <2>2, <2>3
<1>2. ASSUME NEW i \in 1 .. n, i - 1 \in S PROVE i \in S
  <2>0. i \in 0 .. n
    OBVIOUS
  <2> DEFINE b == a + i
             c == a + (i - 1)
  <2>1. PICK f : Path(k, base, a, c, f)
    BY <1>2, Zenon
  <2> DEFINE g == [j \in a .. b |-> IF j = b THEN T(f[c], b) ELSE f[j]]
  <2>a. b \in Nat /\ c \in Nat /\ c = b - 1 /\ a <= c
    OBVIOUS
  <2> HIDE DEF b, c
  <2>2. f = [j \in a .. c |-> IF j = a THEN base ELSE T(f[j - 1], j)]
    BY <2>1, Zenon DEF Path, T
  <2>3. g = [j \in a .. b |-> IF j = b THEN T(f[c], b) ELSE f[j]]
    OBVIOUS
  <2> HIDE DEF g
  <2>8. \A j \in a .. c : f[j] = IF j = a THEN base ELSE T(f[j - 1], j)
    BY <2>2, Zenon
  <2>9. \A j \in a .. c : j \in a .. b /\ j # b /\ (j # a => j - 1 \in a .. c)
    BY <2>a
  <2>4. \A j \in a .. c : g[j] = f[j] /\ f[j] = IF j = a THEN base ELSE T(f[j - 1], j)
    BY <2>3, <2>8, <2>9
  <2>5. \A j \in a .. b : g[j] = IF j = a THEN base ELSE T(g[j - 1], j)
    <3> SUFFICES ASSUME NEW j \in a .. b PROVE g[j] = IF j = a THEN base ELSE T(g[j - 1], j)
      OBVIOUS
    <3>1. CASE j = b
      <4>1. j # a /\ j - 1 = c /\ c \in a .. c
        BY <2>a, <3>1
      <4>2. g[j] = T(f[c], b) /\ g[c] = f[c]
        BY <2>3, <2>4, <3>1, <4>1
      <4> QED BY <3>1, <4>1, <4>2
    <3>2. CASE j # b
      <4>1. j \in a .. c
        BY <2>a, <3>2
      <4>2. j # a => j - 1 \in a .. c
        BY <2>9, <4>1
      <4> QED BY <2>4, <4>1, <4>2
    <3> QED BY <3>1, <3>2
  <2>6. g = [j \in a .. b |-> IF j = a THEN base ELSE T(g[j - 1], j)]
    BY <2>3, <2>5
  <2>7. Path(k, base, a, b, g)
    BY <2>6, Zenon DEF Path, T
  <2> QED BY <2>0, <2>7 DEF b
<1> HIDE DEF S
<1>3. \A i \in 0 .. n : i \in S
  BY <1>1, <1>2, ByRounds
<1>4. n \in S
  BY <1>3
<1> QED BY <1>4 DEF S

(* Two runs of a loop from one start are alike as far as both went. *)
LEMMA PathsAgree ==
  ASSUME NEW k, NEW base, NEW a \in Nat, NEW b \in Nat, NEW c \in Nat, a <= b, b <= c, NEW f, NEW g,
         Path(k, base, a, b, f), Path(k, base, a, c, g)
  PROVE  f[b] = g[b]
<1> DEFINE n == b - a
           m == c - a
           T(s, j) == Move(k, s, j)
           S == {i \in 0 .. n : f[a + i] = g[a + i]}
<1>0. n \in Nat /\ m \in Nat /\ n <= m /\ b = a + n /\ c = a + m
  OBVIOUS
<1> HIDE DEF n, m
<1>1. /\ \A i \in a .. a + n : f[i] = IF i = a THEN base ELSE T(f[i - 1], i)
      /\ \A i \in a .. a + m : g[i] = IF i = a THEN base ELSE T(g[i - 1], i)
  BY <1>0, Zenon DEF Path
<1> HIDE DEF T
<1>2. 0 \in S
  <2>1. a + 0 = a /\ a \in a .. a + n /\ a \in a .. a + m /\ 0 \in 0 .. n
    BY <1>0
  <2> QED BY <1>1, <2>1
<1>3. ASSUME NEW i \in 1 .. n, i - 1 \in S PROVE i \in S
  <2> DEFINE d == a + i
             e == a + (i - 1)
  <2>1. d \in a .. a + n /\ d \in a .. a + m /\ d # a /\ d - 1 = e /\ i \in 0 .. n
    BY <1>0
  <2>2. f[e] = g[e]
    BY <1>3
  <2> HIDE DEF d, e
  <2>3. f[d] = T(f[e], d) /\ g[d] = T(g[e], d)
    BY <1>1, <2>1
  <2>4. f[d] = g[d]
    BY <2>2, <2>3
  <2> QED BY <2>1, <2>4 DEF d
<1> HIDE DEF S
<1>4. \A i \in 0 .. n : i \in S
  BY <1>0, <1>2, <1>3, ByRounds
<1>5. n \in S
  BY <1>0, <1>4
<1> QED BY <1>0, <1>5 DEF S

(* What a loop reaches is where its rounds lead. *)
LEMMA ReachedBy ==
  ASSUME NEW k, NEW base, NEW a \in Nat, NEW b \in Nat, a <= b
  PROVE  \E f : Path(k, base, a, b, f) /\ Reached(k, base, a, b) = f[b]
<1> DEFINE f == CHOOSE f : Path(k, base, a, b, f)
           n == b - a
<1>1. n \in Nat /\ a + n = b
  OBVIOUS
<1> HIDE DEF n
<1>2. \E h : Path(k, base, a, a + n, h)
  BY <1>1, PathExists
<1>3. Path(k, base, a, b, f)
  BY <1>1, <1>2, Zenon
<1>4. Reached(k, base, a, b) = f[b]
  BY Zenon DEF Reached
<1> HIDE DEF f
<1> QED BY <1>3, <1>4, Zenon

(* Nothing is done by no round, and one thing more by one round more. *)
LEMMA ReachedNone ==
  ASSUME NEW k, NEW base, NEW a \in Nat
  PROVE  Reached(k, base, a, a) = base
<1>1. PICK f : Path(k, base, a, a, f) /\ Reached(k, base, a, a) = f[a]
  BY ReachedBy
<1>2. a \in a .. a
  OBVIOUS
<1> QED BY <1>1, <1>2, Zenon DEF Path

(* ... and one round more is one step more. *)
LEMMA ReachedMore ==
  ASSUME NEW k, NEW base, NEW a \in Nat, NEW b \in Nat, a <= b, NEW c, c = b + 1
  PROVE  Reached(k, base, a, c) = Move(k, Reached(k, base, a, b), c)
<1>1. /\ c \in Nat /\ a <= c /\ b <= c
      /\ c \in a .. c /\ c # a /\ c - 1 = b
  OBVIOUS
<1>2. PICK f : Path(k, base, a, b, f) /\ Reached(k, base, a, b) = f[b]
  BY ReachedBy
<1>3. PICK g : Path(k, base, a, c, g) /\ Reached(k, base, a, c) = g[c]
  BY <1>1, ReachedBy
<1>4. f[b] = g[b]
  BY <1>1, <1>2, <1>3, PathsAgree
<1>5. g[c] = Move(k, g[c - 1], c)
  BY <1>1, <1>3, Zenon DEF Path
<1> QED BY <1>1, <1>2, <1>3, <1>4, <1>5, Zenon

(* A loop may be interrupted and resumed. *)
LEMMA ReachedSplit ==
  ASSUME NEW k, NEW base, NEW a \in Nat, NEW m \in Nat, NEW b \in Nat, a <= m, m <= b
  PROVE  Reached(k, Reached(k, base, a, m), m, b) = Reached(k, base, a, b)
<1> DEFINE s == Reached(k, base, a, m)
           n == b - m
           S == {i \in 0 .. n : Reached(k, s, m, m + i) = Reached(k, base, a, m + i)}
<1>1. n \in Nat /\ m + n = b
  OBVIOUS
<1>2. 0 \in S
  <2>1. m + 0 = m /\ 0 \in 0 .. n
    OBVIOUS
  <2>2. Reached(k, s, m, m) = s
    BY ReachedNone
  <2> QED BY <2>1, <2>2
<1>3. ASSUME NEW i \in 1 .. n, i - 1 \in S PROVE i \in S
  <2> DEFINE c == m + i
             d == m + (i - 1)
  <2>1. c \in Nat /\ d \in Nat /\ c = d + 1 /\ a <= d /\ m <= d /\ i \in 0 .. n
    OBVIOUS
  <2>2. Reached(k, s, m, d) = Reached(k, base, a, d)
    BY <1>3
  <2> HIDE DEF c, d, s
  <2>3. Reached(k, s, m, c) = Move(k, Reached(k, s, m, d), c)
    BY <2>1, ReachedMore
  <2>4. Reached(k, base, a, c) = Move(k, Reached(k, base, a, d), c)
    BY <2>1, ReachedMore
  <2> QED BY <2>1, <2>2, <2>3, <2>4 DEF c
<1> HIDE DEF S, n
<1>4. \A i \in 0 .. n : i \in S
  BY <1>1, <1>2, <1>3, ByRounds
<1>5. n \in S
  BY <1>1, <1>4
<1> QED BY <1>1, <1>5 DEF S

(* Sixteen rounds of a loop, or what is left of them. *)
BlockEnd(n, b) == IF 16 * b < n THEN 16 * b ELSE n
Sixteen(k, n, s, b) == Reached(k, s, 16 * b - 16, BlockEnd(n, b))
Blocked(k, n, base, g) ==
  g = [b \in 0 .. (n + 15) \div 16 |-> IF b = 0 THEN base ELSE Sixteen(k, n, g[b - 1], b)]

(* The rounds of one block carry on those of the blocks before it. *)
LEMMA BlockStep ==
  ASSUME NEW k, NEW base, NEW n \in Nat, NEW b \in 1 .. (n + 15) \div 16
  PROVE  Sixteen(k, n, Reached(k, base, 0, BlockEnd(n, b - 1)), b) = Reached(k, base, 0, BlockEnd(n, b))
<1> DEFINE m == 16 * b - 16
           e == BlockEnd(n, b)
<1>1. m \in Nat /\ e \in Nat /\ 0 <= m /\ m <= e /\ BlockEnd(n, b - 1) = m /\ 0 \in Nat
  BY DEF BlockEnd
<1>2. Sixteen(k, n, Reached(k, base, 0, m), b) = Reached(k, Reached(k, base, 0, m), m, e)
  BY Zenon DEF Sixteen
<1> HIDE DEF m, e
<1>3. Reached(k, Reached(k, base, 0, m), m, e) = Reached(k, base, 0, e)
  BY <1>1, ReachedSplit
<1> QED BY <1>1, <1>2, <1>3, Zenon DEF e

(* The blocks of rounds lead somewhere. *)
LEMMA BlockedExists ==
  ASSUME NEW k, NEW base, NEW n \in Nat
  PROVE  \E g : Blocked(k, n, base, g)
<1> DEFINE R(b) == Reached(k, base, 0, BlockEnd(n, b))
           X(s, b) == Sixteen(k, n, s, b)
           B == (n + 15) \div 16
           g == [b \in 0 .. B |-> R(b)]
<1>1. B \in Nat
  OBVIOUS
<1>2. R(0) = base
  <2>1. BlockEnd(n, 0) = 0
    BY DEF BlockEnd
  <2>2. Reached(k, base, 0, 0) = base
    BY ReachedNone
  <2> QED BY <2>1, <2>2, Zenon
<1>3. \A b \in 1 .. B : X(R(b - 1), b) = R(b)
  BY BlockStep
<1> HIDE DEF R, X
<1>4. g = [b \in 0 .. B |-> IF b = 0 THEN base ELSE X(g[b - 1], b)]
  <2> HIDE DEF B
  <2>1. \A b \in 0 .. B : g[b] = R(b)
    OBVIOUS
  <2>2. \A b \in 0 .. B : b # 0 => b - 1 \in 0 .. B /\ b \in 1 .. B
    BY <1>1
  <2>3. \A b \in 0 .. B : g[b] = IF b = 0 THEN base ELSE X(g[b - 1], b)
    BY <1>2, <1>3, <2>1, <2>2
  <2> QED BY <2>1, <2>3
<1> HIDE DEF g
<1> QED BY <1>4, Zenon DEF Blocked, X

(* They lead where the rounds lead one by one. *)
LEMMA BlockedIs ==
  ASSUME NEW k, NEW base, NEW n \in Nat, NEW g, Blocked(k, n, base, g)
  PROVE  g[(n + 15) \div 16] = Reached(k, base, 0, n)
<1> DEFINE R(b) == Reached(k, base, 0, BlockEnd(n, b))
           X(s, b) == Sixteen(k, n, s, b)
           B == (n + 15) \div 16
           S == {b \in 0 .. B : g[b] = R(b)}
<1>1. B \in Nat /\ BlockEnd(n, B) = n
  BY DEF BlockEnd
<1>2. R(0) = base
  <2>1. BlockEnd(n, 0) = 0
    BY DEF BlockEnd
  <2>2. Reached(k, base, 0, 0) = base
    BY ReachedNone
  <2> QED BY <2>1, <2>2, Zenon
<1>3. \A b \in 1 .. B : X(R(b - 1), b) = R(b)
  BY BlockStep
<1>4. \A b \in 0 .. B : g[b] = IF b = 0 THEN base ELSE X(g[b - 1], b)
  BY Zenon DEF Blocked
<1>5. R(B) = Reached(k, base, 0, n)
  BY <1>1, Zenon
<1> HIDE DEF R, X, B
<1>6. 0 \in S
  <2>1. 0 \in 0 .. B
    BY <1>1
  <2> QED BY <1>2, <1>4, <2>1
<1>7. ASSUME NEW b \in 1 .. B, b - 1 \in S PROVE b \in S
  <2>1. b \in 0 .. B /\ b # 0
    BY <1>1
  <2>2. g[b] = X(g[b - 1], b)
    BY <1>4, <2>1
  <2>3. g[b - 1] = R(b - 1)
    BY <1>7
  <2>4. g[b] = R(b)
    BY <1>3, <2>2, <2>3
  <2> QED BY <2>1, <2>4
<1> HIDE DEF S
<1>8. \A b \in 0 .. B : b \in S
  BY <1>1, <1>6, <1>7, ByRounds
<1>9. B \in S
  BY <1>1, <1>8
<1> QED BY <1>5, <1>9 DEF S, B

Streaming(base, n) == Iterate(LAMBDA s, k : Streamed(s), base, n)
Scheduled(base, n) ==
  Iterate(LAMBDA s, i : LET j == (s.j + s.S[i] + WhKey[((i - 1) % Len(WhKey)) + 1]) % 256
                        IN  [S |-> Swapped(s.S, i - 1, j), j |-> j], base, n)

(* rc4_generate: the loop in blocks is the loop of its rounds. *)
LEMMA StreamingIs ==
  ASSUME NEW base, NEW n \in Nat
  PROVE  Streaming(base, n) = Reached("stream", base, 0, n)
<1> DEFINE B == (n + 15) \div 16
           St(s, i) == Streamed(s)
           loop(from, to, start, f) ==
             f = [i \in from - 1 .. to |-> IF i = from - 1 THEN start
                    ELSE CHOOSE value \in {St(before, i) : before \in {f[i - 1]}} : TRUE]
           inner(s, b) == CHOOSE result \in {(CHOOSE f : loop(16 * b - 15, BlockEnd(n, b), start, f))
                                                [BlockEnd(n, b)] : start \in {s}} : TRUE
           outer(start, g) ==
             g = [b \in 1 - 1 .. B |-> IF b = 1 - 1 THEN start
                    ELSE CHOOSE value \in {inner(before, b) : before \in {g[b - 1]}} : TRUE]
<1>1. Streaming(base, n) = CHOOSE result \in {(CHOOSE g : outer(start, g))[B] : start \in {base}} : TRUE
  BY Zenon DEF Streaming, Iterate, Rounds, BlockEnd
<1>2. \A s, i : St(s, i) = Move("stream", s, i)
  BY DEF Move
<1> HIDE DEF St
<1>3. \A x, i : (CHOOSE value \in {St(before, i) : before \in {x}} : TRUE) = Move("stream", x, i)
  <2> SUFFICES ASSUME NEW x, NEW i
               PROVE  (CHOOSE value \in {St(before, i) : before \in {x}} : TRUE) = Move("stream", x, i)
    BY Zenon
  <2>1. {St(before, i) : before \in {x}} = {Move("stream", x, i)}
    BY <1>2, Zenon
  <2> QED BY <2>1, OnlyOne, Zenon
<1>4. \A b \in Int : \A s : inner(s, b) = Sixteen("stream", n, s, b)
  <2> SUFFICES ASSUME NEW b \in Int, NEW s PROVE inner(s, b) = Sixteen("stream", n, s, b)
    BY Zenon
  <2> DEFINE from == 16 * b - 15
             to == BlockEnd(n, b)
             a == 16 * b - 16
             result(start) == (CHOOSE f : loop(from, to, start, f))[to]
  <2>1. from - 1 = a
    OBVIOUS
  <2>2. inner(s, b) = CHOOSE r \in {result(start) : start \in {s}} : TRUE
    BY Zenon
  <2>3. Sixteen("stream", n, s, b) = (CHOOSE f : Path("stream", s, a, to, f))[to]
    BY Zenon DEF Sixteen, Reached
  <2> HIDE DEF from, to, a, inner
  <2>4. \A f : loop(from, to, s, f) <=> Path("stream", s, a, to, f)
    BY <1>3, <2>1, Zenon DEF Path
  <2> HIDE DEF loop
  <2>5. (CHOOSE f : loop(from, to, s, f)) = CHOOSE f : Path("stream", s, a, to, f)
    BY <2>4, Zenon
  <2>6. {result(start) : start \in {s}} = {result(s)}
    BY Zenon
  <2> QED BY <2>2, <2>3, <2>5, <2>6, OnlyOne, Zenon
<1> HIDE DEF inner
<1>5. \A g : outer(base, g) <=> Blocked("stream", n, base, g)
  <2>1. \A b \in Int : \A x :
          (CHOOSE value \in {inner(before, b) : before \in {x}} : TRUE) = Sixteen("stream", n, x, b)
    <3> SUFFICES ASSUME NEW b \in Int, NEW x
                 PROVE  (CHOOSE value \in {inner(before, b) : before \in {x}} : TRUE) = Sixteen("stream", n, x, b)
      BY Zenon
    <3>1. {inner(before, b) : before \in {x}} = {Sixteen("stream", n, x, b)}
      BY <1>4, Zenon
    <3> QED BY <3>1, OnlyOne, Zenon
  <2>2. 1 - 1 = 0 /\ \A b \in 0 .. B : b \in Int
    OBVIOUS
  <2> QED BY <2>1, <2>2, Zenon DEF Blocked
<1> DEFINE last(start) == (CHOOSE g : outer(start, g))[B]
<1>6. Streaming(base, n) = last(base)
  <2>1. Streaming(base, n) = CHOOSE result \in {last(start) : start \in {base}} : TRUE
    BY <1>1, Zenon
  <2> HIDE DEF last
  <2>2. {last(start) : start \in {base}} = {last(base)}
    BY Zenon
  <2> QED BY <2>1, <2>2, OnlyOne, Zenon
<1> HIDE DEF outer
<1> DEFINE h == CHOOSE g : outer(base, g)
<1>7. Blocked("stream", n, base, h)
  BY <1>5, BlockedExists, Zenon
<1> HIDE DEF h
<1>8. h[B] = Reached("stream", base, 0, n)
  BY <1>7, BlockedIs, Zenon
<1> QED BY <1>6, <1>8, Zenon DEF h

(* rc4_init: the loop in blocks is the loop of its rounds. *)
LEMMA ScheduledIs ==
  ASSUME NEW base, NEW n \in Nat
  PROVE  Scheduled(base, n) = Reached("key", base, 0, n)
<1> DEFINE B == (n + 15) \div 16
           St(s, i) == LET j == (s.j + s.S[i] + WhKey[((i - 1) % Len(WhKey)) + 1]) % 256
                       IN  [S |-> Swapped(s.S, i - 1, j), j |-> j]
           loop(from, to, start, f) ==
             f = [i \in from - 1 .. to |-> IF i = from - 1 THEN start
                    ELSE CHOOSE value \in {St(before, i) : before \in {f[i - 1]}} : TRUE]
           inner(s, b) == CHOOSE result \in {(CHOOSE f : loop(16 * b - 15, BlockEnd(n, b), start, f))
                                                [BlockEnd(n, b)] : start \in {s}} : TRUE
           outer(start, g) ==
             g = [b \in 1 - 1 .. B |-> IF b = 1 - 1 THEN start
                    ELSE CHOOSE value \in {inner(before, b) : before \in {g[b - 1]}} : TRUE]
<1>1. Scheduled(base, n) = CHOOSE result \in {(CHOOSE g : outer(start, g))[B] : start \in {base}} : TRUE
  BY Zenon DEF Scheduled, Iterate, Rounds, BlockEnd
<1>2. \A s, i : St(s, i) = Move("key", s, i)
  BY Zenon DEF Move, KeyMove
<1> HIDE DEF St
<1>3. \A x, i : (CHOOSE value \in {St(before, i) : before \in {x}} : TRUE) = Move("key", x, i)
  <2> SUFFICES ASSUME NEW x, NEW i
               PROVE  (CHOOSE value \in {St(before, i) : before \in {x}} : TRUE) = Move("key", x, i)
    BY Zenon
  <2>1. {St(before, i) : before \in {x}} = {Move("key", x, i)}
    BY <1>2, Zenon
  <2> QED BY <2>1, OnlyOne, Zenon
<1>4. \A b \in Int : \A s : inner(s, b) = Sixteen("key", n, s, b)
  <2> SUFFICES ASSUME NEW b \in Int, NEW s PROVE inner(s, b) = Sixteen("key", n, s, b)
    BY Zenon
  <2> DEFINE from == 16 * b - 15
             to == BlockEnd(n, b)
             a == 16 * b - 16
             result(start) == (CHOOSE f : loop(from, to, start, f))[to]
  <2>1. from - 1 = a
    OBVIOUS
  <2>2. inner(s, b) = CHOOSE r \in {result(start) : start \in {s}} : TRUE
    BY Zenon
  <2>3. Sixteen("key", n, s, b) = (CHOOSE f : Path("key", s, a, to, f))[to]
    BY Zenon DEF Sixteen, Reached
  <2> HIDE DEF from, to, a, inner
  <2>4. \A f : loop(from, to, s, f) <=> Path("key", s, a, to, f)
    BY <1>3, <2>1, Zenon DEF Path
  <2> HIDE DEF loop
  <2>5. (CHOOSE f : loop(from, to, s, f)) = CHOOSE f : Path("key", s, a, to, f)
    BY <2>4, Zenon
  <2>6. {result(start) : start \in {s}} = {result(s)}
    BY Zenon
  <2> QED BY <2>2, <2>3, <2>5, <2>6, OnlyOne, Zenon
<1> HIDE DEF inner
<1>5. \A g : outer(base, g) <=> Blocked("key", n, base, g)
  <2>1. \A b \in Int : \A x :
          (CHOOSE value \in {inner(before, b) : before \in {x}} : TRUE) = Sixteen("key", n, x, b)
    <3> SUFFICES ASSUME NEW b \in Int, NEW x
                 PROVE  (CHOOSE value \in {inner(before, b) : before \in {x}} : TRUE) = Sixteen("key", n, x, b)
      BY Zenon
    <3>1. {inner(before, b) : before \in {x}} = {Sixteen("key", n, x, b)}
      BY <1>4, Zenon
    <3> QED BY <3>1, OnlyOne, Zenon
  <2>2. 1 - 1 = 0 /\ \A b \in 0 .. B : b \in Int
    OBVIOUS
  <2> QED BY <2>1, <2>2, Zenon DEF Blocked
<1> DEFINE last(start) == (CHOOSE g : outer(start, g))[B]
<1>6. Scheduled(base, n) = last(base)
  <2>1. Scheduled(base, n) = CHOOSE result \in {last(start) : start \in {base}} : TRUE
    BY <1>1, Zenon
  <2> HIDE DEF last
  <2>2. {last(start) : start \in {base}} = {last(base)}
    BY Zenon
  <2> QED BY <2>1, <2>2, OnlyOne, Zenon
<1> HIDE DEF outer
<1> DEFINE h == CHOOSE g : outer(base, g)
<1>7. Blocked("key", n, base, h)
  BY <1>5, BlockedExists, Zenon
<1> HIDE DEF h
<1>8. h[B] = Reached("key", base, 0, n)
  BY <1>7, BlockedIs, Zenon
<1> QED BY <1>6, <1>8, Zenon DEF h

-----------------------------------------------------------------------------
(***************************************************************************)
(* The permutation and the key stream of RC4.                               *)
(***************************************************************************)

(* The 256 bytes, each once. *)
Permutation(S) == S \in [1 .. 256 -> Byte] /\ \A x, y \in 1 .. 256 : S[x] = S[y] => x = y
Streamer(s) == Permutation(s.S) /\ s.i \in Byte /\ s.j \in Byte

(* 256 entries, each once, have 256 values. *)
LEMMA Distinct ==
  ASSUME NEW S, Permutation(S)
  PROVE  Cardinality({S[x] : x \in 1 .. 256}) = 256
<1> DEFINE n == 256
           D == 1 .. n
           R == {S[x] : x \in D}
<1>1. n \in Nat /\ 1 \in Nat
  OBVIOUS
<1>2. S \in [D -> R] /\ (\A x, y \in D : S[x] = S[y] => x = y) /\ \A r \in R : \E x \in D : S[x] = r
  BY DEF Permutation
<1>3. S \in Bijection(D, R)
  <2> HIDE DEF D, R
  <2> QED BY <1>2 DEF Bijection, Injection, Surjection, IsInjective
<1>4. IsFiniteSet(D) /\ Cardinality(D) = 256
  <2> DEFINE e == 1
  <2>1. e \in Int /\ n \in Int /\ D = e .. n
    OBVIOUS
  <2>2. (IF e > n THEN 0 ELSE n - e + 1) = 256
    OBVIOUS
  <2> HIDE DEF n, e, D
  <2>3. IsFiniteSet(D) /\ Cardinality(D) = IF e > n THEN 0 ELSE n - e + 1
    BY <2>1, FS_Interval, Zenon
  <2> QED BY <2>2, <2>3
<1> HIDE DEF D, R, n
<1>5. Cardinality(R) = Cardinality(D)
  <2>1. ExistsBijection(D, R)
    BY <1>3, Zenon DEF ExistsBijection
  <2> QED BY <1>4, <2>1, FS_Bijection
<1> QED BY <1>4, <1>5 DEF R, D, n

(* A swap leaves a permutation. *)
LEMMA SwappedIs ==
  \A S : \A i, j \in Byte : Permutation(S) => Permutation(Swapped(S, i, j))
<1> SUFFICES ASSUME NEW S, NEW i \in Byte, NEW j \in Byte, Permutation(S)
             PROVE  Permutation(Swapped(S, i, j))
  OBVIOUS
<1> DEFINE a == i + 1
           b == j + 1
           T == Swapped(S, i, j)
<1>1. a \in 1 .. 256 /\ b \in 1 .. 256
  BY DEF Byte
<1>2. T = [[S EXCEPT ![a] = S[b]] EXCEPT ![b] = S[a]]
  BY Zenon DEF Swapped
<1> HIDE DEF a, b, T
<1>3. T \in [1 .. 256 -> Byte]
  BY <1>1, <1>2 DEF Permutation
<1>4. \A x \in 1 .. 256 : T[x] = IF x = b THEN S[a] ELSE IF x = a THEN S[b] ELSE S[x]
  BY <1>1, <1>2 DEF Permutation
<1>5. \A x, y \in 1 .. 256 : T[x] = T[y] => x = y
  <2> SUFFICES ASSUME NEW x \in 1 .. 256, NEW y \in 1 .. 256, T[x] = T[y] PROVE x = y
    OBVIOUS
  <2> DEFINE P(z) == IF z = b THEN a ELSE IF z = a THEN b ELSE z
  <2>1. P(x) \in 1 .. 256 /\ P(y) \in 1 .. 256
    BY <1>1, Zenon
  <2>2. T[x] = S[P(x)] /\ T[y] = S[P(y)]
    BY <1>4, Zenon
  <2>3. P(x) = P(y)
    <3> HIDE DEF P
    <3> QED BY <2>1, <2>2 DEF Permutation
  <2> QED BY <2>3
<1> QED BY <1>3, <1>5 DEF Permutation, T

(* Sums of bytes, cut to a byte, and the entries they index. *)
LEMMA ModByte ==
  \A x, y \in Byte : (x + y) % 256 \in Byte /\ ((x + y) % 256) + 1 \in 1 .. 256 /\ x + 1 \in 1 .. 256
BY DEF Byte

(* The byte of key stream that the next round appends, and what else it does. *)
NextI(s) == (s.i + 1) % 256
NextJ(s) == (s.j + s.S[NextI(s) + 1]) % 256
NextS(s) == Swapped(s.S, NextI(s), NextJ(s))
KeyByte(s) == NextS(s)[((NextS(s)[NextI(s) + 1] + NextS(s)[NextJ(s) + 1]) % 256) + 1]

(* A round of rc4_generate, field by field. *)
LEMMA StreamedIs ==
  \A s : Streamed(s) = [S |-> NextS(s), i |-> NextI(s), j |-> NextJ(s), out |-> Append(s.out, KeyByte(s))]
BY Zenon DEF Streamed, NextI, NextJ, NextS, KeyByte

(* It indexes the permutation within its bounds and leaves a permutation. *)
LEMMA StreamerNext ==
  \A s : Streamer(s) => NextI(s) \in Byte /\ NextJ(s) \in Byte /\ Permutation(NextS(s)) /\ KeyByte(s) \in Byte
<1> SUFFICES ASSUME NEW s, Streamer(s)
             PROVE  NextI(s) \in Byte /\ NextJ(s) \in Byte /\ Permutation(NextS(s)) /\ KeyByte(s) \in Byte
  OBVIOUS
<1> DEFINE i == NextI(s)
           j == NextJ(s)
           S == NextS(s)
<1>1. i \in Byte
  BY DEF Streamer, NextI, Byte
<1>2. s.S[i + 1] \in Byte
  <2>1. i + 1 \in 1 .. 256
    BY <1>1 DEF Byte
  <2> HIDE DEF i
  <2> QED BY <2>1 DEF Streamer, Permutation
<1>3. j \in Byte
  <2>1. j = (s.j + s.S[i + 1]) % 256
    BY Zenon DEF NextJ
  <2> DEFINE v == s.S[i + 1]
  <2>2. v \in Byte /\ s.j \in Byte
    BY <1>2 DEF Streamer
  <2>3. j = (s.j + v) % 256
    BY <2>1, Zenon
  <2> HIDE DEF j, v
  <2> QED BY <2>2, <2>3, ModByte
<1>4. Permutation(S)
  <2>1. S = Swapped(s.S, i, j)
    BY Zenon DEF NextS
  <2> HIDE DEF i, j, S
  <2> QED BY <1>1, <1>3, <2>1, SwappedIs DEF Streamer
<1>5. KeyByte(s) \in Byte
  <2>1. KeyByte(s) = S[((S[i + 1] + S[j + 1]) % 256) + 1]
    BY Zenon DEF KeyByte
  <2> HIDE DEF i, j, S
  <2>2. S[i + 1] \in Byte /\ S[j + 1] \in Byte
    <3>1. i + 1 \in 1 .. 256 /\ j + 1 \in 1 .. 256
      BY <1>1, <1>3, ModByte
    <3> QED BY <1>4, <3>1 DEF Permutation
  <2>3. ((S[i + 1] + S[j + 1]) % 256) + 1 \in 1 .. 256
    BY <2>2, ModByte
  <2> DEFINE x == ((S[i + 1] + S[j + 1]) % 256) + 1
  <2>4. x \in 1 .. 256 /\ KeyByte(s) = S[x]
    BY <2>1, <2>3, Zenon
  <2> HIDE DEF x
  <2>5. S[x] \in Byte
    BY <1>4, <2>4 DEF Permutation
  <2> QED BY <2>4, <2>5, Zenon
<1> QED BY <1>1, <1>3, <1>4, <1>5

(* Two states that differ only by what they have put out. *)
Ahead(r, t, before) ==
  /\ Streamer(r) /\ r.S = t.S /\ r.i = t.i /\ r.j = t.j
  /\ t.out \in Seq(Byte) /\ r.out = before \o t.out

(* They still differ by it after a round. *)
LEMMA AheadNext ==
  \A r, t : \A before \in Seq(Byte) :
     Ahead(r, t, before) => Ahead(Streamed(r), Streamed(t), before) /\ Len(Streamed(t).out) = Len(t.out) + 1
<1> SUFFICES ASSUME NEW r, NEW t, NEW before \in Seq(Byte), Ahead(r, t, before)
             PROVE  Ahead(Streamed(r), Streamed(t), before) /\ Len(Streamed(t).out) = Len(t.out) + 1
  OBVIOUS
<1>1. NextI(r) = NextI(t) /\ NextJ(r) = NextJ(t) /\ NextS(r) = NextS(t)
  BY Zenon DEF Ahead, NextI, NextJ, NextS
<1>2. KeyByte(r) = KeyByte(t)
  BY <1>1, Zenon DEF KeyByte
<1> DEFINE k == KeyByte(t)
           u == Streamed(r)
           v == Streamed(t)
<1>3. /\ u.S = NextS(r) /\ u.i = NextI(r) /\ u.j = NextJ(r) /\ u.out = Append(r.out, k)
      /\ v.S = NextS(r) /\ v.i = NextI(r) /\ v.j = NextJ(r) /\ v.out = Append(t.out, k)
  BY <1>1, <1>2, StreamedIs
<1>4. k \in Byte /\ Streamer(u)
  BY <1>2, <1>3, StreamerNext DEF Ahead, Streamer
<1>5. t.out \in Seq(Byte) /\ r.out = before \o t.out
  BY DEF Ahead
<1> DEFINE o == t.out
<1> HIDE DEF k, u, v
<1>6. v.out \in Seq(Byte) /\ Len(v.out) = Len(o) + 1
  <2> HIDE DEF o
  <2>1. o \in Seq(Byte) /\ v.out = Append(o, k)
    BY <1>3, <1>5 DEF o
  <2> QED BY <1>4, <2>1
<1>7. Append(before \o o, k) = before \o Append(o, k)
  <2>1. o \in Seq(Byte)
    BY <1>5
  <2> HIDE DEF o
  <2> DEFINE p == Append(before \o o, k)
             q == before \o Append(o, k)
  <2>2. p \in Seq(Byte) /\ q \in Seq(Byte) /\ Len(p) = Len(q)
    BY <1>4, <2>1
  <2>3. \A x \in 1 .. Len(p) : p[x] = q[x]
    BY <1>4, <2>1
  <2> HIDE DEF p, q
  <2>4. p = q
    BY <2>2, <2>3, SeqEqual
  <2> QED BY <2>4 DEF p, q
<1>8. u.out = before \o v.out
  BY <1>3, <1>5, <1>7
<1> QED BY <1>3, <1>4, <1>6, <1>8 DEF Ahead, u, v

(* The scheduled permutation: every round swaps two entries. *)
Scheduling(s) == Permutation(s.S) /\ s.j \in Byte

(* What remains of a number modulo 256 is a byte. *)
LEMMA ModByteNat == \A x \in Nat : x % 256 \in Byte
BY DEF Byte

(* A round of rc4_init leaves a permutation. *)
LEMMA KeyMoveIs ==
  \A s : \A i \in 1 .. 256 : Scheduling(s) => Scheduling(KeyMove(s, i))
<1> SUFFICES ASSUME NEW s, NEW i \in 1 .. 256, Scheduling(s)
             PROVE  Scheduling(KeyMove(s, i))
  OBVIOUS
<1> DEFINE l == Len(WhKey)
           x == ((i - 1) % l) + 1
           b == s.S[i]
           w == WhKey[x]
           j == (s.j + b + w) % 256
<1>1. WhKey \in Seq(Nat) /\ l = 20
  <2>1. l = 20
    BY DEF WhKey
  <2> QED BY <2>1, KeyIs
<1>2. w \in Nat
  <2>1. x \in 1 .. 20
    BY <1>1
  <2>2. \A y \in 1 .. 20 : WhKey[y] \in Nat
    BY DEF WhKey
  <2> HIDE DEF x
  <2> QED BY <2>1, <2>2
<1>3. b \in Nat /\ s.j \in Nat /\ i - 1 \in Byte
  <2>1. Permutation(s.S) /\ s.j \in Byte
    BY DEF Scheduling
  <2>2. s.S[i] \in Byte
    BY <2>1 DEF Permutation
  <2> QED BY <2>1, <2>2 DEF Byte
<1>4. KeyMove(s, i) = [S |-> Swapped(s.S, i - 1, j), j |-> j]
  BY Zenon DEF KeyMove
<1> DEFINE d == s.j
<1>5. j \in Byte
  <2>1. d + b + w \in Nat
    <3>1. d \in Nat
      BY <1>3
    <3> HIDE DEF d, b, w
    <3> QED BY <1>2, <1>3, <3>1
  <2>2. j = (d + b + w) % 256
    BY Zenon
  <2> HIDE DEF j, d, b, w
  <2> QED BY <2>1, <2>2, ModByteNat
<1> DEFINE a == i - 1
<1>6. a \in Byte
  BY <1>3
<1> HIDE DEF j, a
<1>7. Permutation(Swapped(s.S, a, j))
  BY <1>5, <1>6, SwappedIs DEF Scheduling
<1>8. KeyMove(s, i).S = Swapped(s.S, a, j) /\ KeyMove(s, i).j = j
  BY <1>4 DEF a
<1> QED BY <1>5, <1>7, <1>8, Zenon DEF Scheduling

(* All its rounds do. *)
LEMMA ScheduleIs ==
  ASSUME NEW base, Scheduling(base)
  PROVE  Scheduling(Scheduled(base, 256))
<1> DEFINE n == 256
           S == {i \in 0 .. n : Scheduling(Reached("key", base, 0, i))}
<1>1. n \in Nat /\ 0 \in 0 .. n /\ n \in 0 .. n
  OBVIOUS
<1>2. 0 \in S
  <2>1. Reached("key", base, 0, 0) = base
    BY ReachedNone
  <2> HIDE DEF n
  <2> QED BY <1>1, <2>1
<1>3. ASSUME NEW i \in 1 .. n, i - 1 \in S PROVE i \in S
  <2> DEFINE e == i - 1
             s == Reached("key", base, 0, e)
  <2>1. e \in Nat /\ 0 <= e /\ i = e + 1 /\ i \in 1 .. 256 /\ i \in 0 .. n
    OBVIOUS
  <2>2. Scheduling(s)
    BY <1>3
  <2> HIDE DEF n, e
  <2>3. Reached("key", base, 0, i) = Move("key", s, i)
    BY <2>1, ReachedMore
  <2>4. Move("key", s, i) = KeyMove(s, i)
    BY DEF Move
  <2> HIDE DEF s
  <2>5. Scheduling(KeyMove(s, i))
    BY <2>1, <2>2, KeyMoveIs
  <2> QED BY <2>1, <2>3, <2>4, <2>5
<1>4. Scheduled(base, 256) = Reached("key", base, 0, n)
  <2>1. Scheduled(base, n) = Reached("key", base, 0, n)
    <3> HIDE DEF n
    <3> QED BY <1>1, ScheduledIs
  <2> QED BY <2>1
<1> HIDE DEF S, n
<1>5. \A i \in 0 .. n : i \in S
  BY <1>1, <1>2, <1>3, ByRounds
<1>6. n \in S
  BY <1>1, <1>5
<1> QED BY <1>4, <1>6 DEF S

(* rc4_init: a permutation of the bytes, and both indices at the start. *)
LEMMA InitIs == LET c == rc4_init(WhKey) IN Permutation(c.S) /\ c.i = 0 /\ c.j = 0
<1> DEFINE s0 == [i \in 1 .. 256 |-> i - 1]
           base == [S |-> Stored(s0), j |-> 0]
           n == 256
           c == rc4_init(WhKey)
<1>1. c = [S |-> Scheduled(base, 256).S, i |-> 0, j |-> 0]
  BY Zenon DEF rc4_init, Scheduled, Iterate, Rounds
<1>2. Stored(s0) = s0
  <2>1. n \in Nat /\ s0 \in [1 .. n -> Byte]
    BY DEF Byte
  <2> HIDE DEF n, s0
  <2> QED BY <2>1, StoredIs
<1>3. Permutation(s0)
  <2>1. s0 \in [1 .. 256 -> Byte]
    BY DEF Byte
  <2>2. \A x \in 1 .. 256 : s0[x] = x - 1
    OBVIOUS
  <2> HIDE DEF s0
  <2>3. \A x, y \in 1 .. 256 : s0[x] = s0[y] => x = y
    <3> SUFFICES ASSUME NEW x \in 1 .. 256, NEW y \in 1 .. 256, s0[x] = s0[y] PROVE x = y
      OBVIOUS
    <3>1. s0[x] = x - 1 /\ s0[y] = y - 1
      BY <2>2, Zenon
    <3>2. x - 1 = y - 1
      BY <3>1
    <3> QED BY <3>2
  <2> QED BY <2>1, <2>3, Zenon DEF Permutation
<1>4. Scheduling(base)
  <2>1. base.S = s0 /\ base.j = 0 /\ 0 \in Byte
    BY <1>2 DEF Byte
  <2> HIDE DEF base, s0
  <2> QED BY <1>3, <2>1, Zenon DEF Scheduling
<1> HIDE DEF base
<1>5. Permutation(Scheduled(base, 256).S)
  BY <1>4, ScheduleIs, Zenon DEF Scheduling
<1>6. c.S = Scheduled(base, 256).S /\ c.i = 0 /\ c.j = 0
  BY <1>1
<1> HIDE DEF c
<1> QED BY <1>5, <1>6, Zenon DEF c

(* The stream from a context, and a stream resumed. *)
Fresh(c) == [S |-> c.S, i |-> c.i, j |-> c.j, out |-> <<>>]
Stream(c, n) == Reached("stream", Fresh(c), 0, n)

(* rc4_generate gives the stream from its context. *)
LEMMA GenerateIs ==
  ASSUME NEW c, NEW n \in Nat
  PROVE  rc4_generate(c, n) = Stream(c, n)
<1>1. rc4_generate(c, n) = Streaming(Fresh(c), n)
  BY Zenon DEF rc4_generate, Streaming, Iterate, Rounds, Fresh
<1>2. Streaming(Fresh(c), n) = Reached("stream", Fresh(c), 0, n)
  BY StreamingIs
<1> QED BY <1>1, <1>2, Zenon DEF Stream

(* What n rounds from r and from t, which differ in what they have put out. *)
LEMMA StaysAhead ==
  ASSUME NEW r, NEW t, NEW before \in Seq(Byte), NEW m \in Nat, NEW l \in Nat,
         Ahead(r, t, before), t.out = <<>>,
         NEW e, e = m + l
  PROVE  /\ Ahead(Reached("stream", r, m, e), Reached("stream", t, 0, l), before)
         /\ Len(Reached("stream", t, 0, l).out) = l
<1> DEFINE R(i) == Reached("stream", r, m, m + i)
           T(i) == Reached("stream", t, 0, i)
           S == {i \in 0 .. l : Ahead(R(i), T(i), before) /\ Len(T(i).out) = i}
<1>1. R(0) = r /\ T(0) = t
  <2>1. m + 0 = m
    OBVIOUS
  <2> QED BY <2>1, ReachedNone
<1>2. \A i \in 1 .. l : R(i) = Streamed(R(i - 1)) /\ T(i) = Streamed(T(i - 1))
  <2> SUFFICES ASSUME NEW i \in 1 .. l PROVE R(i) = Streamed(R(i - 1)) /\ T(i) = Streamed(T(i - 1))
    OBVIOUS
  <2> DEFINE a == m + i
             b == m + (i - 1)
             f == i - 1
  <2>1. a = b + 1 /\ b \in Nat /\ m <= b /\ i = f + 1 /\ f \in Nat /\ 0 <= f
    OBVIOUS
  <2> HIDE DEF a, b, f
  <2>2. Reached("stream", r, m, a) = Move("stream", Reached("stream", r, m, b), a)
    BY <2>1, ReachedMore
  <2>3. Reached("stream", t, 0, i) = Move("stream", Reached("stream", t, 0, f), i)
    BY <2>1, ReachedMore
  <2>4. \A s, x : Move("stream", s, x) = Streamed(s)
    BY DEF Move
  <2> QED BY <2>2, <2>3, <2>4, Zenon DEF a, b, f
<1> HIDE DEF R, T
<1>3. 0 \in S
  <2>1. Len(<<>>) = 0 /\ 0 \in 0 .. l
    OBVIOUS
  <2> QED BY <1>1, <2>1
<1>4. ASSUME NEW i \in 1 .. l, i - 1 \in S PROVE i \in S
  <2>1. i \in 0 .. l /\ i - 1 + 1 = i
    OBVIOUS
  <2>2. Ahead(R(i - 1), T(i - 1), before) /\ Len(T(i - 1).out) = i - 1
    BY <1>4
  <2> DEFINE u == R(i - 1)
             v == T(i - 1)
  <2>3. R(i) = Streamed(u) /\ T(i) = Streamed(v) /\ Ahead(u, v, before)
    BY <1>2, <2>2
  <2> HIDE DEF u, v
  <2>4. Ahead(Streamed(u), Streamed(v), before) /\ Len(Streamed(v).out) = Len(v.out) + 1
    BY <2>3, AheadNext
  <2>5. Len(v.out) + 1 = i
    BY <2>1, <2>2 DEF v
  <2>6. Ahead(R(i), T(i), before) /\ Len(T(i).out) = i
    BY <2>3, <2>4, <2>5
  <2> QED BY <2>1, <2>6
<1> HIDE DEF S
<1>5. \A i \in 0 .. l : i \in S
  BY <1>3, <1>4, ByRounds
<1>6. l \in S
  BY <1>5
<1> QED BY <1>6, Zenon DEF S, R, T

-----------------------------------------------------------------------------
(***************************************************************************)
(* A message enciphered piece by piece.                                     *)
(***************************************************************************)

(* Sums of sequences of bytes of one length. *)
LEMMA ByteSum ==
  ASSUME NEW u \in Seq(Byte), NEW v \in Seq(Byte), Len(u) = Len(v)
  PROVE  /\ XorBytes(u, v) \in Seq(Byte) /\ Len(XorBytes(u, v)) = Len(u)
         /\ \A i \in 1 .. Len(u) : XorBytes(u, v)[i] = XorByte(u[i], v[i])
         /\ Stored(XorBytes(u, v)) = XorBytes(u, v)
<1> DEFINE n == Len(u)
           x == [i \in 1 .. n |-> XorByte(u[i], v[i])]
<1>1. XorBytes(u, v) = x /\ n \in Nat
  BY DEF XorBytes
<1>2. \A i \in 1 .. n : u[i] \in Byte /\ v[i] \in Byte
  OBVIOUS
<1>3. \A i \in 1 .. n : XorByte(u[i], v[i]) \in Byte
  BY <1>2, XorIs, Zenon
<1>4. x \in [1 .. n -> Byte]
  BY <1>3, Zenon
<1>5. \A i \in 1 .. n : x[i] = XorByte(u[i], v[i])
  BY Zenon
<1> HIDE DEF n, x
<1>6. x \in Seq(Byte) /\ Len(x) = n
  <2>1. x \in Seq(Byte)
    BY <1>1, <1>4, SeqDef
  <2> QED BY <1>1, <1>4, <2>1, LenProperties
<1>7. Stored(x) = x
  BY <1>1, <1>4, StoredIs
<1> QED BY <1>1, <1>5, <1>6, <1>7 DEF n

(* A sum is undone by adding the same again. *)
LEMMA ByteSumUndone ==
  ASSUME NEW u \in Seq(Byte), NEW v \in Seq(Byte), Len(u) = Len(v)
  PROVE  XorBytes(XorBytes(u, v), v) = u
<1> DEFINE x == XorBytes(u, v)
           y == XorBytes(x, v)
<1>1. x \in Seq(Byte) /\ Len(x) = Len(u) /\ \A i \in 1 .. Len(u) : x[i] = XorByte(u[i], v[i])
  BY ByteSum
<1> HIDE DEF x
<1>2. y \in Seq(Byte) /\ Len(y) = Len(x) /\ \A i \in 1 .. Len(x) : y[i] = XorByte(x[i], v[i])
  BY <1>1, ByteSum
<1> HIDE DEF y
<1>3. \A i \in 1 .. Len(u) : u[i] \in Byte /\ v[i] \in Byte
  OBVIOUS
<1>4. \A i \in 1 .. Len(u) : y[i] = u[i]
  BY <1>1, <1>2, <1>3, XorIs
<1>5. y = u
  BY <1>1, <1>2, <1>4, SeqEqual
<1> QED BY <1>5 DEF y, x

(* Two sequences of bytes of one length; two pairs of them, one behind the other. *)
Alike(u, v) == u \in Seq(Byte) /\ v \in Seq(Byte) /\ Len(u) = Len(v)
SumsJoin(u, v, p, q) == XorBytes(u \o p, v \o q) = XorBytes(u, v) \o XorBytes(p, q)

(* The sum of two concatenations, part by part. *)
LEMMA ByteSumConcat == \A u, v, p, q : Alike(u, v) /\ Alike(p, q) => SumsJoin(u, v, p, q)
<1> SUFFICES ASSUME NEW u, NEW v, NEW p, NEW q, Alike(u, v), Alike(p, q) PROVE SumsJoin(u, v, p, q)
  OBVIOUS
<1>0. /\ u \in Seq(Byte) /\ v \in Seq(Byte) /\ Len(u) = Len(v)
      /\ p \in Seq(Byte) /\ q \in Seq(Byte) /\ Len(p) = Len(q)
  BY DEF Alike
<1> DEFINE a == u \o p
           b == v \o q
           x == XorBytes(u, v)
           y == XorBytes(p, q)
           l == XorBytes(a, b)
           r == x \o y
           n == Len(u)
           m == Len(p)
<1>1. /\ a \in Seq(Byte) /\ b \in Seq(Byte) /\ Len(a) = n + m /\ Len(b) = n + m /\ n \in Nat /\ m \in Nat
      /\ \A i \in 1 .. n : a[i] = u[i] /\ b[i] = v[i]
      /\ \A i \in n + 1 .. n + m : a[i] = p[i - n] /\ b[i] = q[i - n]
  BY <1>0
<1>2. x \in Seq(Byte) /\ Len(x) = n /\ \A i \in 1 .. n : x[i] = XorByte(u[i], v[i])
  BY <1>0, ByteSum
<1>3. y \in Seq(Byte) /\ Len(y) = m /\ \A i \in 1 .. m : y[i] = XorByte(p[i], q[i])
  BY <1>0, ByteSum
<1> HIDE DEF a, b, n, m
<1>a. Len(a) = Len(b)
  BY <1>1
<1>4. l \in Seq(Byte) /\ Len(l) = Len(a) /\ \A i \in 1 .. Len(a) : l[i] = XorByte(a[i], b[i])
  BY <1>1, <1>a, ByteSum
<1> HIDE DEF x, y
<1>5. /\ r \in Seq(Byte) /\ Len(r) = n + m
      /\ \A i \in 1 .. n : r[i] = x[i]
      /\ \A i \in n + 1 .. n + m : r[i] = y[i - n]
  <2>1. x \in Seq(Byte) /\ y \in Seq(Byte) /\ Len(x) = n /\ Len(y) = m
    BY <1>2, <1>3
  <2>2. r \in Seq(Byte) /\ Len(r) = Len(x) + Len(y)
    BY <2>1, ConcatProperties, Zenon
  <2>3. \A i \in 1 .. Len(x) : r[i] = x[i]
    BY <2>1
  <2>4. \A i \in Len(x) + 1 .. Len(x) + Len(y) : r[i] = y[i - Len(x)]
    BY <2>1
  <2> QED BY <2>1, <2>2, <2>3, <2>4
<1> HIDE DEF l, r
<1>6. \A i \in 1 .. n + m : l[i] = r[i]
  <2> SUFFICES ASSUME NEW i \in 1 .. n + m PROVE l[i] = r[i]
    OBVIOUS
  <2>1. l[i] = XorByte(a[i], b[i])
    BY <1>1, <1>4
  <2>2. CASE i \in 1 .. n
    BY <1>1, <1>2, <1>5, <2>1, <2>2
  <2>3. CASE i \in n + 1 .. n + m
    <3> DEFINE j == i - n
    <3>1. j \in 1 .. m
      BY <1>1, <2>3
    <3>2. a[i] = p[j] /\ b[i] = q[j] /\ r[i] = y[j]
      BY <1>1, <1>5, <2>3
    <3> HIDE DEF j
    <3> QED BY <1>3, <2>1, <3>1, <3>2
  <2> QED BY <1>1, <2>2, <2>3
<1>7. l = r
  BY <1>1, <1>4, <1>5, <1>6, SeqEqual
<1> QED BY <1>7, Zenon DEF SumsJoin, l, r, a, b, x, y

(* A caller's message is a sequence of bytes. *)
LEMMA MessageBytes ==
  ASSUME NEW n \in Nat
  PROVE  WhMessage(n) \in Seq(Byte) /\ Len(WhMessage(n)) = n
<1>1. WhMessage(n) \in [1 .. n -> Byte]
  BY DEF WhMessage, Byte
<1>2. WhMessage(n) \in Seq(Byte)
  BY <1>1, SeqDef
<1> QED BY <1>1, <1>2, LenProperties

(* A piece of it is one, too. *)
LEMMA PieceBytes ==
  ASSUME NEW from \in Nat, NEW len \in Nat
  PROVE  Piece(from, len) \in Seq(Byte)
<1> DEFINE n == from + len
           w == WhMessage(n)
           a == from + 1
<1>1. n \in Nat /\ w \in Seq(Byte) /\ Len(w) = n
  BY MessageBytes
<1> HIDE DEF w
<1>2. SubSeq(w, a, n) \in Seq(Byte)
  <2>1. a \in Nat \ {0} /\ n <= Len(w)
    BY <1>1
  <2> HIDE DEF a, n
  <2> QED BY <1>1, <2>1
<1> QED BY <1>2, Zenon DEF Piece, w, a, n

(* A stream from the scheduled key. *)
RcStart == rc4_init(WhKey)
RcCtx(n) == [S |-> Stream(RcStart, n).S, i |-> Stream(RcStart, n).i, j |-> Stream(RcStart, n).j]
RcOut(n) == XorBytes(WhMessage(n), Stream(RcStart, n).out)

(* A stream that begins has put out nothing. *)
LEMMA FreshIs ==
  \A c : Permutation(c.S) /\ c.i \in Byte /\ c.j \in Byte
     => Ahead(Fresh(c), Fresh(c), <<>>) /\ Fresh(c).out = <<>>
<1> SUFFICES ASSUME NEW c, Permutation(c.S), c.i \in Byte, c.j \in Byte
             PROVE  Ahead(Fresh(c), Fresh(c), <<>>) /\ Fresh(c).out = <<>>
  OBVIOUS
<1>1. Fresh(c).S = c.S /\ Fresh(c).i = c.i /\ Fresh(c).j = c.j /\ Fresh(c).out = <<>>
  BY DEF Fresh
<1>2. <<>> \in Seq(Byte) /\ <<>> \o <<>> = <<>>
  OBVIOUS
<1> QED BY <1>1, <1>2, Zenon DEF Ahead, Streamer

(* A stream puts out one byte a round and keeps its permutation. *)
LEMMA StreamIs ==
  ASSUME NEW n \in Nat
  PROVE  /\ Streamer(Stream(RcStart, n)) /\ Stream(RcStart, n).out \in Seq(Byte)
         /\ Len(Stream(RcStart, n).out) = n
<1> DEFINE r == Fresh(RcStart)
           e == <<>>
<1>1. Ahead(r, r, e) /\ r.out = <<>> /\ e \in Seq(Byte) /\ n = 0 + n /\ 0 \in Nat
  <2>1. 0 \in Byte
    BY DEF Byte
  <2>2. Permutation(RcStart.S) /\ RcStart.i \in Byte /\ RcStart.j \in Byte
    BY <2>1, InitIs DEF RcStart
  <2> QED BY <2>2, FreshIs
<1> HIDE DEF r, e
<1>2. /\ Ahead(Reached("stream", r, 0, n), Reached("stream", r, 0, n), e)
      /\ Len(Reached("stream", r, 0, n).out) = n
  BY <1>1, StaysAhead
<1> QED BY <1>2, Zenon DEF Ahead, Stream, r

(* A stream taken up from a context is the rest of the stream. *)
LEMMA StreamMore ==
  ASSUME NEW n \in Nat, NEW l \in Nat, NEW e, e = n + l
  PROVE  LET r == Stream(RcStart, e)
             t == Stream(RcCtx(n), l)
         IN  /\ r.S = t.S /\ r.i = t.i /\ r.j = t.j /\ r.out = Stream(RcStart, n).out \o t.out
             /\ t.out \in Seq(Byte) /\ Len(t.out) = l
<1> DEFINE b == Fresh(RcStart)
           s == Stream(RcStart, n)
           f == Fresh(RcCtx(n))
           r == Stream(RcStart, e)
           t == Stream(RcCtx(n), l)
<1>1. Streamer(s) /\ s.out \in Seq(Byte)
  BY StreamIs
<1>2. f.S = s.S /\ f.i = s.i /\ f.j = s.j /\ f.out = <<>>
  BY DEF Fresh, RcCtx
<1>3. Ahead(s, f, s.out)
  <2> DEFINE o == s.out
  <2>1. o \in Seq(Byte) /\ <<>> \in Seq(Byte) /\ o = o \o <<>>
    BY <1>1
  <2> HIDE DEF s, f
  <2> QED BY <1>1, <1>2, <2>1, Zenon DEF Ahead
<1>4. e \in Nat /\ 0 <= n /\ n <= e /\ 0 \in Nat
  OBVIOUS
<1>5. Reached("stream", s, n, e) = r
  <2>1. s = Reached("stream", b, 0, n) /\ r = Reached("stream", b, 0, e)
    BY Zenon DEF Stream
  <2> HIDE DEF b, s, r
  <2> QED BY <1>4, <2>1, ReachedSplit
<1>6. t = Reached("stream", f, 0, l)
  BY Zenon DEF Stream
<1> DEFINE o == s.out
<1> HIDE DEF s, f, r, t
<1>7. o \in Seq(Byte) /\ Ahead(s, f, o) /\ f.out = <<>>
  BY <1>1, <1>2, <1>3
<1> HIDE DEF o
<1>8. /\ Ahead(Reached("stream", s, n, e), Reached("stream", f, 0, l), o)
      /\ Len(Reached("stream", f, 0, l).out) = l
  BY <1>7, StaysAhead
<1>9. Ahead(r, t, o) /\ Len(t.out) = l
  BY <1>5, <1>6, <1>8, Zenon
<1> QED BY <1>9, Zenon DEF Ahead, o, r, t, s

(* rc4_init: the stream of no byte. *)
LEMMA RcNothing == RcCtx(0) = rc4_init(WhKey) /\ RcOut(0) = <<>>
<1> DEFINE c == rc4_init(WhKey)
           z == Stream(RcStart, 0)
<1>1. z = Fresh(c)
  BY ReachedNone, Zenon DEF Stream, RcStart
<1>2. \E P : c = [S |-> P, i |-> 0, j |-> 0]
  BY Zenon DEF rc4_init
<1> HIDE DEF c
<1>3. z.S = c.S /\ z.i = c.i /\ z.j = c.j /\ z.out = <<>>
  BY <1>1 DEF Fresh
<1>4. RcCtx(0) = [S |-> z.S, i |-> z.i, j |-> z.j]
  BY Zenon DEF RcCtx
<1> HIDE DEF z
<1>5. RcCtx(0) = c
  BY <1>2, <1>3, <1>4
<1>6. RcOut(0) = <<>>
  <2> DEFINE m == WhMessage(0)
  <2>1. m \in Seq(Byte) /\ Len(m) = 0 /\ Len(<<>>) = 0 /\ <<>> \in Seq(Byte)
    BY MessageBytes
  <2>2. RcOut(0) = XorBytes(m, <<>>)
    BY <1>3, Zenon DEF RcOut, z
  <2> HIDE DEF m
  <2>3. XorBytes(m, <<>>) \in Seq(Byte) /\ Len(XorBytes(m, <<>>)) = 0
    BY <2>1, ByteSum
  <2> QED BY <2>2, <2>3
<1> QED BY <1>5, <1>6 DEF c

(* A stream has the fields of its context and what it put out. *)
LEMMA StreamRecord ==
  ASSUME NEW c, NEW n \in Nat
  PROVE  LET g == Stream(c, n) IN g = [S |-> g.S, i |-> g.i, j |-> g.j, out |-> g.out]
<1> DEFINE g == Stream(c, n)
<1>1. \E P, i, j, o : g = [S |-> P, i |-> i, j |-> j, out |-> o]
  <2>1. CASE n = 0
    <3>1. g = Fresh(c)
      BY <2>1, ReachedNone, Zenon DEF Stream
    <3> QED BY <3>1, Zenon DEF Fresh
  <2>2. CASE n # 0
    <3> DEFINE m == n - 1
    <3>1. m \in Nat /\ 0 <= m /\ n = m + 1 /\ 0 \in Nat
      BY <2>2
    <3> HIDE DEF m
    <3>2. Reached("stream", Fresh(c), 0, n) = Move("stream", Reached("stream", Fresh(c), 0, m), n)
      BY <3>1, ReachedMore
    <3>3. \A s, x : Move("stream", s, x) = Streamed(s)
      BY DEF Move
    <3>4. g = Streamed(Reached("stream", Fresh(c), 0, m))
      BY <3>2, <3>3, Zenon DEF Stream
    <3> QED BY <3>4, StreamedIs, Zenon
  <2> QED BY <2>1, <2>2
<1> HIDE DEF g
<1>2. g = [S |-> g.S, i |-> g.i, j |-> g.j, out |-> g.out]
  BY <1>1
<1> QED BY <1>2, Zenon DEF g

(* rc4_crypt: a message may be enciphered piece by piece. *)
LEMMA CryptMore ==
  ASSUME NEW from \in Nat, NEW len \in Nat
  PROVE  LET c == rc4_crypt(RcCtx(from), Piece(from, len))
         IN  /\ RcOut(from) \o c.out = RcOut(from + len)
             /\ [S |-> c.S, i |-> c.i, j |-> c.j] = RcCtx(from + len)
<1> DEFINE p == Piece(from, len)
           x == RcCtx(from)
           e == from + len
           g == Stream(x, len)
           o == Stored(XorBytes(p, g.out))
           Op(s) == [s EXCEPT !.out = Stored(XorBytes(p, @))]
           c == rc4_crypt(x, p)
           r == Stream(RcStart, e)
           s == Stream(RcStart, from)
<1>1. p \in Seq(Byte) /\ Len(p) = len /\ WhMessage(from) \o p = WhMessage(e)
  BY PieceIs, PieceBytes
<1>2. rc4_generate(x, len) = g
  BY GenerateIs
<1>3. c = CHOOSE y \in {Op(q) : q \in {rc4_generate(x, Len(p))}} : TRUE
  BY Zenon DEF rc4_crypt, Once
<1>4. c = Op(g)
  <2> HIDE DEF c, g, p, x, Op
  <2>1. {Op(q) : q \in {rc4_generate(x, Len(p))}} = {Op(g)}
    BY <1>1, <1>2, Zenon
  <2> QED BY <1>3, <2>1, OnlyOne, Zenon
<1>5. /\ r.S = g.S /\ r.i = g.i /\ r.j = g.j /\ r.out = s.out \o g.out
      /\ g.out \in Seq(Byte) /\ Len(g.out) = len
  <2>1. e = from + len
    OBVIOUS
  <2> HIDE DEF e
  <2> QED BY <2>1, StreamMore
<1>6. s.out \in Seq(Byte) /\ Len(s.out) = from
  BY StreamIs
<1>7. g = [S |-> g.S, i |-> g.i, j |-> g.j, out |-> g.out]
  BY StreamRecord, Zenon
<1>8. o = XorBytes(p, g.out)
  <2> DEFINE q == g.out
  <2>1. q \in Seq(Byte) /\ Len(p) = Len(q)
    BY <1>1, <1>5
  <2> HIDE DEF p, q, g
  <2>2. Stored(XorBytes(p, q)) = XorBytes(p, q)
    BY <1>1, <2>1, ByteSum
  <2> QED BY <2>2, Zenon DEF q
<1>9. c.S = g.S /\ c.i = g.i /\ c.j = g.j /\ c.out = XorBytes(p, g.out)
  <2>1. c = [g EXCEPT !.out = o]
    BY <1>4, Zenon
  <2> HIDE DEF c, g, o
  <2>2. c.S = g.S /\ c.i = g.i /\ c.j = g.j /\ c.out = o
    BY <1>7, <2>1
  <2> QED BY <1>8, <2>2, Zenon
<1>10. RcOut(from) \o c.out = RcOut(e)
  <2> DEFINE w == WhMessage(from)
             a == s.out
             q == g.out
  <2>1. w \in Seq(Byte) /\ Len(w) = from
    BY MessageBytes
  <2>2. a \in Seq(Byte) /\ Len(w) = Len(a) /\ q \in Seq(Byte) /\ Len(p) = Len(q) /\ p \in Seq(Byte)
    BY <1>1, <1>5, <1>6, <2>1
  <2>3. RcOut(from) = XorBytes(w, a) /\ RcOut(e) = XorBytes(w \o p, a \o q) /\ c.out = XorBytes(p, q)
    BY <1>1, <1>5, <1>9, Zenon DEF RcOut
  <2> HIDE DEF w, a, q, p, c, e
  <2>4. Alike(w, a) /\ Alike(p, q)
    BY <2>1, <2>2, Zenon DEF Alike
  <2>5. SumsJoin(w, a, p, q)
    BY <2>4, ByteSumConcat, Zenon
  <2> QED BY <2>3, <2>5, Zenon DEF SumsJoin
<1>11. [S |-> c.S, i |-> c.i, j |-> c.j] = RcCtx(e)
  BY <1>5, <1>9, Zenon DEF RcCtx
<1> HIDE DEF e
<1> QED BY <1>10, <1>11, Zenon DEF e, c, p, x

-----------------------------------------------------------------------------
(***************************************************************************)
(* The invariant of a caller.                                               *)
(***************************************************************************)

(* What a context is of the part of the message that was fed to it, and what
   has been put out. *)
CtxOf(kind, n) == CASE kind = "sha" -> Fed(WhMessage(n))
                    [] kind = "hmac" -> Keyed(WhKey, WhMessage(n))
                    [] kind = "rc4" -> RcCtx(n)
OutOf(kind, n) == IF kind = "rc4" THEN RcOut(n) ELSE <<>>
EndOf(kind, n) == CASE kind = "sha" -> StandardHash(WhMessage(n))
                    [] kind = "hmac" -> StandardMac(WhKey, WhMessage(n))
                    [] kind = "rc4" -> RcOut(n)

Kinds == {"sha", "hmac", "rc4"}
Using(kind, length, fed) ==
  wh = [at |-> kind, length |-> length, fed |-> fed, out |-> OutOf(kind, fed), ctx |-> CtxOf(kind, fed)]
Used(kind, length, out) == wh = [at |-> "done", kind |-> kind, length |-> length, out |-> out]

Resting == wh = [at |-> "idle"]
InUse == \E kind \in Kinds : \E length, fed \in Nat : Using(kind, length, fed)
Ended == \E kind \in Kinds : \E length \in Nat : Used(kind, length, EndOf(kind, length))
Derived == \E length \in {20, 32, 40} : \E out : Used("pbkdf2", length, out) /\ DerivedAs(out, length)
WhInv == Resting \/ InUse \/ Ended \/ Derived

(* A context that begins was fed nothing. *)
LEMMA BeginKeeps == WhInv /\ WhBegin => WhInv'
<1> SUFFICES ASSUME WhInv, WhBegin PROVE WhInv'
  OBVIOUS
<1>1. PICK kind \in Kinds, length \in WhLengths :
        wh' = [at |-> kind, length |-> length, fed |-> 0, out |-> <<>>,
               ctx |-> CASE kind = "sha" -> sha256_init
                         [] kind = "hmac" -> hmac_sha256_init(WhKey)
                         [] kind = "rc4" -> rc4_init(WhKey)]
  BY Zenon DEF WhBegin, Kinds
<1>2. length \in Nat /\ 0 \in Nat
  BY WhAssumption
<1>3. WhMessage(0) = <<>>
  <2>1. WhMessage(0) \in Seq(Byte) /\ Len(WhMessage(0)) = 0
    BY MessageBytes
  <2> QED BY <2>1
<1>4. CASE kind = "sha"
  <2>1. CtxOf(kind, 0) = Fed(WhMessage(0)) /\ OutOf(kind, 0) = <<>>
    BY <1>4 DEF CtxOf, OutOf
  <2>2. CtxOf(kind, 0) = sha256_init
    BY <1>3, <2>1, FedNothing, Zenon
  <2>3. wh' = [at |-> kind, length |-> length, fed |-> 0, out |-> <<>>, ctx |-> sha256_init]
    BY <1>1, <1>4
  <2>4. Using(kind, length, 0)'
    BY <2>1, <2>2, <2>3, Zenon DEF Using
  <2> QED BY <1>2, <2>4, Zenon DEF WhInv, InUse
<1>5. CASE kind = "hmac"
  <2>1. CtxOf(kind, 0) = Keyed(WhKey, WhMessage(0)) /\ OutOf(kind, 0) = <<>>
    BY <1>5 DEF CtxOf, OutOf
  <2>2. CtxOf(kind, 0) = hmac_sha256_init(WhKey)
    BY <1>3, <2>1, KeyIs, KeyedNothing, Zenon
  <2>3. wh' = [at |-> kind, length |-> length, fed |-> 0, out |-> <<>>, ctx |-> hmac_sha256_init(WhKey)]
    BY <1>1, <1>5
  <2>4. Using(kind, length, 0)'
    BY <2>1, <2>2, <2>3, Zenon DEF Using
  <2> QED BY <1>2, <2>4, Zenon DEF WhInv, InUse
<1>6. CASE kind = "rc4"
  <2>1. CtxOf(kind, 0) = RcCtx(0) /\ OutOf(kind, 0) = RcOut(0)
    BY <1>6 DEF CtxOf, OutOf
  <2>2. wh' = [at |-> kind, length |-> length, fed |-> 0, out |-> <<>>, ctx |-> rc4_init(WhKey)]
    BY <1>1, <1>6
  <2>3. Using(kind, length, 0)'
    BY <2>1, <2>2, RcNothing, Zenon DEF Using
  <2> QED BY <1>2, <2>3, Zenon DEF WhInv, InUse
<1> QED BY <1>4, <1>5, <1>6 DEF Kinds

(* A context that is fed a piece was fed the longer message. *)
LEMMA FeedKeeps == WhInv /\ WhFeed => WhInv'
<1> SUFFICES ASSUME WhInv, WhFeed PROVE WhInv'
  OBVIOUS
<1>1. PICK len \in WhPieces :
        /\ wh.at \in {"sha", "hmac", "rc4"} /\ wh.fed + len <= wh.length
        /\ \E piece \in {Piece(wh.fed, len)} :
             CASE wh.at = "sha" -> wh' = [wh EXCEPT !.fed = @ + len, !.ctx = sha256_update(@, piece)]
               [] wh.at = "hmac" -> wh' = [wh EXCEPT !.fed = @ + len, !.ctx = hmac_sha256_update(@, piece)]
               [] wh.at = "rc4" ->
                    \E stream \in {rc4_crypt(wh.ctx, piece)} :
                      wh' = [wh EXCEPT !.fed = @ + len, !.out = @ \o stream.out,
                                       !.ctx = [S |-> stream.S, i |-> stream.i, j |-> stream.j]]
  BY Zenon DEF WhFeed
<1>2. PICK kind \in Kinds, length \in Nat, fed \in Nat : Using(kind, length, fed)
  <2>1. ~Resting /\ ~Ended /\ ~Derived
    <3>1. wh.at # "idle" /\ wh.at # "done"
      BY <1>1
    <3>2. ~Resting
      BY <3>1 DEF Resting
    <3>3. \A k, l, o : ~Used(k, l, o)
      BY <3>1 DEF Used
    <3> QED BY <3>2, <3>3, Zenon DEF Ended, Derived
  <2> QED BY <2>1, Zenon DEF WhInv, InUse
<1> DEFINE p == Piece(fed, len)
           m == WhMessage(fed)
           e == fed + len
           o == OutOf(kind, fed)
           c == CtxOf(kind, fed)
<1>3. wh = [at |-> kind, length |-> length, fed |-> fed, out |-> o, ctx |-> c]
  BY <1>2, Zenon DEF Using
<1>4. len \in Nat /\ e \in Nat
  BY WhAssumption
<1>5. m \in Seq(Nat) /\ p \in Seq(Nat) /\ m \o p = WhMessage(e)
  BY <1>4, PieceIs, MessageIs
<1> HIDE DEF p, m, o, c
<1>6. wh.at = kind /\ wh.fed = fed /\ wh.ctx = c /\ wh.out = o
  BY <1>3
<1>7. CASE kind = "sha"
  <2>1. wh' = [wh EXCEPT !.fed = @ + len, !.ctx = sha256_update(@, p)]
    BY <1>1, <1>6, <1>7 DEF p
  <2>2. c = Fed(m) /\ CtxOf(kind, e) = Fed(WhMessage(e)) /\ o = OutOf(kind, e)
    BY <1>7 DEF CtxOf, OutOf, c, m, o
  <2>3. sha256_update(c, p) = CtxOf(kind, e)
    BY <1>5, <2>2, FedMore, Zenon
  <2>4. wh' = [at |-> kind, length |-> length, fed |-> e, out |-> o, ctx |-> sha256_update(c, p)]
    BY <1>3, <2>1
  <2>5. Using(kind, length, e)'
    BY <2>2, <2>3, <2>4, Zenon DEF Using
  <2> QED BY <1>4, <2>5, Zenon DEF WhInv, InUse
<1>8. CASE kind = "hmac"
  <2>1. wh' = [wh EXCEPT !.fed = @ + len, !.ctx = hmac_sha256_update(@, p)]
    BY <1>1, <1>6, <1>8 DEF p
  <2>2. c = Keyed(WhKey, m) /\ CtxOf(kind, e) = Keyed(WhKey, WhMessage(e)) /\ o = OutOf(kind, e)
    BY <1>8 DEF CtxOf, OutOf, c, m, o
  <2>3. hmac_sha256_update(c, p) = CtxOf(kind, e)
    <3>1. hmac_sha256_update(Keyed(WhKey, m), p) = Keyed(WhKey, m \o p)
      BY <1>5, KeyIs, KeyedMore
    <3> QED BY <1>5, <2>2, <3>1, Zenon
  <2>4. wh' = [at |-> kind, length |-> length, fed |-> e, out |-> o, ctx |-> hmac_sha256_update(c, p)]
    BY <1>3, <2>1
  <2>5. Using(kind, length, e)'
    BY <2>2, <2>3, <2>4, Zenon DEF Using
  <2> QED BY <1>4, <2>5, Zenon DEF WhInv, InUse
<1>9. CASE kind = "rc4"
  <2> DEFINE s == rc4_crypt(c, p)
             x == [S |-> s.S, i |-> s.i, j |-> s.j]
  <2>1. wh' = [wh EXCEPT !.fed = @ + len, !.out = @ \o s.out, !.ctx = x]
    BY <1>1, <1>6, <1>9 DEF p
  <2>2. c = RcCtx(fed) /\ o = RcOut(fed) /\ CtxOf(kind, e) = RcCtx(e) /\ OutOf(kind, e) = RcOut(e)
    BY <1>9 DEF CtxOf, OutOf, c, o
  <2>3. o \o s.out = RcOut(e) /\ x = RcCtx(e)
    BY <1>4, <2>2, CryptMore, Zenon DEF p
  <2> HIDE DEF x, s
  <2>4. wh' = [at |-> kind, length |-> length, fed |-> e, out |-> o \o s.out, ctx |-> x]
    BY <1>3, <2>1
  <2>5. Using(kind, length, e)'
    BY <2>2, <2>3, <2>4, Zenon DEF Using
  <2> QED BY <1>4, <2>5, Zenon DEF WhInv, InUse
<1> QED BY <1>7, <1>8, <1>9 DEF Kinds

(* What a context ends with is the hash, the code or the text of the whole message. *)
LEMMA EndKeeps == WhInv /\ WhEnd => WhInv'
<1> SUFFICES ASSUME WhInv, WhEnd PROVE WhInv'
  OBVIOUS
<1>1. /\ wh.at \in {"sha", "hmac", "rc4"} /\ wh.fed = wh.length
      /\ wh' = [at |-> "done", kind |-> wh.at, length |-> wh.length,
                out |-> CASE wh.at = "sha" -> sha256_final(wh.ctx)
                          [] wh.at = "hmac" -> hmac_sha256_final(wh.ctx)
                          [] wh.at = "rc4" -> wh.out]
  BY Zenon DEF WhEnd
<1>2. PICK kind \in Kinds, length \in Nat, fed \in Nat : Using(kind, length, fed)
  <2>1. ~Resting /\ ~Ended /\ ~Derived
    <3>1. wh.at # "idle" /\ wh.at # "done"
      BY <1>1
    <3>2. ~Resting
      BY <3>1 DEF Resting
    <3>3. \A k, l, o : ~Used(k, l, o)
      BY <3>1 DEF Used
    <3> QED BY <3>2, <3>3, Zenon DEF Ended, Derived
  <2> QED BY <2>1, Zenon DEF WhInv, InUse
<1> DEFINE m == WhMessage(fed)
           o == OutOf(kind, fed)
           c == CtxOf(kind, fed)
<1>3. wh = [at |-> kind, length |-> length, fed |-> fed, out |-> o, ctx |-> c]
  BY <1>2, Zenon DEF Using
<1>4. m \in Seq(Nat)
  BY MessageIs
<1> HIDE DEF m, o, c
<1>5. wh.at = kind /\ wh.fed = fed /\ wh.length = length /\ wh.ctx = c /\ wh.out = o /\ length = fed
  BY <1>1, <1>3
<1>6. CASE kind = "sha"
  <2>1. c = Fed(m) /\ EndOf(kind, length) = StandardHash(m)
    BY <1>5, <1>6 DEF CtxOf, EndOf, c, m
  <2>2. sha256_final(c) = EndOf(kind, length)
    <3>1. Nat \subseteq Nat
      OBVIOUS
    <3> QED BY <1>4, <2>1, <3>1, Finished, Zenon
  <2>3. wh' = [at |-> "done", kind |-> kind, length |-> length, out |-> sha256_final(c)]
    BY <1>1, <1>5, <1>6
  <2>4. Used(kind, length, EndOf(kind, length))'
    BY <2>2, <2>3, Zenon DEF Used
  <2> QED BY <2>4, Zenon DEF WhInv, Ended
<1>7. CASE kind = "hmac"
  <2>1. c = Keyed(WhKey, m) /\ EndOf(kind, length) = StandardMac(WhKey, m)
    BY <1>5, <1>7 DEF CtxOf, EndOf, c, m
  <2>2. hmac_sha256_final(c) = EndOf(kind, length)
    BY <1>4, <2>1, KeyIs, KeyedFinished, Zenon
  <2>3. wh' = [at |-> "done", kind |-> kind, length |-> length, out |-> hmac_sha256_final(c)]
    BY <1>1, <1>5, <1>7
  <2>4. Used(kind, length, EndOf(kind, length))'
    BY <2>2, <2>3, Zenon DEF Used
  <2> QED BY <2>4, Zenon DEF WhInv, Ended
<1>8. CASE kind = "rc4"
  <2>1. o = EndOf(kind, length)
    BY <1>5, <1>8 DEF OutOf, EndOf, o
  <2>2. wh' = [at |-> "done", kind |-> kind, length |-> length, out |-> o]
    BY <1>1, <1>5, <1>8
  <2>3. Used(kind, length, EndOf(kind, length))'
    BY <2>1, <2>2, Zenon DEF Used
  <2> QED BY <2>3, Zenon DEF WhInv, Ended
<1> QED BY <1>6, <1>7, <1>8 DEF Kinds

(* A context always is what it was fed. *)
LEMMA WhInvHolds == WhSpec => []WhInv
<1>1. WhInit => WhInv
  BY DEF WhInit, WhInv, Resting
<1>2. WhInv /\ [WhNext]_wh => WhInv'
  <2> SUFFICES ASSUME WhInv, [WhNext]_wh PROVE WhInv'
    OBVIOUS
  <2>1. CASE WhDerive
    <3>1. PICK dkLen \in {20, 32, 40} :
            wh' = [at |-> "done", kind |-> "pbkdf2", length |-> dkLen,
                   out |-> pbkdf2_hmac_sha256(WhKey, <<1, 2, 3>>, 2, dkLen)]
      BY <2>1, Zenon DEF WhDerive
    <3>2. DerivedAs(pbkdf2_hmac_sha256(WhKey, <<1, 2, 3>>, 2, dkLen), dkLen)
      BY DerivedIs
    <3>3. \E out : Used("pbkdf2", dkLen, out)' /\ DerivedAs(out, dkLen)
      BY <3>1, <3>2, Zenon DEF Used
    <3> QED BY <3>3, Zenon DEF WhInv, Derived
  <2>2. CASE UNCHANGED wh
    BY <2>2, Zenon DEF WhInv, Resting, InUse, Ended, Derived, Using, Used
  <2> QED BY <2>1, <2>2, BeginKeeps, FeedKeeps, EndKeeps, Zenon DEF WhNext
<1> QED BY <1>1, <1>2, PTL DEF WhSpec

(* The invariant gives the property. *)
LEMMA InvSound == WhInv => HashSound
<1> SUFFICES ASSUME WhInv PROVE HashSound
  OBVIOUS
<1>1. CASE Resting
  BY <1>1 DEF Resting, HashSound, DigestStandard, DerivedPrefix, StreamAligned
<1>2. CASE InUse
  <2>1. PICK kind \in Kinds, length \in Nat, fed \in Nat : Using(kind, length, fed)
    BY <1>2, Zenon DEF InUse
  <2> DEFINE o == OutOf(kind, fed)
             c == CtxOf(kind, fed)
  <2>2. wh = [at |-> kind, length |-> length, fed |-> fed, out |-> o, ctx |-> c]
    BY <2>1, Zenon DEF Using
  <2> HIDE DEF o, c
  <2>3. wh.at = kind /\ wh.at # "done" /\ wh.ctx = c
    BY <2>2 DEF Kinds
  <2>4. ASSUME kind = "rc4"
        PROVE  Cardinality({wh.ctx.S[i] : i \in 1 .. 256}) = 256
    <3>1. c = RcCtx(fed)
      BY <2>4 DEF CtxOf, c
    <3> DEFINE P == Stream(RcStart, fed).S
    <3>2. wh.ctx.S = P
      BY <2>3, <3>1 DEF RcCtx
    <3>3. Permutation(P)
      BY StreamIs, Zenon DEF Streamer
    <3> HIDE DEF P
    <3>4. Cardinality({P[i] : i \in 1 .. 256}) = 256
      BY <3>3, Distinct
    <3> DEFINE Q == wh.ctx.S
    <3>5. Q = P
      BY <3>2
    <3> HIDE DEF Q
    <3>6. {Q[i] : i \in 1 .. 256} = {P[i] : i \in 1 .. 256}
      BY <3>5, Zenon
    <3> QED BY <3>4, <3>6, Zenon DEF Q
  <2> QED BY <2>3, <2>4, Zenon DEF HashSound, DigestStandard, DerivedPrefix, StreamAligned
<1>3. CASE Ended
  <2>1. PICK kind \in Kinds, length \in Nat : Used(kind, length, EndOf(kind, length))
    BY <1>3, Zenon DEF Ended
  <2> DEFINE o == EndOf(kind, length)
  <2>2. wh = [at |-> "done", kind |-> kind, length |-> length, out |-> o]
    BY <2>1, Zenon DEF Used
  <2> HIDE DEF o
  <2>3. /\ wh.at = "done" /\ wh.kind = kind /\ wh.length = length /\ wh.out = o
        /\ kind # "pbkdf2" /\ wh.at # "rc4"
    BY <2>2 DEF Kinds
  <2>4. DigestStandard
    <3>1. kind = "sha" => o = StandardHash(WhMessage(length))
      BY DEF EndOf, o
    <3>2. kind = "hmac" => o = StandardMac(WhKey, WhMessage(length))
      BY DEF EndOf, o
    <3> QED BY <2>3, <3>1, <3>2, Zenon DEF DigestStandard
  <2>5. ASSUME kind = "rc4"
        PROVE  XorBytes(wh.out, rc4_generate(rc4_init(WhKey), wh.length).out) = WhMessage(wh.length)
    <3> DEFINE m == WhMessage(length)
               k == Stream(RcStart, length).out
    <3>1. m \in Seq(Byte) /\ k \in Seq(Byte) /\ Len(m) = Len(k)
      BY StreamIs, MessageBytes
    <3>2. o = XorBytes(m, k)
      BY <2>5 DEF EndOf, RcOut, o
    <3>3. rc4_generate(rc4_init(WhKey), length).out = k
      BY GenerateIs, Zenon DEF RcStart
    <3> HIDE DEF m, k
    <3>4. XorBytes(XorBytes(m, k), k) = m
      BY <3>1, ByteSumUndone
    <3> QED BY <2>3, <3>2, <3>3, <3>4, Zenon DEF m
  <2> QED BY <2>3, <2>4, <2>5, Zenon DEF HashSound, DerivedPrefix, StreamAligned
<1>4. CASE Derived
  <2>0. PICK length \in {20, 32, 40} : \E out : Used("pbkdf2", length, out) /\ DerivedAs(out, length)
    BY <1>4, Zenon DEF Derived
  <2>1. PICK out : Used("pbkdf2", length, out) /\ DerivedAs(out, length)
    BY <2>0
  <2>2. wh.at = "done" /\ wh.kind = "pbkdf2" /\ wh.length = length /\ wh.out = out
    BY <2>1 DEF Used
  <2>3. DerivedPrefix
    BY <2>1, <2>2, Zenon DEF DerivedPrefix, DerivedAs
  <2>4. wh.at # "rc4" /\ wh.kind # "sha" /\ wh.kind # "hmac" /\ wh.kind # "rc4"
    BY <2>2
  <2> QED BY <2>3, <2>4, Zenon DEF HashSound, DigestStandard, StreamAligned
<1> QED BY <1>1, <1>2, <1>3, <1>4, Zenon DEF WhInv

(* However a message is cut into pieces, digests, codes and streams are those of the
   whole message; derived keys begin alike; the state of RC4 remains a permutation. *)
THEOREM HashSoundHolds == WhSpec => []HashSound
BY WhInvHolds, InvSound, PTL
=============================================================================
