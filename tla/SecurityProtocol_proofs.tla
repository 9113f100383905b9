------------------------ MODULE SecurityProtocol_proofs ------------------------
(***************************************************************************)
(* What the parts of SecurityProtocol promise, for every value of the       *)
(* constants: the keys of the hierarchy agree exactly where their inputs    *)
(* do, an end of the authentication that accepts holds the key its peer     *)
(* confirmed, an announced configuration is never read as a stronger one,   *)
(* and a burst of attack frames raises the alarm in time, and nothing else  *)
(* does.                                                                    *)
(***************************************************************************)
EXTENDS SecurityProtocol, FiniteSetTheorems, SequenceTheorems, TLAPS

(***************************************************************************)
(* Parts of sequences, and the bytes of codes.                              *)
(***************************************************************************)

LEMMA PartOf ==
  ASSUME NEW s, NEW m \in Nat, NEW n \in Nat, m <= n
  PROVE  /\ Len(SubSeq(s, m, n)) = n - m + 1
         /\ \A i \in 1 .. n - m + 1 : SubSeq(s, m, n)[i] = s[m + i - 1]
         /\ SubSeq(s, m, n) \in Seq({s[i] : i \in m .. n})
<1> DEFINE S == {s[i] : i \in m .. n}
<1>1. \A i \in m .. n : s[i] \in S
  OBVIOUS
<1> HIDE DEF S
<1>2. m \in Int /\ n \in Int
  OBVIOUS
<1>3. /\ SubSeq(s, m, n) \in Seq(S)
      /\ Len(SubSeq(s, m, n)) = IF m <= n THEN n - m + 1 ELSE 0
      /\ \A i \in 1 .. n - m + 1 : SubSeq(s, m, n)[i] = s[m + i - 1]
  BY <1>1, <1>2, SubSeqProperties
<1> QED BY <1>3 DEF S

(* The bytes of a part of a sequence. *)
LEMMA BytesOfPart ==
  ASSUME NEW s, NEW m \in Nat, NEW n \in Nat, m >= 1, m <= n
  PROVE  BytesOf(SubSeq(s, m, n)) = {s[i] : i \in m .. n}
<1> DEFINE part == SubSeq(s, m, n)
<1>1. Len(part) = n - m + 1 /\ \A i \in 1 .. n - m + 1 : part[i] = s[m + i - 1]
  BY PartOf
<1>2. BytesOf(part) = {part[i] : i \in 1 .. n - m + 1}
  BY <1>1 DEF BytesOf
<1> HIDE DEF part
<1>3. \A i \in m .. n : i - m + 1 \in 1 .. n - m + 1 /\ part[i - m + 1] = s[i]
  BY <1>1
<1>4. \A i \in 1 .. n - m + 1 : m + i - 1 \in m .. n /\ part[i] = s[m + i - 1]
  BY <1>1
<1>5. {part[i] : i \in 1 .. n - m + 1} \subseteq {s[i] : i \in m .. n}
  BY <1>4, Zenon
<1>6. {s[i] : i \in m .. n} \subseteq {part[i] : i \in 1 .. n - m + 1}
  BY <1>3, Zenon
<1> QED BY <1>2, <1>5, <1>6 DEF part

(* A sequence given element by element. *)
LEMMA Given ==
  ASSUME NEW s, NEW n \in Nat, DOMAIN s = 1 .. n, s = [i \in 1 .. n |-> s[i]]
  PROVE  Len(s) = n /\ s \in Seq({s[i] : i \in 1 .. n})
<1> DEFINE S == {s[i] : i \in 1 .. n}
<1>1. \A i \in 1 .. n : s[i] \in S
  OBVIOUS
<1> HIDE DEF S
<1>2. s \in [1 .. n -> S]
  BY <1>1, Zenon
<1>3. s \in Seq(S)
  BY <1>2, SeqDef
<1>4. DOMAIN s = 1 .. Len(s) /\ Len(s) \in Nat
  BY <1>3, LenProperties
<1>5. Len(s) = n
  BY <1>4
<1> QED BY <1>3, <1>5 DEF S

(* So many bytes that no two are equal are that many. *)
LEMMA AllApart ==
  ASSUME NEW s, NEW n \in Nat, \A i, j \in 1 .. n : s[i] = s[j] => i = j
  PROVE  Cardinality({s[i] : i \in 1 .. n}) = n
<1> DEFINE S == {s[i] : i \in 1 .. n}
           f == [i \in 1 .. n |-> s[i]]
<1>1. f \in [1 .. n -> S]
  BY Zenon
<1>2. \A i, j \in 1 .. n : f[i] = f[j] => i = j
  OBVIOUS
<1>3. \A x \in S : \E i \in 1 .. n : f[i] = x
  OBVIOUS
<1> HIDE DEF f, S
<1>4. f \in Bijection(1 .. n, S)
  BY <1>1, <1>2, <1>3 DEF Bijection, Injection, Surjection, IsInjective
<1>5. ExistsBijection(1 .. n, S)
  BY <1>4, Zenon DEF ExistsBijection
<1>6. Cardinality(S) = n
  BY <1>5, FS_CountingElements
<1> QED BY <1>6 DEF S

(* The bytes of a code are apart: the number of the code and the place in it
   tell two of fewer than 256 times 20 bytes apart. *)
LEMMA PlacesApart ==
  ASSUME NEW i \in 1 .. 48, NEW j \in 1 .. 48,
         ((i - 1) \div 20) % 256 = ((j - 1) \div 20) % 256, (i - 1) % 20 = (j - 1) % 20
  PROVE  i = j
<1>1. ((i - 1) \div 20) % 256 = (i - 1) \div 20 /\ ((j - 1) \div 20) % 256 = (j - 1) \div 20
  OBVIOUS
<1>2. /\ i - 1 = 20 * ((i - 1) \div 20) + ((i - 1) % 20)
      /\ j - 1 = 20 * ((j - 1) \div 20) + ((j - 1) % 20)
  OBVIOUS
<1> QED BY <1>1, <1>2

LEMMA CodeAt ==
  ASSUME NEW key, NEW label, NEW context, NEW len \in Nat
  PROVE  LET raw == wpa2_prf(key, label, context, len)
         IN  /\ DOMAIN raw = 1 .. len /\ Len(raw) = len
             /\ \A n \in 1 .. len : /\ raw[n].key = key
                                    /\ raw[n].label = label
                                    /\ raw[n].context = context
                                    /\ raw[n].i = ((n - 1) \div 20) % 256
                                    /\ raw[n].at = (n - 1) % 20
<1> DEFINE raw == wpa2_prf(key, label, context, len)
<1>1. DOMAIN raw = 1 .. len /\ raw = [i \in 1 .. len |-> raw[i]]
  BY DEF wpa2_prf
<1>2. \A n \in 1 .. len : /\ raw[n].key = key /\ raw[n].label = label /\ raw[n].context = context
                          /\ raw[n].i = ((n - 1) \div 20) % 256 /\ raw[n].at = (n - 1) % 20
  BY DEF wpa2_prf
<1> HIDE DEF raw
<1>3. Len(raw) = len
  BY <1>1, Given
<1> QED BY <1>1, <1>2, <1>3 DEF raw

LEMMA CodeApart ==
  ASSUME NEW key, NEW label, NEW context
  PROVE  Cardinality({wpa2_prf(key, label, context, 48)[n] : n \in 1 .. 48}) = 48
<1> DEFINE raw == wpa2_prf(key, label, context, 48)
<1>1. \A n \in 1 .. 48 : raw[n].i = ((n - 1) \div 20) % 256 /\ raw[n].at = (n - 1) % 20
  BY CodeAt
<1> HIDE DEF raw
<1>2. \A i, j \in 1 .. 48 : raw[i] = raw[j] => i = j
  <2> SUFFICES ASSUME NEW i \in 1 .. 48, NEW j \in 1 .. 48, raw[i] = raw[j] PROVE i = j
    OBVIOUS
  <2>1. ((i - 1) \div 20) % 256 = ((j - 1) \div 20) % 256 /\ (i - 1) % 20 = (j - 1) % 20
    <3>1. raw[i].i = ((i - 1) \div 20) % 256 /\ raw[j].i = ((j - 1) \div 20) % 256
      BY <1>1, Zenon
    <3>2. raw[i].at = (i - 1) % 20 /\ raw[j].at = (j - 1) % 20
      BY <1>1, Zenon
    <3>3. raw[i].i = raw[j].i /\ raw[i].at = raw[j].at
      OBVIOUS
    <3> QED BY <3>1, <3>2, <3>3, SMT
  <2> QED BY <2>1, PlacesApart
<1>3. Cardinality({raw[n] : n \in 1 .. 48}) = 48
  BY <1>2, AllApart
<1> QED BY <1>3 DEF raw

(***************************************************************************)
(* The extract-and-expand derivation.                                       *)
(***************************************************************************)

(* The counters of the blocks up to the one of byte n. *)
CountersAt(n) == [b \in 1 .. ((n - 1) \div 32) + 1 |-> b % 256]

LEMMA ExpandedAt ==
  ASSUME NEW prk, NEW info, NEW len \in Nat
  PROVE  LET okm == hkdf_expand(prk, info, len)
         IN  /\ DOMAIN okm = 1 .. len /\ Len(okm) = len
             /\ okm \in Seq({okm[n] : n \in 1 .. len})
             /\ \A n \in 1 .. len : okm[n].at = (n - 1) % 32 /\ okm[n].counters = CountersAt(n)
<1> DEFINE okm == hkdf_expand(prk, info, len)
<1>1. DOMAIN okm = 1 .. len /\ okm = [n \in 1 .. len |-> okm[n]]
  BY DEF hkdf_expand
<1>2. \A n \in 1 .. len : okm[n].at = (n - 1) % 32 /\ okm[n].counters = CountersAt(n)
  BY DEF hkdf_expand, CountersAt
<1> HIDE DEF okm
<1>3. Len(okm) = len /\ okm \in Seq({okm[n] : n \in 1 .. len})
  BY <1>1, Given
<1> QED BY <1>1, <1>2, <1>3 DEF okm

LEMMA CountersApart ==
  ASSUME NEW i \in Nat \ {0}, NEW j \in Nat \ {0}, CountersAt(i) = CountersAt(j),
         (i - 1) % 32 = (j - 1) % 32
  PROVE  i = j
<1> DEFINE a == (i - 1) \div 32
           b == (j - 1) \div 32
<1>1. DOMAIN CountersAt(i) = 1 .. a + 1 /\ DOMAIN CountersAt(j) = 1 .. b + 1
  BY DEF CountersAt
<1>2. a \in Nat /\ b \in Nat
  OBVIOUS
<1>3. i - 1 = 32 * a + ((i - 1) % 32) /\ j - 1 = 32 * b + ((j - 1) % 32)
  OBVIOUS
<1> HIDE DEF a, b
<1>4. 1 .. a + 1 = 1 .. b + 1
  BY <1>1
<1>5. a + 1 \in 1 .. b + 1 /\ b + 1 \in 1 .. a + 1
  BY <1>2, <1>4
<1>6. a = b
  BY <1>2, <1>5
<1> QED BY <1>3, <1>6

(* The bytes of an expansion are apart, and it begins like a shorter one. *)
LEMMA Expanded ==
  ASSUME NEW prk, NEW info, NEW len \in Nat
  PROVE  LET okm == hkdf_expand(prk, info, len)
         IN  /\ Len(okm) = len /\ Cardinality(BytesOf(okm)) = len
             /\ len > 32 => SubSeq(okm, 1, 16) = hkdf_expand(prk, info, 16)
<1> DEFINE okm == hkdf_expand(prk, info, len)
<1>1. /\ DOMAIN okm = 1 .. len /\ Len(okm) = len
      /\ okm \in Seq({okm[n] : n \in 1 .. len})
      /\ \A n \in 1 .. len : okm[n].at = (n - 1) % 32 /\ okm[n].counters = CountersAt(n)
  BY ExpandedAt
<1>2. ASSUME len > 32 PROVE SubSeq(okm, 1, 16) = hkdf_expand(prk, info, 16)
  <2> DEFINE short == hkdf_expand(prk, info, 16)
             part == SubSeq(okm, 1, 16)
  <2>1. \A n \in 1 .. 16 : okm[n] = short[n]
    BY <1>2 DEF hkdf_expand
  <2>2. Len(short) = 16 /\ short \in Seq({short[n] : n \in 1 .. 16})
    <3>1. 16 \in Nat
      OBVIOUS
    <3>2. \A l \in Nat : /\ Len(hkdf_expand(prk, info, l)) = l
                         /\ hkdf_expand(prk, info, l)
                              \in Seq({hkdf_expand(prk, info, l)[n] : n \in 1 .. l})
      <4> TAKE l \in Nat
      <4> QED BY ExpandedAt
    <3> QED BY <3>1, <3>2, Zenon
  <2> HIDE DEF okm, short
  <2>3. Len(part) = 16 /\ part \in Seq({okm[n] : n \in 1 .. 16})
        /\ \A n \in 1 .. 16 : part[n] = okm[n]
    <3>1. /\ Len(part) = 16 - 1 + 1
          /\ \A n \in 1 .. 16 - 1 + 1 : part[n] = okm[1 + n - 1]
          /\ part \in Seq({okm[n] : n \in 1 .. 16})
      BY PartOf
    <3> HIDE DEF part
    <3>2. \A n \in 1 .. 16 : 1 + n - 1 = n
      OBVIOUS
    <3>3. 16 - 1 + 1 = 16
      OBVIOUS
    <3> QED BY <3>1, <3>2, <3>3
  <2>4. {okm[n] : n \in 1 .. 16} = {short[n] : n \in 1 .. 16}
    BY <2>1
  <2> HIDE DEF part
  <2>5. part \in Seq({short[n] : n \in 1 .. 16})
    BY <2>3, <2>4
  <2>6. \A n \in 1 .. Len(part) : part[n] = short[n]
    BY <2>1, <2>3
  <2>7. part = short
    BY <2>2, <2>3, <2>5, <2>6, SeqEqual
  <2> QED BY <2>7 DEF part, short, okm
<1> HIDE DEF okm
<1>3. \A i, j \in 1 .. len : okm[i] = okm[j] => i = j
  <2> SUFFICES ASSUME NEW i \in 1 .. len, NEW j \in 1 .. len, okm[i] = okm[j] PROVE i = j
    OBVIOUS
  <2>1. okm[i].at = (i - 1) % 32 /\ okm[j].at = (j - 1) % 32
    BY <1>1, Zenon
  <2>2. okm[i].counters = CountersAt(i) /\ okm[j].counters = CountersAt(j)
    BY <1>1, Zenon
  <2>3. CountersAt(i) = CountersAt(j) /\ (i - 1) % 32 = (j - 1) % 32
    BY <2>1, <2>2, Zenon
  <2>4. i \in Nat \ {0} /\ j \in Nat \ {0}
    OBVIOUS
  <2> QED BY <2>3, <2>4, CountersApart
<1>4. Cardinality({okm[n] : n \in 1 .. len}) = len
  BY <1>3, AllApart
<1>5. BytesOf(okm) = {okm[n] : n \in 1 .. len}
  BY <1>1, Zenon DEF BytesOf
<1> QED BY <1>1, <1>2, <1>4, <1>5 DEF okm

(***************************************************************************)
(* The context and its derivations.                                         *)
(***************************************************************************)

Pair(a, b) == {a, b}

(* The code of a pairwise key. *)
Code(pmk, a, b) ==
  wpa2_prf(pmk, "Pairwise key expansion",
           <<Lower(7, 5), Higher(7, 5), Lower(a, b), Higher(a, b)>>, 48)

IsDerivation(d) == \E a \in Nat, b \in Nat : d.nonces = Pair(a, b) /\ d.tk = Code(d.pmk, a, b)[33]

KhFields == {"pmk", "is_valid", "gmk", "ptk", "gtk", "supplicant_mac", "authenticator_mac",
             "anonce", "snonce", "ssid", "cipher_suite", "rekey_counter"}

CtxInv(ctx) ==
  /\ DOMAIN ctx = KhFields
  /\ ctx.authenticator_mac = 7 /\ ctx.supplicant_mac = 5
  /\ ctx.anonce \in Nat /\ ctx.snonce \in Nat /\ ctx.rekey_counter \in Nat
  /\ \A x \in BytesOf(ctx.ptk.tk) : x.label # "Group key expansion"
  /\ ctx.rekey_counter > 0 => \A x \in BytesOf(ctx.gtk) : x.label = "Group key expansion"

PtkApart(ptk) == Cardinality(BytesOf(ptk.kck) \cup BytesOf(ptk.kek) \cup BytesOf(ptk.tk)) = 48

KhInv ==
  /\ DOMAIN kh = {"ctx", "last", "before", "okm", "stopped"}
  /\ CtxInv(kh.ctx)
  /\ \A d \in kh.last : IsDerivation(d)
  /\ \A d \in kh.before : IsDerivation(d)
  /\ kh.last # {} => PtkApart(kh.ctx.ptk)
  /\ ExpansionFresh

LEMMA InOrder ==
  ASSUME NEW a \in Nat, NEW b \in Nat, NEW c \in Nat, NEW d \in Nat
  PROVE  (Lower(a, b) = Lower(c, d) /\ Higher(a, b) = Higher(c, d)) <=> Pair(a, b) = Pair(c, d)
<1>1. ASSUME Lower(a, b) = Lower(c, d), Higher(a, b) = Higher(c, d) PROVE Pair(a, b) = Pair(c, d)
  <2>1. (a = c /\ b = d) \/ (a = d /\ b = c)
    BY <1>1 DEF Lower, Higher
  <2> QED BY <2>1, Zenon DEF Pair
<1>2. ASSUME Pair(a, b) = Pair(c, d) PROVE Lower(a, b) = Lower(c, d) /\ Higher(a, b) = Higher(c, d)
  <2>1. (a = c /\ b = d) \/ (a = d /\ b = c)
    BY <1>2, Zenon DEF Pair
  <2> QED BY <2>1 DEF Lower, Higher
<1> QED BY <1>1, <1>2

(* Two codes have one byte in a place when their inputs agree. *)
LEMMA CodesAgree ==
  ASSUME NEW p, NEW q, NEW a \in Nat, NEW b \in Nat, NEW c \in Nat, NEW d \in Nat
  PROVE  (Code(p, a, b)[33] = Code(q, c, d)[33]) <=> (p = q /\ Pair(a, b) = Pair(c, d))
<1> DEFINE x == Code(p, a, b)[33]
           y == Code(q, c, d)[33]
<1>1. /\ x.key = p /\ x.context = <<Lower(7, 5), Higher(7, 5), Lower(a, b), Higher(a, b)>>
      /\ y.key = q /\ y.context = <<Lower(7, 5), Higher(7, 5), Lower(c, d), Higher(c, d)>>
  <2> DEFINE one == <<Lower(7, 5), Higher(7, 5), Lower(a, b), Higher(a, b)>>
             two == <<Lower(7, 5), Higher(7, 5), Lower(c, d), Higher(c, d)>>
  <2>1. x = wpa2_prf(p, "Pairwise key expansion", one, 48)[33]
        /\ y = wpa2_prf(q, "Pairwise key expansion", two, 48)[33]
    BY Zenon DEF Code
  <2> HIDE DEF one, two, x, y
  <2>2. x.key = p /\ x.context = one /\ y.key = q /\ y.context = two
    <3> DEFINE raw == wpa2_prf(p, "Pairwise key expansion", one, 48)
               war == wpa2_prf(q, "Pairwise key expansion", two, 48)
    <3>1. \A n \in 1 .. 48 : raw[n].key = p /\ raw[n].context = one
      BY DEF wpa2_prf
    <3>2. \A n \in 1 .. 48 : war[n].key = q /\ war[n].context = two
      BY DEF wpa2_prf
    <3> HIDE DEF raw, war
    <3>3. raw[33].key = p /\ raw[33].context = one /\ war[33].key = q /\ war[33].context = two
      BY <3>1, <3>2
    <3> QED BY <2>1, <3>3, Zenon DEF raw, war
  <2> QED BY <2>2 DEF one, two
<1>2. ASSUME p = q, Pair(a, b) = Pair(c, d) PROVE x = y
  <2>1. Lower(a, b) = Lower(c, d) /\ Higher(a, b) = Higher(c, d)
    <3>1. (Lower(a, b) = Lower(c, d) /\ Higher(a, b) = Higher(c, d)) <=> Pair(a, b) = Pair(c, d)
      BY InOrder
    <3> QED BY <1>2, <3>1, Zenon
  <2> QED BY <1>2, <2>1, Zenon DEF Code
<1> HIDE DEF x, y
<1>3. ASSUME x = y PROVE p = q /\ Pair(a, b) = Pair(c, d)
  <2>1. p = q /\ Lower(a, b) = Lower(c, d) /\ Higher(a, b) = Higher(c, d)
    BY <1>1, <1>3
  <2>2. (Lower(a, b) = Lower(c, d) /\ Higher(a, b) = Higher(c, d)) <=> Pair(a, b) = Pair(c, d)
    BY InOrder
  <2> QED BY <2>1, <2>2, Zenon
<1> QED BY <1>2, <1>3 DEF x, y

LEMMA KhInvSuffices == KhInv => HierarchySound
<1> SUFFICES ASSUME KhInv PROVE HierarchySound
  OBVIOUS
<1>1. ASSUME NEW d \in kh.last, NEW e \in kh.before
      PROVE  (d.tk = e.tk) <=> (d.pmk = e.pmk /\ d.nonces = e.nonces)
  <2>1. PICK a \in Nat, b \in Nat : d.nonces = Pair(a, b) /\ d.tk = Code(d.pmk, a, b)[33]
    BY Zenon DEF KhInv, IsDerivation
  <2>2. PICK f \in Nat, g \in Nat : e.nonces = Pair(f, g) /\ e.tk = Code(e.pmk, f, g)[33]
    BY Zenon DEF KhInv, IsDerivation
  <2>3. (Code(d.pmk, a, b)[33] = Code(e.pmk, f, g)[33]) <=> (d.pmk = e.pmk /\ Pair(a, b) = Pair(f, g))
    BY CodesAgree
  <2> QED BY <2>1, <2>2, <2>3, Zenon
<1>2. KeysAgree
  BY <1>1, Zenon DEF KeysAgree, KhInv, PtkApart, PTK_LEN
<1>3. GroupApart
  BY Zenon DEF GroupApart, KhInv, CtxInv, key_mgmt_get_gtk, key_mgmt_get_tk
<1> QED BY <1>2, <1>3 DEF HierarchySound, KhInv

(* A step that changes the context, and none of its pairwise key. *)
LEMMA CtxOnly ==
  ASSUME KhInv, DOMAIN kh' = {"ctx", "last", "before", "okm", "stopped"},
         kh'.last = kh.last, kh'.before = kh.before, kh'.okm = kh.okm,
         CtxInv(kh'.ctx), kh'.ctx.ptk = kh.ctx.ptk
  PROVE  KhInv'
<1>1. ExpansionFresh'
  BY Zenon DEF KhInv, ExpansionFresh
<1>2. /\ \A d \in kh.last : IsDerivation(d)
      /\ \A d \in kh.before : IsDerivation(d)
      /\ kh.last # {} => PtkApart(kh.ctx.ptk)
  BY DEF KhInv
<1>3. /\ \A d \in kh'.last : IsDerivation(d)
      /\ \A d \in kh'.before : IsDerivation(d)
      /\ kh'.last # {} => PtkApart(kh'.ctx.ptk)
  BY <1>2, Zenon
<1> QED BY <1>1, <1>3, Zenon DEF KhInv

(* The context with another master key or nonce. *)
LEMMA CtxKept ==
  ASSUME NEW c, CtxInv(c), NEW d, DOMAIN d = KhFields, d.anonce \in Nat, d.snonce \in Nat,
         d.authenticator_mac = c.authenticator_mac, d.supplicant_mac = c.supplicant_mac,
         d.rekey_counter = c.rekey_counter, d.ptk = c.ptk, d.gtk = c.gtk
  PROVE  CtxInv(d)
  BY Zenon DEF CtxInv

LEMMA KhInvInit == KhInit => KhInv
<1> SUFFICES ASSUME KhInit PROVE KhInv
  OBVIOUS
<1> DEFINE ctx == KhContext
<1>1. /\ DOMAIN ctx = KhFields
      /\ ctx.authenticator_mac = 7 /\ ctx.supplicant_mac = 5
      /\ ctx.anonce = 0 /\ ctx.snonce = 0 /\ ctx.rekey_counter = 0 /\ ctx.ptk = NoPtk
  <2> DEFINE no == FALSE
  <2>1. ctx = [[pmk |-> NoPmk, is_valid |-> no, gmk |-> NoPmk, ptk |-> NoPtk, gtk |-> NoGtk,
                supplicant_mac |-> 0, authenticator_mac |-> 0, anonce |-> 0, snonce |-> 0,
                ssid |-> <<>>, cipher_suite |-> CIPHER_SUITE.CCMP, rekey_counter |-> 0]
               EXCEPT !.authenticator_mac = 7, !.supplicant_mac = 5, !.ssid = <<1>>]
    BY Zenon DEF KhContext, key_mgmt_init
  <2> HIDE DEF no, ctx
  <2> QED BY <2>1 DEF KhFields
<1>2. \A x \in BytesOf(NoPtk.tk) : x.label # "Group key expansion"
  <2> DEFINE tk == NoPtk.tk
  <2>1. tk = [b \in 1 .. 16 |-> [key |-> NoPmk, label |-> "", context |-> <<>>, i |-> 0, at |-> 0]]
    BY DEF NoPtk, ZeroBytes, TK_LEN
  <2> HIDE DEF tk
  <2>2. DOMAIN tk = 1 .. 16 /\ tk = [b \in 1 .. 16 |-> tk[b]]
    BY <2>1
  <2>3. Len(tk) = 16
    BY <2>2, Given
  <2>4. \A b \in 1 .. 16 : tk[b].label # "Group key expansion"
    BY <2>1
  <2>5. \A x \in BytesOf(tk) : x.label # "Group key expansion"
    BY <2>3, <2>4, Zenon DEF BytesOf
  <2> QED BY <2>5 DEF tk
<1> HIDE DEF ctx
<1>3. CtxInv(ctx)
  <2>1. \A x \in BytesOf(ctx.ptk.tk) : x.label # "Group key expansion"
    BY <1>1, <1>2, Zenon
  <2>2. ctx.anonce \in Nat /\ ctx.snonce \in Nat /\ ctx.rekey_counter \in Nat
        /\ ~(ctx.rekey_counter > 0)
    BY <1>1
  <2> QED BY <1>1, <2>1, <2>2, Zenon DEF CtxInv
<1>4. kh.ctx = ctx /\ kh.last = {} /\ kh.before = {} /\ kh.okm = <<>>
      /\ DOMAIN kh = {"ctx", "last", "before", "okm", "stopped"}
  <2> DEFINE no == FALSE
  <2>1. kh = [ctx |-> ctx, last |-> {}, before |-> {}, okm |-> <<>>, stopped |-> no]
    BY Zenon DEF KhInit, ctx
  <2> HIDE DEF no
  <2> QED BY <2>1
<1>5. ExpansionFresh
  <2>1. Len(kh.okm) = 0
    BY <1>4
  <2>2. BytesOf(kh.okm) = {}
    BY <2>1 DEF BytesOf
  <2>3. Cardinality({}) = 0
    BY FS_EmptySet
  <2> QED BY <2>1, <2>2, <2>3 DEF ExpansionFresh
<1> QED BY <1>3, <1>4, <1>5, Zenon DEF KhInv

LEMMA SetPskKeeps == KhInv /\ KhSetPsk => KhInv'
<1> SUFFICES ASSUME KhInv, NEW psk, kh' = [kh EXCEPT !.ctx = key_mgmt_set_psk(@, psk)] PROVE KhInv'
  BY Zenon DEF KhSetPsk
<1> DEFINE old == kh.ctx
           new == key_mgmt_set_psk(old, psk)
<1>1. /\ DOMAIN new = KhFields /\ new.anonce = old.anonce /\ new.snonce = old.snonce
      /\ new.authenticator_mac = old.authenticator_mac /\ new.supplicant_mac = old.supplicant_mac
      /\ new.rekey_counter = old.rekey_counter /\ new.ptk = old.ptk /\ new.gtk = old.gtk
  <2> DEFINE yes == TRUE
  <2>1. new = old \/ new = [old EXCEPT !.pmk = Direct(psk), !.is_valid = yes]
    BY Zenon DEF key_mgmt_set_psk
  <2>2. DOMAIN old = KhFields
    BY DEF KhInv, CtxInv
  <2> HIDE DEF yes, old, new
  <2> QED BY <2>1, <2>2 DEF KhFields
<1>2. CtxInv(new)
  <2>1. CtxInv(old) /\ old.anonce \in Nat /\ old.snonce \in Nat
    BY DEF KhInv, CtxInv
  <2> HIDE DEF old, new
  <2> QED BY <1>1, <2>1, CtxKept
<1>3. kh' = [kh EXCEPT !.ctx = new]
  BY Zenon
<1> HIDE DEF new
<1>4. /\ DOMAIN kh' = {"ctx", "last", "before", "okm", "stopped"} /\ kh'.ctx = new
      /\ kh'.last = kh.last /\ kh'.before = kh.before /\ kh'.okm = kh.okm
  BY <1>3 DEF KhInv
<1> QED BY <1>1, <1>2, <1>4, CtxOnly

LEMMA PassphraseKeeps == KhInv /\ KhPassphrase => KhInv'
<1> SUFFICES ASSUME KhInv, NEW text,
                    kh' = [kh EXCEPT !.ctx = key_mgmt_derive_from_passphrase(@, text)]
             PROVE  KhInv'
  BY Zenon DEF KhPassphrase
<1> DEFINE old == kh.ctx
           new == key_mgmt_derive_from_passphrase(old, text)
<1>1. /\ DOMAIN new = KhFields /\ new.anonce = old.anonce /\ new.snonce = old.snonce
      /\ new.authenticator_mac = old.authenticator_mac /\ new.supplicant_mac = old.supplicant_mac
      /\ new.rekey_counter = old.rekey_counter /\ new.ptk = old.ptk /\ new.gtk = old.gtk
  <2> DEFINE yes == TRUE
  <2>1. new = old \/ new = [old EXCEPT !.pmk = Passphrase(text, old.ssid), !.is_valid = yes]
    BY Zenon DEF key_mgmt_derive_from_passphrase
  <2>2. DOMAIN old = KhFields
    BY DEF KhInv, CtxInv
  <2> HIDE DEF yes, old, new
  <2> QED BY <2>1, <2>2 DEF KhFields
<1>2. CtxInv(new)
  <2>1. CtxInv(old) /\ old.anonce \in Nat /\ old.snonce \in Nat
    BY DEF KhInv, CtxInv
  <2> HIDE DEF old, new
  <2> QED BY <1>1, <2>1, CtxKept
<1>3. kh' = [kh EXCEPT !.ctx = new]
  BY Zenon
<1> HIDE DEF new
<1>4. /\ DOMAIN kh' = {"ctx", "last", "before", "okm", "stopped"} /\ kh'.ctx = new
      /\ kh'.last = kh.last /\ kh'.before = kh.before /\ kh'.okm = kh.okm
  BY <1>3 DEF KhInv
<1> QED BY <1>1, <1>2, <1>4, CtxOnly

LEMMA NonceKeeps == KhInv /\ KhSetNonce => KhInv'
<1> SUFFICES ASSUME KhInv, NEW n \in KhNonces, NEW which \in {"anonce", "snonce"},
                    kh' = [kh EXCEPT !.ctx[which] = n]
             PROVE  KhInv'
  BY Zenon DEF KhSetNonce
<1> DEFINE old == kh.ctx
           new == [old EXCEPT ![which] = n]
<1>1. /\ DOMAIN new = KhFields /\ new.anonce \in Nat /\ new.snonce \in Nat
      /\ new.authenticator_mac = old.authenticator_mac /\ new.supplicant_mac = old.supplicant_mac
      /\ new.rekey_counter = old.rekey_counter /\ new.ptk = old.ptk /\ new.gtk = old.gtk
  <2>1. DOMAIN old = KhFields /\ old.anonce \in Nat /\ old.snonce \in Nat
    BY DEF KhInv, CtxInv
  <2>2. n \in Nat
    BY KhAssumption
  <2> HIDE DEF old
  <2> QED BY <2>1, <2>2 DEF KhFields
<1>2. CtxInv(new)
  <2>1. CtxInv(old)
    BY DEF KhInv
  <2> HIDE DEF old, new
  <2> QED BY <1>1, <2>1, CtxKept
<1>3. kh' = [kh EXCEPT !.ctx = new]
  BY Zenon
<1> HIDE DEF new
<1>4. /\ DOMAIN kh' = {"ctx", "last", "before", "okm", "stopped"} /\ kh'.ctx = new
      /\ kh'.last = kh.last /\ kh'.before = kh.before /\ kh'.okm = kh.okm
  BY <1>3 DEF KhInv
<1> QED BY <1>1, <1>2, <1>4, CtxOnly

(* The parts of a pairwise key. *)
PtkOf(raw) == [kck |-> SubSeq(raw, 1, 16), kek |-> SubSeq(raw, 17, 32), tk |-> SubSeq(raw, 33, 48)]

LEMMA Parted ==
  ASSUME NEW pmk, NEW a \in Nat, NEW b \in Nat
  PROVE  LET raw == Code(pmk, a, b)
         IN  /\ PtkApart(PtkOf(raw)) /\ PtkOf(raw).tk[1] = raw[33]
             /\ \A x \in BytesOf(PtkOf(raw).tk) : x.label # "Group key expansion"
<1> DEFINE raw == Code(pmk, a, b)
           ptk == PtkOf(raw)
<1>1. Cardinality({raw[n] : n \in 1 .. 48}) = 48
  <2> DEFINE context == <<Lower(7, 5), Higher(7, 5), Lower(a, b), Higher(a, b)>>
             label == "Pairwise key expansion"
  <2>1. raw = wpa2_prf(pmk, label, context, 48)
    BY Zenon DEF Code
  <2> HIDE DEF raw, context, label
  <2>2. Cardinality({wpa2_prf(pmk, label, context, 48)[n] : n \in 1 .. 48}) = 48
    BY CodeApart
  <2> QED BY <2>1, <2>2, Zenon
<1>2. \A n \in 1 .. 48 : raw[n].label = "Pairwise key expansion"
  BY DEF Code, wpa2_prf
<1> HIDE DEF raw
<1>3. ptk.kck = SubSeq(raw, 1, 16) /\ ptk.kek = SubSeq(raw, 17, 32) /\ ptk.tk = SubSeq(raw, 33, 48)
  BY DEF PtkOf
<1> HIDE DEF ptk
<1>4. /\ BytesOf(SubSeq(raw, 1, 16)) = {raw[i] : i \in 1 .. 16}
      /\ BytesOf(SubSeq(raw, 17, 32)) = {raw[i] : i \in 17 .. 32}
      /\ BytesOf(SubSeq(raw, 33, 48)) = {raw[i] : i \in 33 .. 48}
  <2>1. BytesOf(SubSeq(raw, 1, 16)) = {raw[i] : i \in 1 .. 16}
    BY BytesOfPart
  <2>2. BytesOf(SubSeq(raw, 17, 32)) = {raw[i] : i \in 17 .. 32}
    BY BytesOfPart
  <2>3. BytesOf(SubSeq(raw, 33, 48)) = {raw[i] : i \in 33 .. 48}
    BY BytesOfPart
  <2> QED BY <2>1, <2>2, <2>3, Zenon
<1>5. {raw[i] : i \in 1 .. 16} \cup {raw[i] : i \in 17 .. 32} \cup {raw[i] : i \in 33 .. 48}
      = {raw[i] : i \in 1 .. 48}
  <2>1. \A i : i \in 1 .. 48 <=> (i \in 1 .. 16 \/ i \in 17 .. 32 \/ i \in 33 .. 48)
    OBVIOUS
  <2> DEFINE I == 1 .. 16
             J == 17 .. 32
             K == 33 .. 48
             A == 1 .. 48
  <2> HIDE DEF I, J, K, A
  <2>2. {raw[i] : i \in I} \cup {raw[i] : i \in J} \cup {raw[i] : i \in K} = {raw[i] : i \in A}
    BY <2>1 DEF I, J, K, A
  <2> QED BY <2>2 DEF I, J, K, A
<1>6. PtkApart(ptk)
  BY <1>1, <1>3, <1>4, <1>5, Zenon DEF PtkApart
<1>7. ptk.tk[1] = raw[33]
  <2>1. \A i \in 1 .. 48 - 33 + 1 : SubSeq(raw, 33, 48)[i] = raw[33 + i - 1]
    BY PartOf
  <2> QED BY <1>3, <2>1
<1>8. \A x \in BytesOf(ptk.tk) : x.label # "Group key expansion"
  <2>1. BytesOf(ptk.tk) = {raw[i] : i \in 33 .. 48}
    BY <1>3, <1>4, Zenon
  <2>2. \A i \in 33 .. 48 : i \in 1 .. 48
    OBVIOUS
  <2>3. \A i \in 33 .. 48 : raw[i].label # "Group key expansion"
    BY <1>2, <2>2
  <2> QED BY <2>1, <2>3, Zenon
<1> QED BY <1>6, <1>7, <1>8 DEF raw, ptk

(* The parts do not depend on how many more bytes are derived. *)
LEMMA Beyond ==
  ASSUME NEW pmk, NEW context
  PROVE  PtkOf(wpa2_prf(pmk, "Pairwise key expansion", context, 64))
         = PtkOf(wpa2_prf(pmk, "Pairwise key expansion", context, 48))
<1> DEFINE Bytes(n) == [key |-> pmk, label |-> "Pairwise key expansion", context |-> context,
                        i |-> ((n - 1) \div 20) % 256, at |-> (n - 1) % 20]
           long == [n \in 1 .. 64 |-> Bytes(n)]
           short == [n \in 1 .. 48 |-> Bytes(n)]
<1>1. wpa2_prf(pmk, "Pairwise key expansion", context, 64) = long
      /\ wpa2_prf(pmk, "Pairwise key expansion", context, 48) = short
  BY Zenon DEF wpa2_prf
<1> HIDE DEF Bytes
<1>2. /\ SubSeq(long, 1, 16) = SubSeq(short, 1, 16)
      /\ SubSeq(long, 17, 32) = SubSeq(short, 17, 32)
      /\ SubSeq(long, 33, 48) = SubSeq(short, 33, 48)
  OBVIOUS
<1> HIDE DEF long, short
<1>3. PtkOf(long) = PtkOf(short)
  BY <1>2, Zenon DEF PtkOf
<1> QED BY <1>1, <1>3, Zenon

LEMMA DeriveKeeps ==
  ASSUME KhInv, kh.ctx.is_valid,
         kh' = [kh EXCEPT !.ctx = derive_ptk(kh.ctx), !.last = {KhDerivation(derive_ptk(kh.ctx))},
                          !.before = kh.last]
  PROVE  KhInv'
<1> DEFINE old == kh.ctx
           new == derive_ptk(old)
<1> DEFINE p == old.pmk
           a == old.anonce
           b == old.snonce
           raw == Code(p, a, b)
           ptk == PtkOf(raw)
<1>1. /\ DOMAIN old = KhFields /\ a \in Nat /\ b \in Nat /\ CtxInv(old)
      /\ old.authenticator_mac = 7 /\ old.supplicant_mac = 5
  BY DEF KhInv, CtxInv
<1>2. new = [old EXCEPT !.ptk = ptk]
  <2>1. KCK_LEN + 1 = 17 /\ KCK_LEN + KEK_LEN = 32 /\ KCK_LEN + KEK_LEN + 1 = 33
        /\ KCK_LEN = 16 /\ PTK_LEN = 48
    BY DEF KCK_LEN, KEK_LEN, PTK_LEN
  <2> DEFINE context == <<Lower(7, 5), Higher(7, 5), Lower(a, b), Higher(a, b)>>
             long == wpa2_prf(p, "Pairwise key expansion", context, PtkTotal(old))
  <2>2. PtkTotal(old) \in {48, 64}
    BY DEF PtkTotal, PTK_LEN, PTK_LEN_TKIP
  <2>3. PtkOf(long) = ptk
    <3> DEFINE Parts(n) == PtkOf(wpa2_prf(p, "Pairwise key expansion", context, n))
    <3>1. Parts(64) = Parts(48)
      BY Beyond
    <3> HIDE DEF Parts
    <3>2. \A n \in {48, 64} : Parts(n) = Parts(48)
      BY <3>1
    <3>3. Parts(PtkTotal(old)) = Parts(48)
      BY <2>2, <3>2, Zenon
    <3> QED BY <3>3, Zenon DEF Parts, Code
  <2>4. new = [old EXCEPT !.ptk = PtkOf(long)]
    BY <1>1, <2>1, Zenon DEF derive_ptk, PtkOf
  <2> QED BY <2>3, <2>4, Zenon
<1>3. /\ PtkApart(ptk) /\ ptk.tk[1] = raw[33]
      /\ \A x \in BytesOf(ptk.tk) : x.label # "Group key expansion"
  BY <1>1, Parted
<1> DEFINE d == KhDerivation(new)
<1>4. d.tk = new.ptk.tk[1] /\ d.pmk = new.pmk /\ d.nonces = {new.anonce, new.snonce}
  BY DEF KhDerivation, key_mgmt_get_tk
<1> HIDE DEF new, ptk, old, d
<1>5. /\ DOMAIN new = KhFields /\ new.ptk = ptk /\ new.pmk = p /\ new.anonce = a /\ new.snonce = b
      /\ new.authenticator_mac = old.authenticator_mac /\ new.supplicant_mac = old.supplicant_mac
      /\ new.rekey_counter = old.rekey_counter /\ new.gtk = old.gtk
  BY <1>1, <1>2 DEF KhFields
<1>6. CtxInv(new)
  BY <1>1, <1>3, <1>5, Zenon DEF CtxInv
<1>7. IsDerivation(d)
  <2>1. d.nonces = Pair(a, b) /\ d.tk = raw[33] /\ d.pmk = p
    BY <1>3, <1>4, <1>5, Zenon DEF Pair
  <2>2. d.nonces = Pair(a, b) /\ d.tk = Code(d.pmk, a, b)[33]
    BY <2>1, Zenon
  <2> QED BY <1>1, <2>2, Zenon DEF IsDerivation
<1>8. /\ DOMAIN kh' = {"ctx", "last", "before", "okm", "stopped"} /\ kh'.ctx = new
      /\ kh'.last = {d} /\ kh'.before = kh.last /\ kh'.okm = kh.okm
  <2>1. kh' = [kh EXCEPT !.ctx = new, !.last = {d}, !.before = kh.last]
    BY Zenon DEF d, new, old
  <2> QED BY <2>1 DEF KhInv
<1>9. ExpansionFresh'
  BY <1>8, Zenon DEF KhInv, ExpansionFresh
<1>10. /\ \A e \in kh'.last : IsDerivation(e)
       /\ \A e \in kh'.before : IsDerivation(e)
       /\ PtkApart(kh'.ctx.ptk)
  <2>1. \A e \in kh.last : IsDerivation(e)
    BY DEF KhInv
  <2> QED BY <1>3, <1>5, <1>7, <1>8, <2>1, Zenon
<1> QED BY <1>6, <1>8, <1>9, <1>10, Zenon DEF KhInv

(* A derivation that stops the program, and another suite. *)
LEMMA StopKeeps == ASSUME KhInv, kh' = [kh EXCEPT !.stopped = TRUE] PROVE KhInv'
<1> DEFINE yes == TRUE
<1>1. kh' = [kh EXCEPT !.stopped = yes]
  OBVIOUS
<1> HIDE DEF yes
<1>2. /\ DOMAIN kh' = {"ctx", "last", "before", "okm", "stopped"} /\ kh'.ctx = kh.ctx
      /\ kh'.last = kh.last /\ kh'.before = kh.before /\ kh'.okm = kh.okm
  BY <1>1 DEF KhInv
<1>3. CtxInv(kh'.ctx) /\ kh'.ctx.ptk = kh.ctx.ptk
  BY <1>2, Zenon DEF KhInv
<1> QED BY <1>2, <1>3, CtxOnly

LEMMA CipherKeeps == KhInv /\ KhSetCipher => KhInv'
<1> SUFFICES ASSUME KhInv, NEW suite, kh' = [kh EXCEPT !.ctx.cipher_suite = suite]
             PROVE  KhInv'
  BY Zenon DEF KhSetCipher
<1> DEFINE old == kh.ctx
           new == [old EXCEPT !.cipher_suite = suite]
<1>1. /\ DOMAIN new = KhFields /\ new.anonce \in Nat /\ new.snonce \in Nat
      /\ new.authenticator_mac = old.authenticator_mac /\ new.supplicant_mac = old.supplicant_mac
      /\ new.rekey_counter = old.rekey_counter /\ new.ptk = old.ptk /\ new.gtk = old.gtk
  <2>1. DOMAIN old = KhFields /\ old.anonce \in Nat /\ old.snonce \in Nat
    BY DEF KhInv, CtxInv
  <2> HIDE DEF old
  <2> QED BY <2>1 DEF KhFields
<1>2. CtxInv(new)
  <2>1. CtxInv(old)
    BY DEF KhInv
  <2> HIDE DEF old, new
  <2> QED BY <1>1, <2>1, CtxKept
<1>3. kh' = [kh EXCEPT !.ctx = new]
  BY Zenon
<1> HIDE DEF new
<1>4. /\ DOMAIN kh' = {"ctx", "last", "before", "okm", "stopped"} /\ kh'.ctx = new
      /\ kh'.last = kh.last /\ kh'.before = kh.before /\ kh'.okm = kh.okm
  BY <1>3 DEF KhInv
<1> QED BY <1>1, <1>2, <1>4, CtxOnly

LEMMA RekeyKeeps == KhInv /\ KhRekey => KhInv'
<1> SUFFICES ASSUME KhInv, NEW g, kh' = [kh EXCEPT !.ctx = key_mgmt_rekey(@, g)] PROVE KhInv'
  BY Zenon DEF KhRekey
<1> DEFINE old == kh.ctx
           mac == old.authenticator_mac
           gtk == wpa2_prf(old.gmk, "Group key expansion", <<mac, g>>, 32)
           new == key_mgmt_rekey(old, g)
<1>1. DOMAIN old = KhFields /\ CtxInv(old) /\ old.rekey_counter \in Nat
  BY DEF KhInv, CtxInv
<1>2. new = [[old EXCEPT !.gtk = gtk] EXCEPT !.rekey_counter = @ + 1]
  BY Zenon DEF key_mgmt_rekey, derive_gtk, GTK_LEN
<1>3. \A x \in BytesOf(gtk) : x.label = "Group key expansion"
  <2> DEFINE context == <<mac, g>>
  <2> HIDE DEF context
  <2>1. gtk = wpa2_prf(old.gmk, "Group key expansion", context, 32)
    BY Zenon DEF context
  <2> HIDE DEF gtk
  <2>2. DOMAIN gtk = 1 .. 32 /\ gtk = [n \in 1 .. 32 |-> gtk[n]]
        /\ \A n \in 1 .. 32 : gtk[n].label = "Group key expansion"
    BY <2>1 DEF wpa2_prf
  <2>3. Len(gtk) = 32
    BY <2>2, Given
  <2>4. BytesOf(gtk) = {gtk[n] : n \in 1 .. 32}
    BY <2>3, Zenon DEF BytesOf
  <2> QED BY <2>2, <2>4
<1> HIDE DEF old, gtk, new
<1>4. /\ DOMAIN new = KhFields /\ new.gtk = gtk /\ new.rekey_counter = old.rekey_counter + 1
      /\ new.anonce = old.anonce /\ new.snonce = old.snonce /\ new.ptk = old.ptk
      /\ new.authenticator_mac = old.authenticator_mac /\ new.supplicant_mac = old.supplicant_mac
  BY <1>1, <1>2 DEF KhFields
<1>5. CtxInv(new)
  <2>1. new.rekey_counter \in Nat
    BY <1>1, <1>4
  <2> QED BY <1>1, <1>3, <1>4, <2>1, Zenon DEF CtxInv
<1>6. kh' = [kh EXCEPT !.ctx = new]
  BY Zenon DEF new, old
<1>7. /\ DOMAIN kh' = {"ctx", "last", "before", "okm", "stopped"} /\ kh'.ctx = new
      /\ kh'.last = kh.last /\ kh'.before = kh.before /\ kh'.okm = kh.okm
  BY <1>6 DEF KhInv
<1>8. new.ptk = kh.ctx.ptk
  BY <1>4 DEF old
<1> QED BY <1>5, <1>7, <1>8, CtxOnly

LEMMA ExpandKeeps == KhInv /\ KhExpand => KhInv'
<1> DEFINE Expanding(len) == kh' = [kh EXCEPT !.okm = hkdf(<<>>, <<1>>, <<2>>, len)]
<1> SUFFICES ASSUME KhInv, NEW len \in {16, 33, 64}, Expanding(len)
             PROVE  KhInv'
  BY Zenon DEF KhExpand
<1> DEFINE prk == hkdf_extract(<<>>, <<1>>)
           info == <<2>>
           okm == hkdf_expand(prk, info, len)
<1>1. kh' = [kh EXCEPT !.okm = okm]
  BY Zenon DEF hkdf
<1>2. Len(okm) = len /\ Cardinality(BytesOf(okm)) = len
      /\ (len > 32 => SubSeq(okm, 1, 16) = hkdf_expand(prk, info, 16))
  <2>1. len \in Nat
    OBVIOUS
  <2> HIDE DEF prk, info
  <2> QED BY <2>1, Expanded
<1>3. prk = hkdf_extract(Zeros(32), <<1>>)
  <2> DEFINE zeros == Zeros(32)
  <2>1. zeros # <<>>
    <3>1. 1 \in DOMAIN zeros
      BY DEF Zeros
    <3>2. DOMAIN <<>> = {}
      OBVIOUS
    <3> QED BY <3>1, <3>2
  <2> HIDE DEF zeros
  <2>2. hkdf_extract(<<>>, <<1>>) = hkdf_extract(zeros, <<1>>)
    BY <2>1, Zenon DEF hkdf_extract, zeros
  <2> QED BY <2>2 DEF zeros
<1> HIDE DEF okm
<1>4. kh'.okm = okm /\ kh'.ctx = kh.ctx /\ kh'.last = kh.last /\ kh'.before = kh.before
      /\ DOMAIN kh' = {"ctx", "last", "before", "okm", "stopped"}
  BY <1>1 DEF KhInv
<1>5. hkdf_expand(prk, info, 16) = hkdf(Zeros(32), <<1>>, <<2>>, 16)
  BY <1>3, Zenon DEF hkdf
<1>6. ExpansionFresh'
  <2>1. kh'.okm = okm
    BY <1>4
  <2>2. Cardinality(BytesOf(okm)) = Len(okm)
    BY <1>2, Zenon
  <2>3. Len(okm) > 32 => SubSeq(okm, 1, 16) = hkdf(Zeros(32), <<1>>, <<2>>, 16)
    BY <1>2, <1>5, Zenon
  <2> QED BY <2>1, <2>2, <2>3, Zenon DEF ExpansionFresh
<1>7. /\ CtxInv(kh.ctx)
      /\ \A d \in kh.last : IsDerivation(d)
      /\ \A d \in kh.before : IsDerivation(d)
      /\ kh.last # {} => PtkApart(kh.ctx.ptk)
  BY DEF KhInv
<1>8. /\ CtxInv(kh'.ctx)
      /\ \A d \in kh'.last : IsDerivation(d)
      /\ \A d \in kh'.before : IsDerivation(d)
      /\ kh'.last # {} => PtkApart(kh'.ctx.ptk)
  BY <1>4, <1>7, Zenon
<1> QED BY <1>4, <1>6, <1>8, Zenon DEF KhInv

(* The key hierarchy: the same keys from the same master key and nonces, in
   whichever order and for whichever suite, and from others never, as far as a
   derivation for TKIP does not stop the program; the parts of a key apart from each
   other and from every group key; expansions without a repetition - for
   every set of nonces and every number of new group keys. *)
THEOREM HierarchyHolds == KhSpec => []HierarchySound
<1>1. KhInit => KhInv
  BY KhInvInit
<1>2. KhInv /\ [KhNext]_kh => KhInv'
  <2>1. KhInv /\ UNCHANGED kh => KhInv'
    BY Zenon DEF KhInv, ExpansionFresh
  <2>2. KhInv /\ KhDerive => KhInv'
    BY DeriveKeeps, StopKeeps, Zenon DEF KhDerive
  <2> QED BY <2>1, <2>2, SetPskKeeps, PassphraseKeeps, NonceKeeps, CipherKeeps, RekeyKeeps, ExpandKeeps,
             Zenon DEF KhNext
<1>3. KhInv => HierarchySound
  BY KhInvSuffices
<1> QED BY <1>1, <1>2, <1>3, PTL DEF KhSpec

-----------------------------------------------------------------------------
(* The authentication. An end that has committed has sent what it stored, and
   one that has answered holds the key of the scalars it knows. *)
CtxFields == {"state", "my_mac", "peer_mac", "password", "my_scalar", "my_element",
              "peer_scalar", "peer_element", "pmk"}

SentAs(commits, scalar, element) == \E c \in commits : c.scalar = scalar /\ c.element = element

Held(ctx, own, peers) ==
  /\ DOMAIN ctx = CtxFields
  /\ ctx.state # "INIT" => SentAs(own, ctx.my_scalar, ctx.my_element)
  /\ ctx.state \in {"CONFIRMED", "ACCEPTED", "REJECTED"} =>
       /\ ctx.pmk = <<ctx.my_scalar, ctx.peer_scalar>>
       /\ SentAs(peers, ctx.peer_scalar, ctx.peer_element)

SaeInv ==
  /\ DOMAIN sae = {"ctx", "commits", "confirms", "sent"}
  /\ DOMAIN sae.ctx = SaeEnds /\ DOMAIN sae.commits = SaeEnds
  /\ \A e \in SaeEnds : Held(sae.ctx[e], sae.commits[e], sae.commits[3 - e])

LEMMA Opposite == \A e \in SaeEnds : 3 - e \in SaeEnds
  BY DEF SaeEnds

(* One end changes its context, and may say what it commits to. *)
LEMMA OneEnd ==
  ASSUME SaeInv, NEW e \in SaeEnds, NEW ctx,
         DOMAIN sae' = {"ctx", "commits", "confirms", "sent"},
         sae'.ctx = [sae.ctx EXCEPT ![e] = ctx],
         DOMAIN sae'.commits = SaeEnds,
         \A d \in SaeEnds : sae.commits[d] \subseteq sae'.commits[d],
         Held(ctx, sae'.commits[e], sae'.commits[3 - e])
  PROVE  SaeInv'
<1> DEFINE new == sae'.ctx
           old == sae.commits
           now == sae'.commits
<1>1. /\ DOMAIN new = SaeEnds /\ DOMAIN now = SaeEnds
      /\ new[e] = ctx /\ \A d \in SaeEnds : d # e => new[d] = sae.ctx[d]
  BY DEF SaeInv
<1>2. \A d \in SaeEnds : old[d] \subseteq now[d]
  OBVIOUS
<1>3. \A d \in SaeEnds : d # e => Held(new[d], old[d], old[3 - d])
  BY <1>1, Zenon DEF SaeInv
<1>4. Held(new[e], now[e], now[3 - e])
  BY <1>1, Zenon
<1> HIDE DEF new, old, now
<1>5. \A d \in SaeEnds : d # e => Held(new[d], now[d], now[3 - d])
  BY <1>2, <1>3, Opposite, Zenon DEF Held, SentAs
<1>6. \A d \in SaeEnds : Held(new[d], now[d], now[3 - d])
  BY <1>4, <1>5, Zenon
<1> QED BY <1>1, <1>6, Zenon DEF SaeInv, new, now

LEMMA SaeInvInit == SaeInit => SaeInv
<1> SUFFICES ASSUME NEW password,
                    sae = [ctx |-> [e \in SaeEnds |-> sae_ctx(e, 3 - e, password[e])],
                           commits |-> [e \in SaeEnds |-> {}],
                           confirms |-> [e \in SaeEnds |-> {}], sent |-> [e \in SaeEnds |-> 0]]
             PROVE  SaeInv
  BY Zenon DEF SaeInit
<1>1. /\ DOMAIN sae = {"ctx", "commits", "confirms", "sent"}
      /\ sae.ctx = [e \in SaeEnds |-> sae_ctx(e, 3 - e, password[e])]
      /\ sae.commits = [e \in SaeEnds |-> {}]
  OBVIOUS
<1>2. ASSUME NEW e \in SaeEnds PROVE Held(sae.ctx[e], sae.commits[e], sae.commits[3 - e])
  <2>1. DOMAIN sae.ctx[e] = CtxFields /\ sae.ctx[e].state = "INIT"
    BY <1>1 DEF sae_ctx, CtxFields
  <2> QED BY <2>1 DEF Held
<1> QED BY <1>1, <1>2 DEF SaeInv

LEMMA CommitKeeps == SaeInv /\ SaeCommit => SaeInv'
<1> DEFINE Sent(e, r) ==
             sae' = [sae EXCEPT !.sent[e] = @ + 1, !.commits[e] = @ \cup {r.commit},
                                !.ctx[e] = [r.ctx EXCEPT !.my_scalar = r.commit.scalar,
                                                         !.my_element = r.commit.element]]
<1> SUFFICES ASSUME SaeInv, NEW e \in SaeEnds, NEW scalar \in SpScalars,
                    Sent(e, sae_commit(sae.ctx[e], scalar))
             PROVE  SaeInv'
  BY DEF SaeCommit
<1> DEFINE old == sae.ctx[e]
           r == sae_commit(old, scalar)
           s == r.commit.scalar
           m == r.commit.element
           ctx == [r.ctx EXCEPT !.my_scalar = s, !.my_element = m]
           said == sae.commits[e] \cup {r.commit}
<1>1. r.ctx = [old EXCEPT !.state = "COMMITTED"]
  BY DEF sae_commit
<1>2. DOMAIN old = CtxFields
  BY DEF SaeInv, Held
<1>3. sae' = [sae EXCEPT !.sent[e] = @ + 1, !.commits[e] = said, !.ctx[e] = ctx]
  BY Zenon
<1>4. SentAs(said, s, m)
  BY Zenon DEF SentAs
<1> HIDE DEF old, r, s, m
<1>5. DOMAIN ctx = CtxFields /\ ctx.state = "COMMITTED" /\ ctx.my_scalar = s /\ ctx.my_element = m
  BY <1>1, <1>2 DEF CtxFields
<1> HIDE DEF ctx, said
<1>6. /\ DOMAIN sae' = {"ctx", "commits", "confirms", "sent"}
      /\ sae'.ctx = [sae.ctx EXCEPT ![e] = ctx] /\ sae'.commits = [sae.commits EXCEPT ![e] = said]
  BY <1>3 DEF SaeInv
<1>7. DOMAIN sae'.commits = SaeEnds /\ sae'.commits[e] = said
      /\ \A d \in SaeEnds : sae.commits[d] \subseteq sae'.commits[d]
  BY <1>6 DEF SaeInv, said
<1>8. SentAs(said, ctx.my_scalar, ctx.my_element)
  BY <1>4, <1>5, Zenon
<1>9. ctx.state \notin {"CONFIRMED", "ACCEPTED", "REJECTED"}
  BY <1>5
<1>10. Held(ctx, sae'.commits[e], sae'.commits[3 - e])
  BY <1>5, <1>7, <1>8, <1>9, Zenon DEF Held
<1> QED BY <1>6, <1>7, <1>10, OneEnd

LEMMA ProcessKeeps == SaeInv /\ SaeProcess => SaeInv'
<1> DEFINE Taken(e, r) ==
             sae' = [sae EXCEPT !.ctx[e] = r.ctx, !.confirms[e] = @ \cup {r.confirm}]
<1> SUFFICES ASSUME SaeInv, NEW e \in SaeEnds, NEW peer \in sae.commits[3 - e],
                    sae.ctx[e].state = "COMMITTED",
                    Taken(e, sae_process_commit(sae.ctx[e], peer))
             PROVE  SaeInv'
  BY DEF SaeProcess
<1> DEFINE old == sae.ctx[e]
           r == sae_process_commit(old, peer)
           key == <<old.my_scalar, peer.scalar>>
           ctx == r.ctx
           said == sae.confirms[e] \cup {r.confirm}
<1>1. ctx = [old EXCEPT !.state = "CONFIRMED", !.pmk = key,
                        !.peer_scalar = peer.scalar, !.peer_element = peer.element]
  BY DEF sae_process_commit
<1>2. DOMAIN old = CtxFields /\ SentAs(sae.commits[e], old.my_scalar, old.my_element)
  <2>1. "COMMITTED" # "INIT"
    OBVIOUS
  <2> QED BY <2>1, Zenon DEF SaeInv, Held
<1>3. sae' = [sae EXCEPT !.ctx[e] = ctx, !.confirms[e] = said]
  BY Zenon
<1> DEFINE scalar == peer.scalar
           element == peer.element
<1> HIDE DEF r, ctx, said
<1>4. DOMAIN ctx = CtxFields /\ ctx.pmk = key /\ ctx.my_scalar = old.my_scalar
      /\ ctx.my_element = old.my_element /\ ctx.peer_scalar = scalar /\ ctx.peer_element = element
  <2> HIDE DEF old, key, scalar, element
  <2>1. ctx = [old EXCEPT !.state = "CONFIRMED", !.pmk = key, !.peer_scalar = scalar,
                          !.peer_element = element]
    BY <1>1 DEF scalar, element
  <2> QED BY <1>2, <2>1 DEF CtxFields
<1>5. SentAs(sae.commits[3 - e], scalar, element)
  BY Zenon DEF SentAs
<1>6. Held(ctx, sae.commits[e], sae.commits[3 - e])
  <2>1. ctx.pmk = <<ctx.my_scalar, ctx.peer_scalar>>
    BY <1>4, Zenon
  <2>2. /\ SentAs(sae.commits[e], ctx.my_scalar, ctx.my_element)
        /\ SentAs(sae.commits[3 - e], ctx.peer_scalar, ctx.peer_element)
    BY <1>2, <1>4, <1>5, Zenon
  <2> QED BY <1>4, <2>1, <2>2, Zenon DEF Held
<1> HIDE DEF old, key, scalar, element
<1>7. /\ DOMAIN sae' = {"ctx", "commits", "confirms", "sent"}
      /\ sae'.ctx = [sae.ctx EXCEPT ![e] = ctx] /\ sae'.commits = sae.commits
  BY <1>3 DEF SaeInv
<1>8. DOMAIN sae'.commits = SaeEnds /\ Held(ctx, sae'.commits[e], sae'.commits[3 - e])
      /\ \A d \in SaeEnds : sae.commits[d] \subseteq sae'.commits[d]
  BY <1>6, <1>7, Zenon DEF SaeInv
<1> QED BY <1>7, <1>8, OneEnd

LEMMA VerifyKeeps == SaeInv /\ SaeVerify => SaeInv'
<1> SUFFICES ASSUME SaeInv, NEW e \in SaeEnds, NEW confirm \in sae.confirms[3 - e],
                    sae.ctx[e].state = "CONFIRMED",
                    sae' = [sae EXCEPT !.ctx[e] = sae_verify_confirm(@, confirm)]
             PROVE  SaeInv'
  BY DEF SaeVerify
<1> DEFINE old == sae.ctx[e]
           key == <<old.my_scalar, old.peer_scalar>>
           expected == Confirm(key, old.peer_scalar, old.my_scalar,
                               old.peer_element, old.my_element)
           verdict == IF expected = confirm THEN "ACCEPTED" ELSE "REJECTED"
           ctx == [old EXCEPT !.state = verdict]
<1>1. sae' = [sae EXCEPT !.ctx[e] = ctx]
  BY Zenon DEF sae_verify_confirm
<1>2. /\ DOMAIN old = CtxFields /\ old.pmk = key
      /\ SentAs(sae.commits[e], old.my_scalar, old.my_element)
      /\ SentAs(sae.commits[3 - e], old.peer_scalar, old.peer_element)
  <2>1. "CONFIRMED" # "INIT" /\ "CONFIRMED" \in {"CONFIRMED", "ACCEPTED", "REJECTED"}
    OBVIOUS
  <2> QED BY <2>1, Zenon DEF SaeInv, Held
<1> HIDE DEF old, verdict
<1>3. /\ DOMAIN ctx = CtxFields /\ ctx.pmk = old.pmk
      /\ ctx.my_scalar = old.my_scalar /\ ctx.my_element = old.my_element
      /\ ctx.peer_scalar = old.peer_scalar /\ ctx.peer_element = old.peer_element
  BY <1>2 DEF CtxFields
<1> HIDE DEF ctx
<1>4. Held(ctx, sae.commits[e], sae.commits[3 - e])
  <2>1. /\ SentAs(sae.commits[e], ctx.my_scalar, ctx.my_element)
        /\ SentAs(sae.commits[3 - e], ctx.peer_scalar, ctx.peer_element)
        /\ ctx.pmk = <<ctx.my_scalar, ctx.peer_scalar>>
    BY <1>2, <1>3, Zenon
  <2> QED BY <1>3, <2>1, Zenon DEF Held
<1>5. /\ DOMAIN sae' = {"ctx", "commits", "confirms", "sent"}
      /\ sae'.ctx = [sae.ctx EXCEPT ![e] = ctx] /\ sae'.commits = sae.commits
  BY <1>1 DEF SaeInv
<1>6. DOMAIN sae'.commits = SaeEnds /\ Held(ctx, sae'.commits[e], sae'.commits[3 - e])
      /\ \A d \in SaeEnds : sae.commits[d] \subseteq sae'.commits[d]
  BY <1>4, <1>5, Zenon DEF SaeInv
<1> QED BY <1>5, <1>6, OneEnd

(* From its answer until it commits again, an end holds the key of its own
   last commit and of one that its peer sent, however the commits and
   confirmations of both cross, repeat or are lost, for every set of scalars
   and passwords and every number of commits. *)
THEOREM CommitsHold == SpSpec => []KeyOfCommits
<1>1. SpInit /\ SaeInit => SaeInv
  BY SaeInvInit
<1>2. SaeInv /\ [(SpNext /\ UNCHANGED sae) \/ (SaeNext /\ UNCHANGED sp)]_<<sp, sae>> => SaeInv'
  <2>1. SaeInv /\ UNCHANGED sae => SaeInv'
    BY Zenon DEF SaeInv
  <2> QED BY <2>1, CommitKeeps, ProcessKeeps, VerifyKeeps DEF SaeNext
<1>3. SaeInv => KeyOfCommits
  BY Zenon DEF SaeInv, Held, SentAs, KeyOfCommits
<1> QED BY <1>1, <1>2, <1>3, PTL DEF SpSpec

-----------------------------------------------------------------------------
(* The detection. Its counts and alarms, by kind. *)
Counted3 == {"deauth", "auth", "pmkid"}
Thresholds == [deauth |-> 10, auth |-> 5, pmkid |-> 3]
Detection(start, seen, alarm) ==
  [window_sec |-> IdWindow, window_start_time |-> start, seen |-> seen,
   threshold |-> Thresholds, alarm |-> alarm]

(* A frame after the end of a window starts another. *)
LEMMA Renewed ==
  ASSUME NEW start, NEW seen, NEW alarm, NEW time,
         DOMAIN seen = Counted3, DOMAIN alarm = Counted3
  PROVE  Expired(Detection(start, seen, alarm), time)
           = IF time - start > IdWindow
               THEN Detection(time, [k \in Counted3 |-> 0], [k \in Counted3 |-> FALSE])
             ELSE Detection(start, seen, alarm)
<1> DEFINE s == Detection(start, seen, alarm)
           none == [k \in Counted3 |-> 0]
           calm == [k \in Counted3 |-> FALSE]
           r == [s EXCEPT !.seen = none, !.alarm = calm, !.window_start_time = time]
<1>1. s = [window_sec |-> IdWindow, window_start_time |-> start, seen |-> seen,
           threshold |-> Thresholds, alarm |-> alarm]
  BY DEF Detection
<1> HIDE DEF s
<1>2. s.window_start_time = start /\ s.window_sec = IdWindow /\ s.seen = seen /\ s.alarm = alarm
  BY <1>1
<1>3. Restarted(s, time) = r
  BY <1>2, Zenon DEF Restarted
<1> HIDE DEF none, calm
<1>4. /\ r.seen = none /\ r.alarm = calm /\ r.window_start_time = time
      /\ r.window_sec = IdWindow /\ r.threshold = Thresholds
      /\ DOMAIN r = {"window_sec", "window_start_time", "seen", "threshold", "alarm"}
  BY <1>1
<1>5. r = [x \in DOMAIN r |-> r[x]]
  BY Zenon
<1> HIDE DEF r
<1>6. r = Detection(time, none, calm)
  BY <1>4, <1>5 DEF Detection
<1>7. Expired(s, time) = IF time - start > IdWindow THEN Detection(time, none, calm) ELSE s
  BY <1>2, <1>3, <1>6, Zenon DEF Expired
<1> QED BY <1>7, Zenon DEF s, none, calm

LEMMA Kinds == KindOf(2, 0) = "pmkid" /\ KindOf(0, 8) = "other"
  BY DEF KindOf

(* One frame of a burst counts, and alarms beyond the threshold. *)
PerKind(f) == DOMAIN f = Counted3
More(seen) == [seen EXCEPT !["pmkid"] = seen["pmkid"] + 1]
Louder(seen, alarm) == [alarm EXCEPT !["pmkid"] = alarm["pmkid"] \/ seen["pmkid"] + 1 > 3]
CountedIn(s) ==
  [s EXCEPT !.seen["pmkid"] = @ + 1,
            !.alarm["pmkid"] = @ \/ s.seen["pmkid"] + 1 > s.threshold["pmkid"]]

LEMMA OneMore ==
  ASSUME NEW start, NEW seen, NEW alarm
  PROVE  CountedIn(Detection(start, seen, alarm))
           = Detection(start, More(seen), Louder(seen, alarm))
<1> DEFINE s == Detection(start, seen, alarm)
           more == seen["pmkid"] + 1
           loud == alarm["pmkid"] \/ more > 3
           seen2 == [seen EXCEPT !["pmkid"] = more]
           alarm2 == [alarm EXCEPT !["pmkid"] = loud]
           r == [s EXCEPT !.seen["pmkid"] = more, !.alarm["pmkid"] = loud]
<1>1. s = [window_sec |-> IdWindow, window_start_time |-> start, seen |-> seen,
           threshold |-> Thresholds, alarm |-> alarm]
  BY DEF Detection
<1> HIDE DEF s
<1>2. s.seen = seen /\ s.alarm = alarm /\ s.threshold = Thresholds /\ Thresholds["pmkid"] = 3
  BY <1>1 DEF Thresholds
<1>3. CountedIn(s) = r
  BY <1>2, Zenon DEF CountedIn
<1> HIDE DEF loud, more
<1>4. /\ r.seen = seen2 /\ r.alarm = alarm2 /\ r.window_start_time = start
      /\ r.window_sec = IdWindow /\ r.threshold = Thresholds
      /\ DOMAIN r = {"window_sec", "window_start_time", "seen", "threshold", "alarm"}
  BY <1>1
<1>5. r = [x \in DOMAIN r |-> r[x]]
  BY Zenon
<1> HIDE DEF r, seen2, alarm2
<1>6. r = Detection(start, seen2, alarm2)
  BY <1>4, <1>5 DEF Detection
<1>7. CountedIn(Detection(start, seen, alarm)) = Detection(start, seen2, alarm2)
  BY <1>3, <1>6, Zenon DEF s
<1>8. seen2 = More(seen) /\ alarm2 = Louder(seen, alarm)
  BY Zenon DEF seen2, alarm2, more, loud, More, Louder
<1> QED BY <1>7, <1>8, Zenon

LEMMA MoreParts ==
  ASSUME NEW seen, NEW alarm, PerKind(seen), PerKind(alarm)
  PROVE  /\ PerKind(More(seen)) /\ PerKind(Louder(seen, alarm))
         /\ More(seen)["pmkid"] = seen["pmkid"] + 1
         /\ Louder(seen, alarm)["pmkid"] <=> (alarm["pmkid"] \/ seen["pmkid"] + 1 > 3)
<1> DEFINE more == seen["pmkid"] + 1
           loud == alarm["pmkid"] \/ more > 3
<1> HIDE DEF more, loud
<1>1. "pmkid" \in DOMAIN seen /\ "pmkid" \in DOMAIN alarm
  BY DEF PerKind, Counted3
<1>2. [seen EXCEPT !["pmkid"] = more]["pmkid"] = more /\ [alarm EXCEPT !["pmkid"] = loud]["pmkid"] = loud
  BY <1>1, Zenon
<1>3. PerKind([seen EXCEPT !["pmkid"] = more]) /\ PerKind([alarm EXCEPT !["pmkid"] = loud])
  BY Zenon DEF PerKind
<1> QED BY <1>2, <1>3, Zenon DEF More, Louder, more, loud

(* What a frame makes of a state: of a burst, or another. *)
None == [k \in Counted3 |-> 0]
Calm == [k \in Counted3 |-> FALSE]

LEMMA NoneParts == PerKind(None) /\ PerKind(Calm) /\ None["pmkid"] = 0 /\ ~Calm["pmkid"]
  BY DEF PerKind, None, Calm, Counted3

LEMMA Processed ==
  ASSUME NEW start, NEW seen, NEW alarm, NEW time, PerKind(seen), PerKind(alarm)
  PROVE  /\ ids_process_frame(Detection(start, seen, alarm), 0, 8, time)
              = IF time - start > IdWindow THEN Detection(time, None, Calm)
                                           ELSE Detection(start, seen, alarm)
         /\ ids_process_frame(Detection(start, seen, alarm), 2, 0, time)
              = IF time - start > IdWindow THEN Detection(time, More(None), Louder(None, Calm))
                                           ELSE Detection(start, More(seen), Louder(seen, alarm))
<1> DEFINE s == Detection(start, seen, alarm)
           e == Expired(s, time)
<1>1. ids_process_frame(s, 0, 8, time) = e /\ ids_process_frame(s, 2, 0, time) = CountedIn(e)
  <2>1. "pmkid" # "other"
    OBVIOUS
  <2> HIDE DEF s, e
  <2>2. ids_process_frame(s, 2, 0, time) = IF "pmkid" = "other" THEN e ELSE CountedIn(e)
    BY Kinds, Zenon DEF ids_process_frame, CountedIn, e
  <2>3. ids_process_frame(s, 0, 8, time) = e
    BY Kinds, Zenon DEF ids_process_frame, e
  <2> QED BY <2>1, <2>2, <2>3, Zenon
<1>2. e = IF time - start > IdWindow THEN Detection(time, None, Calm) ELSE s
  BY Renewed, Zenon DEF None, Calm, PerKind
<1> HIDE DEF e
<1>3. /\ CountedIn(Detection(time, None, Calm)) = Detection(time, More(None), Louder(None, Calm))
      /\ CountedIn(s) = Detection(start, More(seen), Louder(seen, alarm))
  BY OneMore, Zenon
<1> HIDE DEF s
<1>4. ids_process_frame(s, 0, 8, time)
        = IF time - start > IdWindow THEN Detection(time, None, Calm) ELSE s
  BY <1>1, <1>2, Zenon
<1>5. ids_process_frame(s, 2, 0, time)
        = IF time - start > IdWindow THEN Detection(time, More(None), Louder(None, Calm))
                                     ELSE Detection(start, More(seen), Louder(seen, alarm))
  BY <1>1, <1>2, <1>3, Zenon
<1> QED BY <1>4, <1>5, Zenon DEF s

-----------------------------------------------------------------------------
(* The burst. Frames of the window are within its length, those before it are
   no later than its start; of four or more frames without an alarm beyond
   those of the window, the first are more than a window's length before it. *)
BurstInv(times, now, since, start, count) ==
  /\ times \in Seq(Nat) /\ Len(times) <= IdBurst
  /\ now \in Nat /\ start \in Nat /\ start <= now
  /\ since \in 0 .. IdBurst /\ count \in 0 .. IdBurst /\ since <= Len(times) /\ count <= Len(times)
  /\ \A i, j \in 1 .. Len(times) : i <= j => times[i] <= times[j]
  /\ \A i \in 1 .. Len(times) :
       /\ times[i] <= now
       /\ i <= Len(times) - count => times[i] <= start
       /\ i > Len(times) - count => start <= times[i] /\ times[i] <= start + IdWindow
       /\ since >= count + 4 /\ i <= Len(times) - count - 3 => times[i] + IdWindow < start
  /\ since > 0 => count <= 3
  /\ since = IdBurst => times[IdBurst] - times[1] > IdWindow

IdInv ==
  /\ ids = Detection(ids.window_start_time, ids.seen, ids.alarm)
  /\ PerKind(ids.seen) /\ PerKind(ids.alarm)
  /\ BurstInv(heard.times, heard.now, heard.since, ids.window_start_time, ids.seen["pmkid"])
  /\ ids.alarm["pmkid"] => ids.seen["pmkid"] > 3
  /\ heard.alarmed => ids.seen["pmkid"] > 3

(* The latest times: one more at the end, the first left out. *)
LEMMA LatestTimes ==
  ASSUME NEW times \in Seq(Nat), Len(times) <= 7, NEW now \in Nat
  PROVE  LET new == Latest(Append(times, now))
             off == IF Len(times) = 7 THEN 1 ELSE 0
         IN  /\ new \in Seq(Nat) /\ Len(new) = Len(times) + 1 - off
             /\ new[Len(times) + 1 - off] = now
             /\ \A i \in 1 .. Len(times) - off : new[i] = times[i + off]
<1> DEFINE longer == Append(times, now)
           new == Latest(longer)
<1>1. Len(times) \in Nat
  BY LenProperties
<1>2. /\ longer \in Seq(Nat) /\ longer # <<>> /\ Len(longer) = Len(times) + 1
      /\ \A i \in 1 .. Len(times) : longer[i] = times[i]
      /\ longer[Len(times) + 1] = now
  BY AppendProperties
<1> HIDE DEF longer
<1>3. CASE Len(times) = 7
  <2>1. new = Tail(longer)
    <3>1. Len(longer) > 7
      BY <1>2, <1>3
    <3> QED BY <3>1, Zenon DEF Latest, IdBurst
  <2> HIDE DEF new
  <2>2. /\ new \in Seq(Nat) /\ Len(new) = Len(longer) - 1
        /\ \A i \in 1 .. Len(new) : new[i] = longer[i + 1]
    BY <1>2, <2>1, HeadTailProperties
  <2>3. Len(new) = 7
    BY <1>2, <1>3, <2>2
  <2>4. \A i \in 1 .. 7 : new[i] = longer[i + 1]
    BY <2>2, <2>3
  <2>5. new[7] = now
    BY <1>2, <1>3, <2>4
  <2>6. \A i \in 1 .. 6 : new[i] = times[i + 1]
    <3>1. \A i \in 1 .. 6 : i \in 1 .. 7 /\ i + 1 \in 1 .. Len(times)
      BY <1>3
    <3> QED BY <1>2, <2>4, <3>1, Zenon
  <2>7. Len(times) + 1 - 1 = 7 /\ Len(times) - 1 = 6
    BY <1>3
  <2> QED BY <1>3, <2>2, <2>3, <2>5, <2>6, <2>7, Zenon DEF new, longer
<1>4. CASE Len(times) # 7
  <2>1. new = longer
    <3>1. ~(Len(longer) > 7)
      <4>1. \A n \in Nat : n <= 7 /\ n # 7 => ~(n + 1 > 7)
        OBVIOUS
      <4> QED BY <1>1, <1>2, <1>4, <4>1, Zenon
    <3> QED BY <3>1, Zenon DEF Latest, IdBurst
  <2> HIDE DEF new
  <2>2. /\ new \in Seq(Nat) /\ Len(new) = Len(times) + 1
        /\ new[Len(times) + 1] = now /\ \A i \in 1 .. Len(times) : new[i] = times[i]
    BY <1>2, <2>1, Zenon
  <2>3. Len(times) + 1 - 0 = Len(times) + 1 /\ Len(times) - 0 = Len(times)
        /\ \A i \in 1 .. Len(times) : i + 0 = i
    BY <1>1
  <2> QED BY <1>4, <2>2, <2>3, Zenon DEF new, longer
<1> QED BY <1>3, <1>4, Zenon

(* Another frame renews the window or not. *)
LEMMA Quiet ==
  ASSUME NEW times, NEW now, NEW since, NEW start, NEW count,
         BurstInv(times, now, since, start, count), NEW later \in Nat, now <= later
  PROVE  /\ later - start > IdWindow => BurstInv(times, later, since, later, 0)
         /\ ~(later - start > IdWindow) => BurstInv(times, later, since, start, count)
<1> USE IdAssumption DEF BurstInv, IdBurst
<1>1. Len(times) \in Nat /\ \A i \in 1 .. Len(times) : times[i] \in Nat
  BY LenProperties
<1>2. CASE later - start > IdWindow
  <2> SUFFICES BurstInv(times, later, since, later, 0)
    BY <1>2
  <2>1. \A i \in 1 .. Len(times) :
          /\ times[i] <= later
          /\ i > Len(times) - 0 => later <= times[i] /\ times[i] <= later + IdWindow
          /\ since >= 0 + 4 /\ i <= Len(times) - 0 - 3 => times[i] + IdWindow < later
    <3> SUFFICES ASSUME NEW i \in 1 .. Len(times)
                 PROVE  /\ times[i] <= later
                        /\ since >= 4 /\ i <= Len(times) - 3 => times[i] + IdWindow < later
      BY <1>1
    <3>1. since >= 4 /\ i <= Len(times) - 3 => times[i] <= start
      BY <1>1
    <3> QED BY <1>1, <1>2, <3>1
  <2> QED BY <1>1, <2>1
<1>3. CASE ~(later - start > IdWindow)
  BY <1>1, <1>3
<1> QED BY <1>2, <1>3
(* A frame of the burst: one more in the window, or the first of another. *)
LEMMA Heard ==
  ASSUME NEW times, NEW now, NEW since, NEW start, NEW count, count < IdBurst,
         BurstInv(times, now, since, start, count), NEW later \in Nat, now <= later,
         NEW start2, NEW count2, NEW since2,
         IF later - start > IdWindow THEN start2 = later /\ count2 = 1
                                     ELSE start2 = start /\ count2 = count + 1,
         \/ since2 = 0
         \/ since # IdBurst /\ since2 = since + 1 /\ count2 <= 3
  PROVE  BurstInv(Latest(Append(times, later)), later, since2, start2, count2)
<1> USE IdAssumption DEF IdBurst
<1> DEFINE new == Latest(Append(times, later))
           off == IF Len(times) = 7 THEN 1 ELSE 0
           len == Len(times)
<1>1. /\ times \in Seq(Nat) /\ len \in Nat /\ len <= 7 /\ \A i \in 1 .. len : times[i] \in Nat
      /\ off \in {0, 1} /\ (off = 1 => len = 7) /\ (off = 0 => len <= 6)
  <2>1. times \in Seq(Nat) /\ len <= 7
    BY DEF BurstInv
  <2>2. len \in Nat /\ times \in [1 .. len -> Nat]
    BY <2>1, LenProperties, Zenon
  <2> HIDE DEF len
  <2>3. off = IF len = 7 THEN 1 ELSE 0
    BY DEF len
  <2> HIDE DEF off
  <2> QED BY <2>1, <2>2, <2>3
<1>2. /\ new \in Seq(Nat) /\ Len(new) = len + 1 - off /\ new[len + 1 - off] = later
      /\ \A i \in 1 .. len - off : new[i] = times[i + off]
  BY <1>1, LatestTimes, Zenon
<1>3. /\ now \in Nat /\ start \in Nat /\ start <= now
      /\ since \in 0 .. 7 /\ count \in 0 .. 7 /\ since <= len /\ count <= len
      /\ \A i, j \in 1 .. len : i <= j => times[i] <= times[j]
      /\ \A i \in 1 .. len :
           /\ times[i] <= now
           /\ i <= len - count => times[i] <= start
           /\ i > len - count => start <= times[i] /\ times[i] <= start + IdWindow
           /\ since >= count + 4 /\ i <= len - count - 3 => times[i] + IdWindow < start
      /\ since > 0 => count <= 3
  BY DEF BurstInv
<1> HIDE DEF new, off, len
<1> DEFINE size == len + 1 - off
<1>4. /\ size \in 1 .. 7 /\ start2 \in Nat /\ start2 <= later /\ since2 \in 0 .. 7 /\ count2 \in 1 .. 7
      /\ since2 <= size /\ count2 <= size
  <2>1. /\ now \in Nat /\ start \in Nat /\ start <= now
        /\ since \in 0 .. 7 /\ count \in 0 .. 7 /\ since <= len /\ count <= len
    BY <1>3, Zenon
  <2>2. size \in 1 .. 7
    BY <1>1
  <2>3. start2 \in Nat /\ start2 <= later /\ count2 \in 1 .. 7 /\ count2 <= size
    BY <1>1, <2>1
  <2>4. since2 \in 0 .. 7 /\ since2 <= size
    BY <1>1, <2>1
  <2> QED BY <2>2, <2>3, <2>4, Zenon
<1>5. \A i \in 1 .. size : \/ i = size
                           \/ i \in 1 .. len - off /\ i + off \in 1 .. len /\ i < size
  BY <1>1
<1>6. \A i \in 1 .. size : new[i] \in Nat /\ new[i] <= later
  <2> SUFFICES ASSUME NEW i \in 1 .. size PROVE new[i] \in Nat /\ new[i] <= later
    OBVIOUS
  <2>1. CASE i = size
    BY <1>2, <2>1
  <2>2. CASE i # size
    <3>1. new[i] = times[i + off] /\ i + off \in 1 .. len
      BY <1>2, <1>5, <2>2
    <3>2. times[i + off] \in Nat /\ times[i + off] <= now
      BY <1>1, <1>3, <3>1, Zenon
    <3> QED BY <1>3, <3>1, <3>2
  <2> QED BY <2>1, <2>2
<1>7. \A i, j \in 1 .. size : i <= j => new[i] <= new[j]
  <2> SUFFICES ASSUME NEW i \in 1 .. size, NEW j \in 1 .. size, i <= j PROVE new[i] <= new[j]
    OBVIOUS
  <2>1. CASE j = size
    BY <1>2, <1>6, <2>1
  <2>2. CASE j # size
    <3>1. i \in 1 .. len - off /\ j \in 1 .. len - off /\ i + off \in 1 .. len /\ j + off \in 1 .. len
      BY <1>1, <2>2
    <3>2. i + off <= j + off
      BY <1>1
    <3> QED BY <1>2, <1>3, <3>1, <3>2
  <2> QED BY <2>1, <2>2
<1>8. \A i \in 1 .. size :
        /\ i <= size - count2 => new[i] <= start2
        /\ i > size - count2 => start2 <= new[i] /\ new[i] <= start2 + IdWindow
        /\ since2 >= count2 + 4 /\ i <= size - count2 - 3 => new[i] + IdWindow < start2
  <2> SUFFICES ASSUME NEW i \in 1 .. size
               PROVE  /\ i <= size - count2 => new[i] <= start2
                      /\ i > size - count2 => start2 <= new[i] /\ new[i] <= start2 + IdWindow
                      /\ since2 >= count2 + 4 /\ i <= size - count2 - 3
                           => new[i] + IdWindow < start2
    OBVIOUS
  <2>1. CASE i = size
    BY <1>1, <1>2, <1>3, <1>4, <2>1
  <2>2. CASE i # size
    <3> DEFINE k == i + off
    <3>1. k \in 1 .. len /\ new[i] = times[k] /\ k \in Nat
      BY <1>1, <1>2, <1>5, <2>2
    <3>2. /\ times[k] <= now /\ times[k] \in Nat
          /\ k <= len - count => times[k] <= start
          /\ k > len - count => start <= times[k] /\ times[k] <= start + IdWindow
          /\ since >= count + 4 /\ k <= len - count - 3 => times[k] + IdWindow < start
      BY <1>1, <1>3, <3>1
    <3>3. size - i = len + 1 - k
      BY <1>1
    <3> HIDE DEF k, size
    <3>4. CASE later - start > IdWindow
      BY <1>1, <1>3, <1>4, <2>2, <3>1, <3>2, <3>3, <3>4
    <3>5. CASE ~(later - start > IdWindow)
      BY <1>1, <1>3, <1>4, <2>2, <3>1, <3>2, <3>3, <3>5
    <3> QED BY <3>4, <3>5
  <2> QED BY <2>1, <2>2
<1>9. since2 > 0 => count2 <= 3
  BY <1>3
<1>10. since2 = 7 => new[7] - new[1] > IdWindow
  <2> SUFFICES ASSUME since2 = 7 PROVE new[7] - new[1] > IdWindow
    OBVIOUS
  <2>1. size = 7 /\ count2 <= 3 /\ new[7] = later
    <3>1. size = 7 /\ count2 <= 3
      BY <1>4, <1>9
    <3>2. new[size] = later
      BY <1>2
    <3> QED BY <3>1, <3>2, Zenon
  <2>2. new[1] + IdWindow < start2
    BY <1>4, <1>8, <2>1
  <2> QED BY <1>4, <1>6, <2>1, <2>2
<1> HIDE DEF size
<1>11. Len(new) = size
  BY <1>2 DEF size
<1> HIDE DEF IdBurst
<1>12. BurstInv(new, later, since2, start2, count2)
  <2>1. IdBurst = 7
    BY DEF IdBurst
  <2>2. size <= 7 /\ count2 \in 0 .. 7
    BY <1>4
  <2>3. \A i \in 1 .. Len(new) :
          /\ new[i] <= later
          /\ i <= Len(new) - count2 => new[i] <= start2
          /\ i > Len(new) - count2 => start2 <= new[i] /\ new[i] <= start2 + IdWindow
          /\ since2 >= count2 + 4 /\ i <= Len(new) - count2 - 3 => new[i] + IdWindow < start2
    BY <1>6, <1>8, <1>11, Zenon
  <2> QED BY <1>2, <1>4, <1>7, <1>9, <1>10, <1>11, <2>1, <2>2, <2>3, Zenon DEF BurstInv
<1> QED BY <1>12, Zenon DEF new
LEMMA ProcessedBurst ==
  ASSUME NEW start, NEW seen, NEW alarm, NEW time, PerKind(seen), PerKind(alarm)
  PROVE  ids_process_frame(Detection(start, seen, alarm), 2, 0, time)
           = IF time - start > IdWindow THEN Detection(time, More(None), Louder(None, Calm))
                                        ELSE Detection(start, More(seen), Louder(seen, alarm))
BY Processed

(* The parts of a state of the detection. *)
HasParts(s, start, seen, alarm) ==
  /\ s.window_start_time = start /\ s.seen = seen /\ s.alarm = alarm /\ s.threshold = Thresholds
  /\ ids_check_alarms(s) = {k \in DOMAIN alarm : alarm[k]}

LEMMA DetectionParts ==
  ASSUME NEW start, NEW seen, NEW alarm
  PROVE  HasParts(Detection(start, seen, alarm), start, seen, alarm)
<1> DEFINE s == Detection(start, seen, alarm)
<1>1. s.window_start_time = start /\ s.seen = seen /\ s.alarm = alarm /\ s.threshold = Thresholds
  BY DEF Detection
<1> HIDE DEF s
<1>2. ids_check_alarms(s) = {k \in DOMAIN alarm : alarm[k]}
  BY <1>1, Zenon DEF ids_check_alarms
<1> QED BY <1>1, <1>2, Zenon DEF s, HasParts

LEMMA IdInvInit == IdInit => IdInv
<1> SUFFICES ASSUME IdInit PROVE IdInv
  OBVIOUS
<1>1. ids = Detection(0, None, Calm)
  <2>1. [deauth |-> 0, auth |-> 0, pmkid |-> 0] = None
    BY DEF None, Counted3
  <2>2. [deauth |-> FALSE, auth |-> FALSE, pmkid |-> FALSE] = Calm
    <3> DEFINE no == FALSE
    <3> HIDE DEF no
    <3>1. [deauth |-> no, auth |-> no, pmkid |-> no] = [k \in Counted3 |-> no]
      BY DEF Counted3
    <3> QED BY <3>1, Zenon DEF no, Calm
  <2> QED BY <2>1, <2>2, Zenon DEF IdInit, ids_init, Detection, Thresholds
<1>2. ids.window_start_time = 0 /\ ids.seen = None /\ ids.alarm = Calm
  <2>1. HasParts(Detection(0, None, Calm), 0, None, Calm)
    BY DetectionParts, Zenon
  <2> QED BY <1>1, <2>1, Zenon DEF HasParts
<1>3. heard.times = <<>> /\ heard.now = 0 /\ heard.since = 0 /\ heard.alarmed = FALSE
  BY DEF IdInit
<1>4. BurstInv(<<>>, 0, 0, 0, 0)
  BY DEF BurstInv, IdBurst
<1> QED BY <1>1, <1>2, <1>3, <1>4, NoneParts, Zenon DEF IdInv

(* Seven frames without an alarm last longer than a window: the invariant is
   kept by every frame and by the caller's reset. *)
LEMMA FrameKeeps == IdInv /\ IdFrame => IdInv'
<1> SUFFICES ASSUME IdInv, IdFrame PROVE IdInv'
  OBVIOUS
<1> DEFINE start == ids.window_start_time
           seen == ids.seen
           alarm == ids.alarm
<1>1. /\ ids = Detection(start, seen, alarm) /\ PerKind(seen) /\ PerKind(alarm)
      /\ BurstInv(heard.times, heard.now, heard.since, start, seen["pmkid"])
      /\ alarm["pmkid"] => seen["pmkid"] > 3
      /\ heard.alarmed => seen["pmkid"] > 3
  BY Zenon DEF IdInv
<1> HIDE DEF start, seen, alarm
<1>2. PICK step \in IdSteps, f \in {<<2, 0>>, <<0, 8>>} :
        LET now == heard.now + step
            new == ids_process_frame(ids, f[1], f[2], now)
            burst == f[1] = 2
        IN  /\ burst => ids.seen.pmkid < IdBurst
            /\ ids' = new
            /\ heard' = [times |-> IF burst THEN Latest(Append(heard.times, now)) ELSE heard.times,
                         now |-> now, alarmed |-> "pmkid" \in ids_check_alarms(new),
                         since |-> IF ~burst THEN heard.since
                                   ELSE IF "pmkid" \in ids_check_alarms(new) \/ heard.since = IdBurst
                                     THEN 0
                                   ELSE heard.since + 1]
  BY DEF IdFrame
<1> DEFINE later == heard.now + step
<1>3. later \in Nat /\ heard.now <= later
  BY <1>1, IdAssumption DEF BurstInv
<1> HIDE DEF later
<1>4. CASE f = <<0, 8>>
  <2>1. f[1] = 0 /\ f[2] = 8 /\ 0 # 2
    BY <1>4
  <2>2. /\ ids' = ids_process_frame(Detection(start, seen, alarm), 0, 8, later)
        /\ heard'.times = heard.times /\ heard'.now = later /\ heard'.since = heard.since
        /\ heard'.alarmed <=> "pmkid" \in ids_check_alarms(ids')
    <3>1. /\ ids' = ids_process_frame(ids, 0, 8, later)
          /\ heard' = [times |-> heard.times, now |-> later,
                       alarmed |-> "pmkid" \in ids_check_alarms(ids'), since |-> heard.since]
      BY <1>2, <2>1, Zenon DEF later
    <3>2. /\ heard'.times = heard.times /\ heard'.now = later /\ heard'.since = heard.since
          /\ heard'.alarmed = ("pmkid" \in ids_check_alarms(ids'))
      BY <3>1, Zenon
    <3> QED BY <1>1, <3>1, <3>2, Zenon
  <2>3. CASE later - start > IdWindow
    <3>1. ids' = Detection(later, None, Calm)
      <4>1. ids_process_frame(Detection(start, seen, alarm), 0, 8, later)
              = IF later - start > IdWindow THEN Detection(later, None, Calm)
                                            ELSE Detection(start, seen, alarm)
        BY <1>1, Processed, Zenon
      <4> QED BY <2>2, <2>3, <4>1, Zenon
    <3>2. /\ ids'.window_start_time = later /\ ids'.seen = None /\ ids'.alarm = Calm
          /\ ids_check_alarms(ids') = {k \in DOMAIN Calm : Calm[k]}
      <4>1. HasParts(Detection(later, None, Calm), later, None, Calm)
        BY DetectionParts, Zenon
      <4> QED BY <3>1, <4>1, Zenon DEF HasParts
    <3>3. ~heard'.alarmed
      BY <2>2, <3>2, NoneParts, Zenon
    <3>4. BurstInv(heard.times, later, heard.since, later, 0)
      BY <1>1, <1>3, <2>3, Quiet, Zenon
    <3> QED BY <2>2, <3>1, <3>2, <3>3, <3>4, NoneParts, Zenon DEF IdInv
  <2>4. CASE ~(later - start > IdWindow)
    <3>1. ids' = Detection(start, seen, alarm)
      <4>1. ids_process_frame(Detection(start, seen, alarm), 0, 8, later)
              = IF later - start > IdWindow THEN Detection(later, None, Calm)
                                            ELSE Detection(start, seen, alarm)
        BY <1>1, Processed, Zenon
      <4> QED BY <2>2, <2>4, <4>1, Zenon
    <3>2. /\ ids'.window_start_time = start /\ ids'.seen = seen /\ ids'.alarm = alarm
          /\ ids_check_alarms(ids') = {k \in DOMAIN alarm : alarm[k]}
      <4>1. HasParts(Detection(start, seen, alarm), start, seen, alarm)
        BY DetectionParts, Zenon
      <4> QED BY <3>1, <4>1, Zenon DEF HasParts
    <3>3. heard'.alarmed => alarm["pmkid"]
      BY <2>2, <3>2, Zenon
    <3>4. BurstInv(heard.times, later, heard.since, start, seen["pmkid"])
      BY <1>1, <1>3, <2>4, Quiet, Zenon
    <3> QED BY <1>1, <2>2, <3>1, <3>2, <3>3, <3>4, Zenon DEF IdInv
  <2> QED BY <2>3, <2>4
<1>5. CASE f = <<2, 0>>
  <2>1. f[1] = 2 /\ f[2] = 0
    BY <1>5
  <2> DEFINE alarmed == "pmkid" \in ids_check_alarms(ids')
             since == IF alarmed \/ heard.since = IdBurst THEN 0 ELSE heard.since + 1
             times == Latest(Append(heard.times, later))
  <2>2. /\ ids' = ids_process_frame(Detection(start, seen, alarm), 2, 0, later)
        /\ heard'.times = times /\ heard'.now = later
        /\ heard'.since = since /\ heard'.alarmed = alarmed
        /\ seen["pmkid"] < IdBurst
    <3>1. /\ ids' = ids_process_frame(ids, 2, 0, later)
          /\ heard' = [times |-> times, now |-> later, alarmed |-> alarmed, since |-> since]
          /\ ids.seen.pmkid < IdBurst
      BY <1>2, <2>1, Zenon DEF later
    <3> HIDE DEF times, alarmed, since
    <3>2. /\ heard'.times = times /\ heard'.now = later /\ heard'.since = since
          /\ heard'.alarmed = alarmed
      BY <3>1, Zenon
    <3> QED BY <1>1, <3>1, <3>2, Zenon DEF seen
  <2> HIDE DEF times
  <2>3. PICK start2, seen2, alarm2 :
          /\ ids' = Detection(start2, seen2, alarm2) /\ PerKind(seen2) /\ PerKind(alarm2)
          /\ IF later - start > IdWindow THEN start2 = later /\ seen2["pmkid"] = 1
                                         ELSE start2 = start /\ seen2["pmkid"] = seen["pmkid"] + 1
          /\ (alarm2["pmkid"] => seen2["pmkid"] > 3) /\ (~alarm2["pmkid"] => ~(seen2["pmkid"] > 3))
    <3>1. CASE later - start > IdWindow
      <4>1. ids' = Detection(later, More(None), Louder(None, Calm))
        <5>1. ids_process_frame(Detection(start, seen, alarm), 2, 0, later)
                = IF later - start > IdWindow
                    THEN Detection(later, More(None), Louder(None, Calm))
                  ELSE Detection(start, More(seen), Louder(seen, alarm))
          BY <1>1, ProcessedBurst, Zenon
        <5> QED BY <2>2, <3>1, <5>1, Zenon
      <4>2. /\ PerKind(More(None)) /\ PerKind(Louder(None, Calm))
            /\ More(None)["pmkid"] = None["pmkid"] + 1
            /\ Louder(None, Calm)["pmkid"] <=> (Calm["pmkid"] \/ None["pmkid"] + 1 > 3)
        BY NoneParts, MoreParts, Zenon
      <4>3. More(None)["pmkid"] = 1 /\ ~Louder(None, Calm)["pmkid"] /\ ~(1 > 3)
        <5>1. 0 + 1 = 1 /\ ~(1 > 3)
          OBVIOUS
        <5> QED BY <4>2, <5>1, NoneParts, Zenon
      <4> QED BY <3>1, <4>1, <4>2, <4>3, Zenon
    <3>2. CASE ~(later - start > IdWindow)
      <4>1. ids' = Detection(start, More(seen), Louder(seen, alarm))
        <5>1. ids_process_frame(Detection(start, seen, alarm), 2, 0, later)
                = IF later - start > IdWindow
                    THEN Detection(later, More(None), Louder(None, Calm))
                  ELSE Detection(start, More(seen), Louder(seen, alarm))
          BY <1>1, ProcessedBurst, Zenon
        <5> QED BY <2>2, <3>2, <5>1, Zenon
      <4>2. /\ PerKind(More(seen)) /\ PerKind(Louder(seen, alarm))
            /\ More(seen)["pmkid"] = seen["pmkid"] + 1
            /\ Louder(seen, alarm)["pmkid"] <=> (alarm["pmkid"] \/ seen["pmkid"] + 1 > 3)
        BY <1>1, MoreParts, Zenon
      <4>3. seen["pmkid"] > 3 => seen["pmkid"] + 1 > 3
        <5>1. seen["pmkid"] \in 0 .. 7
          BY <1>1 DEF BurstInv, IdBurst
        <5> QED BY <5>1
      <4> QED BY <1>1, <3>2, <4>1, <4>2, <4>3, Zenon
    <3> QED BY <3>1, <3>2
  <2>4. /\ ids'.window_start_time = start2 /\ ids'.seen = seen2 /\ ids'.alarm = alarm2
        /\ ids_check_alarms(ids') = {k \in DOMAIN alarm2 : alarm2[k]}
    <3>1. HasParts(Detection(start2, seen2, alarm2), start2, seen2, alarm2)
      BY DetectionParts, Zenon
    <3> QED BY <2>3, <3>1, Zenon DEF HasParts
  <2>5. alarmed <=> alarm2["pmkid"]
    <3>1. "pmkid" \in DOMAIN alarm2
      BY <2>3 DEF PerKind, Counted3
    <3> QED BY <2>4, <3>1, Zenon
  <2> HIDE DEF alarmed
  <2>6. /\ IF later - start > IdWindow THEN start2 = later /\ seen2["pmkid"] = 1
                                       ELSE start2 = start /\ seen2["pmkid"] = seen["pmkid"] + 1
        /\ \/ since = 0
           \/ heard.since # IdBurst /\ since = heard.since + 1 /\ seen2["pmkid"] <= 3
    <3>1. seen2["pmkid"] \in Nat
      <4>1. seen["pmkid"] \in Nat
        BY <1>1 DEF BurstInv
      <4> QED BY <2>3, <4>1
    <3>2. ~(seen2["pmkid"] > 3) => seen2["pmkid"] <= 3
      BY <3>1
    <3> QED BY <2>3, <2>5, <3>2, Zenon
  <2> HIDE DEF since
  <2>7. BurstInv(times, later, since, start2, seen2["pmkid"])
    BY <1>1, <1>3, <2>2, <2>6, Heard, Zenon DEF times
  <2> QED BY <2>2, <2>3, <2>4, <2>5, <2>7, Zenon DEF IdInv
<1> QED BY <1>4, <1>5

LEMMA ResetKeeps == IdInv /\ IdReset => IdInv'
<1> SUFFICES ASSUME IdInv, IdReset PROVE IdInv'
  OBVIOUS
<1> DEFINE start == ids.window_start_time
           seen == ids.seen
           alarm == ids.alarm
           calm == [k \in DOMAIN alarm |-> FALSE]
           r == [ids EXCEPT !.alarm = calm]
<1>1. ids' = r /\ heard' = heard
  BY Zenon DEF IdReset, ids_reset_alarms
<1>2. ids = Detection(start, seen, alarm) /\ PerKind(seen) /\ PerKind(alarm)
  BY Zenon DEF IdInv
<1>3. PerKind(calm) /\ ~calm["pmkid"]
  BY <1>2 DEF PerKind, Counted3
<1> HIDE DEF start, seen, alarm, calm
<1>4. ids = [window_sec |-> IdWindow, window_start_time |-> start, seen |-> seen,
             threshold |-> Thresholds, alarm |-> alarm]
  BY <1>2 DEF Detection
<1>5. r = Detection(start, seen, calm)
  BY <1>4 DEF Detection
<1> HIDE DEF r
<1>6. ids' = Detection(start, seen, calm)
  BY <1>1, <1>5
<1>7. ids'.window_start_time = start /\ ids'.seen = seen /\ ids'.alarm = calm
  <2>1. HasParts(Detection(start, seen, calm), start, seen, calm)
    BY DetectionParts, Zenon
  <2> QED BY <1>6, <2>1, Zenon DEF HasParts
<1> QED BY <1>1, <1>2, <1>3, <1>6, <1>7, Zenon DEF IdInv, start, seen

(* A burst is noticed: of seven of its frames within a window's length, one
   raises the alarm, although the window may be renewed amid them; the alarm is
   not raised for fewer than its threshold, nor for frames that are further
   apart: for every length of the window and all times between the frames. *)
THEOREM BurstSeen == IdSpec => []BurstNoticed
<1>1. IdInit => IdInv
  BY IdInvInit
<1>2. IdInv /\ [IdNext]_<<ids, heard>> => IdInv'
  <2>1. IdInv /\ UNCHANGED <<ids, heard>> => IdInv'
    BY Zenon DEF IdInv
  <2> QED BY <2>1, FrameKeeps, ResetKeeps DEF IdNext
<1>3. IdInv => BurstNoticed
  <2> SUFFICES ASSUME IdInv PROVE BurstNoticed
    OBVIOUS
  <2> DEFINE times == heard.times
             count == ids.seen["pmkid"]
             start == ids.window_start_time
  <2>1. ids.threshold.pmkid = 3
    <3>1. Thresholds.pmkid = 3
      BY DEF Thresholds
    <3>2. PICK x, y, z : ids = Detection(x, y, z)
      BY Zenon DEF IdInv
    <3>3. Detection(x, y, z).threshold = Thresholds
      BY DEF Detection
    <3> QED BY <3>1, <3>2, <3>3, Zenon
  <2>2. /\ times \in Seq(Nat) /\ start \in Nat /\ count \in Nat /\ count <= Len(times)
        /\ \A i \in 1 .. Len(times) :
             i > Len(times) - count => start <= times[i] /\ times[i] <= start + IdWindow
        /\ heard.since = IdBurst => times[IdBurst] - times[1] > IdWindow
        /\ heard.alarmed => count > 3
    BY DEF IdInv, BurstInv
  <2> HIDE DEF times, count, start
  <2>3. Len(times) \in Nat /\ \A i \in 1 .. Len(times) : times[i] \in Nat
    BY <2>2, LenProperties
  <2>4. heard.alarmed =>
          /\ Len(times) > 3
          /\ times[Len(times)] - times[Len(times) - 3] <= IdWindow
    <3> SUFFICES ASSUME heard.alarmed
                 PROVE  /\ Len(times) > 3
                        /\ times[Len(times)] - times[Len(times) - 3] <= IdWindow
      OBVIOUS
    <3> DEFINE last == times[Len(times)]
               first == times[Len(times) - 3]
    <3>1. count > 3 /\ Len(times) > 3
      BY <2>2, <2>3
    <3>2. /\ Len(times) \in 1 .. Len(times) /\ Len(times) - 3 \in 1 .. Len(times)
          /\ Len(times) > Len(times) - count /\ Len(times) - 3 > Len(times) - count
      BY <2>2, <2>3, <3>1
    <3>3. /\ start <= first /\ last <= start + IdWindow /\ first \in Nat /\ last \in Nat
      BY <2>2, <2>3, <3>2, Zenon
    <3> HIDE DEF first, last
    <3>4. last - first <= IdWindow
      BY <2>2, <3>3, IdAssumption
    <3> QED BY <3>1, <3>4, Zenon DEF first, last
  <2> QED BY <2>1, <2>2, <2>4, Zenon DEF BurstNoticed, times
<1> QED BY <1>1, <1>2, <1>3, PTL DEF IdSpec

-----------------------------------------------------------------------------
(***************************************************************************)
(* The element of a configuration, whole or cut short, and what two ends    *)
(* make of it.                                                              *)
(***************************************************************************)

(* The element of a configuration: where its bytes are. *)
ElementOf(ie, g, p, a, c) ==
  /\ ie[1] = 48 /\ ie[3] = 1 /\ ie[4] = 0
  /\ ie[5] = 0 /\ ie[6] = 15 /\ ie[7] = 172 /\ ie[8] = g /\ ie[9] = 1 /\ ie[10] = 0
  /\ ie[11] = 0 /\ ie[12] = 15 /\ ie[13] = 172 /\ ie[14] = p /\ ie[15] = 1 /\ ie[16] = 0
  /\ ie[17] = 0 /\ ie[18] = 15 /\ ie[19] = 172 /\ ie[20] = a
  /\ ie[21] = c /\ ie[22] = 0 /\ ie[23] = 0 /\ ie[24] = 0

(* The element that is built has its bytes there, and a suite for groups when frames are protected. *)
LEMMA Built ==
  ASSUME NEW cfg
  PROVE  LET ie == rsn_ie_build(cfg)
         IN  /\ ElementOf(ie, cfg.group, cfg.pairwise, cfg.akm, Capabilities(cfg))
             /\ Len(ie) = IF cfg.mfp_capable THEN 28 ELSE 24
<1> DEFINE g == cfg.group
           p == cfg.pairwise
           a == cfg.akm
           c == Capabilities(cfg)
           B(tail) == <<1, 0>> \o <<0, 15, 172>> \o <<g, 1, 0>> \o <<0, 15, 172>> \o <<p, 1, 0>>
                        \o <<0, 15, 172>> \o <<a, c, 0, 0, 0>> \o tail
           ie == rsn_ie_build(cfg)
<1> HIDE DEF g, p, a, c
<1>1. CASE cfg.mfp_capable
  <2> DEFINE body == B(<<0, 15, 172>> \o <<6>>)
  <2>1. ie = <<48, Len(body)>> \o body
    BY <1>1, Zenon DEF rsn_ie_build, oui_wfa, g, p, a, c
  <2>2. Len(body) = 26
    OBVIOUS
  <2>3. ie = <<48, 26>> \o body
    BY <2>1, <2>2, Zenon
  <2> HIDE DEF ie
  <2>4. ElementOf(ie, g, p, a, c) /\ Len(ie) = 28
    BY <2>3 DEF ElementOf
  <2> QED BY <1>1, <2>4, Zenon DEF ie, g, p, a, c
<1>2. CASE ~cfg.mfp_capable
  <2> DEFINE body == B(<<>>)
  <2>1. ie = <<48, Len(body)>> \o body
    BY <1>2, Zenon DEF rsn_ie_build, oui_wfa, g, p, a, c
  <2>2. Len(body) = 22
    OBVIOUS
  <2>3. ie = <<48, 22>> \o body
    BY <2>1, <2>2, Zenon
  <2> HIDE DEF ie
  <2>4. ElementOf(ie, g, p, a, c) /\ Len(ie) = 24
    BY <2>3 DEF ElementOf
  <2> QED BY <1>2, <2>4, Zenon DEF ie, g, p, a, c
<1> QED BY <1>1, <1>2

(* A suite of the known family is read as its number. *)
LEMMA SuiteAt ==
  ASSUME NEW ie, NEW pos \in Nat, NEW default,
         ie[pos + 1] = 0, ie[pos + 2] = 15, ie[pos + 3] = 172
  PROVE  Suite(ie, pos, default) = ie[pos + 4]
<1> DEFINE s == SubSeq(ie, pos + 1, pos + 3)
<1>1. pos + 1 \in Nat /\ pos + 3 \in Nat /\ pos + 1 <= pos + 3
  OBVIOUS
<1>2. /\ Len(s) = pos + 3 - (pos + 1) + 1
      /\ \A i \in 1 .. pos + 3 - (pos + 1) + 1 : s[i] = ie[pos + 1 + i - 1]
      /\ s \in Seq({ie[i] : i \in pos + 1 .. pos + 3})
  BY <1>1, PartOf
<1> DEFINE S == {ie[i] : i \in pos + 1 .. pos + 3}
<1>3. 0 \in S /\ 15 \in S /\ 172 \in S
  OBVIOUS
<1>4. <<0, 15, 172>> \in Seq(S)
  <2> HIDE DEF S
  <2> QED BY <1>3
<1>5. Len(s) = 3 /\ s[1] = 0 /\ s[2] = 15 /\ s[3] = 172
  <2> HIDE DEF s
  <2> QED BY <1>2
<1>6. s \in Seq(S)
  BY <1>2
<1> HIDE DEF s, S
<1>7. s = <<0, 15, 172>>
  <2> DEFINE t == <<0, 15, 172>>
  <2>1. Len(t) = 3 /\ t[1] = 0 /\ t[2] = 15 /\ t[3] = 172
    OBVIOUS
  <2>2. t \in Seq(S)
    BY <1>4
  <2> HIDE DEF t
  <2>3. \A i \in 1 .. Len(s) : s[i] = t[i]
    BY <1>5, <2>1
  <2>4. s = t
    BY <1>5, <1>6, <2>1, <2>2, <2>3, SeqEqual
  <2> QED BY <2>4 DEF t
<1> QED BY <1>7, Zenon DEF Suite, oui_wfa, s

(* sec_config_t *)
CfgFields == {"protocol", "akm", "pairwise", "group", "mfp_capable", "mfp_required", "pmk_caching",
              "preauth_enabled", "use_8021x", "ssid", "key_ctx"}

(* The fields of an empty configuration. *)
LEMMA InitFields ==
  /\ DOMAIN sec_config_init = CfgFields
  /\ sec_config_init.akm = AKM.RESERVED /\ sec_config_init.pairwise = PAIRWISE.NONE
  /\ sec_config_init.group = GROUP.NONE /\ sec_config_init.protocol = SEC_PROTO.NONE
  /\ sec_config_init.ssid = <<>> /\ sec_config_init.key_ctx = key_mgmt_init
  /\ sec_config_init.mfp_capable = FALSE /\ sec_config_init.mfp_required = FALSE
  /\ sec_config_init.pmk_caching = FALSE /\ sec_config_init.preauth_enabled = FALSE
  /\ sec_config_init.use_8021x = FALSE
<1> DEFINE no == FALSE
<1>1. sec_config_init =
  [protocol |-> SEC_PROTO.NONE, akm |-> AKM.RESERVED, pairwise |-> PAIRWISE.NONE, group |-> GROUP.NONE,
   mfp_capable |-> no, mfp_required |-> no, pmk_caching |-> no, preauth_enabled |-> no,
   use_8021x |-> no, ssid |-> <<>>, key_ctx |-> key_mgmt_init]
  BY Zenon DEF sec_config_init
<1> HIDE DEF no
<1>2. /\ DOMAIN sec_config_init = CfgFields
      /\ sec_config_init.akm = AKM.RESERVED /\ sec_config_init.pairwise = PAIRWISE.NONE
      /\ sec_config_init.group = GROUP.NONE /\ sec_config_init.protocol = SEC_PROTO.NONE
      /\ sec_config_init.ssid = <<>> /\ sec_config_init.key_ctx = key_mgmt_init
      /\ sec_config_init.mfp_capable = no /\ sec_config_init.mfp_required = no
      /\ sec_config_init.pmk_caching = no /\ sec_config_init.preauth_enabled = no
      /\ sec_config_init.use_8021x = no
  BY <1>1 DEF CfgFields
<1> QED BY <1>2, Zenon DEF no

(* What a reader makes of the first len bytes of an element. *)
ReadOf(r, g, p, a, c, len) ==
  LET pw == IF len >= 14 THEN p ELSE PAIRWISE.NONE
      am == IF len >= 20 THEN a ELSE AKM.RESERVED
      cp == IF len >= 22 THEN c ELSE 0
  IN  /\ len < 8 => r = [rc |-> -1, cfg |-> sec_config_init]
      /\ len >= 8 => /\ r.rc = 0 /\ DOMAIN r.cfg = CfgFields
                     /\ r.cfg.group = g /\ r.cfg.pairwise = pw /\ r.cfg.akm = am
                     /\ r.cfg.mfp_capable = ((cp \div 128) % 2 = 1)
                     /\ r.cfg.mfp_required = ((cp \div 64) % 2 = 1)
                     /\ r.cfg.preauth_enabled = (cp % 2 = 1)
                     /\ r.cfg.protocol = ProtocolOf(g, pw, am)
                     /\ r.cfg.use_8021x = sec_config_init.use_8021x
                     /\ r.cfg.ssid = <<>>

(* Reading the first len bytes of an element, whatever is cut off. *)
LEMMA Read ==
  ASSUME NEW ie, NEW g, NEW p, NEW a, NEW c \in 0 .. 255, ElementOf(ie, g, p, a, c), NEW len \in Nat
  PROVE  ReadOf(rsn_ie_parse(ie, len), g, p, a, c, len)
<1> DEFINE pw == IF len >= 14 THEN p ELSE PAIRWISE.NONE
           am == IF len >= 20 THEN a ELSE AKM.RESERVED
           cp == IF len >= 22 THEN c ELSE 0
           group == Suite(ie, 4, GROUP.NONE)
           pairs == Suites(ie, len, 8, PAIRWISE.NONE)
           akms == Suites(ie, len, pairs.pos, AKM.RESERVED)
           caps == IF akms.pos + 2 <= len THEN Short(ie, akms.pos) ELSE 0
           pmkids == IF akms.pos + 4 <= len THEN Short(ie, akms.pos + 2) ELSE 0
<1>1. group = g
  <2>1. ie[4 + 1] = 0 /\ ie[4 + 2] = 15 /\ ie[4 + 3] = 172 /\ ie[4 + 4] = g
    BY DEF ElementOf
  <2> QED BY <2>1, SuiteAt
<1>2. Suite(ie, 10, PAIRWISE.NONE) = p
  <2>1. ie[10 + 1] = 0 /\ ie[10 + 2] = 15 /\ ie[10 + 3] = 172 /\ ie[10 + 4] = p
    BY DEF ElementOf
  <2> QED BY <2>1, SuiteAt
<1>3. Suite(ie, 16, AKM.RESERVED) = a
  <2>1. ie[16 + 1] = 0 /\ ie[16 + 2] = 15 /\ ie[16 + 3] = 172 /\ ie[16 + 4] = a
    BY DEF ElementOf
  <2> QED BY <2>1, SuiteAt
<1>4. /\ Short(ie, 2) = 1 /\ Short(ie, 8) = 1 /\ Short(ie, 14) = 1 /\ Short(ie, 10) = 3840
      /\ Short(ie, 16) = 3840 /\ Short(ie, 20) = c
  BY DEF ElementOf, Short
<1>5. pairs = IF len >= 14 THEN [suite |-> p, pos |-> 14] ELSE [suite |-> PAIRWISE.NONE, pos |-> 10]
  BY <1>2, <1>4 DEF Suites
<1>6. pairs.suite = pw /\ pairs.pos = IF len >= 14 THEN 14 ELSE 10
  BY <1>5
<1> HIDE DEF pairs
<1>7. akms.suite = am /\ akms.pos = IF len >= 20 THEN 20 ELSE IF len >= 14 THEN 16 ELSE 12
  <2>1. CASE len >= 14
    <3>1. akms = IF len >= 20 THEN [suite |-> a, pos |-> 20] ELSE [suite |-> AKM.RESERVED, pos |-> 16]
      BY <1>3, <1>4, <1>6, <2>1 DEF Suites
    <3> QED BY <2>1, <3>1
  <2>2. CASE len < 14
    <3>1. akms = [suite |-> AKM.RESERVED, pos |-> 12]
      BY <1>4, <1>6, <2>2 DEF Suites
    <3> QED BY <2>2, <3>1
  <2> QED BY <2>1, <2>2
<1> HIDE DEF akms
<1>8. caps = IF len >= 22 THEN c ELSE IF len >= 18 /\ len < 20 THEN 3840 ELSE 0
  BY <1>4, <1>7
<1> HIDE DEF caps
<1>9. /\ (BitOf(caps, 7) = 1) <=> ((cp \div 128) % 2 = 1)
      /\ (BitOf(caps, 6) = 1) <=> ((cp \div 64) % 2 = 1)
      /\ (BitOf(caps, 0) = 1) <=> (cp % 2 = 1)
  BY <1>8 DEF BitOf
<1>10. ie[1] = 48
  BY DEF ElementOf
<1>11. CASE len < 8
  <2>1. rsn_ie_parse(ie, len) = [rc |-> -1, cfg |-> sec_config_init]
    BY <1>11, Zenon DEF rsn_ie_parse
  <2>2. ~(len >= 8)
    BY <1>11
  <2> QED BY <2>1, <2>2, Zenon DEF ReadOf
<1>12. CASE len >= 8
  <2> DEFINE r == rsn_ie_parse(ie, len)
             b7 == BitOf(caps, 7) = 1
             b6 == BitOf(caps, 6) = 1
             b0 == BitOf(caps, 0) = 1
             pm == pmkids > 0
             proto == ProtocolOf(g, pw, am)
             init == sec_config_init
             cfg == [init EXCEPT !.group = g, !.pairwise = pw, !.akm = am,
                       !.mfp_capable = b7, !.mfp_required = b6,
                       !.preauth_enabled = b0, !.pmk_caching = pm, !.protocol = proto]
  <2>1. ~(len < 8 \/ ie[1] # 48 \/ Short(ie, 2) # 1)
    BY <1>4, <1>10, <1>12
  <2> HIDE DEF pw, am, cp, group
  <2>2. r = [rc |-> 0, cfg |-> cfg]
    <3> USE DEF caps, akms, pairs, group
    <3>1. r = [rc |-> 0,
            cfg |-> [init EXCEPT
                       !.group = group, !.pairwise = pairs.suite, !.akm = akms.suite,
                       !.mfp_capable = (BitOf(caps, 7) = 1), !.mfp_required = (BitOf(caps, 6) = 1),
                       !.preauth_enabled = (BitOf(caps, 0) = 1), !.pmk_caching = (pmkids > 0),
                       !.protocol = ProtocolOf(group, pairs.suite, akms.suite)]]
      BY <2>1, Zenon DEF rsn_ie_parse
    <3> HIDE DEF caps, akms, pairs, group
    <3> QED BY <3>1, <1>1, <1>6, <1>7, Zenon
  <2>3. DOMAIN init = CfgFields /\ init.ssid = <<>>
    BY InitFields
  <2> HIDE DEF init, b7, b6, b0, pm, proto, r
  <2>4. r.rc = 0 /\ r.cfg = cfg
    BY <2>2
  <2>5. /\ DOMAIN cfg = CfgFields /\ cfg.group = g /\ cfg.pairwise = pw /\ cfg.akm = am
        /\ cfg.mfp_capable = b7 /\ cfg.mfp_required = b6 /\ cfg.preauth_enabled = b0
        /\ cfg.protocol = proto /\ cfg.use_8021x = init.use_8021x /\ cfg.ssid = init.ssid
    BY <2>3 DEF CfgFields
  <2> HIDE DEF cfg
  <2>6. /\ r.cfg.mfp_capable = ((cp \div 128) % 2 = 1)
        /\ r.cfg.mfp_required = ((cp \div 64) % 2 = 1)
        /\ r.cfg.preauth_enabled = (cp % 2 = 1)
    BY <1>9, <2>4, <2>5, Zenon DEF b7, b6, b0
  <2>7. /\ r.rc = 0 /\ DOMAIN r.cfg = CfgFields /\ r.cfg.group = g /\ r.cfg.pairwise = pw /\ r.cfg.akm = am
        /\ r.cfg.protocol = ProtocolOf(g, pw, am)
        /\ r.cfg.use_8021x = sec_config_init.use_8021x /\ r.cfg.ssid = <<>>
    BY <2>3, <2>4, <2>5, Zenon DEF proto, init
  <2>8. ~(len < 8)
    BY <1>12
  <2> QED BY <2>6, <2>7, <2>8, Zenon DEF ReadOf, r, pw, am, cp
<1>13. len < 8 \/ len >= 8
  OBVIOUS
<1> QED BY <1>11, <1>12, <1>13, Zenon

(* The five kinds of configuration: generation, suites and protection. *)
OfKind(cfg, protocol, akm, suite, mfp) ==
  /\ cfg.protocol = protocol /\ cfg.akm = akm /\ cfg.pairwise = suite /\ cfg.group = suite
  /\ cfg.mfp_capable = mfp /\ cfg.mfp_required = mfp
Known5(cfg) ==
  \/ OfKind(cfg, 3, 2, 4, FALSE) \/ OfKind(cfg, 4, 8, 8, TRUE) \/ OfKind(cfg, 3, 1, 4, FALSE)
  \/ OfKind(cfg, 5, 5, 9, TRUE) \/ OfKind(cfg, 4, 18, 8, FALSE)
KnownConfig(cfg) ==
  /\ DOMAIN cfg = CfgFields
  /\ cfg.preauth_enabled \in BOOLEAN /\ cfg.pmk_caching \in BOOLEAN /\ Known5(cfg)

(* The numbers of the generations and the suites. *)
LEMMA Numbers ==
  /\ SEC_PROTO.NONE = 0 /\ SEC_PROTO.WEP = 1 /\ SEC_PROTO.WPA = 2 /\ SEC_PROTO.WPA2 = 3
  /\ SEC_PROTO.WPA3 = 4 /\ SEC_PROTO.WPA3_ENT = 5
  /\ AKM.RESERVED = 0 /\ AKM.IEEE8021X = 1 /\ AKM.PSK = 2 /\ AKM.SHA256_8021X = 5
  /\ AKM.SAE = 8 /\ AKM.FT_SAE = 9 /\ AKM.OWE = 18
  /\ PAIRWISE.NONE = 0 /\ PAIRWISE.TKIP = 2 /\ PAIRWISE.CCMP = 4 /\ PAIRWISE.GCMP128 = 8
  /\ PAIRWISE.GCMP256 = 9 /\ PAIRWISE.CCMP256 = 10
  /\ GROUP.NONE = 0 /\ GROUP.WEP40 = 1 /\ GROUP.WEP104 = 3 /\ GROUP.CCMP = 4
  /\ GROUP.GCMP128 = 8 /\ GROUP.GCMP256 = 9
  BY DEF SEC_PROTO, AKM, PAIRWISE, GROUP

(* The configurations of the library are of these kinds. *)
LEMMA Configured ==
  ASSUME NEW cfg \in SpConfigs
  PROVE  DOMAIN cfg = CfgFields /\ Known5(cfg)
<1> DEFINE init == sec_config_init
           yes == TRUE
           no == FALSE
<1>1. /\ DOMAIN init = CfgFields /\ init.mfp_capable = FALSE /\ init.mfp_required = FALSE
  BY InitFields, Zenon
<1>2. CASE \E x, y : cfg = [[init EXCEPT !.ssid = x] EXCEPT !.protocol = SEC_PROTO.WPA2, !.akm = AKM.PSK,
                           !.pairwise = PAIRWISE.CCMP, !.group = GROUP.CCMP, !.key_ctx = y]
  <2>1. /\ DOMAIN cfg = CfgFields /\ cfg.protocol = SEC_PROTO.WPA2 /\ cfg.akm = AKM.PSK
        /\ cfg.pairwise = PAIRWISE.CCMP /\ cfg.group = GROUP.CCMP
        /\ cfg.mfp_capable = init.mfp_capable /\ cfg.mfp_required = init.mfp_required
    <3> HIDE DEF init
    <3> QED BY <1>1, <1>2 DEF CfgFields
  <2>2. OfKind(cfg, 3, 2, 4, FALSE)
    BY <1>1, <2>1, Numbers, InitFields, Zenon DEF OfKind
  <2> QED BY <2>1, <2>2, Zenon DEF Known5
<1>3. CASE cfg = [[init EXCEPT !.ssid = <<1>>] EXCEPT !.protocol = SEC_PROTO.WPA3, !.akm = AKM.SAE,
     !.pairwise = PAIRWISE.GCMP128, !.group = GROUP.GCMP128, !.mfp_required = yes, !.mfp_capable = yes]
  <2>1. /\ DOMAIN cfg = CfgFields /\ cfg.protocol = SEC_PROTO.WPA3 /\ cfg.akm = AKM.SAE
        /\ cfg.pairwise = PAIRWISE.GCMP128 /\ cfg.group = GROUP.GCMP128
        /\ cfg.mfp_capable = yes /\ cfg.mfp_required = yes
    <3> HIDE DEF init, yes
    <3> QED BY <1>1, <1>3 DEF CfgFields
  <2>2. OfKind(cfg, 4, 8, 8, TRUE)
    BY <2>1, Numbers, Zenon DEF OfKind
  <2> QED BY <2>1, <2>2, Zenon DEF Known5
<1>4. CASE cfg = [[init EXCEPT !.ssid = <<1>>] EXCEPT !.protocol = SEC_PROTO.WPA2, !.akm = AKM.IEEE8021X,
     !.pairwise = PAIRWISE.CCMP, !.group = GROUP.CCMP, !.use_8021x = yes]
  <2>1. /\ DOMAIN cfg = CfgFields /\ cfg.protocol = SEC_PROTO.WPA2 /\ cfg.akm = AKM.IEEE8021X
        /\ cfg.pairwise = PAIRWISE.CCMP /\ cfg.group = GROUP.CCMP
        /\ cfg.mfp_capable = init.mfp_capable /\ cfg.mfp_required = init.mfp_required
    <3> HIDE DEF init, yes
    <3> QED BY <1>1, <1>4 DEF CfgFields
  <2>2. OfKind(cfg, 3, 1, 4, FALSE)
    BY <1>1, <2>1, Numbers, Zenon DEF OfKind
  <2> QED BY <2>1, <2>2, Zenon DEF Known5
<1>5. CASE cfg = [[init EXCEPT !.ssid = <<1>>] EXCEPT !.protocol = SEC_PROTO.WPA3_ENT, !.akm = AKM.SHA256_8021X,
     !.pairwise = PAIRWISE.GCMP256, !.group = GROUP.GCMP256, !.use_8021x = yes, !.mfp_required = yes, !.mfp_capable = yes]
  <2>1. /\ DOMAIN cfg = CfgFields /\ cfg.protocol = SEC_PROTO.WPA3_ENT /\ cfg.akm = AKM.SHA256_8021X
        /\ cfg.pairwise = PAIRWISE.GCMP256 /\ cfg.group = GROUP.GCMP256
        /\ cfg.mfp_capable = yes /\ cfg.mfp_required = yes
    <3> HIDE DEF init, yes
    <3> QED BY <1>1, <1>5 DEF CfgFields
  <2>2. OfKind(cfg, 5, 5, 9, TRUE)
    BY <2>1, Numbers, Zenon DEF OfKind
  <2> QED BY <2>1, <2>2, Zenon DEF Known5
<1>6. CASE cfg = [[init EXCEPT !.ssid = <<1>>] EXCEPT !.protocol = SEC_PROTO.WPA3, !.akm = AKM.OWE,
     !.pairwise = PAIRWISE.GCMP128, !.group = GROUP.GCMP128]
  <2>1. /\ DOMAIN cfg = CfgFields /\ cfg.protocol = SEC_PROTO.WPA3 /\ cfg.akm = AKM.OWE
        /\ cfg.pairwise = PAIRWISE.GCMP128 /\ cfg.group = GROUP.GCMP128
        /\ cfg.mfp_capable = init.mfp_capable /\ cfg.mfp_required = init.mfp_required
    <3> HIDE DEF init
    <3> QED BY <1>1, <1>6 DEF CfgFields
  <2>2. OfKind(cfg, 4, 18, 8, FALSE)
    BY <1>1, <2>1, Numbers, Zenon DEF OfKind
  <2> QED BY <2>1, <2>2, Zenon DEF Known5
<1>7. \/ cfg = sec_config_set_wpa2_personal(<<1>>, <<3>>) \/ cfg = sec_config_set_wpa3_personal(<<1>>)
      \/ cfg = sec_config_set_wpa2_enterprise(<<1>>) \/ cfg = sec_config_set_wpa3_enterprise(<<1>>)
      \/ cfg = sec_config_set_owe(<<1>>)
  BY Zenon DEF SpConfigs
<1>8. cfg = sec_config_set_wpa2_personal(<<1>>, <<3>>) => DOMAIN cfg = CfgFields /\ Known5(cfg)
  BY <1>2, Zenon DEF sec_config_set_wpa2_personal, Named
<1>9. cfg = sec_config_set_wpa3_personal(<<1>>) => DOMAIN cfg = CfgFields /\ Known5(cfg)
  BY <1>3, Zenon DEF sec_config_set_wpa3_personal, Named
<1>10. cfg = sec_config_set_wpa2_enterprise(<<1>>) => DOMAIN cfg = CfgFields /\ Known5(cfg)
  BY <1>4, Zenon DEF sec_config_set_wpa2_enterprise, Named
<1>11. cfg = sec_config_set_wpa3_enterprise(<<1>>) => DOMAIN cfg = CfgFields /\ Known5(cfg)
  BY <1>5, Zenon DEF sec_config_set_wpa3_enterprise, Named
<1>12. cfg = sec_config_set_owe(<<1>>) => DOMAIN cfg = CfgFields /\ Known5(cfg)
  BY <1>6, Zenon DEF sec_config_set_owe, Named
<1> QED BY <1>7, <1>8, <1>9, <1>10, <1>11, <1>12, Zenon

(* The outcomes of a negotiation, and one without the name of its network. *)
Strip(r) == [r EXCEPT !.cfg.ssid = <<>>]
Agreed0(cfg) == [rc |-> 0, cfg |-> cfg]
Refused == [rc |-> -1, cfg |-> sec_config_init]

(* What a negotiation of a key management comes to, but for the name. *)
Outcome(akm) ==
  CASE akm = 5 -> Strip(Agreed0(sec_config_set_wpa3_enterprise(<<>>)))
    [] akm = 8 -> Strip(Agreed0(sec_config_set_wpa3_personal(<<>>)))
    [] akm = 1 -> Strip(Agreed0(sec_config_set_wpa2_enterprise(<<>>)))
    [] akm = 2 -> Strip(Agreed0([sec_config_set_wpa2_personal(<<>>, <<>>) EXCEPT !.key_ctx = key_mgmt_init]))
    [] akm = 18 -> Strip(Agreed0(sec_config_set_owe(<<>>)))
    [] OTHER -> Refused

(* Results that differ in the name of the network only. *)
LEMMA StripKeeps ==
  ASSUME NEW c, NEW d, DOMAIN c = CfgFields, DOMAIN d = CfgFields,
         \A f \in CfgFields \ {"ssid"} : c[f] = d[f],
         c = [f \in CfgFields |-> c[f]], d = [f \in CfgFields |-> d[f]]
  PROVE  Strip(Agreed0(c)) = Strip(Agreed0(d))
<1>1. Agreed0(c).cfg = c /\ Agreed0(d).cfg = d
  BY DEF Agreed0
<1>2. [c EXCEPT !.ssid = <<>>] = [d EXCEPT !.ssid = <<>>]
  <2>1. [c EXCEPT !.ssid = <<>>] = [f \in CfgFields |-> IF f = "ssid" THEN <<>> ELSE c[f]]
    BY Zenon
  <2>2. [d EXCEPT !.ssid = <<>>] = [f \in CfgFields |-> IF f = "ssid" THEN <<>> ELSE d[f]]
    BY Zenon
  <2>3. \A f \in CfgFields : (IF f = "ssid" THEN <<>> ELSE c[f]) = (IF f = "ssid" THEN <<>> ELSE d[f])
    BY Zenon
  <2> QED BY <2>1, <2>2, <2>3, Zenon
<1> DEFINE e == [c EXCEPT !.ssid = <<>>]
           p == Agreed0(c)
           q == Agreed0(d)
<1>3. Strip(p) = [p EXCEPT !.cfg = e] /\ Strip(q) = [q EXCEPT !.cfg = e]
  BY <1>1, <1>2, Zenon DEF Strip
<1>4. /\ DOMAIN p = {"rc", "cfg"} /\ p["rc"] = 0
      /\ DOMAIN q = {"rc", "cfg"} /\ q["rc"] = 0
  BY DEF Agreed0
<1> HIDE DEF p, q, e
<1>5. /\ [p EXCEPT !.cfg = e] = [x \in DOMAIN p |-> IF x = "cfg" THEN e ELSE p[x]]
      /\ [q EXCEPT !.cfg = e] = [x \in DOMAIN q |-> IF x = "cfg" THEN e ELSE q[x]]
  BY Zenon
<1>6. \A x \in {"rc", "cfg"} : (IF x = "cfg" THEN e ELSE p[x]) = (IF x = "cfg" THEN e ELSE q[x])
  BY <1>4
<1>7. [p EXCEPT !.cfg = e] = [q EXCEPT !.cfg = e]
  BY <1>4, <1>5, <1>6, Zenon
<1> QED BY <1>3, <1>7, Zenon DEF p, q

(* A named configuration is empty but for its name. *)
LEMMA NamedFields ==
  ASSUME NEW s
  PROVE  /\ DOMAIN Named(s) = CfgFields
         /\ \A f \in CfgFields \ {"ssid"} : Named(s)[f] = sec_config_init[f]
<1> DEFINE init == sec_config_init
<1>1. DOMAIN init = CfgFields
  BY InitFields
<1> HIDE DEF init
<1>2. DOMAIN [init EXCEPT !.ssid = s] = CfgFields
  BY <1>1
<1>3. \A f \in CfgFields \ {"ssid"} : [init EXCEPT !.ssid = s][f] = init[f]
  BY <1>1
<1> QED BY <1>2, <1>3, Zenon DEF Named, init

(* The configurations of one setting differ in their name only. *)
LEMMA NameOnly ==
  ASSUME NEW s
  PROVE  /\ Strip(Agreed0(sec_config_set_wpa3_enterprise(s))) = Strip(Agreed0(sec_config_set_wpa3_enterprise(<<>>)))
         /\ Strip(Agreed0(sec_config_set_wpa2_enterprise(s))) = Strip(Agreed0(sec_config_set_wpa2_enterprise(<<>>)))
         /\ Strip(Agreed0(sec_config_set_owe(s))) = Strip(Agreed0(sec_config_set_owe(<<>>)))
<1> DEFINE a == Named(s)
           b == Named(<<>>)
           yes == TRUE
<1>1. /\ DOMAIN a = CfgFields /\ DOMAIN b = CfgFields
      /\ \A f \in CfgFields \ {"ssid"} : a[f] = b[f]
  BY NamedFields, Zenon
<1> HIDE DEF a, b, yes
<1>2. Strip(Agreed0(sec_config_set_wpa3_enterprise(s))) = Strip(Agreed0(sec_config_set_wpa3_enterprise(<<>>)))
  <2> DEFINE F(x) == [x EXCEPT !.protocol = SEC_PROTO.WPA3_ENT, !.akm = AKM.SHA256_8021X, !.pairwise = PAIRWISE.GCMP256,
     !.group = GROUP.GCMP256, !.use_8021x = yes, !.mfp_required = yes, !.mfp_capable = yes]
  <2>1. /\ sec_config_set_wpa3_enterprise(s) = F(a)
        /\ sec_config_set_wpa3_enterprise(<<>>) = F(b)
    BY Zenon DEF sec_config_set_wpa3_enterprise, yes, a, b
  <2>2. /\ DOMAIN F(a) = CfgFields /\ DOMAIN F(b) = CfgFields
        /\ \A f \in CfgFields \ {"ssid"} : F(a)[f] = F(b)[f]
    BY <1>1
  <2>3. F(a) = [f \in CfgFields |-> F(a)[f]] /\ F(b) = [f \in CfgFields |-> F(b)[f]]
    BY <1>1
  <2> HIDE DEF F
  <2>4. Strip(Agreed0(F(a))) = Strip(Agreed0(F(b)))
    BY <2>2, <2>3, StripKeeps
  <2> QED BY <2>1, <2>4, Zenon
<1>3. Strip(Agreed0(sec_config_set_wpa2_enterprise(s))) = Strip(Agreed0(sec_config_set_wpa2_enterprise(<<>>)))
  <2> DEFINE F(x) == [x EXCEPT !.protocol = SEC_PROTO.WPA2, !.akm = AKM.IEEE8021X, !.pairwise = PAIRWISE.CCMP,
     !.group = GROUP.CCMP, !.use_8021x = yes]
  <2>1. /\ sec_config_set_wpa2_enterprise(s) = F(a)
        /\ sec_config_set_wpa2_enterprise(<<>>) = F(b)
    BY Zenon DEF sec_config_set_wpa2_enterprise, yes, a, b
  <2>2. /\ DOMAIN F(a) = CfgFields /\ DOMAIN F(b) = CfgFields
        /\ \A f \in CfgFields \ {"ssid"} : F(a)[f] = F(b)[f]
    BY <1>1
  <2>3. F(a) = [f \in CfgFields |-> F(a)[f]] /\ F(b) = [f \in CfgFields |-> F(b)[f]]
    BY <1>1
  <2> HIDE DEF F
  <2>4. Strip(Agreed0(F(a))) = Strip(Agreed0(F(b)))
    BY <2>2, <2>3, StripKeeps
  <2> QED BY <2>1, <2>4, Zenon
<1>4. Strip(Agreed0(sec_config_set_owe(s))) = Strip(Agreed0(sec_config_set_owe(<<>>)))
  <2> DEFINE F(x) == [x EXCEPT !.protocol = SEC_PROTO.WPA3, !.akm = AKM.OWE, !.pairwise = PAIRWISE.GCMP128,
     !.group = GROUP.GCMP128]
  <2>1. /\ sec_config_set_owe(s) = F(a)
        /\ sec_config_set_owe(<<>>) = F(b)
    BY Zenon DEF sec_config_set_owe, yes, a, b
  <2>2. /\ DOMAIN F(a) = CfgFields /\ DOMAIN F(b) = CfgFields
        /\ \A f \in CfgFields \ {"ssid"} : F(a)[f] = F(b)[f]
    BY <1>1
  <2>3. F(a) = [f \in CfgFields |-> F(a)[f]] /\ F(b) = [f \in CfgFields |-> F(b)[f]]
    BY <1>1
  <2> HIDE DEF F
  <2>4. Strip(Agreed0(F(a))) = Strip(Agreed0(F(b)))
    BY <2>2, <2>3, StripKeeps
  <2> QED BY <2>1, <2>4, Zenon
<1> QED BY <1>2, <1>3, <1>4, Zenon

(* A refusal has no name. *)
LEMMA StripRefused == Strip(Refused) = Refused
<1> DEFINE init == sec_config_init
<1>1. DOMAIN init = CfgFields /\ init.ssid = <<>> /\ init = [f \in CfgFields |-> init[f]]
  <2>1. DOMAIN init = CfgFields /\ init.ssid = <<>>
    BY InitFields
  <2>2. init = [f \in CfgFields |-> init[f]]
    BY <2>1 DEF sec_config_init
  <2> QED BY <2>1, <2>2
<1> HIDE DEF init
<1>2. [init EXCEPT !.ssid = <<>>] = init
  <2>1. [init EXCEPT !.ssid = <<>>] = [f \in CfgFields |-> IF f = "ssid" THEN <<>> ELSE init[f]]
    BY <1>1, Zenon
  <2>2. \A f \in CfgFields : (IF f = "ssid" THEN <<>> ELSE init[f]) = init[f]
    BY <1>1, Zenon
  <2> QED BY <1>1, <2>1, <2>2, Zenon
<1> DEFINE r == [rc |-> -1, cfg |-> init]
<1>3. r.cfg = init /\ DOMAIN r = {"rc", "cfg"} /\ r = [x \in {"rc", "cfg"} |-> r[x]]
  OBVIOUS
<1> HIDE DEF r
<1>4. [r EXCEPT !.cfg = init] = r
  <2>1. [r EXCEPT !.cfg = init] = [x \in DOMAIN r |-> IF x = "cfg" THEN init ELSE r[x]]
    BY Zenon
  <2>2. \A x \in {"rc", "cfg"} : (IF x = "cfg" THEN init ELSE r[x]) = r[x]
    BY <1>3, Zenon
  <2> QED BY <1>3, <2>1, <2>2, Zenon
<1>5. Strip(r) = [r EXCEPT !.cfg = [r.cfg EXCEPT !.ssid = <<>>]]
  BY Zenon DEF Strip
<1>6. Refused = r
  BY Zenon DEF Refused, r, init
<1> QED BY <1>2, <1>3, <1>4, <1>5, <1>6, Zenon

(* Two configurations agree on their key management alone; that of the
   enterprise mode with 256 bits asks for its generation too. *)
MayAgree(a, b) == a.akm = b.akm /\ (a.akm = 5 => a.protocol = 5 /\ b.protocol >= 5)

(* The key management of each setting. *)
LEMMA KeyManagementOf ==
  ASSUME NEW s, NEW text, NEW k
  PROVE  /\ sec_config_set_wpa3_enterprise(s).akm = 5 /\ sec_config_set_wpa3_personal(s).akm = 8
         /\ sec_config_set_wpa2_enterprise(s).akm = 1 /\ sec_config_set_owe(s).akm = 18
         /\ [sec_config_set_wpa2_personal(s, text) EXCEPT !.key_ctx = k].akm = 2
<1> DEFINE a == Named(s)
           yes == TRUE
<1>1. DOMAIN a = CfgFields
  BY NamedFields, Zenon
<1> HIDE DEF a, yes
<1>2. sec_config_set_wpa3_enterprise(s) =
        [a EXCEPT !.protocol = SEC_PROTO.WPA3_ENT, !.akm = AKM.SHA256_8021X, !.pairwise = PAIRWISE.GCMP256,
                  !.group = GROUP.GCMP256, !.use_8021x = yes, !.mfp_required = yes, !.mfp_capable = yes]
  BY Zenon DEF sec_config_set_wpa3_enterprise, yes, a
<1>3. sec_config_set_wpa3_personal(s) =
        [a EXCEPT !.protocol = SEC_PROTO.WPA3, !.akm = AKM.SAE, !.pairwise = PAIRWISE.GCMP128,
                  !.group = GROUP.GCMP128, !.mfp_required = yes, !.mfp_capable = yes]
  BY Zenon DEF sec_config_set_wpa3_personal, yes, a
<1>4. sec_config_set_wpa2_enterprise(s) =
        [a EXCEPT !.protocol = SEC_PROTO.WPA2, !.akm = AKM.IEEE8021X, !.pairwise = PAIRWISE.CCMP,
                  !.group = GROUP.CCMP, !.use_8021x = yes]
  BY Zenon DEF sec_config_set_wpa2_enterprise, yes, a
<1>5. sec_config_set_owe(s) =
        [a EXCEPT !.protocol = SEC_PROTO.WPA3, !.akm = AKM.OWE, !.pairwise = PAIRWISE.GCMP128,
                  !.group = GROUP.GCMP128]
  BY Zenon DEF sec_config_set_owe, a
<1>6. PICK y : sec_config_set_wpa2_personal(s, text) =
        [a EXCEPT !.protocol = SEC_PROTO.WPA2, !.akm = AKM.PSK, !.pairwise = PAIRWISE.CCMP,
                  !.group = GROUP.CCMP, !.key_ctx = y]
  BY Zenon DEF sec_config_set_wpa2_personal, a
<1>7. AKM.SHA256_8021X = 5 /\ AKM.SAE = 8 /\ AKM.IEEE8021X = 1 /\ AKM.PSK = 2 /\ AKM.OWE = 18
  BY Numbers, Zenon
<1>8. sec_config_set_wpa3_enterprise(s).akm = 5
  BY <1>1, <1>2, <1>7 DEF CfgFields
<1>9. sec_config_set_wpa3_personal(s).akm = 8
  BY <1>1, <1>3, <1>7 DEF CfgFields
<1>10. sec_config_set_wpa2_enterprise(s).akm = 1
  BY <1>1, <1>4, <1>7 DEF CfgFields
<1>11. sec_config_set_owe(s).akm = 18
  BY <1>1, <1>5, <1>7 DEF CfgFields
<1>12. [sec_config_set_wpa2_personal(s, text) EXCEPT !.key_ctx = k].akm = 2
  BY <1>1, <1>6, <1>7 DEF CfgFields
<1> QED BY <1>8, <1>9, <1>10, <1>11, <1>12

(* A negotiation depends on the key managements alone, and names that of the station. *)
LEMMA Negotiated ==
  ASSUME NEW a, NEW b, a.akm \in Nat, b.akm \in Nat
  PROVE  LET n == rsn_ie_negotiate(a, b)
         IN  /\ Strip(n) = IF MayAgree(a, b) THEN Outcome(a.akm) ELSE Refused
             /\ n.rc = 0 => a.akm = b.akm /\ n.cfg.akm = b.akm
<1> DEFINE both(akm) == a.akm = akm /\ b.akm = akm
           n == rsn_ie_negotiate(a, b)
           e3 == Agreed0(sec_config_set_wpa3_enterprise(a.ssid))
           p3 == Agreed0(sec_config_set_wpa3_personal(<<>>))
           e2 == Agreed0(sec_config_set_wpa2_enterprise(a.ssid))
           p2 == Agreed0([sec_config_set_wpa2_personal(<<>>, <<>>) EXCEPT !.key_ctx = key_mgmt_init])
           ow == Agreed0(sec_config_set_owe(a.ssid))
           no == Refused
           x == a.akm
           y == b.akm
           p == a.protocol
           q == b.protocol
<1>1. /\ AKM.SHA256_8021X = 5 /\ AKM.SAE = 8 /\ AKM.IEEE8021X = 1 /\ AKM.PSK = 2 /\ AKM.OWE = 18
      /\ SEC_PROTO.WPA3_ENT = 5
  BY Numbers, Zenon
<1>2. n = CASE x = 5 /\ y = 5 /\ p = 5 /\ q >= 5 -> e3
            [] x = 8 /\ y = 8 -> p3
            [] x = 1 /\ y = 1 -> e2
            [] x = 2 /\ y = 2 -> p2
            [] x = 18 /\ y = 18 -> ow
            [] OTHER -> no
  BY <1>1, Zenon DEF rsn_ie_negotiate, Agreed0, Refused
<1>3. /\ Strip(e3) = Strip(Agreed0(sec_config_set_wpa3_enterprise(<<>>)))
      /\ Strip(e2) = Strip(Agreed0(sec_config_set_wpa2_enterprise(<<>>)))
      /\ Strip(ow) = Strip(Agreed0(sec_config_set_owe(<<>>)))
      /\ Strip(no) = Refused
  BY NameOnly, StripRefused, Zenon
<1>4. /\ Outcome(5) = Strip(e3) /\ Outcome(8) = Strip(p3) /\ Outcome(1) = Strip(e2)
      /\ Outcome(2) = Strip(p2) /\ Outcome(18) = Strip(ow)
      /\ \A z \in Nat \ {5, 8, 1, 2, 18} : Outcome(z) = Refused
  <2> DEFINE t5 == Strip(Agreed0(sec_config_set_wpa3_enterprise(<<>>)))
             t8 == Strip(Agreed0(sec_config_set_wpa3_personal(<<>>)))
             t1 == Strip(Agreed0(sec_config_set_wpa2_enterprise(<<>>)))
             t2 == Strip(Agreed0([sec_config_set_wpa2_personal(<<>>, <<>>) EXCEPT !.key_ctx = key_mgmt_init]))
             t18 == Strip(Agreed0(sec_config_set_owe(<<>>)))
  <2>1. \A z : Outcome(z) = CASE z = 5 -> t5 [] z = 8 -> t8 [] z = 1 -> t1 [] z = 2 -> t2 [] z = 18 -> t18 [] OTHER -> Refused
    BY Zenon DEF Outcome
  <2> HIDE DEF t5, t8, t1, t2, t18
  <2>2. /\ Outcome(5) = t5 /\ Outcome(8) = t8 /\ Outcome(1) = t1 /\ Outcome(2) = t2 /\ Outcome(18) = t18
        /\ \A z \in Nat \ {5, 8, 1, 2, 18} : Outcome(z) = Refused
    BY <2>1
  <2> QED BY <1>3, <2>2, Zenon DEF t5, t8, t1, t2, t18
<1>5. no.rc = -1
  BY DEF Refused
<1>10. e3.cfg.akm = 5 /\ p3.cfg.akm = 8 /\ e2.cfg.akm = 1 /\ p2.cfg.akm = 2 /\ ow.cfg.akm = 18
  <2>1. \A c : Agreed0(c).cfg = c
    BY DEF Agreed0
  <2>2. /\ sec_config_set_wpa3_enterprise(a.ssid).akm = 5 /\ sec_config_set_wpa3_personal(<<>>).akm = 8
        /\ sec_config_set_wpa2_enterprise(a.ssid).akm = 1 /\ sec_config_set_owe(a.ssid).akm = 18
        /\ [sec_config_set_wpa2_personal(<<>>, <<>>) EXCEPT !.key_ctx = key_mgmt_init].akm = 2
    <3>1. sec_config_set_wpa3_enterprise(a.ssid).akm = 5
      BY KeyManagementOf
    <3>2. sec_config_set_wpa3_personal(<<>>).akm = 8
      BY KeyManagementOf
    <3>3. sec_config_set_wpa2_enterprise(a.ssid).akm = 1
      BY KeyManagementOf
    <3>4. sec_config_set_owe(a.ssid).akm = 18
      BY KeyManagementOf
    <3>5. [sec_config_set_wpa2_personal(<<>>, <<>>) EXCEPT !.key_ctx = key_mgmt_init].akm = 2
      BY KeyManagementOf
    <3> QED BY <3>1, <3>2, <3>3, <3>4, <3>5, Zenon
  <2> QED BY <2>1, <2>2, Zenon
<1> HIDE DEF n, e3, p3, e2, p2, ow, no
<1>6. MayAgree(a, b) <=> x = y /\ (x = 5 => p = 5 /\ q >= 5)
  BY Zenon DEF MayAgree
<1>7. x \in Nat /\ y \in Nat
  OBVIOUS
<1> HIDE DEF x, y, p, q
<1>8. CASE x = y /\ (x = 5 => p = 5 /\ q >= 5)
  <2>1. /\ x = 5 => n = e3
        /\ x = 8 => n = p3
        /\ x = 1 => n = e2
        /\ x = 2 => n = p2
        /\ x = 18 => n = ow
        /\ x \in Nat \ {5, 8, 1, 2, 18} => n = no
    BY <1>2, <1>8
  <2>2. Strip(n) = Outcome(x)
    <3>1. x \in {5, 8, 1, 2, 18} \/ x \in Nat \ {5, 8, 1, 2, 18}
      BY <1>7
    <3> QED BY <1>3, <1>4, <2>1, <3>1, Zenon
  <2>3. n.rc = 0 => n.cfg.akm = x
    <3>1. x \in {5, 8, 1, 2, 18} \/ x \in Nat \ {5, 8, 1, 2, 18}
      BY <1>7
    <3>2. x \in {5, 8, 1, 2, 18} => n.cfg.akm = x
      BY <1>10, <2>1, Zenon
    <3>3. x \in Nat \ {5, 8, 1, 2, 18} => n.rc # 0
      BY <1>5, <2>1
    <3> QED BY <3>1, <3>2, <3>3, Zenon
  <2> QED BY <1>6, <1>8, <2>2, <2>3, Zenon DEF n, x, y
<1>9. CASE ~(x = y /\ (x = 5 => p = 5 /\ q >= 5))
  <2>1. n = no
    BY <1>2, <1>7, <1>9
  <2>2. Strip(n) = Refused /\ n.rc # 0
    BY <1>3, <1>5, <2>1
  <2> QED BY <1>6, <1>9, <2>2, Zenon DEF n, x, y
<1> QED BY <1>8, <1>9, Zenon

(* What was read of an element announces nothing that was not configured, and
   negotiates as the configuration does or not at all. *)
LEMMA ReadFaithful ==
  ASSUME NEW cfg, KnownConfig(cfg), NEW len \in 7 .. Len(rsn_ie_build(cfg)),
         rsn_ie_parse(rsn_ie_build(cfg), len).rc = 0
  PROVE  LET got == rsn_ie_parse(rsn_ie_build(cfg), len).cfg
             whole == len = Len(rsn_ie_build(cfg))
         IN  /\ \A f \in Fields : got[f] \in {cfg[f], sec_config_init[f]}
             /\ sec_config_get_security_level(got) <= sec_config_get_security_level(cfg)
             /\ whole => /\ \A f \in Fields : got[f] = cfg[f]
                         /\ cfg.akm # AKM.OWE => got.protocol = cfg.protocol
             /\ got.akm \in {cfg.akm, 0}
             /\ (whole \/ got.akm # 0) => got.akm = cfg.akm
             /\ got.akm = 5 => got.protocol = 5 /\ cfg.protocol = 5
             /\ got.akm \in Nat
<1> DEFINE ie == rsn_ie_build(cfg)
           r == rsn_ie_parse(ie, len)
           got == r.cfg
           c == Capabilities(cfg)
           g == cfg.group
           p == cfg.pairwise
           a == cfg.akm
           init == sec_config_init
<1>1. /\ ElementOf(ie, g, p, a, c) /\ Len(ie) = IF cfg.mfp_capable THEN 28 ELSE 24
  BY Built, Zenon
<1>2. /\ c \in 0 .. 255
      /\ ((c \div 128) % 2 = 1) <=> cfg.mfp_capable
      /\ ((c \div 64) % 2 = 1) <=> cfg.mfp_required
      /\ (c % 2 = 1) <=> cfg.preauth_enabled
  <2> DEFINE b7 == cfg.mfp_capable
             b6 == cfg.mfp_required
             b3 == cfg.pmk_caching
             b0 == cfg.preauth_enabled
  <2>1. b7 \in BOOLEAN /\ b6 \in BOOLEAN /\ b3 \in BOOLEAN /\ b0 \in BOOLEAN
    BY Zenon DEF KnownConfig, Known5, OfKind
  <2>2. c = Flag(b7, 128) + Flag(b6, 64) + Flag(b3, 8) + Flag(b0, 1)
    BY Zenon DEF Capabilities
  <2> HIDE DEF b7, b6, b3, b0, c
  <2>3. /\ Flag(b7, 128) = IF b7 = TRUE THEN 128 ELSE 0
        /\ Flag(b6, 64) = IF b6 = TRUE THEN 64 ELSE 0
        /\ Flag(b3, 8) = IF b3 = TRUE THEN 8 ELSE 0
        /\ Flag(b0, 1) = IF b0 = TRUE THEN 1 ELSE 0
    BY <2>1, Zenon DEF Flag
  <2>4. /\ c \in 0 .. 255
        /\ ((c \div 128) % 2 = 1) <=> b7 = TRUE
        /\ ((c \div 64) % 2 = 1) <=> b6 = TRUE
        /\ (c % 2 = 1) <=> b0 = TRUE
    BY <2>2, <2>3
  <2> QED BY <2>1, <2>4, Zenon DEF b7, b6, b3, b0
<1>3. len \in Nat /\ (len < 8 => r.rc # 0)
  <2>1. len \in Nat
    BY <1>1
  <2>2. len < 8 => r = [rc |-> -1, cfg |-> sec_config_init]
    <3>1. c \in 0 .. 255 /\ ElementOf(ie, g, p, a, c)
      BY <1>1, <1>2, Zenon
    <3> HIDE DEF ie, c, g, p, a
    <3>2. ReadOf(rsn_ie_parse(ie, len), g, p, a, c, len)
      BY <2>1, <3>1, Read
    <3> QED BY <3>2, Zenon DEF ReadOf
  <2>3. -1 # 0
    OBVIOUS
  <2>4. len < 8 => r.rc = -1
    BY <2>2
  <2> QED BY <2>1, <2>3, <2>4, Zenon
<1>4. len >= 8
  BY <1>3
<1> DEFINE pw == IF len >= 14 THEN p ELSE PAIRWISE.NONE
           am == IF len >= 20 THEN a ELSE AKM.RESERVED
           cp == IF len >= 22 THEN c ELSE 0
<1>5. /\ r.rc = 0 /\ DOMAIN got = CfgFields
      /\ got.group = g /\ got.pairwise = pw /\ got.akm = am
      /\ got.mfp_capable = ((cp \div 128) % 2 = 1)
      /\ got.mfp_required = ((cp \div 64) % 2 = 1)
      /\ got.preauth_enabled = (cp % 2 = 1)
      /\ got.protocol = ProtocolOf(g, pw, am)
      /\ got.use_8021x = init.use_8021x
  <2>1. c \in 0 .. 255 /\ ElementOf(ie, g, p, a, c) /\ len \in Nat /\ len >= 8
    BY <1>1, <1>2, <1>3, <1>4, Zenon
  <2> HIDE DEF ie, c, g, p, a
  <2>2. ReadOf(rsn_ie_parse(ie, len), g, p, a, c, len)
    BY <2>1, Read
  <2> QED BY <2>1, <2>2, Zenon DEF ReadOf
<1>6. /\ len < 22 => cp = 0
      /\ len >= 22 => cp = c
      /\ pw = (IF len >= 14 THEN p ELSE 0) /\ am = (IF len >= 20 THEN a ELSE 0)
  BY Numbers
<1>7. /\ got.mfp_capable \in {cfg.mfp_capable, FALSE}
      /\ got.mfp_required \in {cfg.mfp_required, FALSE}
      /\ got.preauth_enabled \in {cfg.preauth_enabled, FALSE}
      /\ len >= 22 => /\ got.mfp_capable = cfg.mfp_capable
                      /\ got.mfp_required = cfg.mfp_required
                      /\ got.preauth_enabled = cfg.preauth_enabled
  <2>1. cfg.mfp_capable \in BOOLEAN /\ cfg.mfp_required \in BOOLEAN /\ cfg.preauth_enabled \in BOOLEAN
    BY Zenon DEF KnownConfig, Known5, OfKind
  <2>2. CASE len >= 22
    <3>1. cp = c
      BY <1>6, <2>2
    <3> HIDE DEF cp, c, got
    <3> QED BY <1>2, <1>5, <2>1, <3>1, Zenon
  <2>3. CASE len < 22
    <3>1. cp = 0
      BY <1>6, <2>3
    <3>2. (0 \div 128) % 2 # 1 /\ (0 \div 64) % 2 # 1 /\ 0 % 2 # 1 /\ ~(len >= 22)
      BY <2>3
    <3>3. got.mfp_capable = FALSE /\ got.mfp_required = FALSE /\ got.preauth_enabled = FALSE
      <4> HIDE DEF cp, got
      <4> QED BY <1>5, <3>1, <3>2, Zenon
    <3> QED BY <3>2, <3>3, Zenon
  <2>4. len >= 22 \/ len < 22
    BY <1>3
  <2> QED BY <2>2, <2>3, <2>4, Zenon
<1>8. \/ g = 4 /\ p = 4 /\ a = 2 /\ cfg.protocol = 3
      \/ g = 8 /\ p = 8 /\ a = 8 /\ cfg.protocol = 4
      \/ g = 4 /\ p = 4 /\ a = 1 /\ cfg.protocol = 3
      \/ g = 9 /\ p = 9 /\ a = 5 /\ cfg.protocol = 5
      \/ g = 8 /\ p = 8 /\ a = 18 /\ cfg.protocol = 4
  BY Zenon DEF KnownConfig, Known5, OfKind
<1>9. init.use_8021x = FALSE /\ init.akm = 0 /\ init.pairwise = 0
  BY InitFields, Numbers, Zenon
<1>10. /\ ProtocolOf(4, 4, 2) = 3 /\ ProtocolOf(4, 4, 1) = 3 /\ ProtocolOf(4, 4, 0) = 3 /\ ProtocolOf(4, 0, 0) = 0
       /\ ProtocolOf(8, 8, 8) = 4 /\ ProtocolOf(8, 8, 0) = 0 /\ ProtocolOf(8, 0, 0) = 0
       /\ ProtocolOf(9, 9, 5) = 5 /\ ProtocolOf(9, 9, 0) = 5 /\ ProtocolOf(9, 0, 0) = 0
       /\ ProtocolOf(8, 8, 18) = 0
  BY Numbers DEF ProtocolOf
<1>11. /\ len < 14 => pw = 0 /\ am = 0
       /\ len >= 14 /\ len < 20 => pw = p /\ am = 0
       /\ len >= 20 => pw = p /\ am = a
  BY <1>6
<1> DEFINE x == got.protocol
           y == cfg.protocol
<1>12. /\ x = ProtocolOf(g, pw, am)
       /\ x \in {0, 3, 4, 5} /\ x <= y
       /\ len >= 20 /\ a # 18 => x = y
  <2>1. x = ProtocolOf(g, pw, am)
    BY <1>5
  <2> HIDE DEF x, y, g, p, a, pw, am
  <2>2. /\ x \in {0, 3, 4, 5} /\ x <= y
        /\ len >= 20 /\ a # 18 => x = y
    <3>1. len < 14 \/ (len >= 14 /\ len < 20) \/ len >= 20
      BY <1>3
    <3>2. CASE len < 14
      BY <1>8, <1>10, <1>11, <2>1, <3>2 DEF y
    <3>3. CASE len >= 14 /\ len < 20
      BY <1>8, <1>10, <1>11, <2>1, <3>3 DEF y
    <3>4. CASE len >= 20
      BY <1>8, <1>10, <1>11, <2>1, <3>4 DEF y
    <3> QED BY <3>1, <3>2, <3>3, <3>4
  <2> QED BY <2>1, <2>2
<1>13. sec_config_get_security_level(got) = x
  <2>1. SEC_PROTO.WPA2 = 3
    BY Numbers
  <2>2. got.use_8021x = FALSE
    BY <1>5, <1>9, Zenon
  <2>3. x = 3 \/ x # 3
    OBVIOUS
  <2> QED BY <2>1, <2>2, <2>3, Zenon DEF sec_config_get_security_level
<1>14. sec_config_get_security_level(cfg) \in {y, 4} /\ (sec_config_get_security_level(cfg) # y => y = 3)
  <2>1. SEC_PROTO.WPA2 = 3
    BY Numbers
  <2>2. CASE y = 3
    <3>1. sec_config_get_security_level(cfg) = IF cfg.use_8021x THEN 4 ELSE 3
      BY <2>1, <2>2, Zenon DEF sec_config_get_security_level
    <3> QED BY <2>2, <3>1, Zenon
  <2>3. CASE y # 3
    BY <2>1, <2>3, Zenon DEF sec_config_get_security_level
  <2> QED BY <2>2, <2>3, Zenon
<1>15. sec_config_get_security_level(got) <= sec_config_get_security_level(cfg)
  <2> DEFINE l == sec_config_get_security_level(cfg)
  <2>1. l \in {y, 4} /\ (l # y => y = 3) /\ y \in {3, 4, 5}
    BY <1>8, <1>14
  <2> HIDE DEF l, x, y
  <2>2. x <= l
    BY <1>12, <2>1
  <2> QED BY <1>13, <2>2, Zenon DEF l
<1>16. got.group = g /\ got.pairwise \in {p, 0} /\ got.akm \in {a, 0}
       /\ (len >= 22 => got.pairwise = p /\ got.akm = a)
       /\ (got.akm # 0 => got.akm = a)
  BY <1>3, <1>5, <1>11
<1>17. \A f \in Fields : got[f] \in {cfg[f], sec_config_init[f]}
  <2>1. init.mfp_capable = FALSE /\ init.mfp_required = FALSE /\ init.preauth_enabled = FALSE
    BY InitFields, Zenon
  <2> HIDE DEF got, init
  <2>2. /\ got["mfp_capable"] \in {cfg["mfp_capable"], init["mfp_capable"]}
        /\ got["mfp_required"] \in {cfg["mfp_required"], init["mfp_required"]}
        /\ got["preauth_enabled"] \in {cfg["preauth_enabled"], init["preauth_enabled"]}
    BY <1>7, <2>1, Zenon
  <2>3. /\ got["group"] \in {cfg["group"], init["group"]}
        /\ got["pairwise"] \in {cfg["pairwise"], init["pairwise"]}
        /\ got["akm"] \in {cfg["akm"], init["akm"]}
    BY <1>9, <1>16, Zenon
  <2> QED BY <2>2, <2>3, Zenon DEF Fields, init
<1>18. len = Len(ie) => len >= 22
  <2>1. Len(ie) \in {24, 28}
    BY <1>1
  <2> QED BY <2>1
<1>19. len = Len(ie) => /\ \A f \in Fields : got[f] = cfg[f]
                        /\ cfg.akm # AKM.OWE => got.protocol = cfg.protocol
  <2> SUFFICES ASSUME len = Len(ie)
               PROVE  /\ \A f \in Fields : got[f] = cfg[f]
                      /\ cfg.akm # AKM.OWE => got.protocol = cfg.protocol
    OBVIOUS
  <2>1. len >= 22 /\ len >= 20
    BY <1>3, <1>18
  <2>2. /\ got["mfp_capable"] = cfg["mfp_capable"] /\ got["mfp_required"] = cfg["mfp_required"]
        /\ got["preauth_enabled"] = cfg["preauth_enabled"] /\ got["group"] = cfg["group"]
        /\ got["pairwise"] = cfg["pairwise"] /\ got["akm"] = cfg["akm"]
    <3> HIDE DEF got
    <3> QED BY <1>7, <1>16, <2>1, Zenon
  <2>3. AKM.OWE = 18
    BY Numbers
  <2>4. \A f \in Fields : got[f] = cfg[f]
    <3> HIDE DEF got
    <3> QED BY <2>2, Zenon DEF Fields
  <2>5. cfg.akm # AKM.OWE => got.protocol = cfg.protocol
    BY <1>12, <2>1, <2>3, Zenon
  <2> QED BY <2>4, <2>5, Zenon
<1>20. got.akm = 5 => got.protocol = 5 /\ cfg.protocol = 5
  <2> SUFFICES ASSUME got.akm = 5 PROVE x = 5 /\ y = 5
    OBVIOUS
  <2>1. am = 5
    BY <1>5
  <2>2. len >= 20 /\ a = 5
    BY <1>3, <1>11, <2>1
  <2>3. y = 5
    BY <1>8, <2>2
  <2> QED BY <1>12, <2>2, <2>3
<1>21. got.akm \in Nat
  BY <1>8, <1>16
<1>22. (len = Len(ie) \/ got.akm # 0) => got.akm = cfg.akm
  BY <1>16, <1>18
<1> QED BY <1>15, <1>16, <1>17, <1>19, <1>20, <1>21, <1>22, Zenon

(* What is on its way is what was configured, or what was read of it. *)
ReadFrom(cfg, len, whole) ==
  /\ KnownConfig(cfg) /\ len \in 7 .. Len(rsn_ie_build(cfg)) /\ whole = (len = Len(rsn_ie_build(cfg)))
SpIdle == sp.at = "idle"
SpAnnounced == sp.at = "announced" /\ KnownConfig(sp.cfg) /\ sp.ie = rsn_ie_build(sp.cfg)
SpParsed ==
  sp.at = "parsed" /\ \E len : ReadFrom(sp.cfg, len, sp.whole) /\ sp.got = rsn_ie_parse(rsn_ie_build(sp.cfg), len)
SpAgreed ==
  /\ sp.at = "agreed" /\ Known5(sp.sta)
  /\ \E len : /\ ReadFrom(sp.cfg, len, sp.whole) /\ rsn_ie_parse(rsn_ie_build(sp.cfg), len).rc = 0
              /\ sp.result = rsn_ie_negotiate(rsn_ie_parse(rsn_ie_build(sp.cfg), len).cfg, sp.sta)
SpInv == SpIdle \/ SpAnnounced \/ SpParsed \/ SpAgreed

(* The element is read faithfully. *)
LEMMA SpElement == SpInv => ElementFaithful
<1> SUFFICES ASSUME SpInv, sp.at = "parsed", sp.got.rc = 0
             PROVE  /\ \A f \in Fields : sp.got.cfg[f] \in {sp.cfg[f], sec_config_init[f]}
                    /\ sec_config_get_security_level(sp.got.cfg) <= sec_config_get_security_level(sp.cfg)
                    /\ sp.whole => /\ \A f \in Fields : sp.got.cfg[f] = sp.cfg[f]
                                   /\ sp.cfg.akm # AKM.OWE => sp.got.cfg.protocol = sp.cfg.protocol
  BY Zenon DEF ElementFaithful
<1>1. SpParsed
  <2>1. "parsed" # "idle" /\ "parsed" # "announced" /\ "parsed" # "agreed"
    OBVIOUS
  <2> QED BY <2>1, Zenon DEF SpInv, SpIdle, SpAnnounced, SpAgreed
<1>2. PICK len : ReadFrom(sp.cfg, len, sp.whole) /\ sp.got = rsn_ie_parse(rsn_ie_build(sp.cfg), len)
  BY <1>1, Zenon DEF SpParsed
<1> DEFINE cfg == sp.cfg
           got == rsn_ie_parse(rsn_ie_build(cfg), len).cfg
<1>3. /\ KnownConfig(cfg) /\ len \in 7 .. Len(rsn_ie_build(cfg))
      /\ rsn_ie_parse(rsn_ie_build(cfg), len).rc = 0
  BY <1>2, Zenon DEF ReadFrom
<1>4. /\ \A f \in Fields : got[f] \in {cfg[f], sec_config_init[f]}
      /\ sec_config_get_security_level(got) <= sec_config_get_security_level(cfg)
      /\ len = Len(rsn_ie_build(cfg)) => /\ \A f \in Fields : got[f] = cfg[f]
                                         /\ cfg.akm # AKM.OWE => got.protocol = cfg.protocol
  <2> HIDE DEF cfg
  <2> QED BY <1>3, ReadFaithful, Zenon
<1> QED BY <1>2, <1>4, Zenon DEF ReadFrom

(* So is what the two negotiate. *)
LEMMA SpNegotiation == SpInv => NegotiationFaithful
<1> SUFFICES ASSUME SpInv, sp.at = "agreed"
             PROVE  LET direct == rsn_ie_negotiate(sp.cfg, sp.sta)
                    IN  /\ Strip(sp.result) \in {Strip(direct), Refused}
                        /\ Strip(direct) = Strip(rsn_ie_negotiate(sp.sta, sp.cfg))
                        /\ sp.whole => Strip(sp.result) = Strip(direct)
                        /\ sp.result.rc = 0 => sp.result.cfg.akm = sp.sta.akm
  BY Zenon DEF NegotiationFaithful, Strip, Refused
<1>1. SpAgreed
  <2>1. "agreed" # "idle" /\ "agreed" # "announced" /\ "agreed" # "parsed"
    OBVIOUS
  <2> QED BY <2>1, Zenon DEF SpInv, SpIdle, SpAnnounced, SpParsed
<1>2. PICK len : /\ ReadFrom(sp.cfg, len, sp.whole) /\ rsn_ie_parse(rsn_ie_build(sp.cfg), len).rc = 0
                 /\ sp.result = rsn_ie_negotiate(rsn_ie_parse(rsn_ie_build(sp.cfg), len).cfg, sp.sta)
  BY <1>1, Zenon DEF SpAgreed
<1> DEFINE cfg == sp.cfg
           sta == sp.sta
           got == rsn_ie_parse(rsn_ie_build(cfg), len).cfg
           whole == len = Len(rsn_ie_build(cfg))
<1>3. KnownConfig(cfg) /\ len \in 7 .. Len(rsn_ie_build(cfg)) /\ Known5(sta)
  BY <1>1, <1>2, Zenon DEF ReadFrom, SpAgreed
<1>4. /\ got.akm \in {cfg.akm, 0}
      /\ (whole \/ got.akm # 0) => got.akm = cfg.akm
      /\ got.akm = 5 => got.protocol = 5 /\ cfg.protocol = 5
      /\ got.akm \in Nat
  <2> HIDE DEF cfg
  <2> QED BY <1>2, <1>3, ReadFaithful, Zenon DEF cfg
<1>5. \A c : Known5(c) => /\ c.akm \in {1, 2, 5, 8, 18} /\ c.protocol \in {3, 4, 5}
                          /\ (c.akm = 5 <=> c.protocol = 5)
  <2> SUFFICES ASSUME NEW c, Known5(c)
               PROVE  c.akm \in {1, 2, 5, 8, 18} /\ c.protocol \in {3, 4, 5} /\ (c.akm = 5 <=> c.protocol = 5)
    BY Zenon
  <2>1. \/ c.akm = 2 /\ c.protocol = 3
        \/ c.akm = 8 /\ c.protocol = 4
        \/ c.akm = 1 /\ c.protocol = 3
        \/ c.akm = 5 /\ c.protocol = 5
        \/ c.akm = 18 /\ c.protocol = 4
    BY Zenon DEF Known5, OfKind
  <2> QED BY <2>1
<1>6. Known5(cfg)
  BY <1>3, Zenon DEF KnownConfig
<1> HIDE DEF got, cfg, sta
<1>7. /\ cfg.akm \in {1, 2, 5, 8, 18} /\ cfg.protocol \in {3, 4, 5} /\ (cfg.akm = 5 <=> cfg.protocol = 5)
      /\ sta.akm \in {1, 2, 5, 8, 18} /\ sta.protocol \in {3, 4, 5} /\ (sta.akm = 5 <=> sta.protocol = 5)
  BY <1>3, <1>5, <1>6, Zenon
<1>8. cfg.akm \in Nat /\ sta.akm \in Nat
  BY <1>7
<1>9. /\ MayAgree(cfg, sta) <=> cfg.akm = sta.akm
      /\ MayAgree(sta, cfg) <=> cfg.akm = sta.akm
  BY <1>7 DEF MayAgree
<1>10. MayAgree(got, sta) <=> got.akm = sta.akm
  BY <1>4, <1>7 DEF MayAgree
<1>11. /\ Strip(rsn_ie_negotiate(cfg, sta)) = IF MayAgree(cfg, sta) THEN Outcome(cfg.akm) ELSE Refused
       /\ Strip(rsn_ie_negotiate(sta, cfg)) = IF MayAgree(sta, cfg) THEN Outcome(sta.akm) ELSE Refused
       /\ Strip(rsn_ie_negotiate(got, sta)) = IF MayAgree(got, sta) THEN Outcome(got.akm) ELSE Refused
       /\ rsn_ie_negotiate(got, sta).rc = 0 => rsn_ie_negotiate(got, sta).cfg.akm = sta.akm
  BY <1>4, <1>8, Negotiated
<1>12. Strip(rsn_ie_negotiate(cfg, sta)) = Strip(rsn_ie_negotiate(sta, cfg))
  <2>1. CASE cfg.akm = sta.akm
    BY <1>9, <1>11, <2>1, Zenon
  <2>2. CASE cfg.akm # sta.akm
    BY <1>9, <1>11, <2>2, Zenon
  <2> QED BY <2>1, <2>2
<1>13. Strip(rsn_ie_negotiate(got, sta)) \in {Strip(rsn_ie_negotiate(cfg, sta)), Refused}
  <2>1. sta.akm # 0
    BY <1>7
  <2> QED BY <1>4, <1>9, <1>10, <1>11, <2>1, Zenon
<1>14. whole => Strip(rsn_ie_negotiate(got, sta)) = Strip(rsn_ie_negotiate(cfg, sta))
  <2> SUFFICES ASSUME whole PROVE Strip(rsn_ie_negotiate(got, sta)) = Strip(rsn_ie_negotiate(cfg, sta))
    OBVIOUS
  <2>1. got.akm = cfg.akm
    BY <1>4, Zenon
  <2>2. CASE cfg.akm = sta.akm
    BY <1>9, <1>10, <1>11, <2>1, <2>2, Zenon
  <2>3. CASE cfg.akm # sta.akm
    BY <1>9, <1>10, <1>11, <2>1, <2>3, Zenon
  <2> QED BY <2>2, <2>3
<1>15. sp.whole = whole /\ sp.result = rsn_ie_negotiate(got, sta)
  BY <1>2, Zenon DEF ReadFrom, got, cfg, sta
<1> QED BY <1>11, <1>12, <1>13, <1>14, <1>15, Zenon DEF cfg, sta

(* The invariant holds at the start and is kept by each of the three steps. *)
LEMMA SpInvInit == SpInit => SpInv
  BY DEF SpInit, SpInv, SpIdle

LEMMA AnnounceKeeps == SpInv /\ SpAnnounce => SpInv'
<1> DEFINE Announced(cfg, caching, preauth) ==
             LET ours == [cfg EXCEPT !.pmk_caching = caching, !.preauth_enabled = preauth]
             IN  sp' = [at |-> "announced", cfg |-> ours, ie |-> rsn_ie_build(ours)]
<1> SUFFICES ASSUME NEW cfg \in SpConfigs, NEW caching \in BOOLEAN, NEW preauth \in BOOLEAN,
                    Announced(cfg, caching, preauth)
             PROVE  SpInv'
  BY Zenon DEF SpAnnounce
<1> DEFINE ours == [cfg EXCEPT !.pmk_caching = caching, !.preauth_enabled = preauth]
<1>1. DOMAIN cfg = CfgFields /\ Known5(cfg)
  BY Configured
<1>2. KnownConfig(ours)
  <2> DEFINE a == caching
             b == preauth
             o == [cfg EXCEPT !.pmk_caching = a, !.preauth_enabled = b]
  <2> HIDE DEF a, b
  <2>1. /\ DOMAIN o = CfgFields /\ o.pmk_caching = a /\ o.preauth_enabled = b
        /\ o.protocol = cfg.protocol /\ o.akm = cfg.akm /\ o.pairwise = cfg.pairwise
        /\ o.group = cfg.group
        /\ o.mfp_capable = cfg.mfp_capable /\ o.mfp_required = cfg.mfp_required
    BY <1>1 DEF CfgFields
  <2> HIDE DEF o
  <2>2. \A p, q, s, m : OfKind(cfg, p, q, s, m) => OfKind(o, p, q, s, m)
    BY <2>1, Zenon DEF OfKind
  <2>3. Known5(o)
    BY <1>1, <2>2, Zenon DEF Known5
  <2>4. KnownConfig(o)
    BY <2>1, <2>3, Zenon DEF KnownConfig, a, b
  <2> QED BY <2>4, Zenon DEF o, a, b
<1>3. sp' = [at |-> "announced", cfg |-> ours, ie |-> rsn_ie_build(ours)]
  BY Zenon
<1> HIDE DEF ours
<1>4. sp'.at = "announced" /\ sp'.cfg = ours /\ sp'.ie = rsn_ie_build(ours)
  BY <1>3
<1> QED BY <1>2, <1>4, Zenon DEF SpInv, SpAnnounced

LEMMA ReceiveKeeps == SpInv /\ SpReceive => SpInv'
<1> SUFFICES ASSUME SpInv, sp.at = "announced", NEW len \in 7 .. Len(sp.ie),
                    sp' = [at |-> "parsed", cfg |-> sp.cfg, whole |-> len = Len(sp.ie), got |-> rsn_ie_parse(sp.ie, len)]
             PROVE  SpInv'
  BY Zenon DEF SpReceive
<1>1. KnownConfig(sp.cfg) /\ sp.ie = rsn_ie_build(sp.cfg)
  <2>1. "announced" # "idle" /\ "announced" # "parsed" /\ "announced" # "agreed"
    OBVIOUS
  <2> QED BY <2>1, Zenon DEF SpInv, SpIdle, SpAnnounced, SpParsed, SpAgreed
<1> DEFINE cfg == sp.cfg
           w == len = Len(rsn_ie_build(cfg))
           got == rsn_ie_parse(rsn_ie_build(cfg), len)
<1>2. sp' = [at |-> "parsed", cfg |-> cfg, whole |-> w, got |-> got] /\ len \in 7 .. Len(rsn_ie_build(cfg))
  BY <1>1, Zenon
<1> HIDE DEF cfg, w, got
<1>3. sp'.at = "parsed" /\ sp'.cfg = cfg /\ sp'.whole = w /\ sp'.got = got
  BY <1>2
<1>4. ReadFrom(sp'.cfg, len, sp'.whole) /\ sp'.got = rsn_ie_parse(rsn_ie_build(sp'.cfg), len)
  BY <1>1, <1>2, <1>3, Zenon DEF ReadFrom, cfg, w, got
<1> QED BY <1>3, <1>4, Zenon DEF SpInv, SpParsed

LEMMA NegotiateKeeps == SpInv /\ SpNegotiate => SpInv'
<1> SUFFICES ASSUME SpInv, NEW sta \in SpConfigs, sp.at = "parsed", sp.got.rc = 0,
                    sp' = [at |-> "agreed", cfg |-> sp.cfg, whole |-> sp.whole, sta |-> sta,
                           result |-> rsn_ie_negotiate(sp.got.cfg, sta)]
             PROVE  SpInv'
  BY Zenon DEF SpNegotiate
<1>1. SpParsed
  <2>1. "parsed" # "idle" /\ "parsed" # "announced" /\ "parsed" # "agreed"
    OBVIOUS
  <2> QED BY <2>1, Zenon DEF SpInv, SpIdle, SpAnnounced, SpAgreed
<1>2. PICK len : ReadFrom(sp.cfg, len, sp.whole) /\ sp.got = rsn_ie_parse(rsn_ie_build(sp.cfg), len)
  BY <1>1, Zenon DEF SpParsed
<1>3. Known5(sta)
  BY Configured
<1> DEFINE w == sp.whole
<1>5. sp' = [at |-> "agreed", cfg |-> sp.cfg, whole |-> w, sta |-> sta, result |-> rsn_ie_negotiate(sp.got.cfg, sta)]
  BY Zenon
<1> HIDE DEF w
<1>4. /\ sp'.at = "agreed" /\ sp'.cfg = sp.cfg /\ sp'.whole = w /\ sp'.sta = sta
      /\ sp'.result = rsn_ie_negotiate(sp.got.cfg, sta)
  BY <1>5
<1>6. /\ ReadFrom(sp'.cfg, len, sp'.whole) /\ rsn_ie_parse(rsn_ie_build(sp'.cfg), len).rc = 0
      /\ sp'.result = rsn_ie_negotiate(rsn_ie_parse(rsn_ie_build(sp'.cfg), len).cfg, sp'.sta)
  BY <1>2, <1>4, Zenon DEF w
<1> QED BY <1>3, <1>4, <1>6, Zenon DEF SpInv, SpAgreed

(* What a reader makes of an announced configuration, cut where it may be,
   never claims more than was configured, and two ends negotiate as their
   configurations do, whoever is asked first. *)
THEOREM AnnouncementHolds == SpSpec => []ProtocolSound
<1>1. SpInit => SpInv
  BY SpInvInit
<1>2. SpInv /\ [(SpNext /\ UNCHANGED sae) \/ (SaeNext /\ UNCHANGED sp)]_<<sp, sae>> => SpInv'
  <2> SUFFICES ASSUME SpInv, [(SpNext /\ UNCHANGED sae) \/ (SaeNext /\ UNCHANGED sp)]_<<sp, sae>> PROVE SpInv'
    OBVIOUS
  <2>1. CASE SpAnnounce
    BY <2>1, AnnounceKeeps
  <2>2. CASE SpReceive
    BY <2>2, ReceiveKeeps
  <2>3. CASE SpNegotiate
    BY <2>3, NegotiateKeeps
  <2>4. CASE sp' = sp
    BY <2>4, Zenon DEF SpInv, SpIdle, SpAnnounced, SpParsed, SpAgreed
  <2> QED BY <2>1, <2>2, <2>3, <2>4, Zenon DEF SpNext
<1>3. SpInv => ProtocolSound
  BY SpElement, SpNegotiation DEF ProtocolSound
<1> QED BY <1>1, <1>2, <1>3, PTL DEF SpSpec

-----------------------------------------------------------------------------
(* The parts together, of contexts that share nothing. *)
THEOREM DerivationsHold == KhSpec /\ SpSpec /\ IdSpec => []DerivationsSound
<1>1. HierarchySound /\ ProtocolSound /\ KeyOfCommits /\ BurstNoticed => DerivationsSound
  BY Zenon DEF DerivationsSound
<1> QED BY <1>1, HierarchyHolds, AnnouncementHolds, CommitsHold, BurstSeen, PTL
================================================================================
