-------------------------- MODULE SecurityProtocol --------------------------
(***************************************************************************)
(* The key hierarchy of wireless_key_mgmt.c: the pairwise master key set    *)
(* from a key or a passphrase, the pairwise and the group keys derived from *)
(* it, and the extract-and-expand derivation, on a context whose caller     *)
(* sets the nonces.                                                         *)
(*                                                                          *)
(* A keyed hash is the term of its inputs: two codes are equal when their   *)
(* inputs are.  Addresses and nonces are numbers, in the order of memcmp.   *)
(*                                                                          *)
(* The second part has the protocol configurations and the simultaneous     *)
(* authentication, the third the intrusion detection.                       *)
(***************************************************************************)
EXTENDS Bits, FiniteSets

CONSTANTS KhNonces,     \* the nonces a caller or generate_nonce comes by
          KhMaxRekeys   \* bound on the number of new group keys

ASSUME KhAssumption == KhNonces \subseteq Nat \ {0} /\ KhMaxRekeys \in Nat

VARIABLE kh  \* a context and its last two derivations

PMK_LEN == 32
GTK_LEN == 32
PTK_LEN == 48
PTK_LEN_TKIP == 64
KCK_LEN == 16
KEK_LEN == 16
TK_LEN == 16

CIPHER_SUITE == [CCMP |-> 0, TKIP |-> 1, GCMP |-> 2, WEP40 |-> 3, WEP104 |-> 4]

(* pmk_t: a master key set directly, padded, or derived from a passphrase. *)
Direct(psk) == [from |-> "psk", bytes |-> psk \o Zeros(PMK_LEN - Len(psk)), ssid |-> <<>>]
Passphrase(text, ssid) == [from |-> "pbkdf2", bytes |-> text, ssid |-> ssid]
NoPmk == Direct(<<>>)

(* Twenty bytes of every code; the number of the code is a byte. *)
wpa2_prf(key, label, context, len) ==
  [n \in 1 .. len |-> [key |-> key, label |-> label, context |-> context,
                       i |-> ((n - 1) \div 20) % 256, at |-> (n - 1) % 20]]

(* ptk_t and gtk_t before a derivation: bytes of no code. *)
ZeroBytes(n) == [b \in 1 .. n |-> [key |-> NoPmk, label |-> "", context |-> <<>>, i |-> 0, at |-> 0]]
NoPtk == [kck |-> ZeroBytes(KCK_LEN), kek |-> ZeroBytes(KEK_LEN), tk |-> ZeroBytes(TK_LEN)]
NoGtk == ZeroBytes(GTK_LEN)

(* key_mgmt_ctx_t *)
key_mgmt_init ==
  [pmk |-> NoPmk, is_valid |-> FALSE, gmk |-> NoPmk, ptk |-> NoPtk, gtk |-> NoGtk,
   supplicant_mac |-> 0, authenticator_mac |-> 0, anonce |-> 0, snonce |-> 0,
   ssid |-> <<>>, cipher_suite |-> CIPHER_SUITE.CCMP, rekey_counter |-> 0]

(* A key that is too long is ignored. *)
key_mgmt_set_psk(ctx, psk) ==
  IF Len(psk) > PMK_LEN THEN ctx ELSE [ctx EXCEPT !.pmk = Direct(psk), !.is_valid = TRUE]

key_mgmt_derive_from_passphrase(ctx, text) ==
  IF ctx.ssid = <<>> THEN ctx ELSE [ctx EXCEPT !.pmk = Passphrase(text, ctx.ssid), !.is_valid = TRUE]

Lower(a, b) == IF a < b THEN a ELSE b
Higher(a, b) == IF a < b THEN b ELSE a

(* The bytes that are derived: for TKIP more than PTK_LEN, which is what the
   buffer for them has. *)
PtkTotal(ctx) == IF ctx.cipher_suite = CIPHER_SUITE.TKIP THEN PTK_LEN_TKIP ELSE PTK_LEN

(* Mutant: the addresses and nonces are not put in order. *)
DeriveUnordered(ctx) ==
  LET raw == wpa2_prf(ctx.pmk, "Pairwise key expansion",
                      <<ctx.supplicant_mac, ctx.authenticator_mac, ctx.anonce, ctx.snonce>>, PtkTotal(ctx))
  IN  [ctx EXCEPT !.ptk = [kck |-> SubSeq(raw, 1, 16), kek |-> SubSeq(raw, 17, 32), tk |-> SubSeq(raw, 33, 48)]]

(* The first PTK_LEN bytes are complete before one is written beyond them. *)
derive_ptk(ctx) ==
  LET context == <<Lower(ctx.authenticator_mac, ctx.supplicant_mac),
                   Higher(ctx.authenticator_mac, ctx.supplicant_mac),
                   Lower(ctx.anonce, ctx.snonce), Higher(ctx.anonce, ctx.snonce)>>
      raw == wpa2_prf(ctx.pmk, "Pairwise key expansion", context, PtkTotal(ctx))
  IN  IF ~ctx.is_valid THEN ctx
      ELSE [ctx EXCEPT !.ptk = [kck |-> SubSeq(raw, 1, KCK_LEN),
                                kek |-> SubSeq(raw, KCK_LEN + 1, KCK_LEN + KEK_LEN),
                                tk |-> SubSeq(raw, KCK_LEN + KEK_LEN + 1, PTK_LEN)]]

derive_gtk(ctx, gnonce) ==
  [ctx EXCEPT !.gtk = wpa2_prf(ctx.gmk, "Group key expansion", <<ctx.authenticator_mac, gnonce>>, GTK_LEN)]

key_mgmt_rekey(ctx, gnonce) == [derive_gtk(ctx, gnonce) EXCEPT !.rekey_counter = @ + 1]

key_mgmt_get_tk(ctx) == ctx.ptk.tk
key_mgmt_get_gtk(ctx) == ctx.gtk

(* Without a salt, the salt is a block of zeros. *)
hkdf_extract(salt, ikm) == [salt |-> IF salt = <<>> THEN Zeros(32) ELSE salt, ikm |-> ikm]

(* Block i depends on the counters of all blocks up to it. *)
hkdf_expand(prk, info, len) ==
  [n \in 1 .. len |-> [prk |-> prk, info |-> info, at |-> (n - 1) % 32,
                       counters |-> [b \in 1 .. ((n - 1) \div 32) + 1 |-> b % 256]]]

hkdf(salt, ikm, info, len) == hkdf_expand(hkdf_extract(salt, ikm), info, len)

-----------------------------------------------------------------------------
(* A context and its caller; before keeps the last derivation but one, of
   this context or as well of its peer's.  A derivation for TKIP writes over
   what lies behind its buffer: the program goes on, or it stops there. *)

KhContext == [key_mgmt_init EXCEPT !.authenticator_mac = 7, !.supplicant_mac = 5, !.ssid = <<1>>]
KhDerivation(ctx) == [tk |-> key_mgmt_get_tk(ctx)[1], pmk |-> ctx.pmk, nonces |-> {ctx.anonce, ctx.snonce}]

KhInit == kh = [ctx |-> KhContext, last |-> {}, before |-> {}, okm |-> <<>>, stopped |-> FALSE]

KhSetPsk == \E len \in {32, 33} :
  ~kh.stopped /\ kh' = [kh EXCEPT !.ctx = key_mgmt_set_psk(@, [i \in 1 .. len |-> 1])]

KhPassphrase == ~kh.stopped /\ kh' = [kh EXCEPT !.ctx = key_mgmt_derive_from_passphrase(@, <<3>>)]

(* The caller stores a nonce of its own or of its peer. *)
KhSetNonce == \E n \in KhNonces, which \in {"anonce", "snonce"} :
  ~kh.stopped /\ kh' = [kh EXCEPT !.ctx[which] = n]

(* The caller stores the suite it agreed on. *)
KhSetCipher == \E suite \in {CIPHER_SUITE.CCMP, CIPHER_SUITE.TKIP} :
  ~kh.stopped /\ kh' = [kh EXCEPT !.ctx.cipher_suite = suite]

KhDerive ==
  /\ ~kh.stopped /\ kh.ctx.is_valid
  /\ \/ LET ctx == derive_ptk(kh.ctx)
        IN  kh' = [kh EXCEPT !.ctx = ctx, !.last = {KhDerivation(ctx)}, !.before = kh.last]
     \/ PtkTotal(kh.ctx) > PTK_LEN /\ kh' = [kh EXCEPT !.stopped = TRUE]

KhRekey == \E gnonce \in KhNonces :
  /\ ~kh.stopped /\ kh.ctx.rekey_counter < KhMaxRekeys
  /\ kh' = [kh EXCEPT !.ctx = key_mgmt_rekey(@, gnonce)]

KhExpand == \E len \in {16, 33, 64} :
  /\ kh = [ctx |-> KhContext, last |-> {}, before |-> {}, okm |-> <<>>, stopped |-> FALSE]
  /\ kh' = [kh EXCEPT !.okm = hkdf(<<>>, <<1>>, <<2>>, len)]

KhNext == KhSetPsk \/ KhPassphrase \/ KhSetNonce \/ KhSetCipher \/ KhDerive \/ KhRekey \/ KhExpand

KhSpec == KhInit /\ [][KhNext]_kh

-----------------------------------------------------------------------------
(* Properties *)

BytesOf(key) == {key[i] : i \in 1 .. Len(key)}

(* Two derivations give one key from the same master key and nonces,
   whichever of the nonces was the caller's own and whichever of two suites
   was agreed on meanwhile, and never the same key from others; the parts of a
   key share no byte.  A derivation for TKIP that stopped the program
   (wireless_key_mgmt.c:132) gave none. *)
KeysAgree ==
  LET ptk == kh.ctx.ptk
  IN  /\ \A d \in kh.last, e \in kh.before : (d.tk = e.tk) <=> (d.pmk = e.pmk /\ d.nonces = e.nonces)
      /\ kh.last # {} => Cardinality(BytesOf(ptk.kck) \cup BytesOf(ptk.kek) \cup BytesOf(ptk.tk)) = PTK_LEN

(* A new group key shares nothing with the pairwise key, whatever the nonces. *)
GroupApart == kh.ctx.rekey_counter > 0 =>
  BytesOf(key_mgmt_get_gtk(kh.ctx)) \cap BytesOf(key_mgmt_get_tk(kh.ctx)) = {}

(* A key expanded to any length never repeats, and begins like a shorter one. *)
ExpansionFresh ==
  /\ Cardinality(BytesOf(kh.okm)) = Len(kh.okm)
  /\ Len(kh.okm) > 32 => SubSeq(kh.okm, 1, 16) = hkdf(Zeros(32), <<1>>, <<2>>, 16)

(* The hierarchy as a whole. *)
HierarchySound == KeysAgree /\ GroupApart /\ ExpansionFresh

-----------------------------------------------------------------------------
(***************************************************************************)
(* The protocol configurations of wireless_protocol.c: the settings of the  *)
(* generations, the RSN element that announces one, read back whole or cut  *)
(* short by its reader, the negotiation of two, and the commit and confirm  *)
(* steps of the simultaneous authentication, on two contexts whose messages *)
(* are delayed, repeated or lost.                                           *)
(*                                                                          *)
(* The element is its bytes; a hash of the authentication is the term of    *)
(* its inputs.                                                              *)
(***************************************************************************)

CONSTANTS SpScalars,     \* the scalars generate_nonce comes by
          SpPasswords,   \* the passwords an end may have been given
          SpMaxCommits   \* bound on the number of commits of both contexts

ASSUME SpAssumption == SpScalars \subseteq Nat \ {0} /\ SpMaxCommits \in [{1, 2} -> Nat]

VARIABLES sp,  \* a configuration on its way
          sae  \* two contexts and the messages sent

(* security_protocol_t, akm_suite_t, cipher_pairwise_t and cipher_group_t *)
SEC_PROTO == [NONE |-> 0, WEP |-> 1, WPA |-> 2, WPA2 |-> 3, WPA3 |-> 4, WPA3_ENT |-> 5]
AKM == [RESERVED |-> 0, IEEE8021X |-> 1, PSK |-> 2, FT_8021X |-> 3, FT_PSK |-> 4, SHA256_8021X |-> 5,
        PSK_SHA256 |-> 6, SAE |-> 8, FT_SAE |-> 9, OWE |-> 18, DPP |-> 19]
PAIRWISE == [NONE |-> 0, TKIP |-> 2, CCMP |-> 4, GCMP128 |-> 8, GCMP256 |-> 9, CCMP256 |-> 10]
GROUP == [NONE |-> 0, WEP40 |-> 1, TKIP |-> 2, WEP104 |-> 3, CCMP |-> 4, GCMP128 |-> 8, GCMP256 |-> 9]
oui_wfa == <<0, 15, 172>>

sec_config_init ==
  [protocol |-> SEC_PROTO.NONE, akm |-> AKM.RESERVED, pairwise |-> PAIRWISE.NONE, group |-> GROUP.NONE,
   mfp_capable |-> FALSE, mfp_required |-> FALSE, pmk_caching |-> FALSE, preauth_enabled |-> FALSE,
   use_8021x |-> FALSE, ssid |-> <<>>, key_ctx |-> key_mgmt_init]

(* The network is named; the name fits, or the configuration is refused. *)
Named(ssid) == [sec_config_init EXCEPT !.ssid = ssid]

sec_config_set_wpa2_personal(ssid, text) ==
  [Named(ssid) EXCEPT !.protocol = SEC_PROTO.WPA2, !.akm = AKM.PSK, !.pairwise = PAIRWISE.CCMP,
     !.group = GROUP.CCMP, !.key_ctx = key_mgmt_derive_from_passphrase([@ EXCEPT !.ssid = ssid], text)]

sec_config_set_wpa3_personal(ssid) ==
  [Named(ssid) EXCEPT !.protocol = SEC_PROTO.WPA3, !.akm = AKM.SAE, !.pairwise = PAIRWISE.GCMP128,
     !.group = GROUP.GCMP128, !.mfp_required = TRUE, !.mfp_capable = TRUE]

sec_config_set_wpa2_enterprise(ssid) ==
  [Named(ssid) EXCEPT !.protocol = SEC_PROTO.WPA2, !.akm = AKM.IEEE8021X, !.pairwise = PAIRWISE.CCMP,
     !.group = GROUP.CCMP, !.use_8021x = TRUE]

sec_config_set_wpa3_enterprise(ssid) ==
  [Named(ssid) EXCEPT !.protocol = SEC_PROTO.WPA3_ENT, !.akm = AKM.SHA256_8021X, !.pairwise = PAIRWISE.GCMP256,
     !.group = GROUP.GCMP256, !.use_8021x = TRUE, !.mfp_required = TRUE, !.mfp_capable = TRUE]

sec_config_set_owe(ssid) ==
  [Named(ssid) EXCEPT !.protocol = SEC_PROTO.WPA3, !.akm = AKM.OWE, !.pairwise = PAIRWISE.GCMP128,
     !.group = GROUP.GCMP128]

sec_config_get_security_level(cfg) ==
  CASE cfg.protocol = SEC_PROTO.WPA2 -> IF cfg.use_8021x THEN 4 ELSE 3
    [] OTHER -> cfg.protocol

-----------------------------------------------------------------------------
(* The RSN element *)

Flag(b, n) == IF b THEN n ELSE 0
Capabilities(cfg) == Flag(cfg.mfp_capable, 128) + Flag(cfg.mfp_required, 64)
                       + Flag(cfg.pmk_caching, 8) + Flag(cfg.preauth_enabled, 1)

rsn_ie_build(cfg) ==
  LET body == <<1, 0>> \o oui_wfa \o <<cfg.group, 1, 0>> \o oui_wfa \o <<cfg.pairwise, 1, 0>>
                \o oui_wfa \o <<cfg.akm, Capabilities(cfg), 0, 0, 0>>
                \o IF cfg.mfp_capable THEN oui_wfa \o <<6>> ELSE <<>>
  IN  <<48, Len(body)>> \o body

(* A number of two bytes at a position, and a suite of the known family. *)
Short(buf, pos) == buf[pos + 1] + 256 * buf[pos + 2]
Suite(buf, pos, default) == IF SubSeq(buf, pos + 1, pos + 3) = oui_wfa THEN buf[pos + 4] ELSE default

(* Mutant: the reader does not move past the list. *)
SuitesUnskipped(buf, len, pos, default) ==
  [suite |-> Suite(buf, pos + 2, default), pos |-> pos + 2]

(* A counted list of suites: the first is taken if the list ends within the
   element; otherwise the reader stays at its start. *)
Suites(buf, len, pos, default) ==
  LET count == Short(buf, pos)
  IN  IF count > 0 /\ pos + 2 + 4 * count <= len
        THEN [suite |-> Suite(buf, pos + 2, default), pos |-> pos + 2 + 4 * count]
      ELSE [suite |-> default, pos |-> pos + 2]

ProtocolOf(group, pairwise, akm) ==
  IF pairwise \in {PAIRWISE.GCMP256, PAIRWISE.CCMP256} THEN SEC_PROTO.WPA3_ENT
  ELSE IF akm \in {AKM.SAE, AKM.FT_SAE} THEN SEC_PROTO.WPA3
  ELSE IF pairwise = PAIRWISE.CCMP THEN SEC_PROTO.WPA2
  ELSE IF pairwise = PAIRWISE.TKIP THEN SEC_PROTO.WPA
  ELSE IF group \in {GROUP.WEP40, GROUP.WEP104} THEN SEC_PROTO.WEP
  ELSE SEC_PROTO.NONE

(* The element up to len; the counts are read even beyond it. *)
rsn_ie_parse(buf, len) ==
  LET group == Suite(buf, 4, GROUP.NONE)
      pairs == Suites(buf, len, 8, PAIRWISE.NONE)
      akms == Suites(buf, len, pairs.pos, AKM.RESERVED)
      caps == IF akms.pos + 2 <= len THEN Short(buf, akms.pos) ELSE 0
      pmkids == IF akms.pos + 4 <= len THEN Short(buf, akms.pos + 2) ELSE 0
  IN  IF len < 8 \/ buf[1] # 48 \/ Short(buf, 2) # 1 THEN [rc |-> -1, cfg |-> sec_config_init]
      ELSE [rc |-> 0,
            cfg |-> [sec_config_init EXCEPT
                       !.group = group, !.pairwise = pairs.suite, !.akm = akms.suite,
                       !.mfp_capable = (BitOf(caps, 7) = 1), !.mfp_required = (BitOf(caps, 6) = 1),
                       !.preauth_enabled = (BitOf(caps, 0) = 1), !.pmk_caching = (pmkids > 0),
                       !.protocol = ProtocolOf(group, pairs.suite, akms.suite)]]

(* The personal modes leave the name of the network out of the result. *)
rsn_ie_negotiate(ap, sta) ==
  LET both(akm) == ap.akm = akm /\ sta.akm = akm
      agreed(cfg) == [rc |-> 0, cfg |-> cfg]
  IN  CASE both(AKM.SHA256_8021X) /\ ap.protocol = SEC_PROTO.WPA3_ENT /\ sta.protocol >= SEC_PROTO.WPA3_ENT
             -> agreed(sec_config_set_wpa3_enterprise(ap.ssid))
        [] both(AKM.SAE) -> agreed(sec_config_set_wpa3_personal(<<>>))
        [] both(AKM.IEEE8021X) -> agreed(sec_config_set_wpa2_enterprise(ap.ssid))
        [] both(AKM.PSK) -> agreed([sec_config_set_wpa2_personal(<<>>, <<>>) EXCEPT !.key_ctx = key_mgmt_init])
        [] both(AKM.OWE) -> agreed(sec_config_set_owe(ap.ssid))
        [] OTHER -> [rc |-> -1, cfg |-> sec_config_init]

-----------------------------------------------------------------------------
(* Simultaneous authentication *)

sae_ctx(my_mac, peer_mac, password) ==
  [state |-> "INIT", my_mac |-> my_mac, peer_mac |-> peer_mac, password |-> password,
   my_scalar |-> 0, my_element |-> <<>>, peer_scalar |-> 0, peer_element |-> <<>>, pmk |-> <<0, 0>>]

(* Each end hashes its own address before its peer's. *)
sae_derive_password_element(ctx) == <<ctx.my_mac, ctx.peer_mac, ctx.password>>

(* Mutant: an end that has answered a commit stays there when it commits
   again. *)
CommitKeepsState(ctx, scalar) ==
  [ctx |-> [ctx EXCEPT !.state = IF @ = "CONFIRMED" THEN @ ELSE "COMMITTED"],
   commit |-> [scalar |-> scalar, element |-> <<scalar, sae_derive_password_element(ctx)>>]]

(* The commit is returned; the context keeps its state only. *)
sae_commit(ctx, scalar) ==
  [ctx |-> [ctx EXCEPT !.state = "COMMITTED"],
   commit |-> [scalar |-> scalar, element |-> <<scalar, sae_derive_password_element(ctx)>>]]

Confirm(key, s1, s2, e1, e2) == <<key, s1, s2, e1, e2>>

sae_process_commit(ctx, peer) ==
  LET key == <<ctx.my_scalar, peer.scalar>>
  IN  [ctx |-> [ctx EXCEPT !.state = "CONFIRMED", !.pmk = key,
                           !.peer_scalar = peer.scalar, !.peer_element = peer.element],
       confirm |-> Confirm(key, ctx.my_scalar, peer.scalar, ctx.my_element, peer.element)]

sae_verify_confirm(ctx, confirm) ==
  LET key == <<ctx.my_scalar, ctx.peer_scalar>>
      expected == Confirm(key, ctx.peer_scalar, ctx.my_scalar, ctx.peer_element, ctx.my_element)
  IN  [ctx EXCEPT !.state = IF expected = confirm THEN "ACCEPTED" ELSE "REJECTED"]

-----------------------------------------------------------------------------
(* An access point announces a configuration, a station reads as much of the
   element as it received and negotiates. *)

SpConfigs ==
  {sec_config_set_wpa2_personal(<<1>>, <<3>>), sec_config_set_wpa3_personal(<<1>>),
   sec_config_set_wpa2_enterprise(<<1>>), sec_config_set_wpa3_enterprise(<<1>>), sec_config_set_owe(<<1>>)}

SpInit == sp = [at |-> "idle"]

SpAnnounce == \E cfg \in SpConfigs, caching, preauth \in BOOLEAN :
  /\ sp.at = "idle"
  /\ LET ours == [cfg EXCEPT !.pmk_caching = caching, !.preauth_enabled = preauth]
     IN  sp' = [at |-> "announced", cfg |-> ours, ie |-> rsn_ie_build(ours)]

SpReceive ==
  /\ sp.at = "announced"
  /\ \E len \in 7 .. Len(sp.ie) :
       sp' = [at |-> "parsed", cfg |-> sp.cfg, whole |-> len = Len(sp.ie), got |-> rsn_ie_parse(sp.ie, len)]

SpNegotiate == \E sta \in SpConfigs :
  /\ sp.at = "parsed" /\ sp.got.rc = 0
  /\ sp' = [at |-> "agreed", cfg |-> sp.cfg, whole |-> sp.whole, sta |-> sta,
            result |-> rsn_ie_negotiate(sp.got.cfg, sta)]

SpNext == SpAnnounce \/ SpReceive \/ SpNegotiate

(* Two ends, whose callers store their scalar and element in the context, with
   one password or two. *)
SaeEnds == {1, 2}

SaeInit == \E password \in [SaeEnds -> SpPasswords] :
  sae = [ctx |-> [e \in SaeEnds |-> sae_ctx(e, 3 - e, password[e])], commits |-> [e \in SaeEnds |-> {}],
         confirms |-> [e \in SaeEnds |-> {}], sent |-> [e \in SaeEnds |-> 0]]

SaeCommit == \E e \in SaeEnds, scalar \in SpScalars :
  /\ sae.sent[e] < SpMaxCommits[e]
  /\ LET r == sae_commit(sae.ctx[e], scalar)
     IN  sae' = [sae EXCEPT !.sent[e] = @ + 1, !.commits[e] = @ \cup {r.commit},
                            !.ctx[e] = [r.ctx EXCEPT !.my_scalar = r.commit.scalar,
                                                         !.my_element = r.commit.element]]

SaeProcess == \E e \in SaeEnds : \E peer \in sae.commits[3 - e] :
  /\ sae.ctx[e].state = "COMMITTED"
  /\ LET r == sae_process_commit(sae.ctx[e], peer)
     IN  sae' = [sae EXCEPT !.ctx[e] = r.ctx, !.confirms[e] = @ \cup {r.confirm}]

SaeVerify == \E e \in SaeEnds : \E confirm \in sae.confirms[3 - e] :
  /\ sae.ctx[e].state = "CONFIRMED"
  /\ sae' = [sae EXCEPT !.ctx[e] = sae_verify_confirm(@, confirm)]

SaeNext == SaeCommit \/ SaeProcess \/ SaeVerify

SpSpec == SpInit /\ SaeInit /\ [][(SpNext /\ UNCHANGED sae) \/ (SaeNext /\ UNCHANGED sp)]_<<sp, sae>>

-----------------------------------------------------------------------------
(* Properties *)

Fields == {"akm", "pairwise", "group", "mfp_capable", "mfp_required", "preauth_enabled"}

(* An element cut short by its reader never announces a suite or one of the
   capabilities of Fields the sender did not set, nor a higher level; a whole
   one announces all of Fields.  The caching of master keys is no field of it:
   it is written as a capability and read from the number of their names, which
   is always 0 (wireless_protocol.c:252, :332); nor is the use of 802.1X, which
   is not written, nor the protocol of opportunistic encryption, which is not
   recognised. *)
ElementFaithful == sp.at = "parsed" /\ sp.got.rc = 0 =>
  /\ \A f \in Fields : sp.got.cfg[f] \in {sp.cfg[f], sec_config_init[f]}
  /\ sec_config_get_security_level(sp.got.cfg) <= sec_config_get_security_level(sp.cfg)
  /\ sp.whole => /\ \A f \in Fields : sp.got.cfg[f] = sp.cfg[f]
                 /\ sp.cfg.akm # AKM.OWE => sp.got.cfg.protocol = sp.cfg.protocol

(* Negotiating with what was read is negotiating with what was configured,
   whoever of the two is asked first, or it fails. *)
NegotiationFaithful == sp.at = "agreed" =>
  LET direct == rsn_ie_negotiate(sp.cfg, sp.sta)
      strip(r) == [r EXCEPT !.cfg.ssid = <<>>]
  IN  /\ strip(sp.result) \in {strip(direct), [rc |-> -1, cfg |-> sec_config_init]}
      /\ strip(direct) = strip(rsn_ie_negotiate(sp.sta, sp.cfg))
      /\ sp.whole => strip(sp.result) = strip(direct)
      /\ sp.result.rc = 0 => sp.result.cfg.akm = sp.sta.akm

(* From its answer to a commit until it commits again, an end holds the master
   key of its own last commit and of one that its peer sent, of both scalar and
   element, however commits cross, repeat or are lost and whatever is confirmed.
   That the ends agree is no property of the code: each hashes its own scalar
   first (wireless_protocol.c:495, :532), so no confirmation is accepted but of
   a peer that drew the same scalar, and the key depends on no password. *)
KeyOfCommits == \A e \in SaeEnds : sae.ctx[e].state \in {"CONFIRMED", "ACCEPTED", "REJECTED"} =>
  LET ctx == sae.ctx[e]
  IN  /\ ctx.pmk = <<ctx.my_scalar, ctx.peer_scalar>>
      /\ \E own \in sae.commits[e] : own.scalar = ctx.my_scalar /\ own.element = ctx.my_element
      /\ \E peer \in sae.commits[3 - e] : peer.scalar = ctx.peer_scalar /\ peer.element = ctx.peer_element

(* The protocols as a whole. *)
ProtocolSound == ElementFaithful /\ NegotiationFaithful

-----------------------------------------------------------------------------
(***************************************************************************)
(* The wireless intrusion detection of wireless_attack.c: frames counted by *)
(* kind in a window of seconds, alarms at a threshold, a caller that reads  *)
(* and resets them.                                                         *)
(***************************************************************************)

CONSTANTS IdWindow,   \* window_sec
          IdSteps     \* the seconds that may pass between two frames

ASSUME IdAssumption == IdWindow \in Nat \ {0} /\ IdSteps \subseteq Nat

VARIABLES ids,    \* ids_state_t
          heard   \* the kind of a burst and the times of its last frames

ids_init(window) ==
  [window_sec |-> window, window_start_time |-> 0,
   seen |-> [deauth |-> 0, auth |-> 0, pmkid |-> 0],
   threshold |-> [deauth |-> 10, auth |-> 5, pmkid |-> 3],
   alarm |-> [deauth |-> FALSE, auth |-> FALSE, pmkid |-> FALSE]]

IdKinds == {"deauth", "auth", "pmkid", "other"}

(* Frame type and subtype: management frames 12 and 11, any data frame. *)
KindOf(type, subtype) ==
  CASE type = 0 /\ subtype = 12 -> "deauth"
    [] type = 0 /\ subtype = 11 -> "auth"
    [] type = 2 -> "pmkid"
    [] OTHER -> "other"

Restarted(state, time) ==
  [state EXCEPT !.seen = [k \in DOMAIN @ |-> 0], !.alarm = [k \in DOMAIN @ |-> FALSE], !.window_start_time = time]

(* A window has ended when more than its length has passed; times do not go
   back. *)
Expired(state, time) ==
  IF time - state.window_start_time > state.window_sec THEN Restarted(state, time) ELSE state

(* Mutant: the counts of a window that has ended are kept. *)
ProcessUncleared(state, type, subtype, time) ==
  LET s == [Expired(state, time) EXCEPT !.seen = state.seen]
      k == KindOf(type, subtype)
  IN  IF k = "other" THEN s
      ELSE [s EXCEPT !.seen[k] = @ + 1, !.alarm[k] = @ \/ s.seen[k] + 1 > s.threshold[k]]

ids_process_frame(state, type, subtype, time) ==
  LET s == Expired(state, time)
      k == KindOf(type, subtype)
  IN  IF k = "other" THEN s
      ELSE [s EXCEPT !.seen[k] = @ + 1, !.alarm[k] = @ \/ s.seen[k] + 1 > s.threshold[k]]

ids_check_alarms(state) == {k \in DOMAIN state.alarm : state.alarm[k]}

ids_reset_alarms(state) == [state EXCEPT !.alarm = [k \in DOMAIN @ |-> FALSE]]

-----------------------------------------------------------------------------
(* A burst of one kind among other frames *)

IdBurst == 7
Latest(seq) == IF Len(seq) > IdBurst THEN Tail(seq) ELSE seq

IdInit == ids = ids_init(IdWindow) /\ heard = [times |-> <<>>, now |-> 0, alarmed |-> FALSE, since |-> 0]

IdFrame == \E step \in IdSteps, f \in {<<2, 0>>, <<0, 8>>} :
  LET now == heard.now + step
      next == ids_process_frame(ids, f[1], f[2], now)
      burst == f[1] = 2
  IN  /\ now <= 3 * IdWindow /\ (burst => ids.seen.pmkid < IdBurst)
      /\ ids' = next
      /\ heard' = [times |-> IF burst THEN Latest(Append(heard.times, now)) ELSE heard.times, now |-> now,
                   alarmed |-> "pmkid" \in ids_check_alarms(next),
                   since |-> IF ~burst THEN heard.since
                             ELSE IF "pmkid" \in ids_check_alarms(next) \/ heard.since = IdBurst THEN 0
                             ELSE heard.since + 1]

IdReset == ids.alarm # ids_reset_alarms(ids).alarm /\ ids' = ids_reset_alarms(ids) /\ UNCHANGED heard

IdNext == IdFrame \/ IdReset

IdSpec == IdInit /\ [][IdNext]_<<ids, heard>>

-----------------------------------------------------------------------------
(* Properties *)

(* Twice the threshold of frames and one more within a window's length raise
   the alarm in between, although the window may be renewed amid them; fewer
   frames than the threshold in that length never do, nor those of others. *)
BurstNoticed ==
  /\ heard.since = IdBurst => heard.times[IdBurst] - heard.times[1] > IdWindow
  /\ heard.alarmed => Len(heard.times) > ids.threshold.pmkid
  /\ heard.alarmed /\ Len(heard.times) > 3 =>
       heard.times[Len(heard.times)] - heard.times[Len(heard.times) - 3] <= IdWindow

(* What the parts promise: the hierarchy's keys agree exactly where their
   inputs do, an announced configuration is never read as a stronger one, an
   end that answered a commit holds the key of its and its peer's, and bursts
   are noticed. *)
DerivationsSound == HierarchySound /\ ProtocolSound /\ KeyOfCommits /\ BurstNoticed
=============================================================================
