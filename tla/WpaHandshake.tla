---------------------------- MODULE WpaHandshake ----------------------------
(***************************************************************************)
(* The WPA2 four-way handshake of mini-wireless-security                    *)
(* (src/wireless_auth.c): an access point and a station, each owning a      *)
(* handshake_ctx_t, and the frames between them, which may be lost,         *)
(* duplicated and reordered.  The caller hands a frame of message N to      *)
(* handshake_process_msgN, as the tests and the examples do.                *)
(*                                                                          *)
(* A pairwise key (PTK) is the pair of what it is derived from: the master  *)
(* key, and the nonces as a set, because the derivation orders them with    *)
(* min and max.  A MIC is the PTK it was computed under; a MIC verifies     *)
(* exactly under that PTK.  Key data travel in clear: they are wrapped      *)
(* under the KEK of the PTK that keys the MIC, and unwrapped only after the *)
(* MIC has verified.                                                        *)
(***************************************************************************)
EXTENDS Naturals, Sequences, FiniteSets

CONSTANTS
  Pmks,        \* master keys, one per passphrase
  Nonces,      \* what generate_nonce may return; it may repeat a value
  ZeroNonce,   \* the all-zero nonce
  NoPTK,       \* the all-zero PTK left by memset
  Bytes,       \* values of a byte of group-key material, 0 among them
  GtkLen,      \* WPA_GTK_LEN, the size of the gtk buffer
  Gtks,        \* the group keys the caller may pass to build_msg3
  GtkIds,      \* and their key ids
  CtrMod,      \* 2^64: the replay counter wraps
  MaxDups,     \* bound on frames delivered once more than they were sent
  MaxStarts,   \* bound on calls of handshake_build_msg1
  MaxInits     \* bound on calls of handshake_init after the first

PTKs == [pmk : Pmks, nonces : SUBSET (Nonces \cup {ZeroNonce})]

ASSUME HandshakeAssumption ==
  /\ ZeroNonce \notin Nonces
  /\ NoPTK \notin PTKs
  /\ GtkLen \in Nat
  /\ Gtks \subseteq Seq(Bytes)
  /\ GtkIds \subseteq Bytes
  /\ 0 \in Bytes
  /\ CtrMod \in Nat \ {0}
  /\ MaxDups \in Nat /\ MaxStarts \in Nat /\ MaxInits \in Nat

VARIABLES
  ap,     \* handshake_ctx_t of the access point
  sta,    \* handshake_ctx_t of the station
  net,    \* frames that can still be delivered
  sent,   \* history: every frame ever built
  dups,   \* deliveries that left the frame in flight
  starts, \* calls of handshake_build_msg1
  inits   \* calls of handshake_init after the first

vars == <<ap, sta, net, sent, dups, starts, inits>>

States == {"IDLE", "MSG1_SENT", "MSG1_RECEIVED", "MSG2_SENT", "MSG2_RECEIVED",
           "MSG3_SENT", "MSG3_RECEIVED", "MSG4_SENT", "COMPLETE", "FAILED"}

Contexts == [state  : States,
             pmk    : Pmks,
             ptk    : PTKs \cup {NoPTK},
             anonce : Nonces \cup {ZeroNonce},
             snonce : Nonces \cup {ZeroNonce},
             ctr    : 0 .. CtrMod - 1,
             gtk    : [1 .. GtkLen -> Bytes]]

Frames == [type    : 1 .. 4,
           ctr     : 0 .. CtrMod - 1,
           nonce   : Nonces \cup {ZeroNonce},
           mic     : PTKs \cup {NoPTK},
           keyData : Seq(Bytes)]

-----------------------------------------------------------------------------
(* handshake_derive_ptk_impl *)
PTK(pmk, anonce, snonce) == [pmk |-> pmk, nonces |-> {anonce, snonce}]

(* handshake_init followed by handshake_derive_pmk *)
FreshContext(pmk) ==
  [state |-> "IDLE", pmk |-> pmk, ptk |-> NoPTK,
   anonce |-> ZeroNonce, snonce |-> ZeroNonce, ctr |-> 0,
   gtk |-> [i \in 1 .. GtkLen |-> 0]]

(* Mutant: the increment does not wrap. *)
IncrementNoWrap(ctr) == ctr + 1

(* The byte-wise increment of the 8-byte replay counter. *)
Increment(ctr) == (ctr + 1) % CtrMod

(* handshake_compute_mic and the comparison that follows it *)
MicVerifies(m, ptk) == m.mic = ptk

(* The copy loop of process_msg3: as much key data as fits into gtk. *)
InstallGtk(gtk, keyData) ==
  [i \in 1 .. GtkLen |-> IF i <= Len(keyData) THEN keyData[i] ELSE gtk[i]]

Send(m) == /\ net' = net \cup {m}
           /\ sent' = sent \cup {m}
           /\ UNCHANGED dups

(* A delivered frame leaves the air, or stays to be delivered again.  A frame
   that is never delivered is a lost one. *)
Deliver(m) == /\ \/ net' = net \ {m} /\ UNCHANGED dups
                 \/ dups < MaxDups /\ dups' = dups + 1 /\ UNCHANGED net
              /\ UNCHANGED sent

Init == /\ \E p, q \in Pmks : ap = FreshContext(p) /\ sta = FreshContext(q)
        /\ net = {}
        /\ sent = {}
        /\ dups = 0
        /\ starts = 0
        /\ inits = 0

-----------------------------------------------------------------------------
(* Access point *)

(* There is no guard on the state: a new ANonce at any time.  The PTK of an
   earlier exchange stays in the context. *)
ApBuildMsg1 ==
  /\ starts < MaxStarts
  /\ starts' = starts + 1
  /\ \E n \in Nonces :
       LET c == Increment(ap.ctr) IN
       /\ ap' = [ap EXCEPT !.anonce = n, !.ctr = c, !.state = "MSG1_SENT"]
       /\ Send([type |-> 1, ctr |-> c, nonce |-> n, mic |-> NoPTK,
                keyData |-> <<>>])
  /\ UNCHANGED <<sta, inits>>

(* Mutant: message 2 is accepted without its MIC. *)
ApProcessMsg2Unverified(m) ==
  /\ m.type = 2
  /\ ap' = [ap EXCEPT !.snonce = m.nonce, !.state = "MSG2_RECEIVED",
                      !.ptk = PTK(ap.pmk, ap.anonce, m.nonce)]
  /\ Deliver(m)
  /\ UNCHANGED <<sta, starts, inits>>

(* Mutant: a wrong MIC leaves the state as it is. *)
ApProcessMsg2Silent(m) ==
  /\ m.type = 2
  /\ LET k == PTK(ap.pmk, ap.anonce, m.nonce) IN
     ap' = [ap EXCEPT !.snonce = m.nonce, !.ptk = k,
                      !.state = IF MicVerifies(m, k) THEN "MSG2_RECEIVED" ELSE @]
  /\ Deliver(m)
  /\ UNCHANGED <<sta, starts, inits>>

(* Mutant: the nonce of message 2 is used but not kept. *)
ApProcessMsg2Forgets(m) ==
  /\ m.type = 2
  /\ LET k == PTK(ap.pmk, ap.anonce, m.nonce) IN
     ap' = [ap EXCEPT !.ptk = k,
                      !.state = IF MicVerifies(m, k) THEN "MSG2_RECEIVED"
                                                     ELSE "FAILED"]
  /\ Deliver(m)
  /\ UNCHANGED <<sta, starts, inits>>

(* SNonce and PTK are overwritten before the MIC is verified, in any state. *)
ApProcessMsg2(m) ==
  /\ m.type = 2
  /\ LET k == PTK(ap.pmk, ap.anonce, m.nonce) IN
     ap' = [ap EXCEPT !.snonce = m.nonce, !.ptk = k,
                      !.state = IF MicVerifies(m, k) THEN "MSG2_RECEIVED"
                                                     ELSE "FAILED"]
  /\ Deliver(m)
  /\ UNCHANGED <<sta, starts, inits>>

(* Mutant: message 3 may follow message 1 at once. *)
ApBuildMsg3Early ==
  /\ ap.state \in {"MSG1_SENT", "MSG2_RECEIVED"}
  /\ \E g \in Gtks, id \in GtkIds :
       LET c == Increment(ap.ctr) IN
       /\ ap' = [ap EXCEPT !.ctr = c, !.state = "MSG3_SENT"]
       /\ Send([type |-> 3, ctr |-> c, nonce |-> ap.anonce, mic |-> ap.ptk,
                keyData |-> <<id>> \o g])
  /\ UNCHANGED <<sta, starts, inits>>

ApBuildMsg3 ==
  /\ ap.state = "MSG2_RECEIVED"
  /\ \E g \in Gtks, id \in GtkIds :
       LET c == Increment(ap.ctr) IN
       /\ ap' = [ap EXCEPT !.ctr = c, !.state = "MSG3_SENT"]
       /\ Send([type |-> 3, ctr |-> c, nonce |-> ap.anonce, mic |-> ap.ptk,
                keyData |-> <<id>> \o g])
  /\ UNCHANGED <<sta, starts, inits>>

(* Mutant: any message 4 completes the handshake. *)
ApProcessMsg4Unverified(m) ==
  /\ m.type = 4
  /\ ap' = [ap EXCEPT !.state = "COMPLETE"]
  /\ Deliver(m)
  /\ UNCHANGED <<sta, starts, inits>>

(* The state is not consulted: the MIC alone decides. *)
ApProcessMsg4(m) ==
  /\ m.type = 4
  /\ ap' = [ap EXCEPT !.state = IF MicVerifies(m, ap.ptk) THEN "COMPLETE"
                                                          ELSE "FAILED"]
  /\ Deliver(m)
  /\ UNCHANGED <<sta, starts, inits>>

(* The caller initialises the context again and derives the same PMK. *)
ApInit ==
  /\ inits < MaxInits
  /\ inits' = inits + 1
  /\ ap' = FreshContext(ap.pmk)
  /\ UNCHANGED <<sta, net, sent, dups, starts>>

-----------------------------------------------------------------------------
(* Station *)

(* Mutant: the replay counter of message 1 is not taken over. *)
StaProcessMsg1NoCounter(m) ==
  /\ m.type = 1
  /\ \E n \in Nonces :
       sta' = [sta EXCEPT !.anonce = m.nonce, !.snonce = n,
                          !.ptk = PTK(sta.pmk, m.nonce, n),
                          !.state = "MSG1_RECEIVED"]
  /\ Deliver(m)
  /\ UNCHANGED <<ap, starts, inits>>

(* Neither the state nor the replay counter is checked. *)
StaProcessMsg1(m) ==
  /\ m.type = 1
  /\ \E n \in Nonces :
       sta' = [sta EXCEPT !.anonce = m.nonce, !.snonce = n, !.ctr = m.ctr,
                          !.ptk = PTK(sta.pmk, m.nonce, n),
                          !.state = "MSG1_RECEIVED"]
  /\ Deliver(m)
  /\ UNCHANGED <<ap, starts, inits>>

StaBuildMsg2 ==
  /\ sta.state = "MSG1_RECEIVED"
  /\ sta' = [sta EXCEPT !.state = "MSG2_SENT"]
  /\ Send([type |-> 2, ctr |-> sta.ctr, nonce |-> sta.snonce, mic |-> sta.ptk,
           keyData |-> <<>>])
  /\ UNCHANGED <<ap, starts, inits>>

(* Mutant: the group key is installed whatever the MIC. *)
StaProcessMsg3Unverified(m) ==
  /\ m.type = 3
  /\ sta' = [sta EXCEPT !.gtk = InstallGtk(sta.gtk, m.keyData),
                        !.state = "MSG3_RECEIVED"]
  /\ Deliver(m)
  /\ UNCHANGED <<ap, starts, inits>>

(* The counter of message 3 is not taken over. *)
StaProcessMsg3(m) ==
  /\ m.type = 3
  /\ sta' = IF MicVerifies(m, sta.ptk)
            THEN [sta EXCEPT !.gtk = InstallGtk(sta.gtk, m.keyData),
                             !.state = "MSG3_RECEIVED"]
            ELSE [sta EXCEPT !.state = "FAILED"]
  /\ Deliver(m)
  /\ UNCHANGED <<ap, starts, inits>>

StaBuildMsg4 ==
  /\ sta.state = "MSG3_RECEIVED"
  /\ sta' = [sta EXCEPT !.state = "MSG4_SENT"]
  /\ Send([type |-> 4, ctr |-> sta.ctr, nonce |-> ZeroNonce, mic |-> sta.ptk,
           keyData |-> <<>>])
  /\ UNCHANGED <<ap, starts, inits>>

StaInit ==
  /\ inits < MaxInits
  /\ inits' = inits + 1
  /\ sta' = FreshContext(sta.pmk)
  /\ UNCHANGED <<ap, net, sent, dups, starts>>

-----------------------------------------------------------------------------
ApNext == \/ ApBuildMsg1
          \/ ApBuildMsg3
          \/ ApInit
          \/ \E m \in net : ApProcessMsg2(m) \/ ApProcessMsg4(m)

StaNext == \/ StaBuildMsg2
           \/ StaBuildMsg4
           \/ StaInit
           \/ \E m \in net : StaProcessMsg1(m) \/ StaProcessMsg3(m)

Next == ApNext \/ StaNext

Spec == Init /\ [][Next]_vars

(* The driver calls each function in turn, and a frame on a network that
   loses nothing arrives.  Only one exchange can be forced: MaxStarts = 1. *)
Progress == \/ ApBuildMsg1
            \/ ApBuildMsg3
            \/ StaBuildMsg2
            \/ StaBuildMsg4
            \/ \E m \in net : \/ ApProcessMsg2(m)
                              \/ ApProcessMsg4(m)
                              \/ StaProcessMsg1(m)
                              \/ StaProcessMsg3(m)

FairSpec == Spec /\ WF_vars(Progress)

-----------------------------------------------------------------------------
(* Properties *)

(* Every context and frame has the shape the C structures give it. *)
TypeOK ==
  /\ ap \in Contexts
  /\ sta \in Contexts
  /\ sent \subseteq Frames
  /\ net \subseteq sent
  /\ dups \in 0 .. MaxDups
  /\ starts \in 0 .. MaxStarts
  /\ inits \in 0 .. MaxInits

(* The keys of the frames of one type: offered by message 2, granted by
   message 3, confirmed by message 4. *)
KeysOf(type) == {m.mic : m \in {f \in sent : f.type = type}}

(* HANDSHAKE_COMPLETE under a key means that the station has answered a
   message 3 of this very key, whatever was lost, repeated or restarted. *)
CompleteIsConfirmed ==
  ap.state = "COMPLETE" => ap.ptk \in KeysOf(2) \cap KeysOf(3) \cap KeysOf(4)

(* Two sides with different passphrases never complete, and the station
   never installs a group key from such an access point. *)
SamePassphrase ==
  ap.pmk # sta.pmk => /\ ap.state \notin {"MSG2_RECEIVED", "MSG3_SENT", "COMPLETE"}
                      /\ sta.state \notin {"MSG3_RECEIVED", "MSG4_SENT"}

(* The group key a station holds after message 3 comes from one frame that
   the access point built under the pairwise key the station uses. *)
GroupKeyProvenance ==
  sta.state \in {"MSG3_RECEIVED", "MSG4_SENT"} =>
    \E m \in sent : /\ m.type = 3
                    /\ m.mic = sta.ptk
                    /\ sta.gtk = InstallGtk(sta.gtk, m.keyData)

(* Why the properties above hold: what each side knows in each state about
   the frames that have been built, and whose master key is in a PTK.  No
   clause speaks of net, counters or restarts. *)
KeyInv ==
  /\ ap.ptk # NoPTK => ap.ptk.pmk = ap.pmk
  /\ ap.state \in {"MSG2_RECEIVED", "MSG3_SENT"} => ap.ptk \in KeysOf(2)
  /\ ap.state = "MSG3_SENT" => ap.ptk \in KeysOf(3)
  /\ ap.state = "COMPLETE" => ap.ptk \in KeysOf(4)
  /\ sta.ptk # NoPTK => sta.ptk.pmk = sta.pmk
  /\ sta.state = "MSG1_RECEIVED" => sta.ptk # NoPTK
  /\ sta.state \in {"MSG3_RECEIVED", "MSG4_SENT"} => sta.ptk \in KeysOf(3)
  /\ KeysOf(4) \subseteq KeysOf(3)
  /\ KeysOf(3) \subseteq KeysOf(2)
  /\ \A k \in KeysOf(2) : k \in PTKs /\ k.pmk = sta.pmk
  /\ \A k \in KeysOf(3) : k.pmk = ap.pmk

(* The invariant as it is inductive, with the types of both contexts. *)
HandshakeInv == TypeOK /\ KeyInv

(* On a network that delivers every frame once, and for one exchange, a
   complete access point and its station hold the same key and nonces. *)
KeysMatch ==
  ap.state = "COMPLETE" =>
    /\ sta.state = "MSG4_SENT"
    /\ <<ap.ptk, ap.anonce, ap.snonce>> = <<sta.ptk, sta.anonce, sta.snonce>>

(* Every frame of the station repeats a counter the access point has used. *)
CountersEchoed ==
  \A m \in sent : m.type \in {2, 4} =>
    \E f \in sent : f.type = 1 /\ f.ctr = m.ctr

(* One exchange on a reliable network ends: complete if the passphrases
   agree, failed if they do not. *)
ExchangeEnds ==
  IF ap.pmk = sta.pmk THEN <>[](ap.state = "COMPLETE")
                      ELSE <>[](ap.state = "FAILED")

(* The header calls the gtk field "GTK (delivered in message 3)". *)
GroupKeyDelivered ==
  sta.state = "MSG3_RECEIVED" =>
    \E m \in sent : /\ m.type = 3
                    /\ m.mic = sta.ptk
                    /\ \A i \in 1 .. Len(m.keyData) - 1 : sta.gtk[i] = m.keyData[i + 1]

(* Each step of the handshake is a step of the abstract key agreement. *)
Agreement == INSTANCE KeyAgreement WITH
  Keys <- PTKs,
  NoKey <- NoPTK,
  stationKeys <- {k \in PTKs : k.pmk = sta.pmk},
  apKeys <- {k \in PTKs : k.pmk = ap.pmk},
  offered <- KeysOf(2),
  granted <- KeysOf(3),
  confirmed <- KeysOf(4),
  inUse <- IF ap.state = "COMPLETE" THEN ap.ptk ELSE NoPTK

ImplementsKeyAgreement == Agreement!ASpec
=============================================================================
