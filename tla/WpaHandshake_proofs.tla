------------------------- MODULE WpaHandshake_proofs -------------------------
(***************************************************************************)
(* Proofs about the four-way handshake, for any number of nonces,           *)
(* passphrases, restarts and repeated frames: type correctness, agreement   *)
(* on the pairwise key, origin of the group key, the counters of replies,   *)
(* and the refinement of KeyAgreement.  The last one is about one exchange: *)
(* both sides that finish hold the same key and nonces.                     *)
(***************************************************************************)
EXTENDS WpaHandshake, TLAPS

USE HandshakeAssumption

-----------------------------------------------------------------------------
(* Operators *)

(* A counter stays within its width. *)
LEMMA IncrementType == ASSUME NEW c \in 0 .. CtrMod - 1
                       PROVE  Increment(c) \in 0 .. CtrMod - 1
  BY DEF Increment

(* A group key lands in a buffer of bytes, whatever its length. *)
LEMMA InstallGtkType ==
  ASSUME NEW g \in [1 .. GtkLen -> Bytes], NEW kd \in Seq(Bytes)
  PROVE  InstallGtk(g, kd) \in [1 .. GtkLen -> Bytes]
<1>1. ASSUME NEW i \in 1 .. GtkLen
      PROVE  (IF i <= Len(kd) THEN kd[i] ELSE g[i]) \in Bytes
  <2>1. CASE i <= Len(kd)
    <3>1. i \in 1 .. Len(kd)
      BY <2>1
    <3>2. kd[i] \in Bytes
      BY <3>1
    <3> QED BY <3>2, <2>1
  <2>2. CASE ~(i <= Len(kd))
    BY <2>2
  <2> QED BY <2>1, <2>2
<1> QED BY <1>1 DEF InstallGtk

(* Installing the same key data a second time changes nothing. *)
LEMMA InstallGtkIdempotent ==
  ASSUME NEW g, NEW kd
  PROVE  InstallGtk(InstallGtk(g, kd), kd) = InstallGtk(g, kd)
  BY DEF InstallGtk

(* Keys derived from known nonces are keys. *)
LEMMA PTKType ==
  ASSUME NEW p \in Pmks, NEW a \in Nonces \cup {ZeroNonce},
         NEW b \in Nonces \cup {ZeroNonce}
  PROVE  PTK(p, a, b) \in PTKs /\ PTK(p, a, b) # NoPTK /\ PTK(p, a, b).pmk = p
  BY DEF PTK, PTKs

LEMMA FreshContextType == ASSUME NEW p \in Pmks PROVE FreshContext(p) \in Contexts
  BY DEF FreshContext, Contexts, States

(* Building a frame adds its MIC to the keys of its type and to no other. *)
LEMMA SendKeys ==
  ASSUME NEW m, Send(m)
  PROVE  \A t : KeysOf(t)' = IF m.type = t THEN KeysOf(t) \cup {m.mic}
                                           ELSE KeysOf(t)
  BY DEF Send, KeysOf

LEMMA SentKeys == ASSUME UNCHANGED sent PROVE \A t : KeysOf(t)' = KeysOf(t)
  BY DEF KeysOf

-----------------------------------------------------------------------------
(* Types *)

LEMMA SendType ==
  ASSUME TypeOK, NEW m \in Frames, Send(m)
  PROVE  /\ sent' \subseteq Frames
         /\ net' \subseteq sent'
         /\ dups' \in 0 .. MaxDups
  BY DEF TypeOK, Send

LEMMA DeliverType ==
  ASSUME TypeOK, NEW m, Deliver(m)
  PROVE  /\ sent' \subseteq Frames
         /\ net' \subseteq sent'
         /\ dups' \in 0 .. MaxDups
  BY DEF TypeOK, Deliver

LEMMA InitType == Init => TypeOK
<1> SUFFICES ASSUME Init PROVE TypeOK
  OBVIOUS
<1>1. ap \in Contexts /\ sta \in Contexts
  BY FreshContextType DEF Init
<1> QED BY <1>1 DEF Init, TypeOK

LEMMA NextType == TypeOK /\ [Next]_vars => TypeOK'
<1> SUFFICES ASSUME TypeOK, [Next]_vars PROVE TypeOK'
  OBVIOUS
<1> USE DEF TypeOK
<1>1. CASE ApBuildMsg1
  <2>1. PICK n \in Nonces :
          LET c == Increment(ap.ctr)
          IN  /\ ap' = [ap EXCEPT !.anonce = n, !.ctr = c, !.state = "MSG1_SENT"]
              /\ Send([type |-> 1, ctr |-> c, nonce |-> n, mic |-> NoPTK,
                       keyData |-> <<>>])
    BY <1>1 DEF ApBuildMsg1
  <2>2. Increment(ap.ctr) \in 0 .. CtrMod - 1
    BY IncrementType DEF Contexts
  <2>3. ap' \in Contexts
    BY <2>1, <2>2 DEF Contexts, States
  <2>4. [type |-> 1, ctr |-> Increment(ap.ctr), nonce |-> n, mic |-> NoPTK,
         keyData |-> <<>>] \in Frames
    BY <2>2 DEF Frames
  <2> QED BY <1>1, <2>1, <2>3, <2>4, SendType DEF ApBuildMsg1
<1>2. CASE ApBuildMsg3
  <2>1. PICK g \in Gtks, id \in GtkIds :
          LET c == Increment(ap.ctr)
          IN  /\ ap' = [ap EXCEPT !.ctr = c, !.state = "MSG3_SENT"]
              /\ Send([type |-> 3, ctr |-> c, nonce |-> ap.anonce,
                       mic |-> ap.ptk, keyData |-> <<id>> \o g])
    BY <1>2 DEF ApBuildMsg3
  <2>2. Increment(ap.ctr) \in 0 .. CtrMod - 1
    BY IncrementType DEF Contexts
  <2>3. ap' \in Contexts
    BY <2>1, <2>2 DEF Contexts, States
  <2>4. g \in Seq(Bytes) /\ <<id>> \in Seq(Bytes)
    OBVIOUS
  <2>5. <<id>> \o g \in Seq(Bytes)
    BY <2>4
  <2>6. [type |-> 3, ctr |-> Increment(ap.ctr), nonce |-> ap.anonce,
         mic |-> ap.ptk, keyData |-> <<id>> \o g] \in Frames
    BY <2>2, <2>5 DEF Frames, Contexts
  <2> QED BY <1>2, <2>1, <2>3, <2>6, SendType DEF ApBuildMsg3
<1>3. CASE ApInit
  BY <1>3, FreshContextType DEF ApInit, Contexts
<1>4. ASSUME NEW m \in net, ApProcessMsg2(m) PROVE TypeOK'
  <2>1. PTK(ap.pmk, ap.anonce, m.nonce) \in PTKs
    BY PTKType DEF Frames, Contexts
  <2>2. ap' \in Contexts
    BY <1>4, <2>1 DEF ApProcessMsg2, Contexts, Frames, States
  <2> QED BY <1>4, <2>2, DeliverType DEF ApProcessMsg2
<1>5. ASSUME NEW m \in net, ApProcessMsg4(m) PROVE TypeOK'
  <2>1. ap' \in Contexts
    BY <1>5 DEF ApProcessMsg4, Contexts, States
  <2> QED BY <1>5, <2>1, DeliverType DEF ApProcessMsg4
<1>6. CASE StaBuildMsg2
  <2>1. sta' \in Contexts
    BY <1>6 DEF StaBuildMsg2, Contexts, States
  <2>2. [type |-> 2, ctr |-> sta.ctr, nonce |-> sta.snonce, mic |-> sta.ptk,
         keyData |-> <<>>] \in Frames
    BY DEF Frames, Contexts
  <2> QED BY <1>6, <2>1, <2>2, SendType DEF StaBuildMsg2
<1>7. CASE StaBuildMsg4
  <2>1. sta' \in Contexts
    BY <1>7 DEF StaBuildMsg4, Contexts, States
  <2>2. [type |-> 4, ctr |-> sta.ctr, nonce |-> ZeroNonce, mic |-> sta.ptk,
         keyData |-> <<>>] \in Frames
    BY DEF Frames, Contexts
  <2> QED BY <1>7, <2>1, <2>2, SendType DEF StaBuildMsg4
<1>8. CASE StaInit
  BY <1>8, FreshContextType DEF StaInit, Contexts
<1>9. ASSUME NEW m \in net, StaProcessMsg1(m) PROVE TypeOK'
  <2>1. PICK n \in Nonces :
          sta' = [sta EXCEPT !.anonce = m.nonce, !.snonce = n, !.ctr = m.ctr,
                             !.ptk = PTK(sta.pmk, m.nonce, n),
                             !.state = "MSG1_RECEIVED"]
    BY <1>9 DEF StaProcessMsg1
  <2>2. PTK(sta.pmk, m.nonce, n) \in PTKs
    BY PTKType DEF Frames, Contexts
  <2>3. sta' \in Contexts
    BY <2>1, <2>2 DEF Contexts, Frames, States
  <2> QED BY <1>9, <2>3, DeliverType DEF StaProcessMsg1
<1>10. ASSUME NEW m \in net, StaProcessMsg3(m) PROVE TypeOK'
  <2>1. InstallGtk(sta.gtk, m.keyData) \in [1 .. GtkLen -> Bytes]
    BY InstallGtkType DEF Contexts, Frames
  <2>2. sta' \in Contexts
    BY <1>10, <2>1 DEF StaProcessMsg3, Contexts, States
  <2> QED BY <1>10, <2>2, DeliverType DEF StaProcessMsg3
<1>11. CASE UNCHANGED vars
  BY <1>11 DEF vars
<1> QED
  BY <1>1, <1>2, <1>3, <1>4, <1>5, <1>6, <1>7, <1>8, <1>9, <1>10, <1>11
  DEF Next, ApNext, StaNext

(* Every context and frame keeps the shape of its C structure. *)
THEOREM TypeCorrect == Spec => []TypeOK
  BY InitType, NextType, PTL DEF Spec

-----------------------------------------------------------------------------
(* Key agreement *)

LEMMA InitKeys == Init => KeyInv
<1> SUFFICES ASSUME Init PROVE KeyInv
  OBVIOUS
<1>1. /\ ap.state = "IDLE" /\ ap.ptk = NoPTK
      /\ sta.state = "IDLE" /\ sta.ptk = NoPTK
  BY DEF Init, FreshContext
<1>2. \A t : KeysOf(t) = {}
  BY DEF Init, KeysOf
<1> QED BY <1>1, <1>2 DEF KeyInv

(* The access point never loses what KeyInv says of the station, and the
   other way round, because frames are only ever added to sent. *)
LEMMA NextKeys == TypeOK /\ KeyInv /\ [Next]_vars => KeyInv'
<1> SUFFICES ASSUME TypeOK, KeyInv, [Next]_vars PROVE KeyInv'
  OBVIOUS
<1>0. /\ ap.pmk \in Pmks /\ ap.anonce \in Nonces \cup {ZeroNonce}
      /\ sta.pmk \in Pmks
      /\ ap.ptk \in PTKs \cup {NoPTK} /\ sta.ptk \in PTKs \cup {NoPTK}
      /\ \A m \in net : m.nonce \in Nonces \cup {ZeroNonce} /\ m \in sent
  BY DEF TypeOK, Contexts, Frames
<1>1. CASE ApBuildMsg1
  <2>1. /\ ap'.state = "MSG1_SENT" /\ ap'.ptk = ap.ptk /\ ap'.pmk = ap.pmk
        /\ UNCHANGED sta
    BY <1>1 DEF ApBuildMsg1, TypeOK, Contexts
  <2>2. KeysOf(2)' = KeysOf(2) /\ KeysOf(3)' = KeysOf(3) /\ KeysOf(4)' = KeysOf(4)
    BY <1>1, SendKeys DEF ApBuildMsg1
  <2> QED BY <2>1, <2>2 DEF KeyInv
<1>2. CASE ApBuildMsg3
  <2>1. /\ ap.state = "MSG2_RECEIVED"
        /\ ap'.state = "MSG3_SENT" /\ ap'.ptk = ap.ptk /\ ap'.pmk = ap.pmk
        /\ UNCHANGED sta
    BY <1>2 DEF ApBuildMsg3, TypeOK, Contexts
  <2>2. /\ KeysOf(2)' = KeysOf(2) /\ KeysOf(4)' = KeysOf(4)
        /\ KeysOf(3)' = KeysOf(3) \cup {ap.ptk}
    BY <1>2, SendKeys DEF ApBuildMsg3
  <2>3. ap.ptk \in KeysOf(2) /\ ap.ptk # NoPTK /\ ap.ptk.pmk = ap.pmk
    BY <2>1 DEF KeyInv
  <2> QED BY <2>1, <2>2, <2>3 DEF KeyInv
<1>3. CASE ApInit
  <2>1. /\ ap'.state = "IDLE" /\ ap'.ptk = NoPTK /\ ap'.pmk = ap.pmk
        /\ UNCHANGED <<sta, sent>>
    BY <1>3 DEF ApInit, FreshContext
  <2> QED BY <2>1, SentKeys DEF KeyInv
<1>4. ASSUME NEW m \in net, ApProcessMsg2(m) PROVE KeyInv'
  <2> DEFINE k == PTK(ap.pmk, ap.anonce, m.nonce)
  <2>1. k # NoPTK /\ k.pmk = ap.pmk
    BY <1>0, PTKType
  <2>2. /\ ap'.ptk = k /\ ap'.pmk = ap.pmk /\ UNCHANGED <<sta, sent>>
        /\ ap'.state = "FAILED" \/ (ap'.state = "MSG2_RECEIVED" /\ m.mic = k)
    BY <1>4 DEF ApProcessMsg2, Deliver, MicVerifies, TypeOK, Contexts
  <2>3. m.mic \in KeysOf(2)
    BY <1>0, <1>4 DEF ApProcessMsg2, KeysOf
  <2> HIDE DEF k
  <2>4. KeysOf(2)' = KeysOf(2) /\ KeysOf(3)' = KeysOf(3) /\ KeysOf(4)' = KeysOf(4)
    BY <2>2, SentKeys
  <2> QED BY <2>1, <2>2, <2>3, <2>4 DEF KeyInv
<1>5. ASSUME NEW m \in net, ApProcessMsg4(m) PROVE KeyInv'
  <2>1. /\ ap'.ptk = ap.ptk /\ ap'.pmk = ap.pmk /\ UNCHANGED <<sta, sent>>
        /\ ap'.state = "FAILED" \/ (ap'.state = "COMPLETE" /\ m.mic = ap.ptk)
    BY <1>5 DEF ApProcessMsg4, Deliver, MicVerifies, TypeOK, Contexts
  <2>2. m.mic \in KeysOf(4)
    BY <1>0, <1>5 DEF ApProcessMsg4, KeysOf
  <2>3. KeysOf(2)' = KeysOf(2) /\ KeysOf(3)' = KeysOf(3) /\ KeysOf(4)' = KeysOf(4)
    BY <2>1, SentKeys
  <2> QED BY <2>1, <2>2, <2>3 DEF KeyInv
<1>6. CASE StaBuildMsg2
  <2>1. /\ sta.state = "MSG1_RECEIVED"
        /\ sta'.state = "MSG2_SENT" /\ sta'.ptk = sta.ptk /\ sta'.pmk = sta.pmk
        /\ UNCHANGED ap
    BY <1>6 DEF StaBuildMsg2, TypeOK, Contexts
  <2>2. /\ KeysOf(2)' = KeysOf(2) \cup {sta.ptk}
        /\ KeysOf(3)' = KeysOf(3) /\ KeysOf(4)' = KeysOf(4)
    BY <1>6, SendKeys DEF StaBuildMsg2
  <2>3. sta.ptk \in PTKs /\ sta.ptk.pmk = sta.pmk
    BY <1>0, <2>1 DEF KeyInv
  <2> QED BY <2>1, <2>2, <2>3 DEF KeyInv
<1>7. CASE StaBuildMsg4
  <2>1. /\ sta.state = "MSG3_RECEIVED"
        /\ sta'.state = "MSG4_SENT" /\ sta'.ptk = sta.ptk /\ sta'.pmk = sta.pmk
        /\ UNCHANGED ap
    BY <1>7 DEF StaBuildMsg4, TypeOK, Contexts
  <2>2. /\ KeysOf(4)' = KeysOf(4) \cup {sta.ptk}
        /\ KeysOf(3)' = KeysOf(3) /\ KeysOf(2)' = KeysOf(2)
    BY <1>7, SendKeys DEF StaBuildMsg4
  <2>3. sta.ptk \in KeysOf(3)
    BY <2>1 DEF KeyInv
  <2> QED BY <2>1, <2>2, <2>3 DEF KeyInv
<1>8. CASE StaInit
  <2>1. /\ sta'.state = "IDLE" /\ sta'.ptk = NoPTK /\ sta'.pmk = sta.pmk
        /\ UNCHANGED <<ap, sent>>
    BY <1>8 DEF StaInit, FreshContext
  <2> QED BY <2>1, SentKeys DEF KeyInv
<1>9. ASSUME NEW m \in net, StaProcessMsg1(m) PROVE KeyInv'
  <2>1. PICK n \in Nonces :
          sta' = [sta EXCEPT !.anonce = m.nonce, !.snonce = n, !.ctr = m.ctr,
                             !.ptk = PTK(sta.pmk, m.nonce, n),
                             !.state = "MSG1_RECEIVED"]
    BY <1>9 DEF StaProcessMsg1
  <2>2. /\ PTK(sta.pmk, m.nonce, n) # NoPTK
        /\ PTK(sta.pmk, m.nonce, n).pmk = sta.pmk
    BY <1>0, PTKType
  <2>3. /\ sta'.state = "MSG1_RECEIVED" /\ sta'.ptk = PTK(sta.pmk, m.nonce, n)
        /\ sta'.pmk = sta.pmk
    BY <2>1 DEF TypeOK, Contexts
  <2>4. UNCHANGED <<ap, sent>>
    BY <1>9 DEF StaProcessMsg1, Deliver
  <2>5. KeysOf(2)' = KeysOf(2) /\ KeysOf(3)' = KeysOf(3) /\ KeysOf(4)' = KeysOf(4)
    BY <2>4, SentKeys
  <2> QED BY <2>2, <2>3, <2>4, <2>5 DEF KeyInv
<1>10. ASSUME NEW m \in net, StaProcessMsg3(m) PROVE KeyInv'
  <2>1. /\ sta'.ptk = sta.ptk /\ sta'.pmk = sta.pmk /\ UNCHANGED <<ap, sent>>
        /\ sta'.state = "FAILED" \/ (sta'.state = "MSG3_RECEIVED" /\ m.mic = sta.ptk)
    BY <1>10 DEF StaProcessMsg3, Deliver, MicVerifies, TypeOK, Contexts
  <2>2. m.mic \in KeysOf(3)
    BY <1>0, <1>10 DEF StaProcessMsg3, KeysOf
  <2>3. KeysOf(2)' = KeysOf(2) /\ KeysOf(3)' = KeysOf(3) /\ KeysOf(4)' = KeysOf(4)
    BY <2>1, SentKeys
  <2> QED BY <2>1, <2>2, <2>3 DEF KeyInv
<1>11. CASE UNCHANGED vars
  BY <1>11, SentKeys DEF vars, KeyInv
<1> QED
  BY <1>1, <1>2, <1>3, <1>4, <1>5, <1>6, <1>7, <1>8, <1>9, <1>10, <1>11
  DEF Next, ApNext, StaNext

LEMMA KeyInvariant == Spec => [](TypeOK /\ KeyInv)
<1>1. Init => TypeOK /\ KeyInv
  BY InitType, InitKeys
<1>2. TypeOK /\ KeyInv /\ [Next]_vars => (TypeOK /\ KeyInv)'
  BY NextType, NextKeys
<1> QED BY <1>1, <1>2, PTL DEF Spec

(* What each side knows in each state of the frames that have been built: the
   invariant the properties of the keys follow from. *)
THEOREM KeysKnown == Spec => []HandshakeInv
  BY KeyInvariant, PTL DEF HandshakeInv

(* A complete access point uses a key that the station has offered, been
   granted and confirmed. *)
THEOREM Confirmed == Spec => []CompleteIsConfirmed
<1>1. TypeOK /\ KeyInv => CompleteIsConfirmed
  BY DEF KeyInv, CompleteIsConfirmed
<1> QED BY <1>1, KeyInvariant, PTL

(* Sides with different passphrases get no further than messages 1 and 2. *)
THEOREM Passphrases == Spec => []SamePassphrase
<1>1. TypeOK /\ KeyInv => SamePassphrase
  <2> SUFFICES ASSUME TypeOK, KeyInv, ap.pmk # sta.pmk
               PROVE  /\ ap.state \notin {"MSG2_RECEIVED", "MSG3_SENT", "COMPLETE"}
                      /\ sta.state \notin {"MSG3_RECEIVED", "MSG4_SENT"}
    BY DEF SamePassphrase
  <2>1. KeysOf(3) = {} /\ KeysOf(4) = {}
    BY DEF KeyInv
  <2>2. \A k \in KeysOf(2) : k # NoPTK /\ k.pmk # ap.pmk
    BY DEF KeyInv
  <2> QED BY <2>1, <2>2 DEF KeyInv
<1> QED BY <1>1, KeyInvariant, PTL

-----------------------------------------------------------------------------
(* The origin of the group key *)

LEMMA InitGroupKey == Init => GroupKeyProvenance
  BY DEF Init, FreshContext, GroupKeyProvenance

(* What leaves the station and the frames of old alone keeps the origin. *)
LEMMA GroupKeyStable ==
  ASSUME GroupKeyProvenance, sent \subseteq sent',
         sta'.ptk = sta.ptk, sta'.gtk = sta.gtk,
         sta'.state \in {"MSG3_RECEIVED", "MSG4_SENT"} =>
           sta.state \in {"MSG3_RECEIVED", "MSG4_SENT"}
  PROVE  GroupKeyProvenance'
  BY DEF GroupKeyProvenance

LEMMA NextGroupKey == TypeOK /\ GroupKeyProvenance /\ [Next]_vars
                        => GroupKeyProvenance'
<1> SUFFICES ASSUME TypeOK, GroupKeyProvenance, [Next]_vars
             PROVE  GroupKeyProvenance'
  OBVIOUS
<1>1. CASE \/ ApBuildMsg1 \/ ApBuildMsg3 \/ ApInit \/ UNCHANGED vars
           \/ \E m \in net : ApProcessMsg2(m) \/ ApProcessMsg4(m)
  <2>1. UNCHANGED sta /\ sent \subseteq sent'
    BY <1>1 DEF ApBuildMsg1, ApBuildMsg3, ApInit, ApProcessMsg2, ApProcessMsg4,
                Send, Deliver, vars
  <2> QED BY <2>1, GroupKeyStable
<1>2. CASE StaBuildMsg2 \/ StaInit
  <2>1. sta'.state \notin {"MSG3_RECEIVED", "MSG4_SENT"}
    BY <1>2 DEF StaBuildMsg2, StaInit, FreshContext, TypeOK, Contexts
  <2> QED BY <2>1 DEF GroupKeyProvenance
<1>3. CASE StaBuildMsg4
  <2>1. /\ sta.state = "MSG3_RECEIVED" /\ sent \subseteq sent'
        /\ sta'.ptk = sta.ptk /\ sta'.gtk = sta.gtk
    BY <1>3 DEF StaBuildMsg4, Send, TypeOK, Contexts
  <2> QED BY <2>1, GroupKeyStable
<1>4. ASSUME NEW m \in net, StaProcessMsg1(m) PROVE GroupKeyProvenance'
  <2>1. sta'.state = "MSG1_RECEIVED"
    BY <1>4 DEF StaProcessMsg1, TypeOK, Contexts
  <2> QED BY <2>1 DEF GroupKeyProvenance
<1>5. ASSUME NEW m \in net, StaProcessMsg3(m) PROVE GroupKeyProvenance'
  <2>1. CASE MicVerifies(m, sta.ptk)
    <3>1. /\ sta'.gtk = InstallGtk(sta.gtk, m.keyData)
          /\ sta'.ptk = sta.ptk
          /\ sta'.state = "MSG3_RECEIVED"
      BY <1>5, <2>1 DEF StaProcessMsg3, TypeOK, Contexts
    <3>2. sta'.gtk = InstallGtk(sta'.gtk, m.keyData)
      BY <3>1, InstallGtkIdempotent
    <3>3. m \in sent' /\ m.type = 3 /\ m.mic = sta'.ptk
      BY <1>5, <2>1, <3>1 DEF StaProcessMsg3, Deliver, MicVerifies, TypeOK
    <3> QED BY <3>1, <3>2, <3>3 DEF GroupKeyProvenance
  <2>2. CASE ~MicVerifies(m, sta.ptk)
    <3>1. sta'.state = "FAILED"
      BY <1>5, <2>2 DEF StaProcessMsg3, TypeOK, Contexts
    <3> QED BY <3>1 DEF GroupKeyProvenance
  <2> QED BY <2>1, <2>2
<1> QED BY <1>1, <1>2, <1>3, <1>4, <1>5 DEF Next, ApNext, StaNext

(* The group key of a station comes from a message 3 under its own key. *)
THEOREM GroupKeyOrigin == Spec => []GroupKeyProvenance
  BY InitGroupKey, NextGroupKey, TypeCorrect, PTL DEF Spec

-----------------------------------------------------------------------------
(* The replay counters of the station *)

(* A counter the access point has used in a message 1. *)
Used(c) == \E f \in sent : f.type = 1 /\ f.ctr = c

(* A station with a pairwise key has the counter of some message 1. *)
CounterTaken == sta.ptk # NoPTK => Used(sta.ctr)

LEMMA InitCounters == Init => CounterTaken /\ CountersEchoed
  BY DEF Init, FreshContext, CounterTaken, CountersEchoed

(* Frames of old stay in sent, and so do the counters they have used. *)
LEMMA CountersStable ==
  ASSUME CounterTaken, CountersEchoed, sent \subseteq sent',
         \A m \in sent' \ sent : m.type \notin {2, 4},
         sta'.ptk = NoPTK \/ (sta'.ptk = sta.ptk /\ sta'.ctr = sta.ctr)
  PROVE  (CounterTaken /\ CountersEchoed)'
  BY DEF CounterTaken, CountersEchoed, Used

LEMMA NextCounters ==
  TypeOK /\ KeyInv /\ CounterTaken /\ CountersEchoed /\ [Next]_vars
    => (CounterTaken /\ CountersEchoed)'
<1> SUFFICES ASSUME TypeOK, KeyInv, CounterTaken, CountersEchoed, [Next]_vars
             PROVE  (CounterTaken /\ CountersEchoed)'
  OBVIOUS
<1>1. CASE \/ ApBuildMsg1 \/ ApBuildMsg3 \/ ApInit \/ UNCHANGED vars
           \/ \E m \in net : ApProcessMsg2(m) \/ ApProcessMsg4(m)
  <2>1. UNCHANGED sta /\ sent \subseteq sent'
    BY <1>1 DEF ApBuildMsg1, ApBuildMsg3, ApInit, ApProcessMsg2, ApProcessMsg4,
                Send, Deliver, vars
  <2>2. \A m \in sent' \ sent : m.type \in {1, 3}
    <3>1. CASE ApBuildMsg1
      BY <3>1 DEF ApBuildMsg1, Send
    <3>2. CASE ApBuildMsg3
      BY <3>2 DEF ApBuildMsg3, Send
    <3>3. CASE \/ ApInit \/ UNCHANGED vars
               \/ \E m \in net : ApProcessMsg2(m) \/ ApProcessMsg4(m)
      BY <3>3 DEF ApInit, ApProcessMsg2, ApProcessMsg4, Deliver, vars
    <3> QED BY <1>1, <3>1, <3>2, <3>3
  <2>3. \A m \in sent' \ sent : m.type \notin {2, 4}
    BY <2>2
  <2> QED BY <2>1, <2>3, CountersStable
<1>2. CASE StaBuildMsg2 \/ StaBuildMsg4
  <2>1. sta.ptk # NoPTK
    <3>1. sta.state \in {"MSG1_RECEIVED", "MSG3_RECEIVED"}
      BY <1>2 DEF StaBuildMsg2, StaBuildMsg4
    <3>2. \A k \in KeysOf(3) : k # NoPTK
      BY HandshakeAssumption DEF KeyInv
    <3> QED BY <3>1, <3>2 DEF KeyInv
  <2>2. Used(sta.ctr)
    BY <2>1 DEF CounterTaken
  <2>3. /\ sta'.ctr = sta.ctr /\ sent \subseteq sent'
        /\ \A m \in sent' \ sent : m.ctr = sta.ctr
    BY <1>2 DEF StaBuildMsg2, StaBuildMsg4, Send, TypeOK, Contexts
  <2>4. \A c : Used(c) => Used(c)'
    BY <2>3 DEF Used
  <2>5. CounterTaken'
    BY <2>2, <2>3, <2>4 DEF CounterTaken, Used
  <2>6. \A m \in sent' : m.type \in {2, 4} => Used(m.ctr)'
    BY <2>2, <2>3, <2>4 DEF CountersEchoed, Used
  <2> QED BY <2>5, <2>6 DEF CountersEchoed, Used
<1>3. CASE StaInit
  <2>1. sta'.ptk = NoPTK /\ UNCHANGED sent
    BY <1>3 DEF StaInit, FreshContext
  <2> QED BY <2>1, CountersStable
<1>4. ASSUME NEW m \in net, StaProcessMsg1(m) PROVE (CounterTaken /\ CountersEchoed)'
  <2>1. sta'.ctr = m.ctr /\ m.type = 1 /\ m \in sent /\ UNCHANGED sent
    BY <1>4 DEF StaProcessMsg1, Deliver, TypeOK, Contexts
  <2> QED BY <2>1 DEF CounterTaken, CountersEchoed, Used
<1>5. ASSUME NEW m \in net, StaProcessMsg3(m) PROVE (CounterTaken /\ CountersEchoed)'
  <2>1. sta'.ptk = sta.ptk /\ sta'.ctr = sta.ctr /\ UNCHANGED sent
    BY <1>5 DEF StaProcessMsg3, Deliver, TypeOK, Contexts
  <2> QED BY <2>1, CountersStable
<1> QED BY <1>1, <1>2, <1>3, <1>4, <1>5 DEF Next, ApNext, StaNext

(* Whatever is lost, repeated, reordered and restarted, the counter of a frame
   of the station is one that some message 1 of the access point has had. *)
THEOREM Echoed == Spec => []CountersEchoed
<1>1. Init => CounterTaken /\ CountersEchoed
  BY InitCounters
<1>2. TypeOK /\ KeyInv /\ CounterTaken /\ CountersEchoed /\ [Next]_vars
        => (CounterTaken /\ CountersEchoed)'
  BY NextCounters
<1> QED BY <1>1, <1>2, KeyInvariant, PTL DEF Spec

-----------------------------------------------------------------------------
(* The handshake implements the abstract key agreement. *)

LEMMA InitAgreement == Init => Agreement!AInit
<1> SUFFICES ASSUME Init PROVE Agreement!AInit
  OBVIOUS
<1>1. ap.state = "IDLE"
  BY DEF Init, FreshContext
<1>2. \A t : KeysOf(t) = {}
  BY DEF Init, KeysOf
<1> QED BY <1>1, <1>2 DEF Agreement!AInit

(* A step that builds nothing and ends outside COMPLETE abandons the key. *)
LEMMA AbandonStep ==
  ASSUME sent' = sent, ap'.state # "COMPLETE",
         ap'.pmk = ap.pmk, sta'.pmk = sta.pmk
  PROVE  Agreement!ANext
  BY SentKeys DEF Agreement!ANext, Agreement!Abandon, Agreement!masters

LEMMA NextAgreement ==
  TypeOK /\ KeyInv /\ [Next]_vars => [Agreement!ANext]_(Agreement!avars)
<1> SUFFICES ASSUME TypeOK, KeyInv, [Next]_vars
             PROVE  Agreement!ANext \/ UNCHANGED Agreement!avars
  OBVIOUS
<1>1. CASE ApBuildMsg1
  <2>1. ap'.state = "MSG1_SENT" /\ ap'.pmk = ap.pmk /\ UNCHANGED sta
    BY <1>1 DEF ApBuildMsg1, TypeOK, Contexts
  <2>2. KeysOf(2)' = KeysOf(2) /\ KeysOf(3)' = KeysOf(3) /\ KeysOf(4)' = KeysOf(4)
    BY <1>1, SendKeys DEF ApBuildMsg1
  <2> QED BY <2>1, <2>2 DEF Agreement!ANext, Agreement!Abandon, Agreement!masters
<1>2. CASE ApBuildMsg3
  <2>1. /\ ap.state = "MSG2_RECEIVED" /\ ap'.state = "MSG3_SENT"
        /\ ap'.pmk = ap.pmk /\ UNCHANGED sta
    BY <1>2 DEF ApBuildMsg3, TypeOK, Contexts
  <2>2. /\ KeysOf(2)' = KeysOf(2) /\ KeysOf(4)' = KeysOf(4)
        /\ KeysOf(3)' = KeysOf(3) \cup {ap.ptk}
    BY <1>2, SendKeys DEF ApBuildMsg3
  <2>3. ap.ptk \in KeysOf(2) \cap {k \in PTKs : k.pmk = ap.pmk}
    BY <2>1 DEF KeyInv
  <2> QED BY <2>1, <2>2, <2>3 DEF Agreement!ANext, Agreement!Grant, Agreement!masters
<1>3. CASE ApInit
  <2>1. ap'.state = "IDLE" /\ ap'.pmk = ap.pmk /\ UNCHANGED <<sta, sent>>
    BY <1>3 DEF ApInit, FreshContext
  <2> QED BY <2>1, AbandonStep
<1>4. ASSUME NEW m \in net, ApProcessMsg2(m) PROVE Agreement!ANext
  <2>1. /\ ap'.state \in {"FAILED", "MSG2_RECEIVED"} /\ ap'.pmk = ap.pmk
        /\ UNCHANGED <<sta, sent>>
    BY <1>4 DEF ApProcessMsg2, Deliver, TypeOK, Contexts
  <2> QED BY <2>1, AbandonStep
<1>5. ASSUME NEW m \in net, ApProcessMsg4(m) PROVE Agreement!ANext
  <2>1. /\ ap'.state \in {"FAILED", "COMPLETE"} /\ ap'.ptk = ap.ptk
        /\ ap'.pmk = ap.pmk /\ UNCHANGED <<sta, sent>>
        /\ ap'.state = "COMPLETE" => m.mic = ap.ptk
    BY <1>5 DEF ApProcessMsg4, Deliver, MicVerifies, TypeOK, Contexts
  <2>2. m.mic \in KeysOf(4)
    BY <1>5 DEF ApProcessMsg4, KeysOf, TypeOK
  <2>3. KeysOf(2)' = KeysOf(2) /\ KeysOf(3)' = KeysOf(3) /\ KeysOf(4)' = KeysOf(4)
    BY <2>1, SentKeys
  <2>4. CASE ap'.state = "COMPLETE"
    BY <2>1, <2>2, <2>3, <2>4
    DEF Agreement!ANext, Agreement!Complete, Agreement!masters
  <2>5. CASE ap'.state = "FAILED"
    BY <2>1, <2>5, AbandonStep
  <2> QED BY <2>1, <2>4, <2>5
<1>6. CASE StaBuildMsg2
  <2>1. /\ sta.state = "MSG1_RECEIVED" /\ sta'.pmk = sta.pmk /\ UNCHANGED ap
    BY <1>6 DEF StaBuildMsg2, TypeOK, Contexts
  <2>2. /\ KeysOf(2)' = KeysOf(2) \cup {sta.ptk}
        /\ KeysOf(3)' = KeysOf(3) /\ KeysOf(4)' = KeysOf(4)
    BY <1>6, SendKeys DEF StaBuildMsg2
  <2>3. sta.ptk \in {k \in PTKs : k.pmk = sta.pmk}
    BY <2>1 DEF KeyInv, TypeOK, Contexts
  <2> QED BY <2>1, <2>2, <2>3 DEF Agreement!ANext, Agreement!Offer, Agreement!masters
<1>7. CASE StaBuildMsg4
  <2>1. /\ sta.state = "MSG3_RECEIVED" /\ sta'.pmk = sta.pmk /\ UNCHANGED ap
    BY <1>7 DEF StaBuildMsg4, TypeOK, Contexts
  <2>2. /\ KeysOf(4)' = KeysOf(4) \cup {sta.ptk}
        /\ KeysOf(3)' = KeysOf(3) /\ KeysOf(2)' = KeysOf(2)
    BY <1>7, SendKeys DEF StaBuildMsg4
  <2>3. sta.ptk \in KeysOf(3)
    BY <2>1 DEF KeyInv
  <2> QED BY <2>1, <2>2, <2>3 DEF Agreement!ANext, Agreement!Confirm, Agreement!masters
<1>8. ASSUME sta'.pmk = sta.pmk, UNCHANGED <<ap, sent>>
      PROVE  UNCHANGED Agreement!avars
  BY <1>8, SentKeys DEF Agreement!avars
<1>9. CASE StaInit
  <2>1. sta'.pmk = sta.pmk /\ UNCHANGED <<ap, sent>>
    BY <1>9 DEF StaInit, FreshContext
  <2> QED BY <2>1, <1>8
<1>10. ASSUME NEW m \in net, StaProcessMsg1(m) PROVE UNCHANGED Agreement!avars
  <2>1. sta'.pmk = sta.pmk /\ UNCHANGED <<ap, sent>>
    BY <1>10 DEF StaProcessMsg1, Deliver, TypeOK, Contexts
  <2> QED BY <2>1, <1>8
<1>11. ASSUME NEW m \in net, StaProcessMsg3(m) PROVE UNCHANGED Agreement!avars
  <2>1. sta'.pmk = sta.pmk /\ UNCHANGED <<ap, sent>>
    BY <1>11 DEF StaProcessMsg3, Deliver, TypeOK, Contexts
  <2> QED BY <2>1, <1>8
<1>12. CASE UNCHANGED vars
  BY <1>12, SentKeys DEF vars, Agreement!avars
<1> QED BY <1>1, <1>2, <1>3, <1>4, <1>5, <1>6, <1>7, <1>9,
           <1>10, <1>11, <1>12 DEF Next, ApNext, StaNext

(* Every behaviour of the handshake is one of the abstract key agreement. *)
THEOREM Refinement == Spec => ImplementsKeyAgreement
  BY InitAgreement, NextAgreement, KeyInvariant, PTL
  DEF Spec, ImplementsKeyAgreement, Agreement!ASpec

-----------------------------------------------------------------------------
(* One exchange on a network that delivers every frame at most once, between
   sides that do not restart: the frames follow one another, and from message 2
   on, unless it was refused, both sides hold the same key and nonces. *)
OneExchange == MaxStarts <= 1 /\ MaxDups = 0 /\ MaxInits = 0

At(a, s) == ap.state = a /\ sta.state = s

InAir(type, nonce, mic) ==
  \E m \in sent : net = {m} /\ m.type = type /\ m.nonce = nonce /\ m.mic = mic

Offered == sta.anonce = ap.anonce /\ sta.ptk = PTK(sta.pmk, sta.anonce, sta.snonce)

Matched == <<ap.ptk, ap.anonce, ap.snonce>> = <<sta.ptk, sta.anonce, sta.snonce>>

Ordered ==
  \/ At("IDLE", "IDLE") /\ net = {} /\ starts = 0
  \/ /\ starts = 1
     /\ \/ At("MSG1_SENT", "IDLE") /\ InAir(1, ap.anonce, NoPTK)
        \/ At("MSG1_SENT", "MSG1_RECEIVED") /\ net = {} /\ Offered
        \/ At("MSG1_SENT", "MSG2_SENT") /\ InAir(2, sta.snonce, sta.ptk) /\ Offered
        \/ At("FAILED", "MSG2_SENT") /\ net = {}
        \/ At("MSG2_RECEIVED", "MSG2_SENT") /\ net = {} /\ Matched
        \/ At("MSG3_SENT", "MSG2_SENT") /\ InAir(3, ap.anonce, ap.ptk) /\ Matched
        \/ At("MSG3_SENT", "MSG3_RECEIVED") /\ net = {} /\ Matched
        \/ At("MSG3_SENT", "MSG4_SENT") /\ InAir(4, ZeroNonce, sta.ptk) /\ Matched
        \/ At("COMPLETE", "MSG4_SENT") /\ net = {} /\ Matched

(* A frame that is delivered once is gone. *)
LEMMA DeliverOnce ==
  ASSUME OneExchange, TypeOK, NEW m, net = {m}, Deliver(m)
  PROVE  net' = {} /\ sent' = sent
<1>1. dups \in 0 .. 0
  BY DEF TypeOK, OneExchange
<1> QED BY <1>1 DEF Deliver, OneExchange

(* A frame that is sent into an empty network is alone. *)
LEMMA SendAlone ==
  ASSUME NEW m, net = {}, Send(m)
  PROVE  net' = {m} /\ m \in sent'
  BY DEF Send

LEMMA NextOrdered ==
  ASSUME OneExchange PROVE TypeOK /\ Ordered /\ [Next]_vars => Ordered'
<1> SUFFICES ASSUME TypeOK, Ordered, [Next]_vars PROVE Ordered'
  OBVIOUS
<1> USE DEF At
<1>c. ap \in Contexts /\ sta \in Contexts
  BY DEF TypeOK
<1>1. CASE ApBuildMsg1
  <2>1. PICK n \in Nonces :
          /\ ap' = [ap EXCEPT !.anonce = n, !.ctr = Increment(ap.ctr), !.state = "MSG1_SENT"]
          /\ Send([type |-> 1, ctr |-> Increment(ap.ctr), nonce |-> n, mic |-> NoPTK,
                   keyData |-> <<>>])
    BY <1>1 DEF ApBuildMsg1
  <2>2. starts = 0 /\ starts' = 1 /\ sta' = sta
    BY <1>1 DEF ApBuildMsg1, OneExchange, TypeOK
  <2>3. At("IDLE", "IDLE") /\ net = {}
    BY <2>2 DEF Ordered
  <2>4. InAir(1, n, NoPTK)'
    BY <2>1, <2>3, SendAlone DEF InAir
  <2>5. At("MSG1_SENT", "IDLE")' /\ ap'.anonce = n
    BY <1>c, <2>1, <2>2, <2>3 DEF Contexts
  <2> QED BY <2>2, <2>4, <2>5 DEF Ordered, InAir
<1>2. CASE ApBuildMsg3
  <2>1. PICK g \in Gtks, id \in GtkIds :
          /\ ap' = [ap EXCEPT !.ctr = Increment(ap.ctr), !.state = "MSG3_SENT"]
          /\ Send([type |-> 3, ctr |-> Increment(ap.ctr), nonce |-> ap.anonce, mic |-> ap.ptk,
                   keyData |-> <<id>> \o g])
    BY <1>2 DEF ApBuildMsg3
  <2>2. ap.state = "MSG2_RECEIVED" /\ sta' = sta /\ starts' = starts
    BY <1>2 DEF ApBuildMsg3
  <2>3. starts = 1 /\ At("MSG2_RECEIVED", "MSG2_SENT") /\ net = {} /\ Matched
    BY <2>2 DEF Ordered
  <2>4. InAir(3, ap.anonce, ap.ptk)'
    <3>1. ap'.anonce = ap.anonce /\ ap'.ptk = ap.ptk
      BY <1>c, <2>1 DEF Contexts
    <3> QED BY <2>1, <2>3, <3>1, SendAlone DEF InAir
  <2>5. At("MSG3_SENT", "MSG2_SENT")' /\ Matched'
    BY <1>c, <2>1, <2>2, <2>3 DEF Contexts, Matched
  <2> QED BY <2>2, <2>3, <2>4, <2>5 DEF Ordered
<1>3. ASSUME NEW m \in net, ApProcessMsg2(m) PROVE Ordered'
  <2>1. /\ m.type = 2 /\ sta' = sta /\ starts' = starts /\ Deliver(m)
        /\ ap' = [ap EXCEPT !.snonce = m.nonce, !.ptk = PTK(ap.pmk, ap.anonce, m.nonce),
                            !.state = IF MicVerifies(m, PTK(ap.pmk, ap.anonce, m.nonce))
                                      THEN "MSG2_RECEIVED" ELSE "FAILED"]
    BY <1>3 DEF ApProcessMsg2
  <2>2. /\ starts = 1 /\ At("MSG1_SENT", "MSG2_SENT") /\ InAir(2, sta.snonce, sta.ptk) /\ Offered
        /\ net = {m}
    BY <1>3, <2>1 DEF Ordered, InAir
  <2>3. m.nonce = sta.snonce /\ m.mic = sta.ptk
    BY <2>2 DEF InAir
  <2>4. net' = {}
    BY <2>1, <2>2, DeliverOnce
  <2>5. /\ ap'.anonce = ap.anonce /\ ap'.snonce = sta.snonce
        /\ ap'.ptk = PTK(ap.pmk, ap.anonce, m.nonce)
    BY <1>c, <2>1, <2>3 DEF Contexts
  <2>6. CASE MicVerifies(m, PTK(ap.pmk, ap.anonce, m.nonce))
    <3>1. ap'.state = "MSG2_RECEIVED"
      BY <1>c, <2>1, <2>6 DEF Contexts
    <3>2. ap'.ptk = sta.ptk
      BY <2>3, <2>5, <2>6 DEF MicVerifies
    <3>3. Matched'
      BY <2>1, <2>2, <2>5, <3>2 DEF Matched, Offered
    <3> QED BY <2>1, <2>2, <2>4, <3>1, <3>3 DEF Ordered
  <2>7. CASE ~MicVerifies(m, PTK(ap.pmk, ap.anonce, m.nonce))
    <3>1. ap'.state = "FAILED"
      BY <1>c, <2>1, <2>7 DEF Contexts
    <3> QED BY <2>1, <2>2, <2>4, <3>1 DEF Ordered
  <2> QED BY <2>6, <2>7
<1>4. ASSUME NEW m \in net, ApProcessMsg4(m) PROVE Ordered'
  <2>1. /\ m.type = 4 /\ sta' = sta /\ starts' = starts /\ Deliver(m)
        /\ ap' = [ap EXCEPT !.state = IF MicVerifies(m, ap.ptk) THEN "COMPLETE" ELSE "FAILED"]
    BY <1>4 DEF ApProcessMsg4
  <2>2. /\ starts = 1 /\ At("MSG3_SENT", "MSG4_SENT") /\ InAir(4, ZeroNonce, sta.ptk) /\ Matched
        /\ net = {m}
    BY <1>4, <2>1 DEF Ordered, InAir
  <2>3. MicVerifies(m, ap.ptk)
    BY <2>2 DEF InAir, Matched, MicVerifies
  <2>4. ap' = [ap EXCEPT !.state = "COMPLETE"]
    BY <2>1, <2>3
  <2>5. At("COMPLETE", "MSG4_SENT")' /\ Matched'
    BY <1>c, <2>1, <2>2, <2>4 DEF Contexts, Matched
  <2>6. net' = {}
    BY <2>1, <2>2, DeliverOnce
  <2> QED BY <2>1, <2>2, <2>5, <2>6 DEF Ordered
<1>5. CASE StaBuildMsg2
  <2>1. /\ sta.state = "MSG1_RECEIVED" /\ ap' = ap /\ starts' = starts
        /\ sta' = [sta EXCEPT !.state = "MSG2_SENT"]
        /\ Send([type |-> 2, ctr |-> sta.ctr, nonce |-> sta.snonce, mic |-> sta.ptk,
                 keyData |-> <<>>])
    BY <1>5 DEF StaBuildMsg2
  <2>2. starts = 1 /\ At("MSG1_SENT", "MSG1_RECEIVED") /\ net = {} /\ Offered
    BY <2>1 DEF Ordered
  <2>3. /\ At("MSG1_SENT", "MSG2_SENT")' /\ Offered'
        /\ sta'.snonce = sta.snonce /\ sta'.ptk = sta.ptk
    BY <1>c, <2>1, <2>2 DEF Contexts, Offered
  <2>4. InAir(2, sta.snonce, sta.ptk)'
    BY <2>1, <2>2, <2>3, SendAlone DEF InAir
  <2> QED BY <2>1, <2>2, <2>3, <2>4 DEF Ordered
<1>6. CASE StaBuildMsg4
  <2>1. /\ sta.state = "MSG3_RECEIVED" /\ ap' = ap /\ starts' = starts
        /\ sta' = [sta EXCEPT !.state = "MSG4_SENT"]
        /\ Send([type |-> 4, ctr |-> sta.ctr, nonce |-> ZeroNonce, mic |-> sta.ptk,
                 keyData |-> <<>>])
    BY <1>6 DEF StaBuildMsg4
  <2>2. starts = 1 /\ At("MSG3_SENT", "MSG3_RECEIVED") /\ net = {} /\ Matched
    BY <2>1 DEF Ordered
  <2>3. At("MSG3_SENT", "MSG4_SENT")' /\ Matched' /\ sta'.ptk = sta.ptk
    BY <1>c, <2>1, <2>2 DEF Contexts, Matched
  <2>4. InAir(4, ZeroNonce, sta.ptk)'
    BY <2>1, <2>2, <2>3, SendAlone DEF InAir
  <2> QED BY <2>1, <2>2, <2>3, <2>4 DEF Ordered
<1>7. ASSUME NEW m \in net, StaProcessMsg1(m) PROVE Ordered'
  <2>1. PICK n \in Nonces :
          sta' = [sta EXCEPT !.anonce = m.nonce, !.snonce = n, !.ctr = m.ctr,
                             !.ptk = PTK(sta.pmk, m.nonce, n), !.state = "MSG1_RECEIVED"]
    BY <1>7 DEF StaProcessMsg1
  <2>2. m.type = 1 /\ ap' = ap /\ starts' = starts /\ Deliver(m)
    BY <1>7 DEF StaProcessMsg1
  <2>3. starts = 1 /\ At("MSG1_SENT", "IDLE") /\ InAir(1, ap.anonce, NoPTK) /\ net = {m}
    BY <1>7, <2>2 DEF Ordered, InAir
  <2>4. m.nonce = ap.anonce
    BY <2>3 DEF InAir
  <2>5. At("MSG1_SENT", "MSG1_RECEIVED")' /\ Offered'
    BY <1>c, <2>1, <2>2, <2>3, <2>4 DEF Contexts, Offered
  <2>6. net' = {}
    BY <2>2, <2>3, DeliverOnce
  <2> QED BY <2>2, <2>3, <2>5, <2>6 DEF Ordered
<1>8. ASSUME NEW m \in net, StaProcessMsg3(m) PROVE Ordered'
  <2>1. /\ m.type = 3 /\ ap' = ap /\ starts' = starts /\ Deliver(m)
        /\ sta' = IF MicVerifies(m, sta.ptk)
                  THEN [sta EXCEPT !.gtk = InstallGtk(sta.gtk, m.keyData),
                                   !.state = "MSG3_RECEIVED"]
                  ELSE [sta EXCEPT !.state = "FAILED"]
    BY <1>8 DEF StaProcessMsg3
  <2>2. /\ starts = 1 /\ At("MSG3_SENT", "MSG2_SENT") /\ InAir(3, ap.anonce, ap.ptk) /\ Matched
        /\ net = {m}
    BY <1>8, <2>1 DEF Ordered, InAir
  <2>3. MicVerifies(m, sta.ptk)
    BY <2>2 DEF InAir, Matched, MicVerifies
  <2>4. At("MSG3_SENT", "MSG3_RECEIVED")' /\ Matched'
    BY <1>c, <2>1, <2>2, <2>3 DEF Contexts, Matched
  <2>5. net' = {}
    BY <2>1, <2>2, DeliverOnce
  <2> QED BY <2>1, <2>2, <2>4, <2>5 DEF Ordered
<1>9. ~ApInit /\ ~StaInit
  BY DEF ApInit, StaInit, OneExchange, TypeOK
<1>10. CASE UNCHANGED vars
  BY <1>10 DEF vars, Ordered, InAir, Offered, Matched
<1> QED BY <1>1, <1>2, <1>3, <1>4, <1>5, <1>6, <1>7, <1>8, <1>9, <1>10 DEF Next, ApNext, StaNext

(* After one exchange without faults a complete access point and its station
   agree on the key and on both nonces, for any passphrases and nonces. *)
THEOREM BothHoldTheKey == ASSUME OneExchange PROVE Spec => []KeysMatch
<1>1. Init => Ordered
  BY DEF Init, Ordered, At, FreshContext
<1>2. TypeOK /\ Ordered /\ [Next]_vars => Ordered'
  BY NextOrdered
<1>3. Ordered => KeysMatch
  BY DEF Ordered, At, Matched, KeysMatch
<1> QED BY <1>1, <1>2, <1>3, TypeCorrect, PTL DEF Spec
=============================================================================
