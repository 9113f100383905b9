----------------------------- MODULE MCSecurity -----------------------------
(***************************************************************************)
(* Instance for TLC of the parts of mini-wireless-security, and of the      *)
(* security library of mini-wifi-bluetooth: one exchange of the four-way    *)
(* handshake, the hash and cipher contexts, the key hierarchy, the protocol *)
(* configurations, the association and the intrusion detection.  The parts  *)
(* share no state: a behaviour is one of any, and the others rest.          *)
(***************************************************************************)
EXTENDS WpaHandshake, WirelessCrypto, WifiSecurity, SecurityProtocol

VARIABLE running  \* the part that runs

MCGtks == {<<0, 1>>}
MCCommits == <<2, 1>>

MCParts == {"handshake", "hash", "cipher", "keys", "protocol", "sae", "association", "detection"}

MCInit ==
  /\ Init /\ WhInit /\ WcInit /\ WsInit /\ KhInit /\ SpInit /\ SaeInit /\ IdInit
  /\ running \in MCParts
  /\ running # "handshake" => \A e \in {ap, sta} : e.pmk = CHOOSE p \in Pmks : TRUE
  /\ running # "sae" => \A e \in SaeEnds : sae.ctx[e].password = CHOOSE p \in SpPasswords : TRUE

MCNext ==
  /\ \/ running = "handshake" /\ Next /\ UNCHANGED <<wh, wc, ws, kh, sp, sae, ids, heard>>
     \/ running = "hash" /\ WhNext /\ UNCHANGED <<vars, wc, ws, kh, sp, sae, ids, heard>>
     \/ running = "cipher" /\ WcNext /\ UNCHANGED <<vars, wh, ws, kh, sp, sae, ids, heard>>
     \/ running = "keys" /\ KhNext /\ UNCHANGED <<vars, wh, wc, ws, sp, sae, ids, heard>>
     \/ running = "protocol" /\ SpNext /\ UNCHANGED <<vars, wh, wc, ws, kh, sae, ids, heard>>
     \/ running = "sae" /\ SaeNext /\ UNCHANGED <<vars, wh, wc, ws, kh, sp, ids, heard>>
     \/ running = "association" /\ WsNext /\ UNCHANGED <<vars, wh, wc, kh, sp, sae, ids, heard>>
     \/ running = "detection" /\ IdNext /\ UNCHANGED <<vars, wh, wc, ws, kh, sp, sae>>
  /\ UNCHANGED running

(* The fairness of the handshake's FairSpec, for its part. *)
MCSpec ==
  /\ MCInit /\ [][MCNext]_<<vars, wh, wc, ws, kh, sp, sae, ids, heard, running>>
  /\ WF_vars(running = "handshake" /\ Progress)

(* ExchangeEnds of the handshake, when it runs. *)
MCExchangeEnds ==
  IF ap.pmk = sta.pmk THEN <>[](running = "handshake" => ap.state = "COMPLETE")
                      ELSE <>[](running = "handshake" => ap.state = "FAILED")

(* What the ciphers do: the modes of wireless_crypto.c refuse a message altered
   on the way without a trace of its text, and two ends that associated by
   wireless_security.c read each other.  Nothing is refused by the latter: its
   decryption does not compare the code (AssociationSound). *)
CiphersSound ==
  /\ running = "cipher" => CipherSound
  /\ running = "association" => AssociationSound
=============================================================================
