---------------------------- MODULE KeyAgreement ----------------------------
(***************************************************************************)
(* What the four-way handshake promises, without messages, nonces, replay  *)
(* counters or state enums.  A pairwise key passes through three hands in   *)
(* a fixed order: the station offers it (message 2), the access point       *)
(* grants it (message 3), the station confirms it (message 4).  The access  *)
(* point may regard the handshake as complete only under a confirmed key,   *)
(* and only a key that both sides derive from one master key gets so far.   *)
(***************************************************************************)
CONSTANTS Keys,  \* the pairwise keys
          NoKey  \* the access point uses no key

VARIABLES
  stationKeys, \* the keys derived from the master key of the station
  apKeys,      \* the keys derived from the master key of the access point
  offered,     \* by the station, in a message 2
  granted,     \* by the access point, in a message 3
  confirmed,   \* by the station, in a message 4
  inUse        \* the key of an access point that regards itself as complete

masters == <<stationKeys, apKeys>>
avars == <<stationKeys, apKeys, offered, granted, confirmed, inUse>>

AInit == /\ stationKeys \subseteq Keys
         /\ apKeys \subseteq Keys
         /\ offered = {}
         /\ granted = {}
         /\ confirmed = {}
         /\ inUse = NoKey

Offer == /\ \E k \in stationKeys : offered' = offered \cup {k}
         /\ UNCHANGED <<granted, confirmed, inUse>>

Grant == /\ \E k \in offered \cap apKeys : granted' = granted \cup {k}
         /\ inUse' = NoKey
         /\ UNCHANGED <<offered, confirmed>>

Confirm == /\ \E k \in granted : confirmed' = confirmed \cup {k}
           /\ UNCHANGED <<offered, granted, inUse>>

Complete == /\ inUse' \in confirmed
            /\ UNCHANGED <<offered, granted, confirmed>>

\* The access point starts over, or rejects a message.
Abandon == /\ inUse' = NoKey
           /\ UNCHANGED <<offered, granted, confirmed>>

ANext == /\ UNCHANGED masters
         /\ Offer \/ Grant \/ Confirm \/ Complete \/ Abandon

ASpec == AInit /\ [][ANext]_avars
=============================================================================
