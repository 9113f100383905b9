------------------------------- MODULE WifiDcf -------------------------------
(***************************************************************************)
(* The channel access of mini-wifi-bluetooth (src/wifi_mac.c): stations     *)
(* that always have a frame to send, contend by csma_channel_access and     *)
(* back off by csma_cw_double and csma_backoff_duration after a failure, as *)
(* the header (include/wifi_mac.h) lays down.                               *)
(*                                                                          *)
(* Time is divided into idle slots, in which every station calls            *)
(* csma_channel_access once, and transmissions, during which the others     *)
(* call it with channel_busy set.  A frame fails if two overlap or if it is *)
(* not acknowledged.                                                        *)
(***************************************************************************)
EXTENDS Integers, FiniteSets

CONSTANTS
  Stations,
  CwMin,     \* cw_min of the physical layer: 15, or 31 for 802.11b
  CwMax      \* cw_max: 1023

ASSUME DcfAssumption == /\ CwMin \in Nat
                        /\ CwMax \in Nat
                        /\ CwMin <= CwMax

VARIABLES
  backoff,   \* per station: backoff_remaining
  cw,        \* per station: its contention window
  onAir,     \* the stations that transmit
  overtaken  \* history, per station: transmissions of others since its own

dcfVars == <<backoff, cw, onAir, overtaken>>

DcfInit == /\ backoff = [s \in Stations |-> 0]
           /\ cw = [s \in Stations |-> CwMin]
           /\ onAir = {}
           /\ overtaken = [s \in Stations |-> 0]

-----------------------------------------------------------------------------
(* csma_backoff_duration: rand() % (cw + 1) slots. *)
Slots(window) == 0 .. window

(* csma_channel_access, channel_busy: the counter is frozen. *)
AccessBusy(remaining, next) == next = remaining

(* Mutant: the last slot is not counted off. *)
AccessIdleStalls(remaining, next) ==
  IF remaining <= 0 THEN next \in Slots(CwMin)
                    ELSE next = IF remaining > 1 THEN remaining - 1 ELSE 1

(* csma_channel_access on an idle channel: a counter that has run out is
   drawn anew, from the smallest window, any other is decremented. *)
AccessIdle(remaining, next) ==
  IF remaining <= 0 THEN next \in Slots(CwMin)
                    ELSE next = remaining - 1

(* Mutant: a counter of zero does not suffice. *)
CanTransmitLate(remaining) == remaining < 0

CanTransmit(remaining) == remaining <= 0

IdleSlot ==
  /\ onAir = {}
  /\ backoff' \in [Stations -> Slots(CwMax)]
  /\ \A s \in Stations : AccessIdle(backoff[s], backoff'[s])
  /\ onAir' = {s \in Stations : CanTransmit(backoff'[s])}
  /\ overtaken' = [s \in Stations |->
       IF s \in onAir' THEN 0 ELSE overtaken[s] + (IF onAir' = {} THEN 0 ELSE 1)]
  /\ UNCHANGED cw

csma_cw_double(window) ==
  IF 2 * (window + 1) - 1 > CwMax THEN CwMax ELSE 2 * (window + 1) - 1

(* The others have found the medium busy meanwhile. *)
Frozen == \A s \in Stations \ onAir : AccessBusy(backoff[s], backoff'[s])

Acknowledged ==
  /\ Cardinality(onAir) = 1
  /\ backoff' \in [Stations -> Slots(CwMax)]
  /\ Frozen
  /\ \A s \in onAir : backoff'[s] = backoff[s]
  /\ cw' = [s \in Stations |-> IF s \in onAir THEN CwMin ELSE cw[s]]
  /\ onAir' = {}
  /\ UNCHANGED overtaken

(* A collision, or a single frame that is lost. *)
Failed ==
  /\ onAir # {}
  /\ cw' = [s \in Stations |-> IF s \in onAir THEN csma_cw_double(cw[s]) ELSE cw[s]]
  /\ backoff' \in [Stations -> Slots(CwMax)]
  /\ Frozen
  /\ \A s \in onAir : backoff'[s] \in Slots(cw'[s])
  /\ onAir' = {}
  /\ UNCHANGED overtaken

DcfNext == IdleSlot \/ Acknowledged \/ Failed

DcfSpec == DcfInit /\ [][DcfNext]_dcfVars

(* Time passes and transmissions end. *)
DcfFairSpec == DcfSpec /\ WF_dcfVars(DcfNext)

-----------------------------------------------------------------------------
(* Properties *)

(* Windows are within their limits and cover the counters drawn from them;
   only stations whose counter has run out transmit. *)
DcfTypeOK ==
  /\ cw \in [Stations -> CwMin .. CwMax]
  /\ backoff \in [Stations -> Nat]
  /\ \A s \in Stations : backoff[s] <= cw[s]
  /\ onAir \subseteq {s \in Stations : backoff[s] = 0}
  /\ overtaken \in [Stations -> Nat]

(* Freezing keeps the contention fair: a station is overtaken at most as many
   times as its contention window has slots, however the others draw. *)
OvertakenBounded == \A s \in Stations : overtaken[s] <= cw[s]

(* Why: a station that has been overtaken waits with a counter that runs, and
   has paid with a slot for each time but the first. *)
SlotsPaid == \A s \in Stations : overtaken[s] > 0 =>
  /\ backoff[s] > 0
  /\ overtaken[s] + backoff[s] <= cw[s] + 1

(* Whoever fails, and however often, every station transmits again. *)
NobodyStarves == \A s \in Stations : []<>(s \in onAir)
=============================================================================
