-------------------------------- MODULE LoraAdr --------------------------------
(***************************************************************************)
(* The adaptive data rate of mini-lora-nbiot (src/lora_mac.c,               *)
(* lora_adr_update): the network measures each uplink and moves the         *)
(* spreading factor one step at a time, at most once in Delay frames.       *)
(*                                                                          *)
(* All levels are in half decibels.  A disabled controller does nothing, so *)
(* only an enabled one is modelled.                                         *)
(***************************************************************************)
EXTENDS Integers

CONSTANTS
  Snrs,    \* signal-to-noise ratios the link may have
  Delay,   \* adr_ack_delay
  CntMod   \* adr_ack_cnt is counted modulo CntMod (256 in the code)

ASSUME AdrAssumption == /\ Snrs \subseteq Int
                        /\ CntMod \in Nat \ {0}
                        /\ Delay \in 0 .. CntMod - 1

VARIABLES
  sf,      \* current_sf
  cnt,     \* adr_ack_cnt
  margin,  \* snr_margin_db
  snr,     \* environment: the present link
  poor,    \* history: frames with a poor margin since the last other one or step
  wraps    \* history: 1 if the counter went back to zero at one of these

adrVars == <<sf, cnt, margin, snr, poor, wraps>>

SpreadingFactors == 7 .. 12

(* The table: -7.5 dB at SF7, -10 dB at SF8, ... -20 dB at SF12. *)
RequiredSnr(f) == -15 - 5 * (f - 7)

AdrInit == /\ sf \in SpreadingFactors
           /\ cnt = 0
           /\ margin = 0
           /\ snr \in Snrs
           /\ poor = 0
           /\ wraps = 0

-----------------------------------------------------------------------------
Margin == snr - RequiredSnr(sf)

Good == Margin > 20 /\ sf > 7

(* Mutant: one threshold for both directions. *)
PoorBelowGood == Margin < 20 /\ sf < 12

Poor == Margin < 10 /\ sf < 12

Lost == Margin < 0 /\ sf = 12

(* Mutant: the counter is not 8 bits wide. *)
Counted1 == cnt + 1

Counted == (cnt + 1) % CntMod

(* Mutant: one frame more is waited for. *)
MeasureLonger ==
  /\ Counted <= Delay
  /\ margin' = Margin
  /\ cnt' = Counted
  /\ poor' = IF Poor THEN poor + 1 ELSE 0
  /\ wraps' = IF ~Poor THEN 0 ELSE IF Counted = 0 THEN 1 ELSE wraps
  /\ UNCHANGED <<sf, snr>>

(* The frame is measured; it is too early to decide. *)
Measure ==
  /\ Counted < Delay
  /\ margin' = Margin
  /\ cnt' = Counted
  /\ poor' = IF Poor THEN poor + 1 ELSE 0
  /\ wraps' = IF ~Poor THEN 0 ELSE IF Counted = 0 THEN 1 ELSE wraps
  /\ UNCHANGED <<sf, snr>>

Decide(newSf) ==
  /\ Counted >= Delay
  /\ margin' = Margin
  /\ sf' = newSf
  /\ cnt' = 0
  /\ poor' = 0
  /\ wraps' = 0
  /\ UNCHANGED snr

Faster == Good /\ Decide(sf - 1)

Slower == Poor /\ Decide(sf + 1)

(* At SF12 nothing is left but to count again. *)
Slowest == ~Poor /\ Lost /\ Decide(12)

(* The margin calls for no change: the counter runs on, and wraps. *)
Keep ==
  /\ Counted >= Delay
  /\ ~Good /\ ~Poor /\ ~Lost
  /\ margin' = Margin
  /\ cnt' = Counted
  /\ poor' = 0
  /\ wraps' = 0
  /\ UNCHANGED <<sf, snr>>

Update == Measure \/ Faster \/ Slower \/ Slowest \/ Keep

LinkChanges == snr' \in Snrs /\ UNCHANGED <<sf, cnt, margin, poor, wraps>>

AdrNext == Update \/ LinkChanges

AdrSpec == AdrInit /\ [][AdrNext]_adrVars

(* Frames keep coming. *)
AdrFairSpec == AdrSpec /\ WF_adrVars(Update)

-----------------------------------------------------------------------------
(* Properties *)

(* The spreading factor and the counter keep their ranges. *)
AdrTypeOK == /\ sf \in SpreadingFactors
             /\ cnt \in 0 .. CntMod - 1
             /\ margin \in Int
             /\ snr \in Snrs
             /\ poor \in Nat
             /\ wraps \in 0 .. 1

(* A link that stays poor is answered by the Delay-th of its frames.  Only
   where the first of them is the one that takes the counter past its largest
   value, which counts as frame zero, the one after is the first that can be
   answered: the width of the counter costs one frame and never more. *)
PoorLinkAnswered == poor > 0 => poor < Delay + wraps

(* The margin is within 5 .. 10 dB, or the end of the scale is reached. *)
Settled == (Margin > 20 => sf = 7) /\ (Margin < 10 => sf = 12)

(* On a link that stays as it is the controller settles instead of hunting
   between two spreading factors: the band is wider than a step. *)
AdrSettles == \A s \in Snrs : <>[](snr = s) => <>[]Settled
=============================================================================
