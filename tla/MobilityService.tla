--------------------------- MODULE MobilityService ---------------------------
(***************************************************************************)
(* What a handover procedure promises the user of a connection: it is served *)
(* by one cell, that cell changes at the moment a handover commits, to the  *)
(* very cell that admitted the user, or when the connection is              *)
(* re-established, and a handover that is given up leaves it alone and is   *)
(* not reported.                                                            *)
(***************************************************************************)
EXTENDS Naturals

CONSTANTS Cells, NoCell, CountMod

VARIABLES serving,   \* the cell that serves the user
          wanted,    \* the cell being prepared, or NoCell
          handovers, \* handovers reported, in a counter that wraps
          repairs    \* times the connection was re-established

svars == <<serving, wanted, handovers, repairs>>

SInit == /\ serving = NoCell
         /\ wanted = NoCell
         /\ handovers = 0
         /\ repairs = 0

Prepare == /\ wanted = NoCell
           /\ wanted' \in Cells
           /\ UNCHANGED <<serving, handovers, repairs>>

Commit == /\ wanted # NoCell
          /\ serving' = wanted
          /\ wanted' = NoCell
          /\ handovers' = (handovers + 1) % CountMod
          /\ UNCHANGED repairs

GiveUp == /\ wanted # NoCell
          /\ wanted' = NoCell
          /\ UNCHANGED <<serving, handovers, repairs>>

Reestablish == /\ serving' \in Cells
               /\ repairs' = repairs + 1
               /\ UNCHANGED <<wanted, handovers>>

SNext == Prepare \/ Commit \/ GiveUp \/ Reestablish

SSpec == SInit /\ [][SNext]_svars
=============================================================================
