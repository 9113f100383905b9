----------------------------- MODULE CellHandover -----------------------------
(***************************************************************************)
(* The handover decision engine of mini-cellular-network                    *)
(* (src/cell_network_handover.c): measurement reports, event A3 and the     *)
(* time to trigger.                                                         *)
(*                                                                          *)
(* The engine keeps the state of a neighbour by its place in the report.    *)
(* The L3 filter is off (coefficient 0), so that filtered levels are the    *)
(* measured ones; levels are relative to the serving level plus the offset. *)
(***************************************************************************)
EXTENDS Integers, FiniteSets

CONSTANTS
  Neighbours,  \* cell ids, numbered from 1
  RelLevels,   \* levels a neighbour may be measured at
  Samples,     \* time_to_trigger_samples
  Stable       \* reports list all neighbours, each in its own place

ASSUME EngineAssumption == /\ Neighbours = 1 .. Cardinality(Neighbours)
                           /\ RelLevels \subseteq Int
                           /\ Samples \in Nat \ {0}
                           /\ Stable \in BOOLEAN

VARIABLES
  samples,   \* config.time_to_trigger_samples
  count,     \* per place: consecutive_hysteresis_count, at most Samples
  target,    \* target_cell_id, 0 if none
  answer,    \* what the last call returned
  held       \* history, per cell: reports in a row, since the last reset, that
             \* had it better, at most Samples

engineVars == <<samples, count, target, answer, held>>

Places == Neighbours
Measurements == [id : Neighbours, detected : BOOLEAN, level : RelLevels]
MeasReports == UNION {[1 .. n -> Measurements] : n \in 0 .. Cardinality(Neighbours)}

WellFormed(r) == \A i, j \in DOMAIN r : r[i].id = r[j].id => i = j

InPlace(r) == /\ DOMAIN r = Places
              /\ \A i \in Places : r[i].id = i /\ r[i].detected

EngineInit == /\ samples = Samples
              /\ count = [i \in Places |-> 0]
              /\ target = 0
              /\ answer = FALSE
              /\ held = [c \in Neighbours |-> 0]

-----------------------------------------------------------------------------
(* ho_evaluate_event, event A3 *)
A3(m) == m.level > 0

OneMore(n) == IF n < Samples THEN n + 1 ELSE Samples

(* Mutant: a count goes on where the condition has failed. *)
CountedNoReset(r) ==
  [i \in Places |-> IF i \in DOMAIN r /\ r[i].detected /\ A3(r[i])
                    THEN OneMore(count[i]) ELSE count[i]]

(* Places that are not reported, or not detected, keep their count. *)
Counted(r) ==
  [i \in Places |->
     IF i \in DOMAIN r /\ r[i].detected
     THEN IF A3(r[i]) THEN OneMore(count[i]) ELSE 0
     ELSE count[i]]

(* Mutant: one report more is waited for. *)
TriggeredLate(r) == {i \in DOMAIN r : r[i].detected /\ count[i] >= samples}

Triggered(r) == {i \in DOMAIN r : r[i].detected /\ Counted(r)[i] >= samples}

(* The strongest of them, the first one if there are several. *)
Chosen(r, i) == /\ i \in Triggered(r)
                /\ \A j \in Triggered(r) :
                     r[j].level < r[i].level \/ (r[j].level = r[i].level /\ i <= j)

Better(r, c) == \E i \in DOMAIN r : r[i].id = c /\ r[i].detected /\ A3(r[i])

(* A report lists a cell once.  An engine that is not configured waits for no
   sample, and any detected neighbour will do. *)
ho_process_measurement(r) ==
  /\ WellFormed(r) /\ (Stable => InPlace(r))
  /\ count' = Counted(r)
  /\ \/ Triggered(r) = {} /\ answer' = FALSE /\ UNCHANGED target
     \/ \E i \in Places : Chosen(r, i) /\ answer' = TRUE /\ target' = r[i].id
  /\ held' = [c \in Neighbours |-> IF Better(r, c) THEN OneMore(held[c]) ELSE 0]
  /\ UNCHANGED samples

ho_set_target(c) == /\ target' = c
                    /\ answer' = FALSE
                    /\ UNCHANGED <<samples, count, held>>

(* Everything is cleared, the configuration too. *)
ho_reset_engine == /\ samples' = 0
                   /\ count' = [i \in Places |-> 0]
                   /\ target' = 0
                   /\ answer' = FALSE
                   /\ held' = [c \in Neighbours |-> 0]

(* ho_config_init_default on the configuration of the engine *)
ho_config_init_default == /\ samples' = Samples
                          /\ answer' = FALSE
                          /\ UNCHANGED <<count, target, held>>

EngineNext == \/ \E r \in MeasReports : ho_process_measurement(r)
              \/ \E c \in Neighbours : ho_set_target(c)
              \/ ho_reset_engine
              \/ ho_config_init_default

EngineSpec == EngineInit /\ [][EngineNext]_engineVars

-----------------------------------------------------------------------------
(* Properties *)

EngineTypeOK == /\ samples \in {0, Samples}
                /\ count \in [Places -> 0 .. Samples]
                /\ target \in Neighbours \cup {0}
                /\ answer \in BOOLEAN
                /\ held \in [Neighbours -> 0 .. Samples]

(* The header on the time to trigger: "time condition must hold".  A handover
   is asked for only to a cell that was better in every one of the last
   reports, as many as the time to trigger has samples. *)
TargetHeld ==
  answer /\ samples > 0 => target \in Neighbours /\ held[target] = Samples

(* And the engine misses none: with the report that completes the time to
   trigger of some cell it asks for a handover. *)
NoneMissed == [][(\E c \in Neighbours : held[c] # held'[c] /\ held'[c] = Samples)
                   => answer']_engineVars
=============================================================================
