----------------------------- MODULE X2Handover -----------------------------
(***************************************************************************)
(* One user equipment in mini-handover-mobility (src/handover_protocol.c):  *)
(* the LTE X2 procedure ho_lte_x2_procedure_step, the RRC transitions of    *)
(* ho_rrc_state_transition and the re-establishment of ho_failure_recovery, *)
(* all on one UEContext, while cells become barred or loaded meanwhile.     *)
(*                                                                          *)
(* The caller keeps the X2 state and the RRC state, and picks the target.   *)
(* A call whose decision is not triggered leaves everything as it is and is *)
(* a stuttering step.  Signal levels are left out: any cell may be strong   *)
(* enough for re-establishment.                                             *)
(***************************************************************************)
EXTENDS Naturals

CONSTANTS
  Cells,         \* physical cell ids
  NoCell,        \* 0, the cell id of a cleared UEContext field
  CountMod,      \* 2^32: the counters are uint32_t
  MaxProcs,      \* bound on procedures started
  MaxRecoveries  \* bound on recoveries that succeed

ASSUME X2Assumption ==
  /\ NoCell \notin Cells
  /\ CountMod \in Nat \ {0}
  /\ MaxProcs \in Nat
  /\ MaxRecoveries \in Nat

VARIABLES
  st,         \* HoX2State, kept by the caller
  goal,       \* the target cell the caller passes to each step
  rrc,        \* RRCState, kept by the caller
  ue,         \* UEContext
  cell,       \* what the CellInfo of each cell says of admission
  admitted,   \* history: the goal passed admission control in this procedure
  repair,     \* history: a recovery is due, or one was made that was not due
  procs,      \* history: procedures started
  recoveries  \* history: successful recoveries

vars == <<st, goal, rrc, ue, cell, admitted, repair, procs, recoveries>>

Preparing == {"HO_REQUEST", "HO_REQUEST_ACK", "SN_STATUS"}
Detached  == {"UE_DETACH", "RANDOM_ACCESS", "RRC_RECONF_COMPL"}
Switching == {"PATH_SWITCH", "UE_CONTEXT_RELEASE"}
Finished  == {"COMPLETE", "FAILED"}
X2States  == {"INIT", "MEASUREMENT", "RRC_RECONF"}
               \cup Preparing \cup Detached \cup Switching \cup Finished

Phases == {"IDLE", "MEASUREMENT", "PREPARATION", "EXECUTION", "COMPLETION",
           "FAILURE"}

UEContexts == [serving   : Cells \cup {NoCell},
               target    : Cells \cup {NoCell},
               phase     : Phases,
               hoCount   : 0 .. CountMod - 1,
               failCount : 0 .. CountMod - 1,
               connected : BOOLEAN]

Init == /\ st = "COMPLETE"
        /\ goal = NoCell
        /\ rrc = "IDLE"
        /\ ue = [serving |-> NoCell, target |-> NoCell, phase |-> "IDLE",
                 hoCount |-> 0, failCount |-> 0, connected |-> FALSE]
        /\ cell \in [Cells -> {"open", "full", "barred"}]
        /\ admitted = FALSE
        /\ repair = "none"
        /\ procs = 0
        /\ recoveries = 0

-----------------------------------------------------------------------------
(* ho_lte_x2_procedure_step, one action per state of its switch *)

Goto(next) == /\ st' = next
              /\ UNCHANGED <<goal, rrc, cell, procs, recoveries>>

RepairDue     == repair' = IF repair = "spurious" THEN repair ELSE "due"
RepairSettled == repair' = IF repair = "spurious" THEN repair ELSE "none"

(* Mutant: the failure counter does not wrap. *)
FailNoWrap == /\ Goto("FAILED")
              /\ ue' = [ue EXCEPT !.phase = "FAILURE", !.failCount = @ + 1]
              /\ RepairDue
              /\ UNCHANGED admitted

Fail == /\ Goto("FAILED")
        /\ ue' = [ue EXCEPT !.phase = "FAILURE",
                            !.failCount = (@ + 1) % CountMod]
        /\ RepairDue
        /\ UNCHANGED admitted

(* The caller starts the next procedure towards a cell of its choice. *)
NewProcedure ==
  /\ st \in Finished
  /\ procs < MaxProcs
  /\ procs' = procs + 1
  /\ st' = "INIT"
  /\ goal' \in Cells \ {ue.serving}
  /\ admitted' = FALSE
  /\ RepairSettled
  /\ UNCHANGED <<rrc, ue, cell, recoveries>>

DecisionTriggered ==
  /\ st = "INIT"
  /\ Goto("MEASUREMENT")
  /\ ue' = [ue EXCEPT !.phase = "MEASUREMENT"]
  /\ UNCHANGED <<admitted, repair>>

ReportSent ==
  /\ st = "MEASUREMENT"
  /\ Goto("HO_REQUEST")
  /\ ue' = [ue EXCEPT !.phase = "PREPARATION"]
  /\ UNCHANGED <<admitted, repair>>

(* Admission control looks at the target now and never again. *)
Admit ==
  /\ st = "HO_REQUEST"
  /\ IF cell[goal] = "open"
     THEN /\ Goto("HO_REQUEST_ACK")
          /\ admitted' = TRUE
          /\ UNCHANGED <<ue, repair>>
     ELSE Fail

Acknowledged ==
  /\ st = "HO_REQUEST_ACK"
  /\ Goto("SN_STATUS")
  /\ UNCHANGED <<ue, admitted, repair>>

SnStatusTransfer ==
  /\ st = "SN_STATUS"
  /\ Goto("RRC_RECONF")
  /\ ue' = [ue EXCEPT !.phase = "EXECUTION"]
  /\ UNCHANGED <<admitted, repair>>

(* Mutant: a target left over from an earlier procedure is kept. *)
RrcReconfKeepsTarget ==
  /\ st = "RRC_RECONF"
  /\ Goto("UE_DETACH")
  /\ ue' = [ue EXCEPT !.target = IF @ = NoCell THEN goal ELSE @]
  /\ UNCHANGED <<admitted, repair>>

RrcReconfAccepted ==
  /\ st = "RRC_RECONF"
  /\ Goto("UE_DETACH")
  /\ ue' = [ue EXCEPT !.target = goal]
  /\ UNCHANGED <<admitted, repair>>

RrcReconfRejected == st = "RRC_RECONF" /\ Fail

UeDetach ==
  /\ st = "UE_DETACH"
  /\ Goto("RANDOM_ACCESS")
  /\ UNCHANGED <<ue, admitted, repair>>

RachSucceeds ==
  /\ st = "RANDOM_ACCESS"
  /\ Goto("RRC_RECONF_COMPL")
  /\ UNCHANGED <<ue, admitted, repair>>

(* Mutant: a failed random access moves the user all the same. *)
RachFailsOnTarget ==
  /\ st = "RANDOM_ACCESS"
  /\ Goto("FAILED")
  /\ ue' = [ue EXCEPT !.phase = "FAILURE", !.serving = ue.target,
                      !.failCount = (@ + 1) % CountMod]
  /\ RepairDue
  /\ UNCHANGED admitted

(* Mutant: random access is tried again without limit. *)
RachRetries ==
  /\ st = "RANDOM_ACCESS"
  /\ Goto("UE_DETACH")
  /\ UNCHANGED <<ue, admitted, repair>>

(* The target cell id stays in the context. *)
RachFails == st = "RANDOM_ACCESS" /\ Fail

RrcReconfComplete ==
  /\ st = "RRC_RECONF_COMPL"
  /\ Goto("PATH_SWITCH")
  /\ ue' = [ue EXCEPT !.phase = "COMPLETION"]
  /\ UNCHANGED <<admitted, repair>>

PathSwitched ==
  /\ st = "PATH_SWITCH"
  /\ Goto("UE_CONTEXT_RELEASE")
  /\ UNCHANGED <<ue, admitted, repair>>

PathSwitchFails == st = "PATH_SWITCH" /\ Fail

ContextRelease ==
  /\ st = "UE_CONTEXT_RELEASE"
  /\ Goto("COMPLETE")
  /\ ue' = [ue EXCEPT !.phase = "COMPLETION", !.hoCount = (@ + 1) % CountMod,
                      !.serving = ue.target, !.target = NoCell]
  /\ UNCHANGED <<admitted, repair>>

(* A step in a final state settles the phase and returns false. *)
Settle ==
  /\ st \in Finished
  /\ ue' = [ue EXCEPT !.phase = IF st = "COMPLETE" THEN "IDLE" ELSE "FAILURE"]
  /\ UNCHANGED <<st, goal, rrc, cell, admitted, repair, procs, recoveries>>

-----------------------------------------------------------------------------
(* ho_rrc_state_transition; the caller stores the new state if it is valid. *)

ValidTransition == {<<"IDLE", "CONNECTED">>, <<"INACTIVE", "CONNECTED">>,
                    <<"INACTIVE", "IDLE">>, <<"CONNECTED", "IDLE">>,
                    <<"CONNECTED", "INACTIVE">>}

RrcTransition(to) ==
  /\ <<rrc, to>> \in ValidTransition
  /\ rrc' = to
  /\ ue' = [ue EXCEPT !.connected = (to = "CONNECTED"),
                      !.phase = CASE to = "CONNECTED" -> "MEASUREMENT"
                                  [] to = "IDLE"      -> "IDLE"
                                  [] OTHER            -> @]
  /\ UNCHANGED <<st, goal, cell, admitted, repair, procs, recoveries>>

-----------------------------------------------------------------------------
(* ho_failure_recovery with T311 running and the context available: nothing
   in it asks for a failure.  It then regards the user as connected. *)
Recover ==
  /\ recoveries < MaxRecoveries
  /\ recoveries' = recoveries + 1
  /\ \E c \in Cells :
       /\ cell[c] # "barred"
       /\ ue' = [ue EXCEPT !.serving = c, !.connected = TRUE, !.phase = "IDLE",
                           !.failCount = (@ + CountMod - 1) % CountMod]
  /\ rrc' = "CONNECTED"
  /\ repair' = IF repair = "due" THEN "none" ELSE "spurious"
  /\ UNCHANGED <<st, goal, cell, admitted, procs>>

(* The operator bars or reserves a cell, or its load passes 95 percent. *)
CellChanges == /\ \E c \in Cells, s \in {"open", "full", "barred"} :
                    cell' = [cell EXCEPT ![c] = s]
               /\ UNCHANGED <<st, goal, rrc, ue, admitted, repair, procs, recoveries>>

Decide == DecisionTriggered \/ ReportSent

Execute == \/ Admit \/ Acknowledged \/ SnStatusTransfer
           \/ RrcReconfAccepted \/ RrcReconfRejected
           \/ UeDetach \/ RachSucceeds \/ RachFails \/ RrcReconfComplete
           \/ PathSwitched \/ PathSwitchFails \/ ContextRelease

Next == \/ Decide
        \/ Execute
        \/ NewProcedure
        \/ Settle
        \/ Recover
        \/ CellChanges
        \/ \E to \in {"IDLE", "INACTIVE", "CONNECTED"} : RrcTransition(to)

Spec == Init /\ [][Next]_vars

(* Once the request is out, the caller steps until the function returns
   false.  The decision before it may be withdrawn for ever. *)
FairSpec == Spec /\ WF_vars(Execute)

-----------------------------------------------------------------------------
(* Properties *)

(* The context and the procedure stay within their types. *)
TypeOK ==
  /\ st \in X2States
  /\ goal \in Cells \cup {NoCell}
  /\ rrc \in {"IDLE", "INACTIVE", "CONNECTED"}
  /\ ue \in UEContexts
  /\ cell \in [Cells -> {"open", "full", "barred"}]
  /\ admitted \in BOOLEAN
  /\ repair \in {"none", "due", "spurious"}
  /\ procs \in 0 .. MaxProcs
  /\ recoveries \in 0 .. MaxRecoveries

Committed == Detached \cup Switching
Granted   == {"HO_REQUEST_ACK", "SN_STATUS", "RRC_RECONF"} \cup Committed

(* A user that has left its cell is on its way to the cell that admitted it
   in this very procedure, whatever failed, recovered or changed before. *)
TargetAdmitted ==
  /\ st \notin Finished => goal \in Cells
  /\ st \in Granted     => admitted
  /\ st \in Committed   => ue.target = goal

(* The handover phase is never ahead of the procedure.  It may be behind: an
   RRC release or a recovery resets it while the procedure goes on. *)
PhaseNotAhead ==
  /\ ue.phase = "PREPARATION" => st \in Preparing
  /\ ue.phase = "EXECUTION"   => st \in {"RRC_RECONF"} \cup Detached
  /\ ue.phase = "COMPLETION"  => st \in {"COMPLETE", "INIT"} \cup Switching
  /\ ue.phase = "FAILURE"     => st \in {"FAILED", "INIT"}

(* Every procedure ends as exactly one handover or one failure, also across
   the wrap of the counters; each recovery takes one failure back. *)
ProceduresCounted ==
  (ue.hoCount + ue.failCount + recoveries
     + IF st \in Finished THEN 0 ELSE 1) % CountMod = procs % CountMod

(* As long as a recovery follows each failure at most, and nothing else, no
   more failures are counted than there were procedures. *)
FailuresBounded == repair # "spurious" => ue.failCount <= procs

(* The header calls the field "Total handover failures". *)
TotalFailures == ue.failCount <= procs

(* RRC and the context agree on who is connected. *)
RrcAgrees == ue.connected <=> rrc = "CONNECTED"

(* The context as a whole: its types, its counters and its connection. *)
ProcedureSound == TypeOK /\ ProceduresCounted /\ FailuresBounded /\ RrcAgrees

(* A requested handover ends: the procedure is not under way for ever. *)
RequestEnds == []<>(st \notin Preparing \cup Granted)

(* The procedure implements the mobility service. *)
Service == INSTANCE MobilityService WITH
  serving   <- ue.serving,
  wanted    <- IF st \in Granted THEN goal ELSE NoCell,
  handovers <- ue.hoCount,
  repairs   <- recoveries

ImplementsMobilityService == Service!SSpec
=============================================================================
