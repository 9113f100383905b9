----------------------------- MODULE MCMobility -----------------------------
(***************************************************************************)
(* Instance for TLC of parts that share no state: the X2 handover, the      *)
(* handover trigger, the selection of networks, what assists a handover,    *)
(* the movement of users, the measurements and the examples of              *)
(* mini-handover-mobility, the decision engine, the planning, the radio     *)
(* links and the resources of mini-cellular-network, and the four parts of  *)
(* the physical layer of mini-5g-nr-phy.  A behaviour is one of any, and    *)
(* the others rest.                                                         *)
(*                                                                          *)
(* The trigger has three cells, so that the best neighbour changes and ties *)
(* occur, a margin of 0 that one correction makes negative, and times to    *)
(* trigger of one to three periods.                                         *)
(***************************************************************************)
EXTENDS X2Handover, HandoverTrigger, CellHandover, NrControl, NrCarrier, MobilityDemos, CellRadio

VARIABLE running  \* the part that runs

MCOffset0 == -1

(* Code words that fill one lifting and two, buffers read from the start, over
   the end and twice around, and polar codes that repeat, puncture and shorten. *)
MCLifts == {<<1, 20>>, <<2, 40>>}
MCBuffers == {<<0, 50>>, <<130, 300>>, <<5, 700>>}
MCPolars == {<<12, 6, 40>>, <<12, 6, 20>>, <<12, 6, 28>>, <<30, 11, 100>>, <<30, 11, 40>>, <<30, 11, 50>>}
MCPatterns == {<<0>>, <<1, 0, 1, 1, 0>>, <<1, 1, 1, 0, 0, 1, 0>>}

(* Parts that repeat an id, lie within and beyond the carrier, and are more
   than a carrier holds; blocks on both sides of the step at 3824 bits. *)
MCBandwidths == {5, 15, 40, 100}
MCParts == {<<0, 0, 24>>, <<1, 0, 30>>, <<1, 24, 25>>, <<2, 25, 27>>, <<3, 1, 24>>, <<2, 3, 23>>, <<4, 0, 24>>}
MCLoads == {<<re, rate, order, layers>> :
              re \in {12, 156, 600, 9000}, rate \in {120, 256, 300, 948}, order \in {2, 4, 8}, layers \in {1, 4}}
MCGrids == {<<0, 1>>, <<0, 10>>, <<0, 11>>, <<1, 1>>, <<2, 4>>}

(* Sets smaller and larger than the candidates need, hashes of either sign. *)
MCSpaces == {<<blocks, candidates, slot, rnti, uss>> :
               blocks \in {5, 48, 96}, candidates \in {<<4, 2, 1, 0, 0>>, <<0, 6, 4, 2, 1>>},
               slot \in {0, 7, 19}, rnti \in {1, 4660, 65519}, uss \in BOOLEAN}
MCDcis == {<<64 * first + number, 3, 1, mcs, 0, 2, 9, 1, 3, 5, 6>> : first \in {0, 30}, number \in {1, 20}, mcs \in {4, 5, 11}}
MCDciParts == {<<0, 24>>, <<10, 30>>}
MCBlocks == {<<165>>, <<18, 255, 0>>}

MCCells == {<<5, 0>>, <<112, 0>>, <<335, 2>>, <<230, 1>>}
MCPayloads == {[i \in 1 .. 56 |-> IF i % 3 = 0 THEN 1 ELSE 0], [i \in 1 .. 56 |-> IF (i * i) % 7 = 2 THEN 1 ELSE 0]}

(* Criteria of either sign that tie and dominate; links that are best by
   quality, by cost or by being the present one. *)
MCMatrices == {<<<<a, b>>, <<2, 1>>, <<e, f>>>> : a, e \in {-1, 2, 3}, b, f \in {0, 1, 3}}
MCWeights == {<<1, 1>>, <<1, 3>>}
MCMihs == {<<[type |-> t1, quality |-> q1, cost |-> c1], [type |-> t2, quality |-> q2, cost |-> 1],
             [type |-> t3, quality |-> 60, cost |-> 30]>> :
             t1, t2, t3 \in {"802_11", "3GPP", "802_3"}, q1, q2 \in {30, 50, 80}, c1 \in {1, 100}}

(* Reports that are empty, tie and overflow; cells that cross in level; cells
   that are empty, hold one user and are full. *)
MCLists == {<<>>, <<<<2, -100>>, <<3, -90>>, <<4, -100>>, <<5, -80>>>>, [i \in 1 .. 9 |-> <<i + 1, -90 - ((i * 7) % 5)>>]}
MCTracks == {<<<<-80, a>>, <<b, c>>, <<-95, d>>>> : a \in {-2, 0}, b \in {-90, -84}, c \in {-3, 1, 2}, d \in {2, 5}}
MCCellLoads == {[num_active_ues |-> u, total_prbs |-> 50, used_prbs |-> p] : u \in {0, 1, 5}, p \in {0, 30, 45}}
MCNeighbors == {[i \in 1 .. n |-> [hash |-> i, channel |-> 300 * i, rssi |-> -110 + 9 * i]] : n \in {0, 1, 5, 11, 32, 33}}

(* An area with a diagonal of 5, shorter and longer flights, turns that wrap;
   the waypoints are corners of triangles with sides 3 : 4 : 5. *)
MCWalkSpeeds == {-1, 3}
MCTurns == {-1, 0, 3}
MCPlaces == {<<0, 0>>, <<15, 20>>, <<30, 40>>, <<30, 0>>, <<0, 40>>}

MCRxLevels == {-100, -97, -80}
MCNoises == {<<1, 1>>, <<1, 4>>, <<0, 2>>}
MCFilters == {-1, 0, 3, 4, 19, 25}

(* None, from period to period, slow and in between. *)
MCShadows == {<<0>>, <<300, -300>>, [i \in 1 .. 20 |-> IF i <= 10 THEN 300 ELSE -300],
              [i \in 1 .. 6 |-> IF i <= 3 THEN 300 ELSE -300]}

(* Rings that are cut off; traffic below and above one channel; sites on a line,
   a metre more than the radius apart and within it. *)
MCHexGrids == {<<r, m>> : r \in 0 .. 3, m \in {0, 7, 20, 64}}
MCOffered == {<<1, 2>>, <<1, 1>>, <<2, 1>>, <<3, 1>>}
MCBlockings == {<<1, 2>>, <<1, 10>>, <<1, 20>>}
MCCandidates == {<<[x |-> 0, y |-> 0, demand |-> a], [x |-> 300, y |-> 400, demand |-> b],
                   [x |-> 600, y |-> 0, demand |-> 2], [x |-> 601, y |-> 0, demand |-> c]>> : a, b, c \in {0, 1, 3}}

(* Both sides of every end of a formula, and of a threshold. *)
MCDistances == {0, 5, 10, 200, 1000, 1500, 5000, 5001, 20000, 30000}
MCSinrs == {-2500, -701, -700, -400, 0, 99, 100, 799, 1250, 2299, 2300, 3000}
MCGains == {<<a, b, c>> : a \in {1, 2}, b \in {1, 3}, c \in {2, 5}} \cup {<<4>>, <<1, 10>>}
MCTotals == {<<0, 1>>, <<1, 4>>, <<1, 1>>, <<5, 1>>}
MCEngineLevels == {-110, -95, -91, -87, -84}
MCUserLevels == {-900, 700, 2000}

X2AtRest == Init /\ \A c \in Cells : cell[c] = "open"
TriggerAtRest == HoInit /\ serving = 1 /\ \A c \in CellIds : level[c] = 0

radioVars == <<nc, nrcVars, ncc, nss>>
assistVars == <<nsl, has, mob, sgt, dmo>>
cellVars == <<cpl, crd, crs>>
MCVars == <<vars, hoVars, engineVars, radioVars, assistVars, cellVars, running>>

MCInit ==
  /\ running \in {"x2", "trigger", "engine", "coding", "carrier", "control", "sync", "selection", "assist", "users", "signal", "examples",
                "planning", "radio", "resources"}
  /\ IF running = "x2" THEN Init ELSE X2AtRest
  /\ IF running = "trigger" THEN HoInit ELSE TriggerAtRest
  /\ EngineInit /\ NcInit /\ NbwInit /\ NccInit /\ NssInit /\ NslInit /\ HasInit /\ MobInit /\ SgtInit /\ DmoInit
  /\ CplInit /\ CrdInit /\ CrsInit

MCNext ==
  /\ \/ running = "x2" /\ Next /\ UNCHANGED <<hoVars, engineVars, radioVars, assistVars, cellVars>>
     \/ running = "trigger" /\ HoNext /\ UNCHANGED <<vars, engineVars, radioVars, assistVars, cellVars>>
     \/ running = "engine" /\ EngineNext /\ UNCHANGED <<vars, hoVars, radioVars, assistVars, cellVars>>
     \/ /\ UNCHANGED <<vars, hoVars, engineVars, assistVars, cellVars>>
        /\ \/ running = "coding" /\ NcNext /\ UNCHANGED <<nrcVars, ncc, nss>>
           \/ running = "carrier" /\ NbwNext /\ UNCHANGED <<nc, ncc, nss>>
           \/ running = "control" /\ NccNext /\ UNCHANGED <<nc, nrcVars, nss>>
           \/ running = "sync" /\ NssNext /\ UNCHANGED <<nc, nrcVars, ncc>>
     \/ /\ UNCHANGED <<vars, hoVars, engineVars, radioVars, cellVars>>
        /\ \/ running = "selection" /\ NslNext /\ UNCHANGED <<has, mob, sgt, dmo>>
           \/ running = "assist" /\ HasNext /\ UNCHANGED <<nsl, mob, sgt, dmo>>
           \/ running = "users" /\ MobNext /\ UNCHANGED <<nsl, has, sgt, dmo>>
           \/ running = "signal" /\ SgtNext /\ UNCHANGED <<nsl, has, mob, dmo>>
           \/ running = "examples" /\ DmoNext /\ UNCHANGED <<nsl, has, mob, sgt>>
     \/ /\ UNCHANGED <<vars, hoVars, engineVars, radioVars, assistVars>>
        /\ \/ running = "planning" /\ CplNext /\ UNCHANGED <<crd, crs>>
           \/ running = "radio" /\ CrdNext /\ UNCHANGED <<cpl, crs>>
           \/ running = "resources" /\ CrsNext /\ UNCHANGED <<cpl, crd>>
  /\ UNCHANGED running

(* The fairness of FairSpec and of HoFairSpec, each for its part. *)
MCSpec == /\ MCInit /\ [][MCNext]_MCVars
          /\ WF_vars(running = "x2" /\ Execute)
          /\ WF_hoVars(running = "trigger" /\ Iteration)

(* What is sent over the air interface of mini-5g-nr-phy is what is received,
   and resources stay inside what they are part of (nr_phy_coding.c,
   nr_phy_common.c, nr_phy_ofdm.c, nr_phy_pdcch.c, nr_phy_ssb.c); a user is not
   sent to and fro or to a cell that is worse in every way, and reports,
   candidates, admission and statistics are those of what happened
   (handover_decision.c, handover_types.c, handover_optimize.c,
   handover_protocol.c); users move where their model lets them, levels are
   followed within bounds, and the examples end in the right cell
   (mobility_model.c, signal_measurement.c, examples/); cells that share a
   frequency are apart, channels and sites suffice, links carry what is asked
   of them, power stays within its limit, and every block is given out
   (cell_network_*.c): the properties of the parts, each when it runs; and the
   trigger and the decision engine keep their types. *)
NetworkSound ==
  /\ HoTypeOK /\ EngineTypeOK
  /\ running = "coding" => CodingSound
  /\ running = "carrier" => CarrierSound
  /\ running = "control" => ControlSound
  /\ running = "sync" => SyncSound
  /\ running = "selection" => SelectionSound
  /\ running = "assist" => AssistSound
  /\ running = "users" => MobilitySound
  /\ running = "signal" => TrackingSound
  /\ running = "examples" => DemosSound
  /\ running = "planning" => PlanningSound
  /\ running = "radio" => CellRadioSound
  /\ running = "resources" => ResourcesSound
=============================================================================
