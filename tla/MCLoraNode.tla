----------------------------- MODULE MCLoraNode -----------------------------
(***************************************************************************)
(* Instance for TLC of the parts of a low-power node that share no state:   *)
(* the duty-cycle tracker, the adaptive data rate, a session, the packet    *)
(* pipeline, the NB-IoT node with its codes and signals, the application's  *)
(* reports, and the links the node may have with their path losses.  A      *)
(* behaviour is one of a single part, and the others rest.                  *)
(***************************************************************************)
EXTENDS LoraDutyCycle, LoraAdr, LoraFrames, LpwanLink, NbiotNode

VARIABLE running  \* the part that runs

(* Links from one that SF12 does not reach to one that suits SF7, on and
   beside the thresholds. *)
MCSnrs == {-41, -36, -30, -29, -20, -10, -4, 6}

(* Two nonces that differ in a byte the counter of a frame also reaches. *)
MCAppKey == [i \in 1 .. 16 |-> 16 * i - 7]
MCNonces == {<<7, 0, 0>>, <<7, 1, 0>>}
MCAddr == <<1, 2, 3, 38>>

(* All coding rates of the default link, and packets of 40 to 80 bits: at rate 4
   they are no whole number of symbols, but of 8 bits each they are. *)
MCConfigs == {[lora_phy_params_init_default EXCEPT !.cr = cr] : cr \in lora_coding_rate}
               \cup {[lora_phy_params_init_default EXCEPT !.cr = 4, !.sf = 8]}
MCPayloads == {<<>>, <<165>>}

(* Reports with values below zero and at the ends of what is measured. *)
MCMeters == {[meter_id |-> 424242, reading_value |-> reading, reading_timestamp |-> 1719000000,
              battery_level_pct |-> level, valve_status |-> bit, tamper_flag |-> 1 - bit, alarm_flag |-> bit] :
               reading \in {<<1086856918, -1133871366>>, <<5, 77>>}, level \in {92, 100}, bit \in {0, 1}}
MCTrackers == {[device_id |-> 999, latitude |-> lat, longitude |-> lon, has_gnss |-> lat > 0, gateway_count |-> n,
                rssi_dbm |-> <<-85, -92, -98, -98, -98, -98, -98, -98>>, battery_v |-> 3705, motion_state |-> 2] :
                  lat \in {48135100, -33868820}, lon \in {11582000, -180000000}, n \in {0, 3}}
MCSensors == {[sensor_id |-> 555, soil_moisture_pct |-> 3257, soil_temperature_c |-> soil,
               air_temperature_c |-> air, air_humidity_pct |-> 10000, leaf_wetness |-> 1503,
               solar_radiation_wm2 |-> 450, battery_v |-> 3856, solar_panel_v |-> 5109] :
                 soil \in {1823, -305}, air \in {2250, -5000, -5033, 6000}}

(* Exponents from free space to a dense city; packets that every factor sends
   in time, or only the fast ones; senders of each kind of isolation. *)
MCModels == {[reference |-> 1, reference_loss |-> 0, freq |-> 868, exponent |-> e] : e \in {20, 30, 40}}
              \cup {[reference |-> 100, reference_loss |-> 8000, freq |-> 868, exponent |-> 35]}
MCSenders == {<<7, -11200>>, <<9, -10000>>, <<12, -12000>>, <<13, -9000>>}
MCSettings == {<<20, 4000000>>, <<51, 500000>>, <<200, 100000>>}

MCSites == {[freq |-> 868, reference |-> 1, exponent |-> 35, angle |-> 90],
            [freq |-> 150, reference |-> 100, exponent |-> 20, angle |-> 0],
            [freq |-> 1500, reference |-> 100, exponent |-> 20, angle |-> 45],
            [freq |-> 2000, reference |-> 10, exponent |-> 40, angle |-> 34]}

(* Blocks shorter and longer than the register. *)
MCBlocks == [1 .. 4 -> Bit] \cup [1 .. 7 -> Bit]
              \cup {[i \in 1 .. 12 |-> IF (i * i * k) % 7 < 3 THEN 1 ELSE 0] : k \in 1 .. 6}
MCPulses == {<<2, 3>>, <<-2, 3>>, <<1, 2, 2>>}

DutyAtRest == /\ elapsed = 0 /\ acc = 0 /\ overlap = FALSE
              /\ granted = [s \in Senders |-> 0]
              /\ asked = [s \in Senders |-> 0]
              /\ wait = [s \in Senders |-> 0]
              /\ log = [age \in 0 .. Period |-> 0]
AdrAtRest == sf = 7 /\ cnt = 0 /\ margin = 0 /\ snr = 6 /\ poor = 0 /\ wraps = 0

airVars == <<lrp, lpk, nba, pls>>
MCVars == <<vars, adrVars, lsVars, lpVars, nbVars, airVars, running>>

MCInit == /\ running \in {"duty", "adr", "session", "packet", "nbiot", "reports", "links", "air", "losses"}
          /\ IF running = "duty" THEN Init ELSE DutyAtRest
          /\ IF running = "adr" THEN AdrInit ELSE AdrAtRest
          /\ LsInit /\ LpInit /\ NbInit
          /\ LrpInit /\ LpkInit /\ NbaInit /\ PlsInit

MCNext ==
  /\ UNCHANGED running
  /\ \/ running = "duty" /\ Next /\ UNCHANGED <<adrVars, lsVars, lpVars, nbVars, airVars>>
     \/ running = "adr" /\ AdrNext /\ UNCHANGED <<vars, lsVars, lpVars, nbVars, airVars>>
     \/ running = "session" /\ LsNext /\ UNCHANGED <<vars, adrVars, lpVars, nbVars, airVars>>
     \/ running = "packet" /\ LpNext /\ UNCHANGED <<vars, adrVars, lsVars, nbVars, airVars>>
     \/ running = "nbiot" /\ NbNext /\ UNCHANGED <<vars, adrVars, lsVars, lpVars, airVars>>
     \/ /\ UNCHANGED <<vars, adrVars, lsVars, lpVars, nbVars>>
        /\ \/ running = "reports" /\ LrpNext /\ UNCHANGED <<lpk, nba, pls>>
           \/ running = "links" /\ LpkNext /\ UNCHANGED <<lrp, nba, pls>>
           \/ running = "air" /\ NbaNext /\ UNCHANGED <<lrp, lpk, pls>>
           \/ running = "losses" /\ PlsNext /\ UNCHANGED <<lrp, lpk, nba>>

(* The fairness of FairSpec and of AdrFairSpec, each for its part. *)
MCSpec == /\ MCInit /\ [][MCNext]_MCVars
          /\ WF_vars(running = "duty" /\ Tick)
          /\ \A s \in Senders : /\ WF_vars(running = "duty" /\ Retry(s))
                                /\ WF_vars(running = "duty" /\ Record(s))
          /\ WF_adrVars(running = "adr" /\ Update)

(* What a node counts stays within its types, what it tells arrives, what it
   plans with holds: the properties of the reports and the links
   (lora_linkbudget.c, channel_model.c), of the NB-IoT air interface
   (nbiot_phy.c) and of the path losses (pathloss.c), each when it runs. *)
LowPowerSound ==
  /\ TypeOK /\ AdrTypeOK
  /\ running = "reports" => ReportsSound
  /\ running = "links" => LinkSound
  /\ running = "air" => AirSound
  /\ running = "losses" => PathLossSound
=============================================================================
