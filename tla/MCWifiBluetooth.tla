--------------------------- MODULE MCWifiBluetooth ---------------------------
(***************************************************************************)
(* Instance for TLC of the parts of mini-wifi-bluetooth, which share no      *)
(* state: the BLE mesh, the Wi-Fi channel access, the block                  *)
(* acknowledgement, the coding, the physical layer and the frames of Wi-Fi,  *)
(* the Bluetooth baseband, the BLE link layer and host, and the tables of    *)
(* both radios.  A behaviour is one of any, and the others rest.             *)
(*                                                                          *)
(* The mesh is a ring of three nodes, one with a tail, so that there are    *)
(* cycles, ways of different length and a node that only a relay reaches.   *)
(***************************************************************************)
EXTENDS BleMesh, WifiDcf, WifiBlockAck, WifiFrames, WifiPhy, BtBaseband, BleLink

VARIABLE running  \* the part that runs

MCLinks == {<<1, 2>>, <<2, 1>>, <<2, 3>>, <<3, 2>>, <<1, 3>>, <<3, 1>>, <<3, 4>>, <<4, 3>>}

(* Words shorter and longer than the traceback, frames with bytes whose table
   entries differ, one code of a rate that is not offered. *)
MCWords == {<<1>>, <<0, 1, 1, 0, 1, 0, 0, 1>>, [i \in 1 .. 20 |-> IF (i * i * i) % 5 < 3 THEN 1 ELSE 0]}
MCFrames == {<<1, 2, 3>>, <<171, 205>>, <<72, 157, 187>>}
MCCodes == {<<648, 1, 2>>, <<648, 5, 6>>, <<1296, 3, 4>>, <<648, 1, 5>>}

(* Without two quarters: rounding errors decide which way a half is rounded. *)
MCNoises == {-3, -1, 0, 1, 3, 4, 5}
MCGains == {<<1, 0>>, <<0, 2>>, <<1, -1>>}

(* Batches without padding, with every length of it, and of more frames than
   a receiver has room for. *)
MCBatches == {<<>>, <<1>>, <<3, 0, 4, 5>>, <<20, 7, 30>>, [i \in 1 .. 9 |-> 2]}

MCAddresses == {<<1, 35, 69, 103, 137, 171>>, <<200, 5, 250, 17, 255, 255>>}
MCBad == {{}, 0 .. 40, 3 .. 78, {5, 22, 77, 78}}

(* Connections at, below and above the least supervision timeout; maps that
   are full, scattered and one block. *)
MCConnections == {<<80, 1, 321>>, <<80, 1, 320>>, <<80, 1, 200>>, <<100, 0, 201>>, <<14, 0, 400>>, <<15, 2, 200>>}
MCMaps == {0 .. 36, {0, 9, 10, 36}, 3 .. 30}

MCDrifts == -2 .. 2

Parts == {"mesh", "dcf", "ba", "coding", "frames", "phy", "baseband", "link", "host", "core"}

libraryVars == <<wcd, wfr, wpy, btb, bllVars, blh, wbc>>
MCVars == <<vars, dcfVars, baVars, libraryVars, running>>

MCInit == /\ running \in Parts /\ Init /\ DcfInit /\ BaInit
          /\ WcdInit /\ WfrInit /\ WpyInit /\ BtbInit /\ BllInit /\ BlhInit /\ WbcInit

LibraryNext ==
  \/ running = "coding" /\ WcdNext /\ UNCHANGED <<wfr, wpy, btb, bllVars, blh, wbc>>
  \/ running = "frames" /\ WfrNext /\ UNCHANGED <<wcd, wpy, btb, bllVars, blh, wbc>>
  \/ running = "phy" /\ WpyNext /\ UNCHANGED <<wcd, wfr, btb, bllVars, blh, wbc>>
  \/ running = "baseband" /\ BtbNext /\ UNCHANGED <<wcd, wfr, wpy, bllVars, blh, wbc>>
  \/ running = "link" /\ BllNext /\ UNCHANGED <<wcd, wfr, wpy, btb, blh, wbc>>
  \/ running = "host" /\ BlhNext /\ UNCHANGED <<wcd, wfr, wpy, btb, bllVars, wbc>>
  \/ running = "core" /\ WbcNext /\ UNCHANGED <<wcd, wfr, wpy, btb, bllVars, blh>>

MCNext == /\ \/ running = "mesh" /\ Next /\ UNCHANGED <<dcfVars, baVars, libraryVars>>
             \/ running = "dcf" /\ DcfNext /\ UNCHANGED <<vars, baVars, libraryVars>>
             \/ running = "ba" /\ BaNext /\ UNCHANGED <<vars, dcfVars, libraryVars>>
             \/ LibraryNext /\ UNCHANGED <<vars, dcfVars, baVars>>
          /\ UNCHANGED running

(* The fairness of FairSpec, DcfFairSpec and BaFairSpec, each for its part. *)
MCSpec ==
  /\ MCInit /\ [][MCNext]_MCVars
  /\ WF_vars(running = "mesh" /\ Arrival)
  /\ WF_dcfVars(running = "dcf" /\ DcfNext)
  /\ WF_baVars(running = "ba" /\ NextBlock)
  /\ \A s \in Seqs : /\ WF_baVars(running = "ba" /\ FrameArrives(s))
                     /\ WF_baVars(running = "ba" /\ Record(s))
  /\ WF_baVars(running = "ba" /\ Reply)
  /\ WF_baVars(running = "ba" /\ Answer)

(* NobodyStarves of the channel access, when it runs. *)
DcfNobodyStarves == \A s \in Stations : []<>(running = "dcf" => s \in onAir)

(* AllDelivered of the block acknowledgement, when it runs. *)
BaAllDelivered == []<>(running = "ba" => confirmed = Seqs)

(* The parts of the library that are called by a device on each side
   (wifi_coding.c, wifi_mac.c, wifi_phy.c, bluetooth_core.c, bluetooth_ble.c,
   wifi_bt_core.c) keep what the properties of each say when it runs, no message
   of the mesh is heard beyond its time to live, and the parts that keep state
   keep its types.  Punctured words, interleaved blocks, symbols of BPSK and
   16-QAM, control frames, aggregated payloads, headers, advertisements and
   sealed texts are what the other side reads.  Where the other side reads
   something else in the code, the property concerned says so: words that were
   encoded (NearestPath), QPSK, 64- and 256-QAM (SymbolsReturn), data frames
   (DataWhole) and ciphered links that alternate (LinkReads). *)
WirelessSound ==
  /\ TypeOK /\ DcfTypeOK /\ BaTypeOK
  /\ running = "mesh" => WithinTtl
  /\ running = "coding" => WifiCodingSound
  /\ running = "frames" => WifiFramesSound
  /\ running = "phy" => WifiPhySound
  /\ running = "baseband" => BasebandSound
  /\ running = "host" => BleHostSound
  /\ running = "core" => WifiBtCoreSound
=============================================================================
