# Verification of mini-wireless-mobile-comm

The repository is a set of eight independent C libraries (about 50,000 lines with headers,
examples and tests) on mobile communication. They hold two kinds of code. Protocol state machines keep state from
call to call: a handshake, handover procedures, a duty-cycle tracker, a rate controller, a
flooding mesh, channel access, block acknowledgement, timers, caches, schedulers. Transformations
come in pairs that must undo each other, on two devices that call them separately: codes, frames,
ciphers, hop sequences, derivations of keys. This project models both in TLA+, checks them with TLC
and proves what matters most about the state machines with TLAPS.

Paths below are relative to `src/`. No library calls another one, no library starts a thread,
and none stores anything on disk. Concurrency comes from outside: two peers and the network between
them, several stations on a medium, several callers of one tracker, a radio environment that
changes between two calls. The models make that environment explicit and let it act at any step.

## Inventory

| Library | File | What it keeps or computes | Hard behaviour | Model |
|---|---|---|---|---|
| mini-wireless-security | wireless_auth.c | WPA2 four-way handshake: `handshake_ctx_t` of each side | lost, repeated, reordered frames; restarts | WpaHandshake |
| | wireless_key_mgmt.c | key hierarchy: `key_mgmt_ctx_t` | both ends order inputs for themselves; new group keys between derivations | SecurityProtocol |
| | wireless_protocol.c | RSN element and negotiation, `sae_ctx_t` | elements cut short; commits cross and repeat | SecurityProtocol |
| | wireless_crypto.c | AES, CCMP, GCMP, SHA-256, HMAC, PBKDF2, RC4 | message lengths around block ends; rejection after decryption | WirelessCrypto |
| | wireless_attack.c | intrusion detector: `ids_state_t` | counts of one window carried into the next | SecurityProtocol |
| | wireless_phy_sec.c | formulas | | no |
| mini-handover-mobility | handover_protocol.c, handover_types.c | X2 procedure, RRC transitions, recovery: `UEContext` | each procedure may fail at four steps; RRC events between steps | X2Handover |
| | handover_protocol.c | 802.11r transition, admission, 802.11k, choice of network | a key that leaves the cache during a transition | NetworkSelection |
| | handover_decision.c, handover_optimize.c, demos/demo_handover_trace.c | event A3, time to trigger, ping-pong, MRO | levels and parameters change while a counter runs | HandoverTrigger |
| | handover_decision.c, handover_optimize.c, handover_types.c | other events, rankings, prepared targets, prediction, load, reports | a report used later than it was made | NetworkSelection |
| | mobility_model.c | movement of users | borders, pauses, flights that last | UserMobility |
| | signal_measurement.c, handover_optimize.c, examples/ | filters, tuning; the programs that call all of it | state of a filter after a handover | MobilityDemos |
| mini-cellular-network | cell_network_handover.c | decision engine: `ho_decision_engine_t` | reports that list other cells in another order | CellHandover |
| | cell_network_scheduler.c | `sched_context_t` | fairness over many intervals | CellScheduler (PF), CellRadio |
| | cell_network_model.c, _capacity.c, _deployment.c, _defs.c | grids, reuse, channels, sites, tables, neighbour relations | limits of tables and of formulas | CellPlanning |
| | cell_network_link.c, _power.c, _deployment.c, examples/ | links, ranges, power control | inversion of a formula beyond its limits | CellRadio |
| mini-lora-nbiot | lora_mac.c | duty cycle: `lora_duty_cycle_tracker_t` | check and record are separate calls; the window turns between | LoraDutyCycle |
| | lora_mac.c | rate control: `lora_adr_state_t` | 8-bit counter wraps; hunting | LoraAdr |
| | lora_mac.c | join, keys, frames, codes: `lora_join_procedure_t`, `lora_session_t` | an air that repeats and delays | LoraFrames |
| | lora_packet.c, lora_modem.c | packet pipeline | seven stages undone in the opposite order | LoraFrames |
| | lora_modem.c | chirp modem | detector against generator | LoraModem |
| | nbiot_power.c, nbiot_phy.c | PSM, eDRX: `nbiot_psm_state_t`; cell search, codes, signals | one expiry per step of time, however long the step | NbiotNode |
| | lora_linkbudget.c, channel_model.c | budgets, energy, payloads, interference | signed values in two bytes; reuse of a report | LpwanLink |
| mini-wifi-bluetooth | wifi_mac.c | DCF channel access | stations overtake each other | WifiDcf |
| | wifi_mac.c | block acknowledgement: `wifi_block_ack_t` | late frames and late replies | WifiBlockAck |
| | wifi_mac.c | frames, aggregation, EDCA | foreign and truncated frames | WifiFrames |
| | wifi_phy.c, wifi_coding.c | carriers, constellations, space-time code; convolutional code, puncturing, LDPC | patterns whose period does not divide the length | WifiPhy |
| | bluetooth_core.c, wifi_bt_core.c | hopping, channel maps, packets, voice slots, cipher; tables | clocks that wrap; registers shared by all links | BtBaseband |
| | bluetooth_ble.c | link layer, advertising, attributes, pairing | two ends with different histories | BleLink |
| | bluetooth_ble.c | mesh relay: cache of each node | copies overtake each other; small caches | BleMesh |
| | wireless_security.c | cipher, SAE, pairing | both directions format blocks on their own | WifiSecurity |
| mini-5g-nr-phy | nr_phy_coding.c, nr_phy_pdcch.c | CRC, LDPC, polar code; search spaces, control information, data channel | circular buffers, hashes that overflow | NrControl |
| | nr_phy_common.c, nr_phy_ofdm.c, nr_phy_ssb.c | carriers, bandwidth parts, block sizes, grids; synchronisation | parts configured again; sequences that repeat | NrCarrier |
| | nr_phy_mimo.c, nr_phy_channel.c | detection, channel | | no |
| mini-channel-model | pathloss.c | path loss formulas | breakpoints | PathLoss |
| | the other files | fading, Doppler, multipath, MIMO channels | | no |
| mini-beamforming-massive-mimo | all | arrays, precoders, direction finding | | no |

What makes each of these correct:

* handshake: an access point completes only under a key the station holds and has confirmed;
* handover: the user ends up at the cell that admitted it, or stays; the procedure ends; every
  procedure is counted once; decisions are neither premature nor lost, and the user comes to rest;
* duty cycle: no window takes more than its budget, and nobody is refused for ever;
* rate control: a poor link is answered in time and a steady one settles;
* session: a frame is taken once, in order, under the session it was built in;
* mesh: no message is relayed twice or too far, floods end, what is not lost reaches everybody;
* channel access: stations overtake each other a bounded number of times;
* block acknowledgement: nothing is confirmed that has not arrived, and everything gets through;
* scheduler: every user is served again and again, and every block is given out;
* codes, frames and ciphers: what one end forms the other one reads, or refuses;
* keys: two ends agree exactly where their inputs do;
* formulas that are used together: one inverts the other within the limits of both.

## Modules

| Module | Models | State ↔ code |
|---|---|---|
| `WpaHandshake` | wireless_auth.c, one action per `handshake_*` function | `ap`, `sta`: the two contexts; `net`: frames in flight; `sent`: history of frames |
| `KeyAgreement` | what the handshake promises: offer, grant, confirm, complete | refined by `WpaHandshake` |
| `SecurityProtocol` | wireless_key_mgmt.c, then wireless_protocol.c, then the detector of wireless_attack.c | `kh`: a context and its last derivations; `sp`: a configuration on its way; `sae`: two contexts and the messages sent; `ids`: `ids_state_t`; `heard`: history of frames |
| `WirelessCrypto` | wireless_crypto.c: ciphers, then hashes | `wc`: the message on its way; `wh`: the context in use and how much it was fed |
| `WifiSecurity` | wireless_security.c of mini-wifi-bluetooth | `ws`: how far the two ends are, and what they hold |
| `X2Handover` | `ho_lte_x2_procedure_step` (one action per state of its switch and outcome), `ho_rrc_state_transition`, `ho_failure_recovery` | `ue`: `UEContext`; `st`, `rrc`, `goal`: what the caller keeps; `cell`: admission fields of `CellInfo` |
| `MobilityService` | what a handover promises the user: prepare, commit, give up, re-establish | refined by `X2Handover` |
| `HandoverTrigger` | the loop of the demonstration over `ho_decision_event_a3`, `ho_detect_pingpong`, `ho_mro_diagnose`, `ho_mro_correct` | `counter`, `serving`: loop variables; `hist`: records with ages in place of times; `ttt`, `offset`, `cio`: what MRO turns |
| `NetworkSelection` | the other decisions; then reports, prepared targets, prediction, admission, 802.11r | `nsl`: what was ranked or the choice in force; `has`: reports, counters, caches |
| `UserMobility` | mobility_model.c | `mob`: position, heading and what the model keeps of a user |
| `MobilityDemos` | signal_measurement.c and the tuning in handover_optimize.c; then examples/ | `sgt`: filter states; `dmo`: the variables of an example's loop |
| `CellHandover` | `ho_process_measurement`, `ho_set_target`, `ho_reset_engine`, `ho_config_init_default` | `count` per place of the report, as `neighbor_states[i]` |
| `CellScheduler` | `sched_proportional_fair` over time | `avg`: `avg_rate_mbps` |
| `CellPlanning` | cell_network_model.c, _capacity.c, _deployment.c, _defs.c | `cpl`: a grid, a table of neighbours, what was computed last |
| `CellRadio` | cell_network_link.c, _power.c, _deployment.c and the filter of _handover.c; then the table and disciplines of _scheduler.c, and examples/ | `crd`: a link, commands, filtered levels; `crs`: the users of a cell |
| `LoraDutyCycle` | `lora_duty_cycle_check`, `_record`, `_wait_sec` for several callers | `acc`, `elapsed`: the tracker; `granted`: checked and not recorded; `log`: what was sent, by age |
| `LoraAdr` | `lora_adr_update` | `sf`, `cnt`, `margin`: `lora_adr_state_t`; levels in half dB, so that thresholds are whole numbers |
| `LoraFrames` | lora_packet.c with the codes of lora_modem.c; then join, session and frames of lora_mac.c | `lp`: the packet; `lsDev`, `lsNet`: both ends; `lsAir`: every message sent |
| `LoraModem` | chirp generation and `lora_demodulate_symbol_fft` | phases are integers modulo the circle, so magnitudes are exact |
| `NbiotNode` | nbiot_power.c and the cell search; then codes and signals of nbiot_phy.c | `nbPsm`: `nbiot_psm_state_t`; `nbSearch`: `nbiot_cell_search_t`; `nba`: a block or a frame of samples |
| `LpwanLink` | lora_linkbudget.c, channel_model.c and the budgets of lora_modem.c, nbiot_power.c; then the payloads | `lpk`: a plan; `lrp`: a report on its way and the one the server holds |
| `PathLoss` | pathloss.c, and the formulas two other libraries also have | `pls`: a site and two distances |
| `BleMesh` | `ble_mesh_msg_init`, `ble_mesh_relay_decision` on every node | `cache`: the array each node passes in; `air`: transmissions not heard yet |
| `BleLink` | the link layer and the host side of bluetooth_ble.c | `llState`, `conn`, `dataCh`, `goodMap`: both ends of a connection; `blh`: the service, keys, the sealed text |
| `WifiDcf` | `csma_channel_access`, `csma_backoff_duration`, `csma_cw_double` on every station | `backoff`, `cw`; `onAir`: who transmits |
| `WifiBlockAck` | all `block_ack_*` functions, between an originator and a recipient | `ba`: `wifi_block_ack_t`; `rxQueue`, `reply`: what is in flight |
| `WifiFrames` | frames, aggregation and access categories of wifi_mac.c | `wfr`: what was built and what was read |
| `WifiPhy` | wifi_phy.c; then wifi_coding.c | `wpy`: a symbol; `wcd`: a word on its way |
| `BtBaseband` | bluetooth_core.c; then wifi_bt_core.c | `btb`: a piconet, a packet, a schedule, the links of a cipher; `wbc`: what was computed last |
| `NrControl` | nr_phy_coding.c; then nr_phy_pdcch.c | `nc`: a word on its way; `ncc`: a search, a control word, a block |
| `NrCarrier` | nr_phy_common.c and nr_phy_ofdm.c; then nr_phy_ssb.c | `carrier`: the configuration; `waveform`; `nss`: a signal and what was found in it |
| `Bits`, `Exact` | integers of C on bits and bytes, with the tables of AES; fractions and fixed-point logarithms in place of `double` | none |

Operators named "Mutant" in a module are variants of the definition below them, with a mistake a
maintainer could make. They are not used by the specifications; each stands for one property, which
it breaks. An invariant that joins the promises of several parts has one for each of them.

### Composition

Most components share no state, so a product of their state spaces would only multiply them.
`MCMobility`, `MCLoraNode`, `MCWifiBluetooth` and `MCSecurity` therefore compose the parts of one
family as alternatives: a variable `running` says which part acts, the others rest in one of their
initial states, and each part keeps its own fairness. Parts that do call each other are composed by
calling: the examples use the decisions, measurements, reports and path losses of their libraries,
the data channel uses the codes and the carrier, frames use the check of the coding part, the
protocols use the ciphers and hashes.

`NetworkSound`, `LowPowerSound`, `WirelessSound` and `CiphersSound`, and within one module
`ProcedureSound`, `NodeSound`, `BleLinkSound`, `DerivationsSound` and `HashSound`, are
conjunctions of the promises of those parts. Each conjunct is a named definition in the module of
its part (`SelectionSound`, `MobilitySound`, `PathLossSound`, `WifiFramesSound`, `ProtocolSound`, ...), itself
a conjunction of named parts, each with a comment that says what could go wrong.

### Environment and abstractions

* In `WpaHandshake` frames, nonces, keys and cells are model values or records and cryptography is
  perfect: a PTK is the master key with the set of nonces it was derived from (the code sorts them),
  a MIC is the PTK it was computed under. `SecurityProtocol` takes a keyed hash as the term of its
  inputs. `WirelessCrypto`, `WifiSecurity`, `LoraFrames` and `BleLink` compute their ciphers byte by
  byte.
* `net` is a set: a delivery may leave the frame in place (duplicates, up to `MaxDups`) and any
  frame may wait for ever (loss). Either side may be initialised again (`MaxInits`). The air of
  `LoraFrames` and of the simultaneous authentication keeps every message for ever.
* Counters that wrap in C wrap in the model: the replay counter, the `uint32_t` handover and
  failure counters and the `uint8_t` of the rate controller, with small moduli in the runs.
* `rand()` and what generates nonces is a choice from the range of its result.
* Floating point. Where a library's numbers are fractions (averages, filters, probabilities, traffic)
  they are exact fractions; where it takes logarithms and powers they are fixed point, within a
  hundredth of a dB; where it samples a signal, amplitudes are whole numbers and Fourier transforms
  are taken as what they are between two ends, the identity on a numbered grid. No property hangs
  on a difference as small as the rounding; levels whose two sides a rounding could decide are left
  out of the inputs, and the configuration says so.
* `WifiBlockAck` numbers frames without the wrap of the 12 bits, which the code does not treat
  either. `BleMesh` does not reach sequence numbers 2^16 apart. `CellHandover` switches the L3
  filter off (coefficient 0); `CellRadio` has the filter. `CellScheduler` keeps the
  channel steady and rounds averages to 1 kbit/s; the starvation it shows has a margin far
  above the rounding (metrics of 0.027 and 0.040).

## Runs

| Run | Question | Bounds |
|---|---|---|
| `handshake_agreement` | Safety and the refinement of `KeyAgreement` | 2 passphrases, 2 nonces (so nonces repeat), 2 exchanges, 1 duplicate, 1 restart of a side, counter mod 4 |
| `handshake_gtk` | finding: the group key is not delivered intact | 1 exchange |
| `security` | One exchange of the handshake ends as it should; ciphers, hashes, keys, negotiation, authentication, detection | lengths on both sides of block ends; 2 commits against 1, 2 passwords; both lengths of pairwise key; windows of 3 units |
| `mobility` | Safety, the refinement of `MobilityService`, requests end, the user rests, nothing is missed; decisions, movement, measurement, planning, links, schedules; the NR physical layer | X2: 2 cells, 3 procedures, 2 recoveries, counters mod 4. Trigger: 3 cells, 3 levels, 1 to 3 periods to trigger, 1 correction, margin from 0. Engine: 3 cells, 3 samples. The others: inputs listed in `MCMobility`, on both sides of every limit the code compares with |
| `x2_underflow` | finding: the failure counter goes below zero | 2 procedures, counters mod 16 |
| `handover_pingpong` | finding: a ping-pong after a long stay is not flagged | 3 cells, window of 4 periods |
| `cell_handover` | finding: a cell inherits the samples of another | 2 cells, reports of any order and length |
| `cell_scheduler` | finding: a weak user starves | 2 users, CQI 1 and 15, 25 blocks of 180 kHz |
| `lora_node` | Duty cycle and rate control: safety, refusals end, the rate settles; sessions, packets, power saving, payloads, links, path losses | 2 callers, frames of 1 and 2 units, budget 2, period 4; 8 link levels on and beside the thresholds, 3 frames of delay, counter mod 5; 2 joins, frames of a session bounded, payloads of 7 and 8 bytes (the last length at which the code of a frame depends on the session, and the first at which it does not); all coding rates |
| `duty_cycle_wait` | finding: the wait is too short | 1 caller |
| `lora_modem` | finding: the detector does not find the symbol | spreading factor 6, all 64 symbols |
| `wifi_bluetooth` | Mesh, channel access, block acknowledgement: safety, floods end, everybody hears, nobody starves, blocks get through; codes, frames, symbols, hopping, connections, attributes | mesh: ring of 3 with a tail, 2 sources, cache of 1 entry, time to live 1, 3 (clamped from 5), 1 loss; access: 3 stations, windows 1, 3, 7; blocks: 2 of 2 frames, a list of 1, 2 replies in flight, 2 losses |

Why these bounds suffice for the interesting cases. Two exchanges with one duplicate and one
restart put frames of an earlier exchange beside those of a later one, in every order; a third
exchange adds no new kind of stale frame. Three procedures let the counters wrap (mod 4) with a
failure, a recovery and a success in any order. A ring with a tail has two ways of different length
to every node and one node that only a relay reaches; one cache entry is the smallest cache, in
which every second message evicts the first. Three stations are needed for one to be overtaken by
two others. Windows 1, 3, 7 let the doubling reach its limit. Two blocks are needed for a frame
or reply to arrive in the block after its own, and a list shorter than the block needs several
rounds. The counter of the rate controller wraps (mod 5) above the delay (3), as 256 is above any
delay. The transformations are checked on inputs that take every branch: lengths around every
block, word and table, values on both sides of every threshold, and every combination of flags.

What the passing runs check, by name:

* `handshake_agreement`: `HandshakeInv`, the types and the inductive invariant `KeyInv`;
  `CompleteIsConfirmed` and `GroupKeyProvenance`; `CountersEchoed`; the refinement
  `ImplementsKeyAgreement`.
* `security`: `KeysMatch` and `MCExchangeEnds` of an exchange without faults; `DerivationsSound` of
  the key hierarchy, the announcement, the keys of crossing commits (`KeyOfCommits`) and the
  detector; `HashSound` of messages fed in any pieces; `CiphersSound`: wireless_crypto.c refuses
  changed texts, and ends that associated by wireless_security.c read each other, but for the
  byte that was changed on the way.
* `mobility`: `ProcedureSound`, the types, counts and connection of the X2 procedure
  (`ProceduresCounted`, `FailuresBounded`, `RrcAgrees`); `TargetAdmitted`, `RequestEnds` and
  `ImplementsMobilityService`; `Spaced`, `NoFalseAlarm`, `Settles` and `NotStuck` of the trigger;
  `TargetHeld` and `NoneMissed` of the decision engine; `NetworkSound`.
* `lora_node`: `WindowBudget`, `OverrunBounded`, `TwoWindowsAtMost` and `RefusalEnds` of the duty
  cycle; `PoorLinkAnswered` and `AdrSettles` of rate control; `SessionSound`, which tells frames
  whose code depends on the session from longer ones; `PacketSound`, which also says where the
  encoder overruns its own buffer (`InterleaverFits`); `NodeSound` of the NB-IoT node: back in time,
  a safe estimate, the identities a search can name; `LowPowerSound`.
* `wifi_bluetooth`: `RelayedOnce`, `FloodEnds` and `AllHear` of the mesh; `OvertakenBounded` and
  `DcfNobodyStarves` of channel access; `NoFalseAck` and `BaAllDelivered` of block acknowledgement;
  `BleLinkSound` of the link layer; `WirelessSound`, which also holds `WithinTtl` of the mesh.

The runs of findings check `GroupKeyDelivered`, `TotalFailures`, `WaitSuffices`,
`PingPongFlagged`, `SymbolRecovered`, `TargetHeld` and `EveryoneServed`, one each.

The type invariants of the parts that keep state from call to call are conjuncts of
`HandshakeInv`, `ProcedureSound`, `NetworkSound`, `LowPowerSound` and `WirelessSound`. The runs of
findings check one module as it is, without an MC module.

### Fairness

Liveness is checked under weak fairness of the following actions only.

* `WpaHandshake`: some step that builds or processes a frame is taken while there is one
  (`Progress`). The examples call the functions in a sequence; this run has no loss and no
  repetition.
* `X2Handover`: the next step of the procedure. The caller calls `ho_lte_x2_procedure_step` in a
  loop until the procedure ends. RRC events and recoveries have no fairness.
* `HandoverTrigger`: an iteration of the loop, which runs once per measurement period. Fading
  and corrections have none: settling is promised only if they stop.
* `LoraDutyCycle`: the clock, a caller that has been told to wait asks again, an allowed frame is
  sent and recorded. `LoraAdr`: frames are sent.
* `BleMesh`: a transmission that is not lost is heard.
* `WifiDcf`: time passes. Which frames fail is left open: even if all do, nobody starves.
* `WifiBlockAck`: frames and replies that are not lost arrive, the recipient records and replies,
  the originator reads replies and goes on to the next block. Losses are bounded.
* `CellScheduler`: intervals follow each other.

Deadlock is not checked where the system may really stop: a finished handshake, a mesh after its
last flood, blocks that are all delivered, a procedure that is over when all the procedures of
the bound have been used up, a transformation that has been undone.

## What is proved

All statements hold for every value of the constants that satisfies the named assumption of the
module (`HandshakeAssumption`, `X2Assumption`, `MeshAssumption`, `WhAssumption`, ...): any number of nonces, cells,
stations, callers, nodes and links, any cache size, window, timer or modulus. The assumptions say
little more than that bounds are natural numbers and that the value "none" is not a proper one;
`BllAssumption` says what callers pass: channel maps with a good channel and hop increments from 5
to 16, outside which `ble_channel_hop` refuses; `LpAssumption` that the parameters of a packet pass
`lora_phy_params_validate` and that its length is an 8-bit number.

* **Handshake** (`WpaHandshake_proofs`). `CompleteIsConfirmed` is not inductive: it says nothing of
  the states on the way. The invariant is `TypeOK /\ KeyInv`: for every state of a side it says
  which frames under its key exist, and whose master key is in it. No clause mentions the network,
  counters or restarts, which is why loss, repetition and reordering do not matter: a frame in
  the air is a frame that was sent. From it follow `Confirmed`, `Passphrases`, and with
  idempotence of `InstallGtk` also `GroupKeyOrigin`; `KeysKnown` states the invariant itself
  (`HandshakeInv`). `Echoed` needs that the counter the station holds is that of a first message
  (`CounterTaken`). `Refinement` maps the frames of types 2, 3 and 4 to the sets of offered,
  granted and confirmed keys and shows each action to be one abstract step or a stutter.
  `BothHoldTheKey` is about one exchange in which no frame is repeated and no side restarts
  (`OneExchange`, the constants of the run `security`): whatever is lost and whatever the
  passphrases, finished sides hold the same key and nonces (`KeysMatch`). Its invariant `Ordered`
  lists the pairs of states the two sides can be in. With a second exchange the statement is false.
* **X2 handover** (`Handover_proofs`). `TypeCorrect`, `Admission` (`TargetAdmitted`), `Phase`
  (`PhaseNotAhead`) and `Connected` (`RrcAgrees`) are inductive given the types. `FailuresStayBounded`
  (`FailuresBounded`) needs `FailInv`: a procedure under way is not counted yet, and a recovery
  that is due finds a counter of 0 only if it has wrapped. `Accounted` (`ProceduresCounted`) rests
  on two facts about remainders: a whole turn of a counter leaves no trace, and one more is one
  more. `ProcedureIsSound` joins them. `Refinement` maps a granted request to `wanted`; the commit
  is the release of the context at the source.
* **Handover trigger** (`Handover_proofs`). `HandoversSpaced` needs `IInv`: the counter
  never exceeds the periods since the last handover (`Fresh`), which a correction of the time to
  trigger leaves alone. `AlarmsTrue` (`NoFalseAlarm`) needs `HistInv`: the newest record is of the
  serving cell, and any other cell of the history was left later than the user came to it, so a
  record young enough for an alarm is of a cell that was left within the window. Ages keep
  their order where they stop growing.
* **Decision engine** (`Handover_proofs`), for reports that list every neighbour in its own
  place (`Stable`; without it `cell_handover` refutes the statement). The engine counts samples by
  place, the properties by cell: the invariant `Agrees` is that these are the same numbers. `Held` says a
  handover is asked for to no cell too early, `Answered` that none is missed.
* **Assistance of handovers** (`Handover_proofs`). `AssistanceHolds` joins `AdmissionHolds`,
  `BalancesLoad`, `FastTransitionDecided` and `DecisionsConsistent` of `NetworkSelection`, for every
  set of cell loads and any number of trials: bounds of admission and of the balanced offset, its
  direction (the one of the code, see below), a transition decided by its first step, and the
  consistency of single decisions. Which network or candidate is chosen is not in it. A transition
  needs the invariant that its state is the one its number of steps leads to (`RoamInv`). Admission
  needs `AdmissionInv`: a load that is no longer the first one was within the threshold when its
  last user was admitted, and did not start with a single user, beside whom `ho_admission_control`
  admits nobody. Reports and prepared targets are model-checked.
* **Duty cycle** (`LoraNode_proofs`). `BudgetKept` needs that without an overlap at most one
  frame is granted and that it still fits the window (`BudgetInv`). `OverrunKept` needs
  `OwedInv`: what is recorded and what is granted exceed the budget together by at most one longest
  frame of every caller but the one answered last, which saw the window as it was.
  `TwoWindows` splits the history at the start of the window (`AirInv`): what is younger is within what
  the tracker counts, what is older came from windows that were bounded in turn and loses at
  every tick what it passes. Sums over callers and ages are numbers of pairs of an index and a
  second, so lemmas about cardinalities replace an induction over the set.
* **Rate control** (`LoraNode_proofs`). A poor link is answered by the `Delay`-th frame, and by the
  one after it if the first poor frame took the 8-bit counter past its width (`wraps`), since that frame
  leaves the count at 0. `PoorLink` (`PoorLinkAnswered`) needs that the poor frames in a row are at
  most the counter and that one, and none once the counter has reached the delay (`PoorInv`): where it
  wraps, a run of poor frames cannot be under way already.
* **NB-IoT node** (`LoraNode_proofs`). `DeviceBack` follows from `AwayInv`, which bounds the absence
  in each state of `nbiot_psm_state_t`: the period and the update, each with an overshoot of less
  than the longest step. `EstimateSafe` needs `Spent`: in unit steps the charge of a cycle is a sum
  of what each state draws for the time spent in it. `NodeIsSound` joins them with `SearchNames`:
  whatever the decoder of the secondary signal is given, it names the first of the identities with
  the same signal, so 3 to 5 and 393 to 503 are never named. That a search finds the cell on the air
  is not promised and not true of the code (see below).
* **Session** (`LoraNode_proofs`). `SessionsKept` (`SessionSound`): in a session every frame is
  taken once and in order; a frame of at most 7 bytes of payload is taken only in the session it was
  sent in. The model computes codes by the stand-in cipher of lora_mac.c. For two blocks the proof
  shows that the code tells the four bytes a session's key has (`Keyed`, `CodeTells`); from three
  blocks on they cancel out, and nothing is claimed of sessions. The invariant `LsInv` says that
  every message on the air is an accept or a frame of a session that some accept answered, that both
  ends are in such sessions, and that what was taken under the network's present key is behind its
  counter.
* **Packet pipeline** (`LoraPacket_proofs`). `PacketHolds` (`PacketSound`) is a proof of the whole
  transmission, from the payload to what the receiver makes of it. The invariant `LpInv` says that a
  packet on the air is the sender's but for one symbol (`OnAir`) and a received one is the
  receiver's work on that. Sender and receiver are compositions of stages over bits; the Gray map,
  whitening, the interleaver and the Hamming code (`HammingUndone`) are each undone by their
  counterpart, at every spreading factor and coding rate, which gives the untouched packet. A
  changed symbol is one row of the interleaver, which `Decoding` and `Arrives` turn into at most
  four neighbouring half bytes after the Hamming code, because a row of `sf` bits meets no more
  codewords than that. `CrcFindsBursts` is what remains: the register of `lora_crc16` is run back
  from its end; where two registers agree in their lowest k digits after half a byte they agreed in
  k - 4 before it, so after four half bytes that may differ nothing is left to differ. Since the
  checksum itself is part of what may have changed, the message is taken with its checksum behind
  it, which has the checksum 0 (`CrcEnds`). `BufferHolds` compares the symbols of the encoder with
  the formula of the data sheet, by arithmetic for each spreading factor, and `InterleaverFits` the
  interleaved bits with the encoder's own buffer.
* **Numbers and bits** (`Bits_proofs`) holds what several of these proofs need: least elements and
  induction over the rounds of a loop, parts and concatenations of sequences, the folds of the
  library as runs from the first element to the last, exclusive or digit by digit.
* **Mesh** (`WifiBluetooth_proofs`). `DuplicatesSuppressed` needs `CacheInv`: the tally of a message is
  the number of cache entries that hold it, and no two entries hold the same. `WithinReach`
  (`WithinTtl`): a transmission with time to live left was reached by a walk along links as long as
  what has been used up, and walks grow by one link per relay.
* **Wi-Fi** (`WifiBluetooth_proofs`). `DcfFair` follows from `SlotsPaid`: a station that has been
  overtaken n times has counted off at least n - 1 slots, because between two transmissions there is an
  idle slot. `BaNoFalseAck` needs `AckInv`: bits of the bitmap and of every reply stand for
  frames that have arrived, whatever block they belong to.
* **BLE link** (`WifiBluetooth_proofs`). `LinkSoundKept` (`BleLinkSound`): accepted parameters keep the
  link through the longest allowed silence by arithmetic on their limits; a hop is on a good
  channel because the ranks of good channels fill 0 to n - 1, by counting; 37 hops use every
  channel because each increment has an inverse modulo 37; `BllInv` keeps the states of the two ends
  together.
* **Keys, authentication, detection** (`SecurityProtocol_proofs`). `HierarchyHolds`: every derivation
  that was made is a code of its master key and its nonces in order, so it does not depend
  on who derives (`KhInv`); bytes of an expansion are told apart by their label and place, which keeps
  the parts of a key apart. A derivation for TKIP either stops the program or leaves the
  same parts. `CommitsHold` (`KeyOfCommits`): from its answer until it commits again a side holds the key
  of its own last commit and of one its peer sent (`SaeInv`).
  `BurstSeen`: `BurstInv` relates the times of the last frames to the start of the window and to the
  count, through the window's renewal amid a burst. `AnnouncementHolds`: what a reader makes of an
  announcement that was cut never claims more than what was announced, and two ends settle on the
  same whichever of them is asked. `DerivationsHold` joins the four.
* **Hashes and streams** (`WirelessCrypto_proofs`). `HashSoundHolds` (`HashSound`): a message fed in
  any pieces has the digest of the padded message, whatever its length; the same holds of a keyed
  hash; a stretched key has the length asked for and begins with the sum of two chained codes; a
  stream of RC4 is undone by the stream taken at once, and its state remains a permutation. The
  invariant `WhInv` says what a context is of the message fed so far: a SHA-256 context is the
  digest of its whole blocks and the rest (`Fed`), a keyed hash two of those (`Keyed`), an RC4
  context the stream after as many rounds as bytes (`RcCtx`). The end of a message is two cases, as
  its length fits behind the end mark or takes a block more. Loops are folds and recursive
  functions; a loop is shown to be a chain of its rounds, and what holds of every round by a least
  counterexample (`LeastOf`, `ByRounds`), in place of an induction theorem.

Only model-checked, and why:

* All liveness, which needs fairness and ENABLED: `MCExchangeEnds`, `RequestEnds`, `Settles`,
  `NotStuck`, `RefusalEnds`, `AdrSettles`, `FloodEnds`, `AllHear`, `DcfNobodyStarves`, `BaAllDelivered`.
* What most transformations compute (`NetworkSound`, `WirelessSound`, `LowPowerSound`): each is a
  conjunction over many small codecs and formulas in folds, tables and fixed point, and every loop
  needs a chain of lemmas of its own (that of the packet pipeline took some 150). Of their
  conjuncts, types of the stateful parts and `WithinTtl` are proved.
* `CiphersSound`: that a changed text is refused is true of the keys and changes of the run and not of
  all, since a code of eight bytes has collisions; that AES is undone by its inverse rests on the
  arithmetic of its field.
* Properties of codes that hold for the keys and lengths of a run and not for all.
* The scheduler and the modem, whose runs refute what is said of them.

## What the checks found

Seven runs show a disagreement between the code and what the repository says of it:

* `handshake_gtk`: `handshake_process_msg3` stores the key id as the first byte of the group key.
* `x2_underflow`: `ho_failure_recovery` takes the `uint32_t` failure counter below zero.
* `duty_cycle_wait`: `lora_duty_cycle_wait_sec` assumes that budget comes back continuously; it
  comes back when the window turns.
* `handover_pingpong`: the stay in the cell counts against the ping-pong window.
* `cell_handover`: samples are counted per place in the report, so a cell inherits those of another.
* `cell_scheduler`: averages of users without blocks are not updated, so a weak user starves.
* `lora_modem`: the samples are multiplied by the conjugate of the down-chirp, which doubles the
  quadratic phase instead of removing it.

### Behaviour modelled as it is

The properties are stated for what the code does. Where that is not what a comment says or a
reader expects, the model follows the code; these are the places, for whoever reads a property and
wonders at its premise.

* **LoRa and NB-IoT.** The whitening register does not have the period of 511 that lora_modem.c:592
  names; lora_packet.c maps to Gray code where its comment (33-34) says from it; the interleaver
  rotates within a symbol; packets of fewer than 8 symbols are refused; the parity of coding rate
  4/8 is not used. At coding rate 4/8 the bits that fill up the last symbol are written beyond the
  encoder's buffer (lora_packet.c:240), which has a byte for each bit of 8 per half byte and none to
  spare (so are those of the empty packet at 4/7 and spreading factor 11); there the model both goes
  on as if nothing else lay there and says overrun (`InterleaverFits`). `lora_peek_header` neither
  deinterleaves nor dewhitens, as its comments tell (lora_packet.c:482-511): `PeekIsEarly` says what
  its answer depends on and not that it is that of the packet. With an implicit header
  `lora_packet_buffer_size` leaves out the header that `lora_encode_packet` writes all the same, so
  the buffer "needed for packet encoding" (lora_packet.c:463) can be one symbol short:
  `BufferSuffices` speaks of explicit headers. `lora_verify_mic` writes the computed code over the
  received one; keys depend on the network's nonce only; a join accept in any state resets the
  counters. The code of frames is that of a stand-in, as lora_mac.c:201 says, where lora_mac.h:308
  speaks of tampering that is prevented: with 8 bytes of payload or more it is the same under the
  keys of all sessions. The rate controller answers a frame late where its counter wraps
  (lora_mac.c:474-478). `nbiot_cell_search_process` compares samples that were not demodulated, and
  always with the signals of frame 0 (nbiot_phy.c:661-683), so that it may name another cell, and
  never names 3 to 5 and 393 to 503. lora_mac.h:228 calls a tumbling window "sliding"
  (`TwoWindowsAtMost` states what does hold). The meter's frame carries 4 of the 8 bytes of a
  reading. Power saving is always chosen over eDRX. Four path loss models have no formula and answer
  -1; the two-ray loss steps down at its breakpoint.
* **Handover.** An A3 offset is decreased where the comment in handover_optimize.c says increased.
  Balancing lowers the offset towards the fuller cell, as handover_optimize.c:206 wants, by a
  difference of the opposite sign to the formulas of handover_optimize.h:107 and
  handover_optimize.c:209. `ho_optimize_hysteresis` answers an end of its range. Waypoint users
  without a pause keep their first destination; a flight leaves the area between the steps that wrap
  it; reflection turns the velocity and not the heading. The LTE example hands over at most once:
  the flag that is to be taken back "after some time" (example_lte_a3.c:203) waits for a count of
  zero, which is frozen while the flag is set. It does not exchange its filters. The Wi-Fi example
  takes the first access point that qualifies.
* **Cellular.** The sides of a ring are walked in an order that closes around another centre than
  the one cell_network_model.h:137 names, so a filled grid repeats places. `estimate_cell_range_km`
  answers the end of its interval for every positive loss, because its formula refuses the first
  midpoint. Reuse groups of some sizes give neighbours one group. Power commands accumulate beyond
  the limit they are cut to. New neighbours are filtered from 0 dBm.
* **Wi-Fi and Bluetooth.** The decoder's trellis shifts the other way round than the encoder and
  expects of a branch what depends on the state alone (wifi_coding.c:83, 214-220), so that what it
  makes of an encoded word is the nearest path of another code (`NearestPath`) and not the word;
  three entries of the CRC-32 table differ from the standard's; the hard decision of QPSK is always
  0 and tables of 64-QAM and 256-QAM are not inverted, where wifi_phy.c:537 says nearest point
  (`SymbolsReturn` says what is left); the Alamouti encoder writes the first slot. Data frames are
  built with a version bit (wifi_mac.c:236) that the library's own parser refuses (wifi_mac.c:286),
  so `DataWhole` is about their length only. A BLE hop starts from the remapped channel where
  bluetooth_ble.h:182 says last unmapped. The cipher's registers are static (bluetooth_core.c:712),
  so a link reads what was sent only while no other one is used (`LinkReads`); hops go by the slot
  number, which does not wrap with the clock. The code of a sealed BLE text is not compared, nor
  that of a CCMP text in wireless_security.c, where the headers promise -1 (bluetooth_ble.h:351,
  wireless_security.h:137): changed texts are read, changed. `csma_channel_access` draws from the
  smallest window only.
* **NR.** The lifting size is the first that fits and not the smallest; reads of the circular buffer
  do not undo the interleaving inside a block; the CRC named a count of bits reads bytes; 336
  identities share at most 128 secondary sequences; the hash of a candidate may be negative; 16QAM
  bits come back inverted and soft bits above are zero.
* **Security.** The counter of a CCMP text starts at 0 where a comment says 1; a GCMP text uses four
  bytes of its counter block; two ends of the simultaneous authentication hash each its own scalar
  first (wireless_protocol.c:495, 532) and accept only when both are equal, and the key has nothing
  of the password, so that they agree is not stated; a pairwise key for TKIP is 64 bytes in a buffer
  of 48 (wireless_key_mgmt.c:93, 100, 132), after which the program goes on or stops; the caching of
  master keys and the use of 802.1X are not read as announced; the negotiated configuration for
  personal modes loses the name of the network.

## Not modelled, and why

* Random processes and linear algebra in floating point: fading, Doppler, multipath and MIMO
  channels (mini-channel-model, nr_phy_channel.c), beamforming, MIMO detection (nr_phy_mimo.c),
  physical-layer security formulas. They keep no protocol state, their results are real numbers, and
  what could be said of them in whole numbers would be said of another program.
* Modulators that produce samples (GFSK, OFDM transforms, the chirp generator with a running phase),
  error vector magnitude, peak-to-average ratios, spectral masks.
* The SC and SCL decoders of the polar code, the EXP/PF scheduler, throughput fixed points
  (Bianchi), failure probabilities, percentiles, great-circle distances.
* A block acknowledgement across the wrap of the 12-bit sequence number (wifi_mac.c:488) and mesh
  messages 2^16 apart (bluetooth_ble.c:753): the code takes no modulus in the first case and keeps
  16 of 24 bits in the second, and the models stay below.
* Demonstrations of weaknesses, benchmarks and tests are callers. The Lean files are statements in
  another proof language and not built.

`PROJECT.json` lists every component with its status; the map covers about 31 % of the lines
of the implementation, headers and callers included. A helper without an entry of
its own in the map belongs to the definition that uses it, whose lines include its own; the `Init`,
`Next` and specification of a part that only transforms data stand for its callers and have none.

## Plan

Done: the protocol state machines with their proofs, and the transformations of six libraries.

What would add most next:

1. More proofs: the RSN element and negotiation, association of `WifiSecurity`, reports and prepared
   targets of `NetworkSelection`, movement within the area in `UserMobility`, hop sequences of a
   piconet, and the ciphers of `WifiSecurity` as far as they undo each other.
2. Adaptive beamforming weights (beamforming_adaptive.c) as recursions over complex fractions,
   and the delay line of multipath.c: the two places where the remaining libraries keep
   state from call to call.
3. `CellScheduler` with users that join, leave and empty their buffers over time.
