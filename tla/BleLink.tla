------------------------------- MODULE BleLink ------------------------------
(***************************************************************************)
(* The link layer of bluetooth_ble.c: the state machine of two devices, the  *)
(* parameters of their connection, and the hop to the next data channel      *)
(* before every connection event.                                            *)
(*                                                                         *)
(* Times are in units of 0.5 ms.  Connections are the caller's, as in        *)
(* examples/example_ble_health_monitor.c: both devices enter the connection  *)
(* together, each hops with the channel it used last, and the link is given  *)
(* up when nothing was heard for the supervision timeout.  The peripheral    *)
(* may sleep through as many events as the latency allows, and an event it   *)
(* attends may be lost, but never two attended ones in a row.                *)
(*                                                                          *)
(* The second part has the host: advertising, attributes, pairing.          *)
(***************************************************************************)
EXTENDS Integers, FiniteSets, FiniteSetsExt, Bits

CONSTANTS
  BllParams,  \* the parameters tried: interval, latency and supervision timeout
  BllMaps,    \* the channel maps a caller sets
  BllHops,    \* the hop increments a caller sets
  BllEvents   \* bound on the events of a connection

(* A hop is refused without a good channel; these are the maps and increments
   with which a connection goes on. *)
ASSUME BllAssumption ==
  /\ \A q \in BllParams : q[1] \in Int /\ q[2] \in Int /\ q[3] \in Int
  /\ \A map \in BllMaps : map # {} /\ map \subseteq 0 .. 36
  /\ BllHops \subseteq 5 .. 16 /\ BllEvents \in Nat

BLE_LL_STANDBY == 0
BLE_LL_ADVERTISING == 1
BLE_LL_SCANNING == 2
BLE_LL_INITIATING == 3
BLE_LL_CONNECTION == 4
DataChannels == 0 .. 36
Refused == -1

VARIABLES
  llState,   \* the link-layer state of each device
  conn,      \* the parameters of the connection; interval 0 when there are none
  dataCh,    \* current_data_ch
  goodMap,   \* the channels with channel_map[i] = 1
  hopInc,    \* hop_increment
  event,     \* conn_event_counter
  slept,     \* events in a row the peripheral did not attend
  unheard,   \* time since the peripheral heard the central
  missed,    \* whether the event it attended last was lost
  visited    \* the data channels used in this connection

bllVars == <<llState, conn, dataCh, goodMap, hopInc, event, slept, unheard, missed, visited>>

Device == {"central", "peripheral"}
NoConn == [interval |-> 0, latency |-> 0, timeout |-> 0]

(* Mutant: the supervision timeout is compared with one silent period. *)
InitOnePeriod(interval, latency, timeout) ==
  IF \/ interval < 15 \/ interval > 8000 \/ latency < 0 \/ latency > 499
     \/ timeout < 200 \/ timeout > 64000 \/ timeout <= (1 + latency) * interval
  THEN NoConn ELSE [interval |-> interval, latency |-> latency, timeout |-> timeout]

(* The parameters of a connection, or NoConn when they are refused. *)
ble_conn_params_init(interval, latency, timeout) ==
  IF \/ interval < 15 \/ interval > 8000 \/ latency < 0 \/ latency > 499
     \/ timeout < 200 \/ timeout > 64000 \/ timeout <= (1 + latency) * interval * 2
  THEN NoConn ELSE [interval |-> interval, latency |-> latency, timeout |-> timeout]

(* The state after a command: 0 stop, 1 start advertising, 2 start scanning,
   3 initiate a connection, 4 disconnect. *)
Transitions ==
  { <<BLE_LL_STANDBY, 1, BLE_LL_ADVERTISING>>, <<BLE_LL_STANDBY, 2, BLE_LL_SCANNING>>,
    <<BLE_LL_STANDBY, 3, BLE_LL_INITIATING>>, <<BLE_LL_ADVERTISING, 0, BLE_LL_STANDBY>>,
    <<BLE_LL_ADVERTISING, 3, BLE_LL_CONNECTION>>, <<BLE_LL_SCANNING, 0, BLE_LL_STANDBY>>,
    <<BLE_LL_INITIATING, 0, BLE_LL_STANDBY>>, <<BLE_LL_INITIATING, 1, BLE_LL_CONNECTION>>,
    <<BLE_LL_CONNECTION, 4, BLE_LL_STANDBY>> }

ble_ll_state_transition(current, cmd) ==
  LET next == {t \in Transitions : t[1] = current /\ t[2] = cmd}
  IN  IF next = {} THEN Refused ELSE (CHOOSE t \in next : TRUE)[3]

(* Mutant: the remapping takes the channel itself as the place in the list,
   and the first good channel beyond the end of the list. *)
HopUnreduced(last, hop, good) ==
  LET next == (last + hop) % 37
      placed == {c \in good : Cardinality({d \in good : d < c}) = next}
  IN  IF hop \notin 5 .. 16 THEN Refused
      ELSE IF next \in good THEN next
      ELSE IF good = {} THEN Refused
      ELSE IF placed # {} THEN CHOOSE c \in placed : TRUE
      ELSE next

(* The next channel, from the one used last: remapped to a good one by its
   place in the list of good channels. *)
ble_channel_hop(last, hop, good) ==
  LET next == (last + hop) % 37
      remap_idx == next % Cardinality(good)
  IN  IF hop \notin 5 .. 16 THEN Refused
      ELSE IF next \in good THEN next
      ELSE IF good = {} THEN Refused
      ELSE CHOOSE c \in good : Cardinality({d \in good : d < c}) = remap_idx

(***************************************************************************)
(* Steps                                                                     *)
(***************************************************************************)
BllInit ==
  /\ llState = [d \in Device |-> BLE_LL_STANDBY]
  /\ conn = NoConn /\ dataCh = 0 /\ goodMap = DataChannels /\ hopInc = 8
  /\ event = 0 /\ slept = 0 /\ unheard = 0 /\ missed = FALSE /\ visited = {}

(* A command of a host that starts or stops a role; one that is refused
   changes nothing. *)
Command(d, cmd) ==
  LET next == ble_ll_state_transition(llState[d], cmd)
  IN  /\ next \notin {Refused, BLE_LL_CONNECTION} /\ llState[d] # BLE_LL_CONNECTION
      /\ llState' = [llState EXCEPT ![d] = next]
      /\ UNCHANGED <<conn, dataCh, goodMap, hopInc, event, slept, unheard, missed, visited>>

(* The advertiser receives the request of the initiator; the parameters are
   those the caller could initialise. *)
Connect ==
  /\ llState["central"] = BLE_LL_INITIATING /\ llState["peripheral"] = BLE_LL_ADVERTISING
  /\ \E q \in BllParams, map \in BllMaps, hop \in BllHops :
       /\ conn' = ble_conn_params_init(q[1], q[2], q[3])
       /\ conn' # NoConn
       /\ goodMap' = map /\ hopInc' = hop
  /\ llState' = [d \in Device |->
       ble_ll_state_transition(llState[d], IF d = "central" THEN 1 ELSE 3)]
  /\ dataCh' = 0 /\ event' = 0 /\ slept' = 0 /\ unheard' = 0 /\ missed' = FALSE /\ visited' = {}

Connected == llState = [d \in Device |-> BLE_LL_CONNECTION]
TimedOut == unheard >= conn.timeout

(* A connection event on the next channel: slept through, lost, or heard. *)
ConnectionEvent(kind) ==
  /\ Connected /\ ~TimedOut /\ event < BllEvents
  /\ event' = event + 1
  /\ \E ch \in {ble_channel_hop(dataCh, hopInc, goodMap)} :
       dataCh' = ch /\ visited' = visited \cup {ch}
  /\ \/ kind = "slept" /\ slept < conn.latency
        /\ slept' = slept + 1 /\ unheard' = unheard + conn.interval /\ UNCHANGED missed
     \/ kind = "lost" /\ ~missed
        /\ slept' = 0 /\ unheard' = unheard + conn.interval /\ missed' = TRUE
     \/ kind = "heard" /\ slept' = 0 /\ unheard' = 0 /\ missed' = FALSE
  /\ UNCHANGED <<llState, conn, goodMap, hopInc>>

(* A host disconnects, or the supervision timeout ends the link. *)
Disconnect ==
  /\ Connected /\ (TimedOut \/ event = BllEvents)
  /\ llState' = [d \in Device |-> ble_ll_state_transition(llState[d], 4)]
  /\ conn' = NoConn /\ dataCh' = 0 /\ goodMap' = DataChannels /\ hopInc' = 8
  /\ event' = 0 /\ slept' = 0 /\ unheard' = 0 /\ missed' = FALSE /\ visited' = {}

BllNext ==
  \/ \E d \in Device, cmd \in 0 .. 4 : Command(d, cmd)
  \/ Connect
  \/ \E kind \in {"slept", "lost", "heard"} : ConnectionEvent(kind)
  \/ Disconnect

BllSpec == BllInit /\ [][BllNext]_bllVars

(***************************************************************************)
(* Properties                                                                *)
(***************************************************************************)
BllTypeOK ==
  /\ llState \in [Device -> 0 .. 4] /\ dataCh \in DataChannels
  /\ goodMap \subseteq DataChannels /\ hopInc \in 5 .. 16 /\ event \in 0 .. BllEvents

(* Parameters that ble_conn_params_init accepts keep a link on which no two
   attended events are lost in a row: even when the peripheral sleeps as long
   as it may on both sides of a lost event. *)
LinkKept == Connected => ~TimedOut

(* Every event takes place on a channel of the map, whichever channel the
   increment leads to; with all channels good, 37 events use all of them. *)
HopsInMap ==
  /\ visited \subseteq goodMap
  /\ goodMap = DataChannels /\ event >= 37 => visited = DataChannels

(* Neither device is in a connection alone. *)
BothOrNone == \A d \in Device : llState[d] = BLE_LL_CONNECTION => Connected

BleLinkSound == BllTypeOK /\ LinkKept /\ HopsInMap /\ BothOrNone

-----------------------------------------------------------------------------
(***************************************************************************)
(* The host side of bluetooth_ble.c: advertising data and its parser, the    *)
(* attributes of a GATT service under reads and writes, the keys of a        *)
(* pairing, and AES-CCM between two ends that hold a key.                    *)
(*                                                                         *)
(* Names are sequences of bytes without a zero.  Keys and nonces are those a  *)
(* seed spreads over their bytes.  A UUID is a small number.                  *)
(***************************************************************************)

CONSTANTS
  BlhNames,    \* lengths of the names advertised
  BlhMfg,      \* lengths of the manufacturer data advertised
  BlhRooms,    \* lengths of the advertising buffer
  BlhSeeds,    \* seeds of keys and nonces
  BlhTexts,    \* lengths of the texts that are sealed
  BlhAttrs,    \* number of attributes of the service
  BlhWrites    \* bound on the writes and declarations of a service

VARIABLE blh   \* the operation that ran last and what it left

Spread(seed, n) == [i \in 1 .. n |-> (seed * (7 * i + 3) + (i * i)) % 256]
NameOf(n) == [i \in 1 .. n |-> 65 + (i % 26)]

-----------------------------------------------------------------------------
(* Advertising *)

(* The structures that fit, in their order: flags, power, name, data of the
   manufacturer.  One that does not fit ends the data, except the last,
   which is left out. *)
ble_adv_data_format(room, flags, name, tx, mfg, data) ==
  LET base == <<2, 1, flags>>
      power == IF tx = 0 THEN <<>> ELSE <<2, 10, tx % 256>>
      powered == base \o power
      short == SubSeq(name, 1, IF Len(name) > 29 THEN 29 ELSE Len(name))
      titled == powered \o IF short = <<>> THEN <<>>
                           ELSE <<Len(short) + 1, IF Len(short) <= 10 THEN 9 ELSE 8>> \o short
      avail == room - Len(titled) - 2
      copy == IF Len(data) < avail THEN Len(data) ELSE avail
  IN  IF room < 3 THEN <<>>
      ELSE IF Len(powered) > room THEN base
      ELSE IF Len(titled) > room THEN powered
      ELSE IF copy <= 0 \/ Len(titled) + 4 + copy > room THEN titled
      ELSE titled \o <<copy + 3, 255, mfg % 256, (mfg \div 256) % 256>> \o SubSeq(data, 1, copy)

(* The name of the last structure that has one, in a packet that begins with
   the six bytes of the address; the walk ends at a length of zero or beyond
   the end. *)
ble_adv_parse(packet) ==
  LET n == Len(packet)
      Structure(s, i) ==
        IF s.over \/ s.at + 2 > n \/ packet[s.at + 1] = 0 \/ s.at + 1 + packet[s.at + 1] > n
          THEN [s EXCEPT !.over = TRUE]
        ELSE LET length == packet[s.at + 1]
                 copy == IF length - 1 > 30 THEN 30 ELSE length - 1
             IN  [at |-> s.at + length + 1, over |-> FALSE,
                  name |-> IF packet[s.at + 2] \in {8, 9} /\ copy > 0
                             THEN SubSeq(packet, s.at + 3, s.at + 2 + copy) ELSE s.name]
  IN  IF n < 6 THEN [rc |-> -1, addr |-> <<>>, name |-> <<>>, at |-> 0]
      ELSE LET end == Iterate(Structure, [at |-> 6, over |-> FALSE, name |-> <<>>], n)
           IN  [rc |-> 0, addr |-> SubSeq(packet, 1, 6), name |-> end.name, at |-> end.at]

(* The time to the next event, in hundredths of a millisecond. *)
ble_adv_timing(interval, count) ==
  IF interval < 2000 \/ interval > 1024000 THEN -1 ELSE interval + ((count * 7919) % 1000)

-----------------------------------------------------------------------------
(* Attributes *)

NoAttr == [type |-> 0, permissions |-> 0, value |-> <<>>]
ble_gatt_service_init(n) == IF n <= 0 THEN <<>> ELSE [i \in 1 .. n |-> NoAttr]

(* The handle of an attribute is its index. *)
ble_gatt_add_characteristic(attrs, index, uuid, properties, permissions) ==
  IF index < 0 \/ index >= Len(attrs) THEN attrs
  ELSE [attrs EXCEPT ![index + 1] =
          [type |-> uuid, permissions |-> permissions,
           value |-> <<properties, index % 256, (index \div 256) % 256>>]]

Allows(attr, mask) == AndByte(attr.permissions, mask) # 0

ble_gatt_read(attrs, handle, room) ==
  IF room <= 0 \/ handle >= Len(attrs) THEN [rc |-> -1, value |-> <<>>]
  ELSE LET attr == attrs[handle + 1]
           copy == IF Len(attr.value) < room THEN Len(attr.value) ELSE room
       IN  IF ~Allows(attr, 1) THEN [rc |-> -1, value |-> <<>>]
           ELSE [rc |-> copy, value |-> SubSeq(attr.value, 1, copy)]

(* Mutant: the permission to read is enough to write. *)
WriteReadable(attrs, handle, value) ==
  IF value = <<>> \/ handle >= Len(attrs) \/ ~Allows(attrs[handle + 1], 3) THEN attrs
  ELSE [attrs EXCEPT ![handle + 1].value = value]

ble_gatt_write(attrs, handle, value) ==
  IF value = <<>> \/ handle >= Len(attrs) \/ ~Allows(attrs[handle + 1], 2) THEN attrs
  ELSE [attrs EXCEPT ![handle + 1].value = value]

(* The first handles with a type, among the first n attributes. *)
ble_gatt_discover_service(attrs, uuid, n, room) ==
  LET found == SelectSeq(UpTo(IF n < Len(attrs) THEN n ELSE Len(attrs)), LAMBDA i : attrs[i].type = uuid)
      shown == SubSeq(found, 1, IF Len(found) < room THEN Len(found) ELSE room)
  IN  IF room <= 0 THEN <<>> ELSE [i \in 1 .. Len(shown) |-> shown[i] - 1]

-----------------------------------------------------------------------------
(* Keys of a pairing *)

MixRound(key, round) ==
  [i \in 1 .. 32 |->
     LET before == key[((i + 30) % 32) + 1]  after == key[(i % 32) + 1]
         far == key[((i - 1 + 7 * round) % 32) + 1]
     IN  XorByte(XorByte(before, (8 * key[i]) % 256), XorByte(after \div 32, (37 * far) % 256))]

ble_le_sc_dhkey(private, public_x, public_y) ==
  Iterate(LAMBDA key, r : Stored(MixRound(key, r - 1)),
          Stored(XorBytes(XorBytes(private, public_x), public_y)), 3)

KeySum(dhkey, nonce_m, nonce_s, addr_m, addr_s) ==
  Stored([i \in 1 .. 16 |->
    XorByte(XorByte(XorByte(dhkey[i], dhkey[i + 16]), XorByte(nonce_m[i], nonce_s[i])),
            XorByte(addr_m[((i - 1) % 6) + 1], addr_s[(i % 6) + 1]))])

(* Mutant: the mixing overwrites a byte instead of adding to it. *)
DeriveOverwrite(dhkey, nonce_m, nonce_s, addr_m, addr_s) ==
  Iterate(LAMBDA ltk, i : [ltk EXCEPT ![i] = (13 * ltk[((i + 2) % 16) + 1]) % 256],
          KeySum(dhkey, nonce_m, nonce_s, addr_m, addr_s), 16)

(* The bytes are mixed in place, in their order: the last three see the
   first three mixed. *)
ble_f5_ltk_derive(dhkey, nonce_m, nonce_s, addr_m, addr_s) ==
  Iterate(LAMBDA ltk, i : [ltk EXCEPT ![i] = XorByte(@, (13 * ltk[((i + 2) % 16) + 1]) % 256)],
          KeySum(dhkey, nonce_m, nonce_s, addr_m, addr_s), 16)

-----------------------------------------------------------------------------
(* AES-CCM *)

sbox == Tabulated([x \in Byte |-> aes_sbox[x + 1]])

NextRoundKey(prev, rcon) ==
  LET sub(i) == sbox[prev[i]]
      first == <<XorByte(XorByte(prev[1], sub(14)), rcon), XorByte(prev[2], sub(15)),
                 XorByte(prev[3], sub(16)), XorByte(prev[4], sub(13))>>
  IN  Iterate(LAMBDA cur, j : Append(cur, XorByte(prev[j + 4], cur[j])), first, 12)

RoundKeys(key) == Iterate(LAMBDA keys, i : Append(keys, NextRoundKey(keys[i], aes_rcon[i])), <<key>>, 10)

(* The doubling keeps the low eight bits, without reduction. *)
Twice(x) == (2 * x) % 256
Column(s, i) ==
  LET c == 4 * ((i - 1) \div 4)  r == (i - 1) % 4
      at(k) == s[c + ((r + k) % 4) + 1]
  IN  XorByte(XorByte(Twice(at(0)), Twice(at(1))), XorByte(at(1), XorByte(at(2), at(3))))

Shifted(s) == [i \in 1 .. 16 |-> sbox[s[((i - 1 + 4 * ((i - 1) % 4)) % 16) + 1]]]

aes128_encrypt_block_internal(input, keys) ==
  LET Round(state, i) ==
        CHOOSE v \in {Stored(XorBytes([j \in 1 .. 16 |-> Column(s, j)], keys[i + 1]))
                        : s \in {Stored(Shifted(state))}} : TRUE
  IN  Stored(XorBytes(Shifted(Iterate(Round, Stored(XorBytes(input, keys[1])), 9)), keys[11]))

PlainBlock(text, b) == SubSeq(text, 16 * b - 15, IF 16 * b < Len(text) THEN 16 * b ELSE Len(text))
BlockCount(text) == (Len(text) + 15) \div 16

(* The text under the key stream, followed by the code: the counter is one
   byte, 1 for the first block and 0 for the code. *)
ble_aes_ccm_encrypt(text, key, nonce, mic) ==
  LET keys == RoundKeys(key)
      b0 == <<89>> \o nonce \o <<(Len(text) \div 256) % 256, Len(text) % 256>>
      Pad(bytes) == bytes \o Zeros(16 - Len(bytes))
      mac == Iterate(LAMBDA m, b : aes128_encrypt_block_internal(Stored(XorBytes(m, Pad(PlainBlock(text, b)))), keys),
                     aes128_encrypt_block_internal(b0, keys), BlockCount(text))
      KeyStream(n) == aes128_encrypt_block_internal([b0 EXCEPT ![1] = @ % 8, ![16] = n % 256], keys)
      cipher == Iterate(LAMBDA out, b : out \o XorBytes(PlainBlock(text, b), KeyStream(b)), <<>>, BlockCount(text))
  IN  IF mic < 4 \/ mic > 16 THEN [rc |-> -1, out |-> <<>>]
      ELSE [rc |-> Len(text) + mic, out |-> cipher \o XorBytes(SubSeq(mac, 1, mic), SubSeq(KeyStream(0), 1, mic))]

(* The same key stream again; the code that follows the text is not
   compared. *)
ble_aes_ccm_decrypt(sealed, key, nonce, mic) ==
  LET n == Len(sealed) - mic
  IN  IF n <= 0 THEN [rc |-> -1, text |-> <<>>]
      ELSE [rc |-> n, text |-> SubSeq(ble_aes_ccm_encrypt(SubSeq(sealed, 1, n), key, nonce, mic).out, 1, n)]

-----------------------------------------------------------------------------
(* Callers *)

Uuids == {1, 2}
BlhAddress == <<17, 34, 51, 68, 85, 102>>
BlhOther == <<1, 2, 3, 4, 5, 6>>

BlhInit == blh = [op |-> "idle"]

BlhAdvertise ==
  /\ blh.op = "idle"
  /\ \E n \in BlhNames, m \in BlhMfg, room \in BlhRooms, tx \in {0, -4} :
       \E adv \in {ble_adv_data_format(room, 6, NameOf(n), tx, 89, NameOf(m))} :
         blh' = [op |-> "heard", name |-> NameOf(n), mfg |-> m, tx |-> tx, room |-> room, adv |-> adv,
                 heard |-> ble_adv_parse(BlhAddress \o adv)]

BlhSchedule ==
  /\ blh.op = "idle"
  /\ \E interval \in {1900, 2000, 10000, 1024001}, count \in 0 .. 20 :
       blh' = [op |-> "scheduled", interval |-> interval, next |-> ble_adv_timing(interval, count)]

BlhServe ==
  /\ blh.op = "idle"
  /\ blh' = [op |-> "service", attrs |-> ble_gatt_service_init(BlhAttrs), changes |-> 0,
             allowed |-> [h \in 0 .. BlhAttrs |-> {}], written |-> [h \in 0 .. BlhAttrs |-> <<>>]]

(* A declaration by the server; the history keeps what clients may expect. *)
BlhDeclare ==
  /\ blh.op = "service" /\ blh.changes < BlhWrites
  /\ \E h \in 0 .. BlhAttrs, uuid \in Uuids, perm \in 0 .. 3 :
       blh' = [blh EXCEPT
         !.attrs = ble_gatt_add_characteristic(@, h, uuid, 10, perm), !.changes = @ + 1,
         !.allowed = IF h = BlhAttrs THEN @ ELSE [@ EXCEPT ![h] = {p \in {1, 2} : BitOf(perm, p - 1) = 1}],
         !.written = IF h = BlhAttrs THEN @ ELSE [@ EXCEPT ![h] = <<10, h, 0>>]]

BlhWrite ==
  /\ blh.op = "service" /\ blh.changes < BlhWrites
  /\ \E h \in 0 .. BlhAttrs, v \in {<<>>, <<7>>, <<1, 2, 3, 4>>} :
       blh' = [blh EXCEPT !.attrs = ble_gatt_write(@, h, v), !.changes = @ + 1,
                          !.written = IF 2 \in blh.allowed[h] /\ v # <<>> THEN [@ EXCEPT ![h] = v] ELSE @]

BlhPair ==
  /\ blh.op = "idle"
  /\ \E a, b, s \in BlhSeeds, flipped \in 0 .. 16 :
       LET pub(q) == Spread(q + 40, 32)
           ka == ble_le_sc_dhkey(Spread(a, 32), pub(b), Zeros(32))
           kb == ble_le_sc_dhkey(Spread(b, 32), pub(a), Zeros(32))
           nm == Spread(s, 16)
           heard == [i \in 1 .. 16 |-> IF i = flipped THEN XorByte(nm[i], 1) ELSE nm[i]]
           Ltk(k, n) == ble_f5_ltk_derive(k, n, Spread(s + 1, 16), BlhAddress, BlhOther)
           Sum(k, n) == KeySum(k, n, Spread(s + 1, 16), BlhAddress, BlhOther)
       IN  \E da \in {ka}, db \in {kb} :
             blh' = [op |-> "paired", same |-> Sum(da, nm) = Sum(db, heard), ltk |-> <<Ltk(da, nm), Ltk(db, heard)>>]

BlhSeal ==
  /\ blh.op = "idle"
  /\ \E n \in BlhTexts, seed \in BlhSeeds, mic \in {3, 4, 8} :
       \E sealed \in {ble_aes_ccm_encrypt(NameOf(n), Spread(seed, 16), Spread(seed + 9, 13), mic)} :
         blh' = [op |-> "sealed", text |-> NameOf(n), seed |-> seed, mic |-> mic,
                 rc |-> sealed.rc, cipher |-> sealed.out, touched |-> 0]

(* The channel changes a byte. *)
BlhDamage ==
  /\ blh.op = "sealed" /\ blh.touched = 0
  /\ \E i \in {1, (Len(blh.cipher) + 1) \div 2, Len(blh.cipher)} \cap 1 .. Len(blh.cipher) :
       blh' = [blh EXCEPT !.touched = i, !.cipher = [@ EXCEPT ![i] = XorByte(@, 1)]]

BlhOpen ==
  /\ blh.op = "sealed" /\ blh.rc >= 0
  /\ \E opened \in {ble_aes_ccm_decrypt(blh.cipher, Spread(blh.seed, 16), Spread(blh.seed + 9, 13), blh.mic)} :
       blh' = [op |-> "opened", text |-> blh.text, touched |-> blh.touched, rc |-> opened.rc, got |-> opened.text]

BlhNext == BlhAdvertise \/ BlhSchedule \/ BlhServe \/ BlhDeclare \/ BlhWrite \/ BlhPair \/ BlhSeal \/ BlhDamage \/ BlhOpen

BlhSpec == BlhInit /\ [][BlhNext]_blh

-----------------------------------------------------------------------------
(* Advertising data fits its buffer, its structures end where it ends, and
   the scanner reads the name that was formatted, when there was room. *)
NameHeard ==
  blh.op = "heard" =>
    LET named == 3 + (IF blh.tx = 0 THEN 0 ELSE 3) + 2 + (IF Len(blh.name) > 29 THEN 29 ELSE Len(blh.name))
    IN  /\ Len(blh.adv) <= blh.room \/ blh.adv = <<>>
        /\ blh.adv # <<>> => blh.heard.rc = 0 /\ blh.heard.addr = BlhAddress /\ blh.heard.at = 6 + Len(blh.adv)
        /\ blh.heard.name = IF named <= blh.room /\ blh.name # <<>>
                              THEN SubSeq(blh.name, 1, IF Len(blh.name) > 29 THEN 29 ELSE Len(blh.name)) ELSE <<>>

(* Events of an advertiser are never closer than its interval nor 10 ms
   later. *)
AdvertisedInTime ==
  blh.op = "scheduled" /\ blh.next # -1 => blh.next \in blh.interval .. blh.interval + 999

(* Whatever the order of declarations and writes, a client that may read an
   attribute reads what was declared or written last by one who may write. *)
ReadsLastWrite ==
  blh.op = "service" =>
    /\ \A h \in 0 .. BlhAttrs :
         LET got == ble_gatt_read(blh.attrs, h, 8)
         IN  IF 1 \in blh.allowed[h] THEN got.value = blh.written[h] ELSE got.rc = -1
    /\ \A uuid \in Uuids :
         LET all == ble_gatt_discover_service(blh.attrs, uuid, BlhAttrs, BlhAttrs)
         IN  /\ {all[i] : i \in 1 .. Len(all)} = {h \in 0 .. BlhAttrs - 1 : blh.attrs[h + 1].type = uuid}
             /\ IsPrefix(ble_gatt_discover_service(blh.attrs, uuid, BlhAttrs, 1), all)

(* Two ends of a pairing hold the same key exactly when what they put into
   it agrees: no difference of a nonce is lost in the mixing. *)
KeysFollowInputs == blh.op = "paired" => (blh.same <=> blh.ltk[1] = blh.ltk[2])

(* Opening returns the text that was sealed, up to the byte that the channel
   changed in it: such a text is not refused, though bluetooth_ble.h:351
   promises -1, because the code is not compared. *)
OpensWhatWasSealed ==
  blh.op = "opened" /\ blh.rc # -1 =>
    /\ blh.rc = Len(blh.text)
    /\ \A i \in 1 .. Len(blh.text) : (blh.got[i] = blh.text[i]) <=> i # blh.touched

BleHostSound == NameHeard /\ AdvertisedInTime /\ ReadsLastWrite /\ KeysFollowInputs /\ OpensWhatWasSealed
=============================================================================
