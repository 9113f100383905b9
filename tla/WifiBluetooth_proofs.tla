------------------------- MODULE WifiBluetooth_proofs -------------------------
(***************************************************************************)
(* The protocols of mini-wifi-bluetooth that keep state from call to call:  *)
(* the BLE mesh, whose nodes relay each message once until the cache        *)
(* forgets it, and never beyond its time to live; the Wi-Fi channel access, *)
(* whose stations pay for every slot and are overtaken only so often; the   *)
(* block acknowledgement, which confirms nothing that was not received; and *)
(* the BLE link, kept through any allowed silence, on good channels only.   *)
(* For any mesh, any size of the cache, any stations, windows and numbers,  *)
(* parameters of a connection and channel maps.                             *)
(***************************************************************************)
EXTENDS BleMesh, BleLink, WifiDcf, WifiBlockAck, FiniteSetTheorems, TLAPS

(* A time to live as it is sent is within the limit. *)
LEMMA ClampType == ASSUME NEW ttl \in Nat PROVE Clamp(ttl) \in 0 .. TtlLimit
  BY MeshAssumption DEF Clamp

(* The cache keeps keys. *)
LEMMA KeyType == ASSUME NEW id \in Ids PROVE Key(id) \in Keys
<1>1. \A m \in Nat \ {0} : \A n \in Nat : n % m \in 0 .. m - 1
  OBVIOUS
<1>2. id.seq \in Nat /\ id.src \in Sources
  BY DEF Ids
<1>3. id.seq % SeqModulus \in 0 .. SeqModulus - 1
  BY <1>1, <1>2, MeshAssumption
<1> QED BY <1>2, <1>3 DEF Key, Keys

(* What a node transmits are packets. *)
LEMMA BroadcastType ==
  ASSUME NEW n \in Nodes, NEW id \in Ids, NEW ttl \in 0 .. TtlLimit
  PROVE  Broadcast(n, id, ttl) \subseteq Packets
  BY MeshAssumption DEF Broadcast, Packets

(* Remembering a key keeps the types. *)
LEMMA RememberType ==
  ASSUME TypeOK, NEW n \in Nodes, NEW k \in Keys, Remember(n, k)
  PROVE  /\ cache' \in [Nodes -> [1 .. CacheSize -> Keys \cup {NoKey}]]
         /\ relayed' \in [Nodes -> [Keys -> Int]]
<1> DEFINE row == [i \in 1 .. CacheSize |-> IF i = 1 THEN k ELSE cache[n][i - 1]]
           tally == [x \in Keys |-> relayed[n][x] + (IF x = k THEN 1 ELSE 0)
                                     - (IF x = cache[n][CacheSize] THEN 1 ELSE 0)]
<1>1. row \in [1 .. CacheSize -> Keys \cup {NoKey}]
  <2>1. \A i \in 1 .. CacheSize : i # 1 => i - 1 \in 1 .. CacheSize
    BY MeshAssumption
  <2>2. cache[n] \in [1 .. CacheSize -> Keys \cup {NoKey}]
    BY DEF TypeOK
  <2> HIDE DEF row
  <2>3. \A i \in 1 .. CacheSize :
          (IF i = 1 THEN k ELSE cache[n][i - 1]) \in Keys \cup {NoKey}
    <3> SUFFICES ASSUME NEW i \in 1 .. CacheSize, i # 1
                 PROVE  cache[n][i - 1] \in Keys \cup {NoKey}
      BY Zenon
    <3> QED BY <2>1, <2>2
  <2> QED BY <2>3, Zenon DEF row
<1>2. tally \in [Keys -> Int]
  BY DEF TypeOK
<1>3. cache' = [cache EXCEPT ![n] = row] /\ relayed' = [relayed EXCEPT ![n] = tally]
  BY DEF Remember, TypeOK
<1> HIDE DEF row, tally
<1> QED BY <1>1, <1>2, <1>3 DEF TypeOK

(* The mesh keeps its types. *)
THEOREM TypeCorrect == Spec => []TypeOK
<1>1. Init => TypeOK
  BY MeshAssumption DEF Init, TypeOK
<1>2. TypeOK /\ [Next]_vars => TypeOK'
  <2> SUFFICES ASSUME TypeOK, [Next]_vars PROVE TypeOK'
    OBVIOUS
  <2>1. ASSUME NEW n \in Sources, Send(n) PROVE TypeOK'
    <3> DEFINE id == [src |-> n, seq |-> next[n]]
    <3>1. PICK ttl \in Ttls : /\ air' = air \cup Broadcast(n, id, Clamp(ttl))
                              /\ sentTtl' = [sentTtl EXCEPT ![id] = Clamp(ttl)]
      BY <2>1 DEF Send
    <3>2. ttl \in Nat /\ n \in Nodes
      BY MeshAssumption
    <3>3. id \in Ids
      BY <2>1, MeshAssumption DEF Send, Ids, TypeOK
    <3>4. Clamp(ttl) \in 0 .. TtlLimit
      BY <3>2, ClampType
    <3>5. next' \in [Sources -> 0 .. MaxSends]
      BY <2>1, MeshAssumption DEF Send, TypeOK
    <3>6. air' \subseteq Packets
      BY <3>1, <3>2, <3>3, <3>4, BroadcastType DEF TypeOK
    <3>7. sentTtl' \in [Ids -> 0 .. TtlLimit]
      BY <3>1, <3>3, <3>4 DEF TypeOK
    <3> QED BY <2>1, <3>5, <3>6, <3>7 DEF Send, TypeOK
  <2>2. ASSUME NEW p \in air, Receive(p) PROVE TypeOK'
    <3>1. /\ p \in Packets /\ p.to \in Nodes /\ p.id \in Ids
          /\ p.ttl \in 0 .. TtlLimit /\ Key(p.id) \in Keys
      BY KeyType DEF TypeOK, Packets
    <3>2. heard' \in [Nodes -> SUBSET Ids]
      BY <2>2, <3>1 DEF Receive, TypeOK
    <3>3. CASE Relay(p)
      <4>1. p.ttl - 1 \in 0 .. TtlLimit
        BY <3>1, <3>3, MeshAssumption DEF Relay
      <4>2. air' \subseteq Packets
        BY <3>1, <3>3, <4>1, BroadcastType DEF Relay, TypeOK
      <4> QED BY <2>2, <3>1, <3>2, <3>3, <4>2, RememberType DEF Receive, Relay, TypeOK
    <3>4. CASE Drop(p)
      BY <2>2, <3>2, <3>4 DEF Receive, Drop, TypeOK
    <3> QED BY <2>2, <3>3, <3>4 DEF Receive
  <2>3. ASSUME NEW p \in air, Lose(p) PROVE TypeOK'
    BY <2>3, MeshAssumption DEF Lose, TypeOK
  <2>4. CASE UNCHANGED vars
    BY <2>4 DEF vars, TypeOK
  <2> QED BY <2>1, <2>2, <2>3, <2>4 DEF Next
<1> QED BY <1>1, <1>2, PTL DEF Spec

-----------------------------------------------------------------------------
(* No key is in a cache twice, and a node has relayed exactly the messages of
   its cache once more than it has forgotten them. *)
Distinct == \A n \in Nodes : \A i, j \in 1 .. CacheSize :
              cache[n][i] = cache[n][j] /\ cache[n][i] # NoKey => i = j

Tally == \A n \in Nodes, k \in Keys :
           relayed[n][k] = IF Cached(n, k) THEN 1 ELSE 0

CacheInv == Distinct /\ Tally

(* Remembering a key that is not cached keeps the tally: it comes in at the
   front, the last key goes out, and there is no second copy of that one. *)
LEMMA RememberTally ==
  ASSUME TypeOK, CacheInv, NEW n \in Nodes, NEW k \in Keys,
         ~Cached(n, k), Remember(n, k)
  PROVE  CacheInv'
<1> USE MeshAssumption
<1>1. \A m \in Nodes : m # n => cache'[m] = cache[m] /\ relayed'[m] = relayed[m]
  BY DEF Remember, TypeOK
<1>2. \A i \in 1 .. CacheSize : cache'[n][i] = IF i = 1 THEN k ELSE cache[n][i - 1]
  BY DEF Remember, TypeOK
<1>3. \A x \in Keys : relayed'[n][x] = relayed[n][x] + (IF x = k THEN 1 ELSE 0)
                                        - (IF x = cache[n][CacheSize] THEN 1 ELSE 0)
  BY DEF Remember, TypeOK
<1>4. \A i \in 1 .. CacheSize : cache[n][i] # k
  BY DEF Cached
<1>5. Distinct'
  <2>1. ASSUME NEW i \in 1 .. CacheSize, NEW j \in 1 .. CacheSize,
               cache'[n][i] = cache'[n][j], cache'[n][i] # NoKey
        PROVE  i = j
    <3>1. CASE i = 1 \/ j = 1
      BY <1>2, <1>4, <2>1, <3>1
    <3>2. CASE i # 1 /\ j # 1
      <4>1. i - 1 \in 1 .. CacheSize /\ j - 1 \in 1 .. CacheSize
        BY <3>2
      <4>2. i - 1 = j - 1
        BY <1>2, <2>1, <3>2, <4>1 DEF CacheInv, Distinct
      <4> QED BY <4>2
    <3> QED BY <3>1, <3>2
  <2>2. \A m \in Nodes : m # n => \A i, j \in 1 .. CacheSize :
          cache'[m][i] = cache'[m][j] /\ cache'[m][i] # NoKey => i = j
    BY <1>1 DEF CacheInv, Distinct
  <2> QED BY <2>1, <2>2 DEF Distinct
<1>6. Tally'
  <2>1. ASSUME NEW m \in Nodes, NEW x \in Keys, m # n
        PROVE  relayed'[m][x] = IF Cached(m, x)' THEN 1 ELSE 0
    BY <1>1, <2>1 DEF CacheInv, Tally, Cached
  <2>2. ASSUME NEW x \in Keys
        PROVE  relayed'[n][x] = IF Cached(n, x)' THEN 1 ELSE 0
    <3>1. CASE x = k
      <4>1. relayed[n][x] = 0 /\ x # cache[n][CacheSize]
        BY <1>4, <3>1 DEF CacheInv, Tally, Cached
      <4>2. Cached(n, x)'
        BY <1>2, <3>1 DEF Cached
      <4> QED BY <1>3, <3>1, <4>1, <4>2
    <3>2. CASE x # k /\ x = cache[n][CacheSize]
      <4>1. relayed[n][x] = 1
        BY <3>2 DEF CacheInv, Tally, Cached
      <4>2. ~Cached(n, x)'
        <5> SUFFICES ASSUME NEW i \in 1 .. CacheSize, cache'[n][i] = x PROVE FALSE
          BY DEF Cached
        <5>1. i - 1 \in 1 .. CacheSize /\ cache[n][i - 1] = x
          BY <1>2, <3>2
        <5>2. x # NoKey
          BY DEF Keys
        <5>3. i - 1 = CacheSize
          BY <3>2, <5>1, <5>2 DEF CacheInv, Distinct
        <5> QED BY <5>3
      <4> QED BY <1>3, <3>2, <4>1, <4>2
    <3>3. CASE x # k /\ x # cache[n][CacheSize]
      <4>1. Cached(n, x) => Cached(n, x)'
        <5> SUFFICES ASSUME NEW i \in 1 .. CacheSize, cache[n][i] = x PROVE Cached(n, x)'
          BY DEF Cached
        <5>1. i + 1 \in 1 .. CacheSize /\ i + 1 # 1 /\ (i + 1) - 1 = i
          BY <3>3
        <5>2. cache'[n][i + 1] = x
          BY <1>2, <5>1
        <5> QED BY <5>1, <5>2 DEF Cached
      <4>2. Cached(n, x)' => Cached(n, x)
        <5> SUFFICES ASSUME NEW i \in 1 .. CacheSize, cache'[n][i] = x PROVE Cached(n, x)
          BY DEF Cached
        <5>1. i - 1 \in 1 .. CacheSize /\ cache[n][i - 1] = x
          BY <1>2, <3>3
        <5> QED BY <5>1 DEF Cached
      <4>3. relayed'[n][x] = relayed[n][x]
        <5>1. relayed[n][x] \in Int
          BY DEF TypeOK
        <5> QED BY <1>3, <3>3, <5>1
      <4> QED BY <4>1, <4>2, <4>3 DEF CacheInv, Tally
    <3> QED BY <3>1, <3>2, <3>3
  <2> QED BY <2>1, <2>2 DEF Tally
<1> QED BY <1>5, <1>6 DEF CacheInv

(* Every relay of a message but the first follows its eviction. *)
THEOREM DuplicatesSuppressed == Spec => []RelayedOnce
<1>1. Init => CacheInv
  BY MeshAssumption DEF Init, CacheInv, Distinct, Tally, Cached
<1>2. TypeOK /\ CacheInv /\ [Next]_vars => CacheInv'
  <2> SUFFICES ASSUME TypeOK, CacheInv, [Next]_vars PROVE CacheInv'
    OBVIOUS
  <2>1. ASSUME NEW p \in air, Relay(p) PROVE CacheInv'
    <3>1. p.to \in Nodes /\ Key(p.id) \in Keys
      BY KeyType DEF TypeOK, Packets
    <3> QED BY <2>1, <3>1, RememberTally DEF Relay
  <2>2. CASE UNCHANGED <<cache, relayed>>
    BY <2>2 DEF CacheInv, Distinct, Tally, Cached
  <2> QED BY <2>1, <2>2 DEF Next, Send, Receive, Drop, Lose, vars
<1>3. CacheInv => RelayedOnce
  BY DEF CacheInv, Tally, RelayedOnce
<1> QED BY <1>1, <1>2, <1>3, TypeCorrect, PTL DEF Spec
-----------------------------------------------------------------------------
(* A walk goes on over a link. *)
LEMMA WalkOn ==
  ASSUME NEW a, NEW b, NEW c, NEW k \in Nat, Walk(a, b, k), <<b, c>> \in Links
  PROVE  Walk(a, c, k + 1)
<1>1. PICK w \in [0 .. k -> Nodes] :
        w[0] = a /\ w[k] = b /\ \A i \in 1 .. k : <<w[i - 1], w[i]>> \in Links
  BY DEF Walk
<1> DEFINE v == [i \in 0 .. k + 1 |-> IF i = k + 1 THEN c ELSE w[i]]
<1>2. c \in Nodes
  BY MeshAssumption
<1>3. \A i \in 0 .. k + 1 : i # k + 1 => i \in 0 .. k
  OBVIOUS
<1>4. v \in [0 .. k + 1 -> Nodes]
  BY <1>1, <1>2, <1>3
<1>5. /\ 0 \in 0 .. k + 1 /\ k + 1 \in 0 .. k + 1 /\ 0 # k + 1
      /\ k \in 0 .. k + 1 /\ k # k + 1
  OBVIOUS
<1>6. v[0] = a /\ v[k + 1] = c /\ v[k] = b
  BY <1>1, <1>5
<1>7. ASSUME NEW i \in 1 .. k + 1 PROVE <<v[i - 1], v[i]>> \in Links
  <2>1. CASE i = k + 1
    <3>1. i - 1 = k
      BY <2>1
    <3> HIDE DEF v
    <3> QED BY <1>6, <2>1, <3>1
  <2>2. CASE i # k + 1
    <3>1. i \in 1 .. k /\ i \in 0 .. k + 1 /\ i - 1 \in 0 .. k + 1 /\ i - 1 # k + 1
      BY <2>2
    <3>2. v[i - 1] = w[i - 1] /\ v[i] = w[i]
      BY <2>2, <3>1
    <3> QED BY <1>1, <3>1, <3>2
  <2> QED BY <2>1, <2>2
<1> HIDE DEF v
<1> QED BY <1>4, <1>6, <1>7 DEF Walk

(* A link is a walk of one hop. *)
LEMMA OneHop == ASSUME NEW a, NEW c, <<a, c>> \in Links PROVE Walk(a, c, 1)
<1>1. a \in Nodes
  BY MeshAssumption
<1>2. Walk(a, a, 0)
  <2> DEFINE w == [i \in 0 .. 0 |-> a]
  <2>1. w \in [0 .. 0 -> Nodes] /\ w[0] = a /\ \A i \in 1 .. 0 : <<w[i - 1], w[i]>> \in Links
    BY <1>1
  <2> QED BY <2>1 DEF Walk
<1>3. Walk(a, c, 0 + 1)
  BY <1>2, WalkOn
<1> QED BY <1>3

(* A message in the air, or heard, has been sent, and has come as many hops
   from its source as its time to live has gone down, to one that may still
   hear it.  It has been sent before, so a new message changes no old one. *)
Issued(id) == id.seq < next[id.src]

Near(id, n, k) == k \in 1 .. Span(id) /\ Walk(id.src, n, k)

AirInv == \A p \in air :
            Issued(p.id) /\ \E k \in Nat : Near(p.id, p.to, k) /\ k + p.ttl <= Span(p.id) + 1

HeardInv == \A n \in Nodes : \A id \in heard[n] : Issued(id) /\ \E k \in Nat : Near(id, n, k)

(* A message stays as it was sent out while others are. *)
LEMMA SendKeeps ==
  ASSUME TypeOK, NEW n \in Sources, Send(n), NEW id \in Ids, Issued(id)
  PROVE  Issued(id)' /\ Span(id)' = Span(id)
<1> DEFINE new == [src |-> n, seq |-> next[n]]
<1>1. PICK ttl \in Ttls : sentTtl' = [sentTtl EXCEPT ![new] = Clamp(ttl)]
  BY DEF Send
<1>2. id # new /\ id.src \in Sources /\ id.seq \in Nat
  BY DEF Issued, Ids, TypeOK
<1>3. next' = [next EXCEPT ![n] = @ + 1] /\ next \in [Sources -> Nat]
  BY DEF Send, TypeOK
<1>4. Issued(id)'
  BY <1>2, <1>3 DEF Issued
<1>5. sentTtl'[id] = sentTtl[id]
  BY <1>1, <1>2 DEF TypeOK
<1> QED BY <1>4, <1>5 DEF Span

LEMMA SendSpan ==
  ASSUME TypeOK, TypeOK', AirInv, HeardInv, NEW n \in Sources, Send(n)
  PROVE  AirInv' /\ HeardInv'
<1> DEFINE new == [src |-> n, seq |-> next[n]]
<1>1. PICK ttl \in Ttls : /\ air' = air \cup Broadcast(n, new, Clamp(ttl))
                          /\ sentTtl' = [sentTtl EXCEPT ![new] = Clamp(ttl)]
  BY DEF Send
<1>2. new \in Ids
  BY MeshAssumption DEF Send, Ids, TypeOK
<1>3. Clamp(ttl) \in 0 .. TtlLimit /\ TtlLimit \in Nat
  BY ClampType, MeshAssumption
<1>4. ASSUME NEW p \in air
      PROVE  Issued(p.id)' /\ \E k \in Nat : Near(p.id, p.to, k)' /\ k + p.ttl <= Span(p.id)' + 1
  <2>1. p.id \in Ids /\ Issued(p.id)
    BY DEF TypeOK, Packets, AirInv
  <2>2. Issued(p.id)' /\ Span(p.id)' = Span(p.id)
    BY <2>1, SendKeeps
  <2>3. PICK k \in Nat : Near(p.id, p.to, k) /\ k + p.ttl <= Span(p.id) + 1
    BY DEF AirInv
  <2>4. Near(p.id, p.to, k)'
    BY <2>2, <2>3 DEF Near
  <2> QED BY <2>2, <2>3, <2>4
<1>5. ASSUME NEW p \in Broadcast(n, new, Clamp(ttl))
      PROVE  Issued(p.id)' /\ \E k \in Nat : Near(p.id, p.to, k)' /\ k + p.ttl <= Span(p.id)' + 1
  <2>1. p.id = new /\ <<n, p.to>> \in Links /\ p.ttl = Clamp(ttl)
    BY MeshAssumption DEF Broadcast
  <2>2. Issued(p.id)'
    BY <2>1 DEF Issued, Send, TypeOK
  <2>3. sentTtl'[new] = Clamp(ttl)
    BY <1>1, <1>2 DEF TypeOK
  <2>4. Span(p.id)' = IF Clamp(ttl) = 0 THEN 1 ELSE Clamp(ttl)
    BY <2>1, <2>3, Zenon DEF Span
  <2>5. Span(p.id)' \in Nat \ {0} /\ 1 + p.ttl <= Span(p.id)' + 1
    BY <1>3, <2>1, <2>4
  <2>6. p.id.src = n
    BY <2>1
  <2>7. Walk(p.id.src, p.to, 1)
    BY <2>1, <2>6, OneHop
  <2>8. Near(p.id, p.to, 1)'
    <3>1. 1 \in 1 .. Span(p.id)'
      BY <2>5
    <3> QED BY <2>7, <3>1, Zenon DEF Near, Walk
  <2> QED BY <2>2, <2>5, <2>8
<1>6. AirInv'
  BY <1>1, <1>4, <1>5, Zenon DEF AirInv
<1>7. HeardInv'
  <2> SUFFICES ASSUME NEW m \in Nodes, NEW id \in heard[m]
               PROVE  Issued(id)' /\ \E k \in Nat : Near(id, m, k)'
    BY DEF HeardInv, Send
  <2>1. id \in Ids /\ Issued(id)
    BY DEF TypeOK, HeardInv
  <2>2. Issued(id)' /\ Span(id)' = Span(id)
    BY <2>1, SendKeeps
  <2>3. PICK k \in Nat : Near(id, m, k)
    BY DEF HeardInv
  <2>4. Near(id, m, k)'
    BY <2>2, <2>3 DEF Near
  <2> QED BY <2>2, <2>4
<1> QED BY <1>6, <1>7

LEMMA ReceiveSpan ==
  ASSUME TypeOK, AirInv, HeardInv, NEW p \in air, Receive(p)
  PROVE  AirInv' /\ HeardInv'
<1>1. /\ \A id : Span(id)' = Span(id) /\ Issued(id)' = Issued(id)
      /\ \A id, n, k : Near(id, n, k)' = Near(id, n, k)
  BY DEF Receive, Span, Issued, Near, Walk
<1>2. /\ p.to \in Nodes /\ p.id \in Ids /\ p.ttl \in Nat
      /\ sentTtl[p.id] \in Nat
  BY DEF TypeOK, Packets
<1>3. PICK k \in Nat : Near(p.id, p.to, k) /\ k + p.ttl <= Span(p.id) + 1
  BY DEF AirInv
<1>4. Issued(p.id)
  BY DEF AirInv
<1>5. ASSUME Relay(p), NEW q \in Broadcast(p.to, p.id, p.ttl - 1)
      PROVE  Issued(q.id) /\ \E j \in Nat : Near(q.id, q.to, j) /\ j + q.ttl <= Span(q.id) + 1
  <2>1. q.id = p.id /\ <<p.to, q.to>> \in Links /\ q.ttl = p.ttl - 1
    BY MeshAssumption DEF Broadcast
  <2>2. Walk(q.id.src, q.to, k + 1)
    BY <1>3, <2>1, WalkOn DEF Near
  <2>3. Span(p.id) \in Nat
    BY <1>2 DEF Span
  <2>4. p.ttl > 1
    BY <1>5 DEF Relay
  <2>5. k + 1 \in 1 .. Span(q.id) /\ (k + 1) + q.ttl <= Span(q.id) + 1
    BY <1>2, <1>3, <2>1, <2>3, <2>4
  <2> QED BY <1>4, <2>1, <2>2, <2>5 DEF Near
<1>6. ASSUME NEW q \in air'
      PROVE  Issued(q.id) /\ \E j \in Nat : Near(q.id, q.to, j) /\ j + q.ttl <= Span(q.id) + 1
  <2>1. CASE q \in air
    BY <2>1 DEF AirInv
  <2>2. CASE q \notin air
    <3>1. Relay(p) /\ q \in Broadcast(p.to, p.id, p.ttl - 1)
      BY <1>6, <2>2 DEF Receive, Relay, Drop
    <3> QED BY <1>5, <3>1
  <2> QED BY <2>1, <2>2
<1>7. AirInv'
  BY <1>1, <1>6, Zenon DEF AirInv
<1>8. HeardInv'
  <2>1. heard' = [heard EXCEPT ![p.to] = @ \cup {p.id}]
    BY DEF Receive
  <2>2. ASSUME NEW n \in Nodes, NEW id \in heard'[n]
        PROVE  Issued(id) /\ \E j \in Nat : Near(id, n, j)
    <3>1. CASE id \in heard[n]
      BY <3>1 DEF HeardInv
    <3>2. CASE id \notin heard[n]
      <4>1. n = p.to /\ id = p.id
        BY <2>1, <2>2, <3>2 DEF TypeOK
      <4> QED BY <1>3, <1>4, <4>1
    <3> QED BY <3>1, <3>2
  <2> QED BY <1>1, <2>2, Zenon DEF HeardInv
<1> QED BY <1>7, <1>8

(* Relays take a message no farther than its time to live, over any mesh. *)
THEOREM WithinReach == Spec => []WithinTtl
<1>1. Init => AirInv /\ HeardInv
  BY DEF Init, AirInv, HeardInv
<1>2. TypeOK /\ TypeOK' /\ AirInv /\ HeardInv /\ [Next]_vars => AirInv' /\ HeardInv'
  <2> SUFFICES ASSUME TypeOK, TypeOK', AirInv, HeardInv, [Next]_vars
               PROVE  AirInv' /\ HeardInv'
    OBVIOUS
  <2>1. ASSUME NEW n \in Sources, Send(n) PROVE AirInv' /\ HeardInv'
    BY <2>1, SendSpan
  <2>2. ASSUME NEW p \in air, Receive(p) PROVE AirInv' /\ HeardInv'
    BY <2>2, ReceiveSpan
  <2>3. ASSUME air' \subseteq air, UNCHANGED <<heard, sentTtl, next>>
        PROVE  AirInv' /\ HeardInv'
    <3>1. /\ \A id : Span(id)' = Span(id) /\ Issued(id)' = Issued(id)
          /\ \A id, n, k : Near(id, n, k)' = Near(id, n, k)
      BY <2>3 DEF Span, Issued, Near, Walk
    <3>2. heard' = heard
      BY <2>3
    <3>3. AirInv'
      BY <2>3, <3>1, Zenon DEF AirInv
    <3>4. HeardInv'
      BY <3>1, <3>2, Zenon DEF HeardInv
    <3> QED BY <3>3, <3>4
  <2>4. ASSUME NEW p \in air, Lose(p) PROVE AirInv' /\ HeardInv'
    <3>1. air' \subseteq air /\ UNCHANGED <<heard, sentTtl, next>>
      BY <2>4 DEF Lose
    <3> QED BY <2>3, <3>1
  <2>5. CASE UNCHANGED vars
    <3>1. air' \subseteq air /\ UNCHANGED <<heard, sentTtl, next>>
      BY <2>5 DEF vars
    <3> QED BY <2>3, <3>1
  <2> QED BY <2>1, <2>2, <2>4, <2>5 DEF Next
<1>3. TypeOK /\ HeardInv => WithinTtl
  <2> SUFFICES ASSUME TypeOK, HeardInv, NEW n \in Nodes, NEW id \in heard[n]
               PROVE  <<id.src, n>> \in Reach[Span(id)]
    BY DEF WithinTtl
  <2>1. id \in Ids /\ id.src \in Nodes /\ sentTtl[id] \in 0 .. TtlLimit
    <3>1. id \in Ids
      BY DEF TypeOK
    <3>2. id.src \in Sources
      BY <3>1 DEF Ids
    <3> QED BY <3>1, <3>2, MeshAssumption DEF TypeOK
  <2>2. Span(id) \in 0 .. TtlLimit
    BY <2>1, MeshAssumption DEF Span
  <2>3. PICK k \in Nat : k \in 1 .. Span(id) /\ Walk(id.src, n, k)
    BY DEF HeardInv, Near
  <2>4. k \in 0 .. Span(id)
    BY <2>3
  <2>5. Reach[Span(id)] = {x \in Nodes \X Nodes : \E j \in 0 .. Span(id) : Walk(x[1], x[2], j)}
    BY <2>2 DEF Reach
  <2> QED BY <2>1, <2>3, <2>4, <2>5
<1> QED BY <1>1, <1>2, <1>3, TypeCorrect, PTL DEF Spec

-----------------------------------------------------------------------------
(* A failure leaves the window within its limits and never narrows it. *)
LEMMA WindowDoubled ==
  ASSUME NEW window \in CwMin .. CwMax
  PROVE  csma_cw_double(window) \in window .. CwMax
BY DcfAssumption DEF csma_cw_double

(* Windows keep their limits and counters stay below them. *)
THEOREM DcfTypeCorrect == DcfSpec => []DcfTypeOK
<1>1. DcfInit => DcfTypeOK
  BY DcfAssumption DEF DcfInit, DcfTypeOK
<1>2. DcfTypeOK /\ [DcfNext]_dcfVars => DcfTypeOK'
  <2> SUFFICES ASSUME DcfTypeOK, [DcfNext]_dcfVars PROVE DcfTypeOK'
    OBVIOUS
  <2> USE DcfAssumption DEF DcfTypeOK, Slots
  <2>1. CASE IdleSlot
    <3>1. \A s \in Stations : backoff'[s] \in Nat /\ backoff'[s] <= cw[s]
      BY <2>1 DEF IdleSlot, AccessIdle
    <3>2. onAir' \subseteq {s \in Stations : backoff'[s] = 0}
      BY <2>1, <3>1 DEF IdleSlot, CanTransmit
    <3>3. overtaken' \in [Stations -> Nat]
      BY <2>1 DEF IdleSlot
    <3> QED BY <2>1, <3>1, <3>2, <3>3 DEF IdleSlot
  <2>2. CASE Acknowledged
    <3>1. backoff' = backoff
      BY <2>2 DEF Acknowledged, Frozen, AccessBusy
    <3>2. \A s \in Stations : backoff'[s] <= cw'[s]
      BY <2>2, <3>1 DEF Acknowledged
    <3> QED BY <2>2, <3>1, <3>2 DEF Acknowledged
  <2>3. CASE Failed
    <3>1. \A s \in Stations : cw'[s] \in CwMin .. CwMax /\ cw'[s] >= cw[s]
      BY <2>3, WindowDoubled DEF Failed
    <3>2. \A s \in Stations : backoff'[s] \in Nat /\ backoff'[s] <= cw'[s]
      BY <2>3, <3>1 DEF Failed, Frozen, AccessBusy
    <3>3. cw' \in [Stations -> CwMin .. CwMax]
      BY <2>3, <3>1 DEF Failed
    <3> QED BY <2>3, <3>2, <3>3 DEF Failed
  <2>4. CASE UNCHANGED dcfVars
    BY <2>4 DEF dcfVars
  <2> QED BY <2>1, <2>2, <2>3, <2>4 DEF DcfNext
<1> QED BY <1>1, <1>2, PTL DEF DcfSpec

(* Every time a station is overtaken but the first is paid for with a slot of
   its counter, which nobody draws anew while it waits. *)
THEOREM DcfSlotsPaid == DcfSpec => []SlotsPaid
<1>1. DcfInit => SlotsPaid
  BY DEF DcfInit, SlotsPaid
<1>2. DcfTypeOK /\ DcfTypeOK' /\ SlotsPaid /\ [DcfNext]_dcfVars => SlotsPaid'
  <2> SUFFICES ASSUME DcfTypeOK, DcfTypeOK', SlotsPaid, [DcfNext]_dcfVars,
                      NEW s \in Stations, overtaken'[s] > 0
               PROVE  /\ backoff'[s] > 0
                      /\ overtaken'[s] + backoff'[s] <= cw'[s] + 1
    BY DEF SlotsPaid
  <2> USE DcfAssumption DEF DcfTypeOK, SlotsPaid
  <2>1. CASE IdleSlot
    <3>1. s \notin onAir'
      BY <2>1 DEF IdleSlot
    <3>2. backoff'[s] > 0
      BY <2>1, <3>1 DEF IdleSlot, CanTransmit
    <3>3. overtaken'[s] <= overtaken[s] + 1
      BY <2>1, <3>1 DEF IdleSlot
    <3>4. CASE backoff[s] = 0
      BY <2>1, <3>2, <3>3, <3>4 DEF IdleSlot, AccessIdle, Slots
    <3>5. CASE backoff[s] > 0
      BY <2>1, <3>2, <3>3, <3>5 DEF IdleSlot, AccessIdle
    <3> QED BY <3>4, <3>5
  <2>2. CASE Acknowledged \/ Failed
    <3>1. overtaken'[s] = overtaken[s] /\ s \notin onAir
      BY <2>2 DEF Acknowledged, Failed
    <3>2. backoff'[s] = backoff[s] /\ cw'[s] = cw[s]
      BY <2>2, <3>1 DEF Acknowledged, Failed, Frozen, AccessBusy
    <3> QED BY <3>1, <3>2
  <2>3. CASE UNCHANGED dcfVars
    BY <2>3 DEF dcfVars
  <2> QED BY <2>1, <2>2, <2>3 DEF DcfNext
<1> QED BY <1>1, <1>2, DcfTypeCorrect, PTL DEF DcfSpec

(* So a station is overtaken at most as often as its window has slots. *)
THEOREM DcfFair == DcfSpec => []OvertakenBounded
<1>1. DcfTypeOK /\ SlotsPaid => OvertakenBounded
  <2> SUFFICES ASSUME DcfTypeOK, SlotsPaid, NEW s \in Stations
               PROVE  overtaken[s] <= cw[s]
    BY DEF OvertakenBounded
  <2> QED BY DcfAssumption DEF DcfTypeOK, SlotsPaid
<1> QED BY <1>1, DcfTypeCorrect, DcfSlotsPaid, PTL

-----------------------------------------------------------------------------
(* What a bitmap says of the frames of its block. *)
Recorded(b) == {b.start + i : i \in b.bitmap}

Bitmaps == [start : Int, bitmap : SUBSET Bits]

(* Bitmaps, on both sides and on their way, record only what has arrived. *)
AckInv == /\ block \in Int
          /\ ba \in Bitmaps
          /\ reply \subseteq Bitmaps
          /\ rxQueue \subseteq arrived \cap Int
          /\ Recorded(ba) \subseteq arrived
          /\ \A b \in reply : Recorded(b) \subseteq arrived
          /\ NoFalseAck

LEMMA InitialBlock == ASSUME NEW start \in Int
                      PROVE  /\ block_ack_init(start) \in Bitmaps
                             /\ Recorded(block_ack_init(start)) = {}
BY DEF block_ack_init, Bitmaps, Recorded

(* A frame adds itself to what its bitmap records, or nothing. *)
LEMMA RecordAdds ==
  ASSUME NEW b \in Bitmaps, NEW seq \in Int
  PROVE  /\ block_ack_record(b, seq) \in Bitmaps
         /\ Recorded(block_ack_record(b, seq)) \subseteq Recorded(b) \cup {seq}
<1>1. CASE Offset(b, seq) \in Bits
  <2> DEFINE r == block_ack_record(b, seq)
  <2>1. r = [start |-> b.start, bitmap |-> b.bitmap \cup {Offset(b, seq)}]
    BY <1>1 DEF block_ack_record, Bitmaps
  <2>2. b.start + Offset(b, seq) = seq
    BY DEF Offset, Bitmaps
  <2> QED BY <1>1, <2>1, <2>2 DEF Bitmaps, Recorded
<1>2. CASE Offset(b, seq) \notin Bits
  BY <1>2 DEF block_ack_record
<1> QED BY <1>1, <1>2

(* A frame taken for received is one that the bitmap records. *)
LEMMA ReceivedRecorded ==
  ASSUME NEW b \in Bitmaps, NEW seq \in Int, block_ack_is_received(b, seq)
  PROVE  seq \in Recorded(b)
<1>1. seq = b.start + Offset(b, seq)
  BY DEF Offset, Bitmaps
<1> QED BY <1>1 DEF block_ack_is_received, Recorded

(* The originator never takes a lost frame for received. *)
THEOREM BaNoFalseAck == BaSpec => []NoFalseAck
<1>1. BaInit => AckInv
  BY InitialBlock DEF BaInit, AckInv, NoFalseAck
<1>2. AckInv /\ [BaNext]_baVars => AckInv'
  <2> SUFFICES ASSUME AckInv, [BaNext]_baVars PROVE AckInv'
    OBVIOUS
  <2> USE DEF AckInv, NoFalseAck
  <2>1. ASSUME NEW s \in Seqs, FrameArrives(s) PROVE AckInv'
    <3>1. s \in Int
      BY DEF Seqs
    <3> QED BY <2>1, <3>1 DEF FrameArrives
  <2>2. ASSUME NEW s \in Seqs, FrameLost(s) PROVE AckInv'
    BY <2>2 DEF FrameLost
  <2>3. ASSUME NEW s \in Seqs, Record(s) PROVE AckInv'
    <3>1. s \in Int /\ s \in arrived
      BY <2>3 DEF Record
    <3>2. ba' \in Bitmaps /\ Recorded(ba') \subseteq arrived
      BY <2>3, <3>1, RecordAdds DEF Record
    <3> QED BY <2>3, <3>2 DEF Record
  <2>4. CASE Reply
    BY <2>4 DEF Reply
  <2>5. ASSUME NEW b \in reply, ReplyLost(b) PROVE AckInv'
    BY <2>5 DEF ReplyLost
  <2>6. ASSUME NEW b \in reply, ReplyArrives(b) PROVE AckInv'
    <3>1. Frames(block) \subseteq Int
      BY BlockAckAssumption DEF Frames
    <3>2. \A seq \in Frames(block) : block_ack_is_received(b, seq) => seq \in arrived
      BY <3>1, ReceivedRecorded
    <3>3. confirmed' \subseteq arrived
      BY <2>6, <3>2 DEF ReplyArrives
    <3> QED BY <2>6, <3>3 DEF ReplyArrives
  <2>7. CASE NextBlock
    <3>1. block' \in Int
      BY <2>7, BlockAckAssumption DEF NextBlock
    <3>2. ba' \in Bitmaps /\ Recorded(ba') = {}
      BY <2>7, <3>1, InitialBlock DEF NextBlock
    <3> QED BY <2>7, <3>1, <3>2 DEF NextBlock
  <2>8. CASE UNCHANGED baVars
    BY <2>8 DEF baVars
  <2> QED BY <2>1, <2>2, <2>3, <2>4, <2>5, <2>6, <2>7, <2>8 DEF BaNext
<1>3. AckInv => NoFalseAck
  BY DEF AckInv
<1> QED BY <1>1, <1>2, <1>3, PTL DEF BaSpec

(***************************************************************************)
(* The BLE link layer.                                                      *)
(***************************************************************************)

(* The rank of a channel among the good ones. *)
Below(good, c) == {d \in good : d < c}
Rank(good, c) == Cardinality(Below(good, c))

(* The ranks of the members of a finite set of numbers are all the numbers
   below its size: they are as many, and no two are equal. *)
LEMMA RanksFill ==
  ASSUME NEW good \in SUBSET (0 .. 36), good # {}
  PROVE  /\ Cardinality(good) \in Nat \ {0}
         /\ \A r \in 0 .. Cardinality(good) - 1 : \E c \in good : Rank(good, c) = r
<1> DEFINE n == Cardinality(good)
           f == [c \in good |-> Rank(good, c)]
<1>1. IsFiniteSet(good)
  <2>1. 0 \in Int /\ 36 \in Int
    OBVIOUS
  <2>2. IsFiniteSet(0 .. 36)
    BY <2>1, FS_Interval
  <2> QED BY <2>2, FS_Subset
<1>2. n \in Nat /\ n # 0
  BY <1>1, FS_CardinalityType, FS_EmptySet
<1>3. \A c \in good : IsFiniteSet(Below(good, c)) /\ Rank(good, c) \in 0 .. n - 1
  <2> SUFFICES ASSUME NEW c \in good
               PROVE  IsFiniteSet(Below(good, c)) /\ Rank(good, c) \in 0 .. n - 1
    OBVIOUS
  <2>1. Below(good, c) \subseteq good /\ c \notin Below(good, c)
    BY DEF Below
  <2>2. IsFiniteSet(Below(good, c)) /\ Cardinality(Below(good, c)) <= n
        /\ (Cardinality(Below(good, c)) = n => Below(good, c) = good)
    BY <1>1, <2>1, FS_Subset
  <2>3. Cardinality(Below(good, c)) \in Nat
    BY <2>2, FS_CardinalityType
  <2>4. Cardinality(Below(good, c)) # n
    BY <2>1, <2>2
  <2> HIDE DEF n
  <2> QED BY <1>2, <2>2, <2>3, <2>4 DEF Rank
<1>4. \A a, b \in good : a < b => Rank(good, a) # Rank(good, b)
  <2> SUFFICES ASSUME NEW a \in good, NEW b \in good, a < b, Rank(good, a) = Rank(good, b)
               PROVE  FALSE
    OBVIOUS
  <2>1. Below(good, a) \subseteq Below(good, b)
    <3>1. \A d \in good : d < a => d < b
      OBVIOUS
    <3> QED BY <3>1, Zenon DEF Below
  <2>2. Below(good, a) = Below(good, b)
    BY <1>3, <2>1, FS_Subset DEF Rank
  <2>3. a \in Below(good, b) /\ a \notin Below(good, a)
    BY DEF Below
  <2> QED BY <2>2, <2>3
<1>5. f \in Injection(good, 0 .. n - 1)
  <2>1. f \in [good -> 0 .. n - 1]
    BY <1>3
  <2>2. \A a, b \in good : f[a] = f[b] => a = b
    <3> SUFFICES ASSUME NEW a \in good, NEW b \in good, f[a] = f[b] PROVE a = b
      OBVIOUS
    <3>1. Rank(good, a) = Rank(good, b)
      OBVIOUS
    <3>2. a < b \/ b < a \/ a = b
      OBVIOUS
    <3> QED BY <1>4, <3>1, <3>2
  <2> HIDE DEF f
  <2> QED BY <2>1, <2>2 DEF Injection, IsInjective
<1>6. IsFiniteSet(0 .. n - 1) /\ Cardinality(0 .. n - 1) = n
  <2>1. n - 1 \in Int /\ 0 \in Int /\ ~(0 > n - 1) /\ n - 1 - 0 + 1 = n
    BY <1>2
  <2> QED BY <2>1, FS_Interval
<1> HIDE DEF f
<1>7. f \in Surjection(good, 0 .. n - 1)
  <2> HIDE DEF n
  <2>1. Cardinality(good) = Cardinality(0 .. n - 1)
    BY <1>6 DEF n
  <2> QED BY <1>5, <1>6, <2>1, FS_Injection
<1>8. \A r \in 0 .. n - 1 : \E c \in good : f[c] = r
  BY <1>7 DEF Surjection
<1> QED BY <1>2, <1>8 DEF f

(* A hop stays on the good channels. *)
LEMMA HopType ==
  ASSUME NEW last \in DataChannels, NEW hop \in 5 .. 16,
         NEW good \in SUBSET (0 .. 36), good # {}
  PROVE  /\ ble_channel_hop(last, hop, good) \in good
         /\ good = DataChannels => ble_channel_hop(last, hop, good) = (last + hop) % 37
<1> DEFINE hopped == (last + hop) % 37
           idx == hopped % Cardinality(good)
           P(c) == Cardinality({d \in good : d < c}) = idx
<1>1. hopped \in 0 .. 36
  BY DEF DataChannels
<1>2. ~(hop \notin 5 .. 16)
  OBVIOUS
<1>3. \E c \in good : P(c)
  <2>1. /\ Cardinality(good) \in Nat \ {0}
        /\ \A r \in 0 .. Cardinality(good) - 1 : \E c \in good : Rank(good, c) = r
    BY RanksFill
  <2> HIDE DEF hopped
  <2>2. idx \in 0 .. Cardinality(good) - 1
    BY <1>1, <2>1
  <2> HIDE DEF idx
  <2> QED BY <2>1, <2>2, Zenon DEF Rank, Below
<1>4. (CHOOSE c \in good : P(c)) \in good
  <2> HIDE DEF P
  <2> QED BY <1>3, Zenon
<1>5. ble_channel_hop(last, hop, good) = IF hopped \in good THEN hopped ELSE CHOOSE c \in good : P(c)
  <2> DEFINE none == good = {}
  <2>1. ble_channel_hop(last, hop, good)
        = IF hop \notin 5 .. 16 THEN Refused
          ELSE IF hopped \in good THEN hopped
          ELSE IF none THEN Refused
          ELSE CHOOSE c \in good : P(c)
    BY Zenon DEF ble_channel_hop
  <2>2. ~none
    OBVIOUS
  <2> HIDE DEF none, P, hopped
  <2> QED BY <1>2, <2>1, <2>2, Zenon
<1> HIDE DEF hopped, P
<1> QED BY <1>1, <1>4, <1>5 DEF hopped, DataChannels

(* The channels of 37 hops are all of them: each increment has an inverse
   modulo 37. *)
LEMMA TurnAround ==
  ASSUME NEW hop \in 5 .. 16, NEW c \in 0 .. 36, NEW k \in 0 .. 36, (k * hop) % 37 = c
  PROVE  \E j \in 1 .. 37 : (j * hop) % 37 = c
<1>1. CASE k = 0
  <2>1. c = 0 /\ (37 * hop) % 37 = 0
    BY <1>1
  <2> QED BY <2>1
<1>2. CASE k # 0
  <2>1. k \in 1 .. 37
    BY <1>2
  <2> QED BY <2>1
<1> QED BY <1>1, <1>2

LEMMA HopsCover ==
  ASSUME NEW hop \in 5 .. 16, NEW c \in 0 .. 36
  PROVE  \E j \in 1 .. 37 : (j * hop) % 37 = c
<1>1. CASE hop = 5
  <2>1. (((15 * c) % 37) * 5) % 37 = c /\ ((15 * c) % 37) \in 0 .. 36
    OBVIOUS
  <2> QED BY <1>1, <2>1, TurnAround
<1>2. CASE hop = 6
  <2>1. (((31 * c) % 37) * 6) % 37 = c /\ ((31 * c) % 37) \in 0 .. 36
    OBVIOUS
  <2> QED BY <1>2, <2>1, TurnAround
<1>3. CASE hop = 7
  <2>1. (((16 * c) % 37) * 7) % 37 = c /\ ((16 * c) % 37) \in 0 .. 36
    OBVIOUS
  <2> QED BY <1>3, <2>1, TurnAround
<1>4. CASE hop = 8
  <2>1. (((14 * c) % 37) * 8) % 37 = c /\ ((14 * c) % 37) \in 0 .. 36
    OBVIOUS
  <2> QED BY <1>4, <2>1, TurnAround
<1>5. CASE hop = 9
  <2>1. (((33 * c) % 37) * 9) % 37 = c /\ ((33 * c) % 37) \in 0 .. 36
    OBVIOUS
  <2> QED BY <1>5, <2>1, TurnAround
<1>6. CASE hop = 10
  <2>1. (((26 * c) % 37) * 10) % 37 = c /\ ((26 * c) % 37) \in 0 .. 36
    OBVIOUS
  <2> QED BY <1>6, <2>1, TurnAround
<1>7. CASE hop = 11
  <2>1. (((27 * c) % 37) * 11) % 37 = c /\ ((27 * c) % 37) \in 0 .. 36
    OBVIOUS
  <2> QED BY <1>7, <2>1, TurnAround
<1>8. CASE hop = 12
  <2>1. (((34 * c) % 37) * 12) % 37 = c /\ ((34 * c) % 37) \in 0 .. 36
    OBVIOUS
  <2> QED BY <1>8, <2>1, TurnAround
<1>9. CASE hop = 13
  <2>1. (((20 * c) % 37) * 13) % 37 = c /\ ((20 * c) % 37) \in 0 .. 36
    OBVIOUS
  <2> QED BY <1>9, <2>1, TurnAround
<1>10. CASE hop = 14
  <2>1. (((8 * c) % 37) * 14) % 37 = c /\ ((8 * c) % 37) \in 0 .. 36
    OBVIOUS
  <2> QED BY <1>10, <2>1, TurnAround
<1>11. CASE hop = 15
  <2>1. (((5 * c) % 37) * 15) % 37 = c /\ ((5 * c) % 37) \in 0 .. 36
    OBVIOUS
  <2> QED BY <1>11, <2>1, TurnAround
<1>12. CASE hop = 16
  <2>1. (((7 * c) % 37) * 16) % 37 = c /\ ((7 * c) % 37) \in 0 .. 36
    OBVIOUS
  <2> QED BY <1>12, <2>1, TurnAround
<1> QED BY <1>1, <1>2, <1>3, <1>4, <1>5, <1>6, <1>7, <1>8, <1>9, <1>10, <1>11, <1>12

LEMMA NextHop ==
  ASSUME NEW hop \in Nat, NEW n \in Nat
  PROVE  (((n * hop) % 37) + hop) % 37 = ((n + 1) * hop) % 37
<1> DEFINE x == n * hop
<1>1. x \in Nat /\ (n + 1) * hop = x + hop
  OBVIOUS
<1> HIDE DEF x
<1>2. ((x % 37) + hop) % 37 = (x + hop) % 37
  BY <1>1
<1> QED BY <1>1, <1>2 DEF x

(* The channels used on a link, and the roles of the two devices. *)
MapInv ==
  /\ goodMap \subseteq 0 .. 36 /\ goodMap # {} /\ dataCh \in 0 .. 36
  /\ hopInc \in 5 .. 16 /\ event \in 0 .. BllEvents
  /\ visited \subseteq goodMap
  /\ goodMap = DataChannels =>
       /\ dataCh = (event * hopInc) % 37
       /\ \A k \in 1 .. event : (k * hopInc) % 37 \in visited

RoleInv ==
  /\ llState \in [Device -> 0 .. 4]
  /\ llState["central"] = 4 <=> llState["peripheral"] = 4

(* The silence of a link: what the peripheral slept through since it was last
   heard, and before that, if one event was lost, at most as much and that. *)
Silence == (1 + conn.latency) * conn.interval
LinkInv == Connected =>
  /\ conn.latency \in Nat /\ conn.interval \in Nat /\ conn.timeout \in Int
  /\ conn.timeout > Silence * 2 /\ conn.interval > 0
  /\ slept \in 0 .. conn.latency /\ unheard \in Nat
  /\ missed = TRUE => unheard <= Silence + slept * conn.interval
  /\ missed # TRUE => unheard <= slept * conn.interval

BllInv == MapInv /\ RoleInv /\ LinkInv

LEMMA BllInvInit == BllInit => BllInv
<1> SUFFICES ASSUME BllInit PROVE BllInv
  OBVIOUS
<1>1. MapInv
  <2>1. 0 \in 0 .. BllEvents /\ (0 * 8) % 37 = 0 /\ 0 \in 0 .. 36 /\ 8 \in 5 .. 16
    BY BllAssumption
  <2> QED BY <2>1 DEF BllInit, MapInv, DataChannels
<1>2. RoleInv /\ ~Connected
  <2>1. llState = [d \in Device |-> 0]
    BY DEF BllInit, BLE_LL_STANDBY
  <2> QED BY <2>1 DEF RoleInv, Connected, BLE_LL_CONNECTION, Device
<1> QED BY <1>1, <1>2 DEF BllInv, LinkInv

(* A transition leads to one state. *)
LEMMA TransitionTo ==
  ASSUME NEW t \in Transitions
  PROVE  ble_ll_state_transition(t[1], t[2]) = t[3]
<1> DEFINE found == {u \in Transitions : u[1] = t[1] /\ u[2] = t[2]}
<1>1. found # {} /\ \A u \in found : u = t
  BY DEF Transitions, BLE_LL_STANDBY, BLE_LL_ADVERTISING, BLE_LL_SCANNING, BLE_LL_INITIATING, BLE_LL_CONNECTION
<1>2. ble_ll_state_transition(t[1], t[2])
      = IF found = {} THEN Refused ELSE (CHOOSE u \in found : TRUE)[3]
  BY Zenon DEF ble_ll_state_transition
<1> HIDE DEF found
<1>3. (CHOOSE u \in found : TRUE) = t
  BY <1>1
<1> QED BY <1>1, <1>2, <1>3

LEMMA TransitionType ==
  ASSUME NEW s, NEW cmd
  PROVE  ble_ll_state_transition(s, cmd) \in {Refused} \cup (0 .. 4)
<1> DEFINE found == {u \in Transitions : u[1] = s /\ u[2] = cmd}
<1>1. \A u \in Transitions : u[3] \in 0 .. 4
  BY DEF Transitions, BLE_LL_STANDBY, BLE_LL_ADVERTISING, BLE_LL_SCANNING, BLE_LL_INITIATING, BLE_LL_CONNECTION
<1>2. \A u \in found : u[3] \in 0 .. 4
  BY <1>1
<1>3. ble_ll_state_transition(s, cmd) = IF found = {} THEN Refused ELSE (CHOOSE u \in found : TRUE)[3]
  BY Zenon DEF ble_ll_state_transition
<1> HIDE DEF found
<1>4. found # {} => (CHOOSE u \in found : TRUE) \in found
  BY Zenon
<1>5. found # {} => (CHOOSE u \in found : TRUE)[3] \in 0 .. 4
  BY <1>2, <1>4, Zenon
<1> QED BY <1>3, <1>5

LEMMA CommandKeeps ==
  ASSUME BllInv, NEW d \in Device, NEW cmd, Command(d, cmd)
  PROVE  BllInv'
<1> DEFINE entered == ble_ll_state_transition(llState[d], cmd)
<1>1. entered \in {Refused} \cup (0 .. 4)
  BY TransitionType, Zenon
<1>2. /\ entered \notin {Refused, 4} /\ llState[d] # 4
      /\ llState' = [llState EXCEPT ![d] = entered]
      /\ UNCHANGED <<conn, dataCh, goodMap, hopInc, event, slept, unheard, missed, visited>>
  BY Zenon DEF Command, BLE_LL_CONNECTION
<1> HIDE DEF entered
<1>3. entered \in 0 .. 4 /\ entered # 4
  BY <1>1, <1>2, Zenon
<1>4. RoleInv' /\ ~Connected'
  <2>1. RoleInv
    BY DEF BllInv
  <2>2. llState["central"] # 4 /\ llState["peripheral"] # 4
    BY <1>2, <2>1 DEF RoleInv, Device
  <2>3. llState'["central"] # 4 /\ llState'["peripheral"] # 4
    BY <1>2, <1>3, <2>1, <2>2 DEF RoleInv, Device
  <2>4. llState' \in [Device -> 0 .. 4]
    BY <1>2, <1>3, <2>1 DEF RoleInv
  <2>5. ~Connected'
    BY <2>3 DEF Connected, BLE_LL_CONNECTION, Device
  <2> QED BY <2>3, <2>4, <2>5 DEF RoleInv
<1>5. MapInv'
  BY <1>2, Zenon DEF BllInv, MapInv
<1> QED BY <1>4, <1>5, Zenon DEF BllInv, LinkInv

LEMMA ParamsAccepted ==
  ASSUME NEW i \in Int, NEW l \in Int, NEW t \in Int, ble_conn_params_init(i, l, t) # NoConn
  PROVE  /\ ~(i < 15) /\ ~(l < 0) /\ ~(t <= (1 + l) * i * 2)
         /\ ble_conn_params_init(i, l, t) = [interval |-> i, latency |-> l, timeout |-> t]
<1> DEFINE few == t <= (1 + l) * i * 2
           rest == \/ i < 15 \/ i > 8000 \/ l < 0 \/ l > 499 \/ t < 200 \/ t > 64000
           good == [interval |-> i, latency |-> l, timeout |-> t]
<1>1. ble_conn_params_init(i, l, t) = IF rest \/ few THEN NoConn ELSE good
  BY DEF ble_conn_params_init
<1> HIDE DEF few, good, rest
<1>2. ~rest /\ ~few /\ ble_conn_params_init(i, l, t) = good
  BY <1>1, Zenon
<1>3. ~(i < 15) /\ ~(l < 0)
  BY <1>2 DEF rest
<1>4. ~(t <= (1 + l) * i * 2)
  BY <1>2 DEF few
<1> QED BY <1>2, <1>3, <1>4 DEF good

LEMMA ConnectKeeps == BllInv /\ Connect => BllInv'
<1> SUFFICES ASSUME BllInv, Connect PROVE BllInv'
  OBVIOUS
<1>1. PICK q \in BllParams, map \in BllMaps, hop \in BllHops :
        /\ conn' = ble_conn_params_init(q[1], q[2], q[3]) /\ conn' # NoConn
        /\ goodMap' = map /\ hopInc' = hop
  BY Zenon DEF Connect
<1>2. dataCh' = 0 /\ event' = 0 /\ slept' = 0 /\ unheard' = 0 /\ missed' = FALSE /\ visited' = {}
  BY DEF Connect
<1>3. MapInv'
  <2>1. map \subseteq 0 .. 36 /\ map # {} /\ hop \in 5 .. 16 /\ BllEvents \in Nat
    BY BllAssumption
  <2>2. (0 * hop) % 37 = 0
    BY <2>1
  <2> QED BY <1>1, <1>2, <2>1, <2>2 DEF MapInv
<1>4. RoleInv'
  <2>1. <<BLE_LL_INITIATING, 1, BLE_LL_CONNECTION>> \in Transitions
        /\ <<BLE_LL_ADVERTISING, 3, BLE_LL_CONNECTION>> \in Transitions
    BY DEF Transitions
  <2>2. /\ ble_ll_state_transition(BLE_LL_INITIATING, 1) = BLE_LL_CONNECTION
        /\ ble_ll_state_transition(BLE_LL_ADVERTISING, 3) = BLE_LL_CONNECTION
    <3>1. \A t \in Transitions : ble_ll_state_transition(t[1], t[2]) = t[3]
      BY TransitionTo
    <3> DEFINE one == <<BLE_LL_INITIATING, 1, BLE_LL_CONNECTION>>
               two == <<BLE_LL_ADVERTISING, 3, BLE_LL_CONNECTION>>
    <3>2. one[1] = BLE_LL_INITIATING /\ one[2] = 1 /\ one[3] = BLE_LL_CONNECTION
          /\ two[1] = BLE_LL_ADVERTISING /\ two[2] = 3 /\ two[3] = BLE_LL_CONNECTION
      OBVIOUS
    <3>3. one \in Transitions /\ two \in Transitions
      BY <2>1
    <3> HIDE DEF one, two
    <3> QED BY <3>1, <3>2, <3>3
  <2>3. llState' = [d \in Device |->
           ble_ll_state_transition(llState[d], IF d = "central" THEN 1 ELSE 3)]
    BY Zenon DEF Connect
  <2>4. llState["central"] = BLE_LL_INITIATING /\ llState["peripheral"] = BLE_LL_ADVERTISING
    BY DEF Connect
  <2>5. llState'["central"] = 4 /\ llState'["peripheral"] = 4 /\ llState' \in [Device -> 0 .. 4]
    BY <2>2, <2>3, <2>4 DEF Device, BLE_LL_CONNECTION
  <2> QED BY <2>5 DEF RoleInv
<1>5. LinkInv'
  <2> DEFINE i == q[1]
             l == q[2]
             t == q[3]
             c == ble_conn_params_init(i, l, t)
  <2>1. i \in Int /\ l \in Int /\ t \in Int
    BY BllAssumption
  <2> HIDE DEF i, l, t
  <2>2. /\ ~(i < 15) /\ ~(l < 0) /\ ~(t <= (1 + l) * i * 2)
        /\ c = [interval |-> i, latency |-> l, timeout |-> t]
    <3>1. c # NoConn
      BY <1>1, Zenon DEF i, l, t
    <3> QED BY <2>1, <3>1, ParamsAccepted
  <2>3. c.interval = i /\ c.latency = l /\ c.timeout = t
    BY <2>2
  <2>4. conn' = c
    BY <1>1, Zenon DEF i, l, t
  <2> DEFINE s == (1 + l) * i
  <2>5. s \in Int /\ s * 2 = (1 + l) * i * 2 /\ t > s * 2
    BY <2>1, <2>2
  <2>6. Silence' = s
    BY <2>3, <2>4, Zenon DEF Silence
  <2> HIDE DEF c, s
  <2>7. l \in Nat /\ i \in Nat /\ i > 0
    BY <2>1, <2>2
  <2>8. 0 <= 0 * i /\ 0 \in 0 .. l
    BY <2>7
  <2>9. /\ conn'.latency \in Nat /\ conn'.interval \in Nat /\ conn'.timeout \in Int
        /\ conn'.timeout > Silence' * 2 /\ conn'.interval > 0
    BY <2>1, <2>3, <2>4, <2>5, <2>6, <2>7
  <2>10. slept' \in 0 .. conn'.latency /\ unheard' \in Nat /\ unheard' <= slept' * conn'.interval
    BY <1>2, <2>3, <2>4, <2>8
  <2>11. missed' # TRUE
    BY <1>2
  <2> QED BY <2>9, <2>10, <2>11, Zenon DEF LinkInv
<1> QED BY <1>3, <1>4, <1>5 DEF BllInv

LEMMA DisconnectKeeps == BllInv /\ Disconnect => BllInv'
<1> SUFFICES ASSUME BllInv, Disconnect PROVE BllInv'
  OBVIOUS
<1>1. MapInv'
  <2>1. 0 \in 0 .. BllEvents /\ (0 * 8) % 37 = 0 /\ 0 \in 0 .. 36 /\ 8 \in 5 .. 16
    BY BllAssumption
  <2> QED BY <2>1 DEF Disconnect, MapInv, DataChannels
<1>2. RoleInv' /\ ~Connected'
  <2> DEFINE one == <<BLE_LL_CONNECTION, 4, BLE_LL_STANDBY>>
  <2>1. one \in Transitions /\ one[1] = BLE_LL_CONNECTION /\ one[2] = 4 /\ one[3] = BLE_LL_STANDBY
    BY DEF Transitions
  <2> HIDE DEF one
  <2>2. ble_ll_state_transition(BLE_LL_CONNECTION, 4) = BLE_LL_STANDBY
    <3>1. ble_ll_state_transition(one[1], one[2]) = one[3]
      BY <2>1, TransitionTo
    <3> QED BY <2>1, <3>1
  <2>3. llState' = [d \in Device |-> ble_ll_state_transition(llState[d], 4)]
    BY Zenon DEF Disconnect
  <2>4. \A d \in Device : llState[d] = BLE_LL_CONNECTION
    BY DEF Disconnect, Connected
  <2>5. llState' = [d \in Device |-> 0]
    BY <2>2, <2>3, <2>4 DEF BLE_LL_STANDBY
  <2> QED BY <2>5 DEF RoleInv, Connected, BLE_LL_CONNECTION, Device
<1> QED BY <1>1, <1>2 DEF BllInv, LinkInv

LEMMA MoreSilence ==
  ASSUME NEW i \in Nat, NEW l \in Nat, NEW s \in 0 .. l
  PROVE  /\ s * i + i <= (1 + l) * i
         /\ (s + 1) * i = s * i + i
<1>1. PICK d \in Nat : l = s + d
  <2>1. l - s \in Nat /\ l = s + (l - s)
    OBVIOUS
  <2> QED BY <2>1
<1>2. d * i >= 0
  OBVIOUS
<1>3. (1 + l) * i = i + s * i + d * i
  BY <1>1
<1> QED BY <1>2, <1>3

LEMMA EventMap ==
  ASSUME MapInv, event < BllEvents, event' = event + 1,
         dataCh' = ble_channel_hop(dataCh, hopInc, goodMap), visited' = visited \cup {dataCh'},
         UNCHANGED <<goodMap, hopInc>>
  PROVE  MapInv'
<1>1. /\ goodMap \in SUBSET (0 .. 36) /\ goodMap # {} /\ dataCh \in DataChannels
      /\ hopInc \in 5 .. 16 /\ event \in 0 .. BllEvents
  BY DEF MapInv, DataChannels
<1>2. /\ dataCh' \in goodMap
      /\ goodMap = DataChannels => dataCh' = (dataCh + hopInc) % 37
  BY <1>1, HopType
<1>3. event' \in 0 .. BllEvents /\ event \in Nat
  BY <1>1, BllAssumption
<1>4. ASSUME goodMap = DataChannels
      PROVE  dataCh' = (event' * hopInc) % 37 /\ \A k \in 1 .. event' : (k * hopInc) % 37 \in visited'
  <2>1. /\ dataCh = (event * hopInc) % 37
        /\ \A k \in 1 .. event : (k * hopInc) % 37 \in visited
    BY <1>4 DEF MapInv
  <2>2. dataCh' = (event' * hopInc) % 37
    <3>1. hopInc \in Nat
      BY <1>1
    <3>2. (((event * hopInc) % 37) + hopInc) % 37 = ((event + 1) * hopInc) % 37
      BY <1>3, <3>1, NextHop
    <3> QED BY <1>2, <1>4, <2>1, <3>2
  <2>3. \A k \in 1 .. event' : k \in 1 .. event \/ k = event'
    BY <1>3
  <2> QED BY <2>1, <2>2, <2>3
<1>5. visited' \subseteq goodMap' /\ dataCh' \in 0 .. 36
  BY <1>1, <1>2 DEF MapInv
<1> QED BY <1>1, <1>3, <1>4, <1>5, Zenon DEF MapInv

LEMMA EventLink ==
  ASSUME LinkInv, Connected, NEW kind, ConnectionEvent(kind)
  PROVE  LinkInv'
<1> DEFINE i == conn.interval
           l == conn.latency
           t == conn.timeout
           s == slept
           u == unheard
<1>1. /\ l \in Nat /\ i \in Nat /\ t \in Int /\ t > Silence * 2 /\ i > 0 /\ s \in 0 .. l /\ u \in Nat
      /\ missed = TRUE => u <= Silence + s * i
      /\ missed # TRUE => u <= s * i
  BY DEF LinkInv
<1>2. UNCHANGED <<llState, conn>>
  BY DEF ConnectionEvent
<1>3. Silence' = Silence
  BY <1>2 DEF Silence
<1>4. Silence = (1 + l) * i
  BY DEF Silence
<1> HIDE DEF i, l, t, s, u
<1>5. s * i + i <= Silence /\ (s + 1) * i = s * i + i /\ Silence \in Nat /\ s * i \in Nat
  <2>1. s * i \in Nat /\ (1 + l) * i \in Nat
    BY <1>1
  <2> QED BY <1>1, <1>4, <2>1, MoreSilence
<1>6. /\ slept' \in 0 .. l /\ unheard' \in Nat
      /\ missed' = TRUE => unheard' <= Silence + slept' * i
      /\ missed' # TRUE => unheard' <= slept' * i
  <2>1. CASE /\ slept < conn.latency /\ slept' = slept + 1
             /\ unheard' = unheard + conn.interval /\ UNCHANGED missed
    <3>1. s < l /\ slept' = s + 1 /\ unheard' = u + i /\ missed' = missed
      BY <2>1 DEF s, l, u, i
    <3>2. slept' \in 0 .. l /\ unheard' \in Nat /\ slept' * i = s * i + i
      BY <1>1, <1>5, <3>1
    <3>3. missed = TRUE => unheard' <= Silence + slept' * i
      BY <1>1, <1>5, <3>1, <3>2
    <3>4. missed # TRUE => unheard' <= slept' * i
      BY <1>1, <1>5, <3>1, <3>2
    <3> QED BY <3>1, <3>2, <3>3, <3>4
  <2>2. CASE /\ ~missed /\ slept' = 0 /\ unheard' = unheard + conn.interval /\ missed' = TRUE
    <3>1. missed # TRUE /\ slept' = 0 /\ unheard' = u + i /\ missed' = TRUE
      BY <2>2 DEF u, i
    <3>2. u <= s * i
      BY <1>1, <3>1
    <3>3. 0 * i = 0 /\ 0 \in 0 .. l
      BY <1>1
    <3>4. u + i <= Silence /\ u + i \in Nat
      BY <1>1, <1>5, <3>2
    <3> QED BY <1>5, <3>1, <3>3, <3>4
  <2>3. CASE slept' = 0 /\ unheard' = 0 /\ missed' = FALSE
    <3>1. 0 * i = 0 /\ 0 \in 0 .. l
      BY <1>1
    <3>2. missed' # TRUE
      BY <2>3
    <3>3. slept' \in 0 .. l /\ unheard' \in Nat /\ unheard' <= slept' * i
      BY <2>3, <3>1, 0 \in Nat, 0 <= 0
    <3> QED BY <3>2, <3>3, Zenon
  <2>4. \/ /\ slept < conn.latency /\ slept' = slept + 1
           /\ unheard' = unheard + conn.interval /\ UNCHANGED missed
        \/ /\ ~missed /\ slept' = 0 /\ unheard' = unheard + conn.interval /\ missed' = TRUE
        \/ slept' = 0 /\ unheard' = 0 /\ missed' = FALSE
    BY Zenon DEF ConnectionEvent
  <2> DEFINE Good == /\ slept' \in 0 .. l /\ unheard' \in Nat
                     /\ missed' = TRUE => unheard' <= Silence + slept' * i
                     /\ missed' # TRUE => unheard' <= slept' * i
  <2>5. Good
    <3> HIDE DEF Good
    <3>1. CASE /\ slept < conn.latency /\ slept' = slept + 1
               /\ unheard' = unheard + conn.interval /\ UNCHANGED missed
      <4> USE DEF Good
      <4> QED BY <2>1, <3>1, Zenon
    <3>2. CASE /\ ~missed /\ slept' = 0 /\ unheard' = unheard + conn.interval /\ missed' = TRUE
      <4> USE DEF Good
      <4> QED BY <2>2, <3>2, Zenon
    <3>3. CASE slept' = 0 /\ unheard' = 0 /\ missed' = FALSE
      <4> USE DEF Good
      <4> QED BY <2>3, <3>3, Zenon
    <3> QED BY <3>1, <3>2, <3>3, <2>4, Zenon
  <2> QED BY <2>5
<1>7. conn'.latency = l /\ conn'.interval = i /\ conn'.timeout = t
  BY <1>2 DEF l, i, t
<1> QED BY <1>1, <1>3, <1>6, <1>7, Zenon DEF LinkInv

LEMMA EventKeeps == ASSUME BllInv, NEW kind, ConnectionEvent(kind) PROVE BllInv'
<1>1. MapInv /\ LinkInv /\ RoleInv
  BY DEF BllInv
<1>2. MapInv'
  <2>1. /\ event < BllEvents /\ event' = event + 1
        /\ dataCh' = ble_channel_hop(dataCh, hopInc, goodMap) /\ visited' = visited \cup {dataCh'}
        /\ UNCHANGED <<goodMap, hopInc>>
    BY DEF ConnectionEvent
  <2> QED BY <1>1, <2>1, EventMap
<1>3. LinkInv'
  <2>1. Connected
    BY DEF ConnectionEvent
  <2> QED BY <1>1, <2>1, EventLink
<1>4. RoleInv'
  <2>1. UNCHANGED llState
    BY DEF ConnectionEvent
  <2> QED BY <1>1, <2>1, Zenon DEF RoleInv
<1> QED BY <1>2, <1>3, <1>4 DEF BllInv

LEMMA BllInvSuffices == BllInv => BleLinkSound
<1> SUFFICES ASSUME BllInv PROVE BleLinkSound
  OBVIOUS
<1>1. BllTypeOK
  BY Zenon DEF BllInv, MapInv, RoleInv, BllTypeOK, DataChannels
<1>2. LinkKept
  <2> SUFFICES ASSUME Connected PROVE ~TimedOut
    BY DEF LinkKept
  <2> DEFINE i == conn.interval
             l == conn.latency
             t == conn.timeout
  <2>1. /\ l \in Nat /\ i \in Nat /\ t \in Int /\ t > Silence * 2 /\ i > 0
        /\ slept \in 0 .. l /\ unheard \in Nat
        /\ missed = TRUE => unheard <= Silence + slept * i
        /\ missed # TRUE => unheard <= slept * i
    BY DEF BllInv, LinkInv
  <2>2. Silence = (1 + l) * i
    BY DEF Silence
  <2> HIDE DEF i, l
  <2>3. slept * i + i <= Silence /\ Silence \in Nat /\ slept * i \in Nat
    <3>1. slept * i \in Nat /\ (1 + l) * i \in Nat
      BY <2>1
    <3> QED BY <2>1, <2>2, <3>1, MoreSilence
  <2> HIDE DEF t
  <2>4. unheard <= Silence + slept * i
    <3>1. CASE missed = TRUE
      BY <2>1, <3>1, Zenon
    <3>2. CASE missed # TRUE
      <4>1. unheard <= slept * i
        BY <2>1, <3>2, Zenon
      <4> QED BY <2>1, <2>3, <4>1
    <3> QED BY <3>1, <3>2, Zenon
  <2>5. ~(unheard >= t)
    BY <2>1, <2>3, <2>4
  <2> QED BY <2>5 DEF TimedOut, t
<1>3. HopsInMap
  <2>1. visited \subseteq goodMap
    BY DEF BllInv, MapInv
  <2>2. ASSUME goodMap = DataChannels, event >= 37 PROVE visited = DataChannels
    <3>1. hopInc \in 5 .. 16 /\ event \in Nat /\ \A k \in 1 .. event : (k * hopInc) % 37 \in visited
      BY <2>2 DEF BllInv, MapInv
    <3>2. ASSUME NEW c \in 0 .. 36 PROVE c \in visited
      <4>1. PICK j \in 1 .. 37 : (j * hopInc) % 37 = c
        BY <3>1, HopsCover
      <4>2. j \in 1 .. event
        BY <2>2, <3>1
      <4> QED BY <3>1, <4>1, <4>2
    <3> QED BY <2>1, <2>2, <3>2 DEF DataChannels
  <2> QED BY <2>1, <2>2 DEF HopsInMap
<1>4. BothOrNone
  <2>1. llState \in [Device -> 0 .. 4] /\ (llState["central"] = 4 <=> llState["peripheral"] = 4)
    BY DEF BllInv, RoleInv
  <2>2. ASSUME NEW d \in Device, llState[d] = 4 PROVE llState = [e \in Device |-> 4]
    <3>1. \A e \in Device : llState[e] = 4
      BY <2>1, <2>2 DEF Device
    <3> QED BY <2>1, <3>1
  <2> QED BY <2>2, Zenon DEF BothOrNone, Connected, BLE_LL_CONNECTION
<1> QED BY <1>1, <1>2, <1>3, <1>4 DEF BleLinkSound

(* An accepted connection outlives two silences around a lost event, whatever
   the parameters; all hops stay on the good channels, and 37 of them use all
   when all are good, whichever the increment; and neither device is in a
   connection alone. *)
THEOREM LinkSoundKept == BllSpec => []BleLinkSound
<1>1. BllInit => BllInv
  BY BllInvInit
<1>2. BllInv /\ [BllNext]_bllVars => BllInv'
  <2> SUFFICES ASSUME BllInv, [BllNext]_bllVars PROVE BllInv'
    OBVIOUS
  <2>1. ASSUME NEW d \in Device, NEW cmd \in 0 .. 4, Command(d, cmd) PROVE BllInv'
    BY <2>1, CommandKeeps
  <2>2. ASSUME NEW kind \in {"slept", "lost", "heard"}, ConnectionEvent(kind) PROVE BllInv'
    BY <2>2, EventKeeps
  <2>3. CASE UNCHANGED bllVars
    BY <2>3, Zenon DEF bllVars, BllInv, MapInv, RoleInv, LinkInv, Connected, Silence
  <2> QED BY <2>1, <2>2, <2>3, ConnectKeeps, DisconnectKeeps DEF BllNext
<1>3. BllInv => BleLinkSound
  BY BllInvSuffices
<1> QED BY <1>1, <1>2, <1>3, PTL DEF BllSpec
===============================================================================
