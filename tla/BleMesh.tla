-------------------------------- MODULE BleMesh --------------------------------
(***************************************************************************)
(* The BLE mesh of mini-wifi-bluetooth (src/bluetooth_ble.c): managed       *)
(* flooding with ble_mesh_msg_init and ble_mesh_relay_decision.  A node     *)
(* relays what its cache of recent messages does not hold, with the time to *)
(* live decremented, as the header asks of a relay.                         *)
(*                                                                          *)
(* The radio is asynchronous: every neighbour hears a transmission at a     *)
(* time of its own, or not at all.  Equal transmissions that reach a node   *)
(* together count as one.                                                   *)
(***************************************************************************)
EXTENDS Integers, FiniteSets

CONSTANTS
  Nodes,       \* unicast addresses; none of them is 0
  Sources,     \* the nodes that send
  Links,       \* pairs of nodes that hear each other
  CacheSize,   \* entries of the cache of each node
  NoKey,       \* 0, the content of an unused entry
  SeqModulus,      \* 2^16: the cache keeps the low 16 bits of a sequence number
  TtlLimit,    \* 127: the largest time to live of a message
  Ttls,        \* what a sender may ask for
  MaxSends,    \* bound on messages of one source
  MaxLosses    \* bound on transmissions that a neighbour does not hear

Ids  == [src : Sources, seq : 0 .. MaxSends - 1]
Keys == [src : Sources, seq : 0 .. SeqModulus - 1]

ASSUME MeshAssumption ==
  /\ Sources \subseteq Nodes
  /\ Links \subseteq Nodes \X Nodes
  /\ CacheSize \in Nat \ {0}
  /\ SeqModulus \in Nat \ {0}
  /\ NoKey \notin Keys
  /\ TtlLimit \in Nat \ {0}
  /\ Ttls \subseteq Nat
  /\ MaxSends \in Nat
  /\ MaxLosses \in Nat

VARIABLES
  air,      \* transmissions on their way: to, message, time to live
  cache,    \* per node: the keys of the messages relayed last, newest first
  next,     \* per source: its next sequence number, set by the network layer
  sentTtl,  \* history: the time to live each message set out with, 0 before
  heard,    \* history, per node: the messages received
  relayed,  \* history, per node and key: times relayed, less times forgotten
  losses    \* history: transmissions lost

vars == <<air, cache, next, sentTtl, heard, relayed, losses>>

Packets == [to : Nodes, id : Ids, ttl : 0 .. TtlLimit]

Init == /\ air = {}
        /\ cache = [n \in Nodes |-> [i \in 1 .. CacheSize |-> NoKey]]
        /\ next = [n \in Sources |-> 0]
        /\ sentTtl = [id \in Ids |-> 0]
        /\ heard = [n \in Nodes |-> {}]
        /\ relayed = [n \in Nodes |-> [k \in Keys |-> 0]]
        /\ losses = 0

-----------------------------------------------------------------------------
Broadcast(n, id, ttl) ==
  {[to |-> l[2], id |-> id, ttl |-> ttl] : l \in {x \in Links : x[1] = n}}

(* Mutant: the time to live is taken as it is. *)
ClampNone(ttl) == ttl

(* ble_mesh_msg_init clamps the time to live. *)
Clamp(ttl) == IF ttl > TtlLimit THEN TtlLimit ELSE ttl

(* A source sends a message; its own cache does not learn of it. *)
Send(n) ==
  /\ next[n] < MaxSends
  /\ \E ttl \in Ttls :
       LET id == [src |-> n, seq |-> next[n]] IN
       /\ air' = air \cup Broadcast(n, id, Clamp(ttl))
       /\ sentTtl' = [sentTtl EXCEPT ![id] = Clamp(ttl)]
  /\ next' = [next EXCEPT ![n] = @ + 1]
  /\ UNCHANGED <<cache, heard, relayed, losses>>

Key(id) == [src |-> id.src, seq |-> id.seq % SeqModulus]

Cached(n, k) == \E i \in 1 .. CacheSize : cache[n][i] = k

(* The cache is a queue: all entries move up and the last one is lost. *)
Remember(n, k) ==
  /\ cache' = [cache EXCEPT ![n] =
       [i \in 1 .. CacheSize |-> IF i = 1 THEN k ELSE @[i - 1]]]
  /\ relayed' = [relayed EXCEPT ![n] =
       [x \in Keys |-> @[x] + (IF x = k THEN 1 ELSE 0)
                             - (IF x = cache[n][CacheSize] THEN 1 ELSE 0)]]

(* Mutant: the message is relayed and not remembered. *)
RelayForgets(p) ==
  /\ p.ttl > 1
  /\ ~Cached(p.to, Key(p.id))
  /\ relayed' = [relayed EXCEPT ![p.to][Key(p.id)] = @ + 1]
  /\ air' = (air \ {p}) \cup Broadcast(p.to, p.id, p.ttl - 1)
  /\ UNCHANGED cache

(* Mutant: the time to live is not decremented. *)
RelayForever(p) ==
  /\ p.ttl > 1
  /\ ~Cached(p.to, Key(p.id))
  /\ Remember(p.to, Key(p.id))
  /\ air' = (air \ {p}) \cup Broadcast(p.to, p.id, p.ttl)

(* Mutant: the last hop is not made. *)
RelayShort(p) ==
  /\ p.ttl > 2
  /\ ~Cached(p.to, Key(p.id))
  /\ Remember(p.to, Key(p.id))
  /\ air' = (air \ {p}) \cup Broadcast(p.to, p.id, p.ttl - 1)

(* ble_mesh_relay_decision answers 1 and the node transmits. *)
Relay(p) ==
  /\ p.ttl > 1
  /\ ~Cached(p.to, Key(p.id))
  /\ Remember(p.to, Key(p.id))
  /\ air' = (air \ {p}) \cup Broadcast(p.to, p.id, p.ttl - 1)

(* It answers 0: the message has come to its end, or is known already. *)
Drop(p) ==
  /\ p.ttl <= 1 \/ Cached(p.to, Key(p.id))
  /\ air' = air \ {p}
  /\ UNCHANGED <<cache, relayed>>

Receive(p) == /\ Relay(p) \/ Drop(p)
              /\ heard' = [heard EXCEPT ![p.to] = @ \cup {p.id}]
              /\ UNCHANGED <<next, sentTtl, losses>>

Lose(p) == /\ losses < MaxLosses
           /\ losses' = losses + 1
           /\ air' = air \ {p}
           /\ UNCHANGED <<cache, next, sentTtl, heard, relayed>>

Next == \/ \E n \in Sources : Send(n)
        \/ \E p \in air : Receive(p) \/ Lose(p)

Spec == Init /\ [][Next]_vars

(* What is in the air is heard or lost in the end. *)
Arrival == \E p \in air : Receive(p)

FairSpec == Spec /\ WF_vars(Arrival)

-----------------------------------------------------------------------------
(* Properties *)

TypeOK ==
  /\ air \subseteq Packets
  /\ cache \in [Nodes -> [1 .. CacheSize -> Keys \cup {NoKey}]]
  /\ next \in [Sources -> 0 .. MaxSends]
  /\ sentTtl \in [Ids -> 0 .. TtlLimit]
  /\ heard \in [Nodes -> SUBSET Ids]
  /\ relayed \in [Nodes -> [Keys -> Int]]
  /\ losses \in 0 .. MaxLosses

(* A node relays a message once, and once more only after its cache has
   forgotten it, however the copies overtake each other. *)
RelayedOnce ==
  \A n \in Nodes, k \in Keys : relayed[n][k] <= 1

(* Nodes that are d hops apart, along a walk through the mesh. *)
Walk(a, b, d) ==
  \E w \in [0 .. d -> Nodes] :
    w[0] = a /\ w[d] = b /\ \A i \in 1 .. d : <<w[i - 1], w[i]>> \in Links

Reach == [d \in 0 .. TtlLimit |->
            {x \in Nodes \X Nodes : \E k \in 0 .. d : Walk(x[1], x[2], k)}]

(* What a message sets out with counts hops; its neighbours hear it anyhow. *)
Span(id) == IF sentTtl[id] = 0 THEN 1 ELSE sentTtl[id]

(* No message is heard farther from its source than its time to live. *)
WithinTtl ==
  \A n \in Nodes : \A id \in heard[n] : <<id.src, n>> \in Reach[Span(id)]

(* The flood dies out, even where a small cache lets messages through again
   and again. *)
FloodEnds == <>[](air = {})

(* If nothing is lost, a message that may live for as many hops as there are
   other nodes is heard by every node in the mesh: each node relays the first
   copy it gets, and first copies have visited different nodes. *)
AllHear ==
  \A id \in Ids :
    <>[](sentTtl[id] >= Cardinality(Nodes) - 1
           => losses > 0 \/ \A n \in Nodes : id \in heard[n])
=============================================================================
