----------------------------- MODULE CellPlanning -----------------------------
(***************************************************************************)
(* The planning of a network in mini-cellular-network: the hexagonal grid,  *)
(* frequency reuse and the neighbour relation table                         *)
(* (src/cell_network_model.c), the number of channels for a traffic         *)
(* (src/cell_network_capacity.c), the choice of sites                       *)
(* (src/cell_network_deployment.c) and the tables of                        *)
(* src/cell_network_defs.c.                                                 *)
(*                                                                          *)
(* Traffic, demands and probabilities are fractions.  Areas are tenths of   *)
(* a square kilometre, the places of sites metres.                          *)
(***************************************************************************)
EXTENDS Exact, FiniteSets, FiniteSetsExt

CONSTANTS
  CplGrids,      \* per grid: radius in rings and places in the result
  CplReuses,     \* reuse factors
  CplRelations,  \* 256, the entries of the neighbour relation table
  CplEvents,     \* bound on additions and statistics
  CplTraffics,   \* Erlang offered
  CplTargets,    \* blocking that is accepted
  CplSites,      \* per choice: sequences of candidates, x, y and demand
  CplRadius,     \* radius of a cell, metres
  CplAreas       \* areas to deploy in

ASSUME PlanningAssumption ==
  /\ \A g \in CplGrids : g[1] \in Nat /\ g[2] \in Nat
  /\ CplReuses \subseteq Nat \ {0} /\ CplRelations \in Nat \ {0} /\ CplEvents \in Nat
  /\ CplAreas \subseteq Nat

VARIABLE cpl

-----------------------------------------------------------------------------
(* The grid, in axial coordinates *)

hex_hop_distance(a, b) ==
  LET dq == a.q - b.q
      dr == a.r - b.r
  IN  Max({Size(dq), Size(dr), Size(dq + dr)})

(* The six directions, in the order the sides of a ring are walked. *)
Directions == <<<<-1, 1>>, <<0, 1>>, <<1, 0>>, <<1, -1>>, <<0, -1>>, <<-1, 0>>>>

Toward(h, d, steps) == [q |-> h.q + steps * Directions[d][1], r |-> h.r + steps * Directions[d][2]]

(* Where side d of the ring starts. *)
RingCorner(center, radius, d) ==
  FoldLeft(LAMBDA h, e : Toward(h, e, radius), [q |-> center.q + radius, r |-> center.r],
           [e \in 1 .. d - 1 |-> e])

(* Mutant: the sides are one cell too long. *)
LongRing(center, radius, most) ==
  IF radius < 0 \/ most <= 0 THEN <<>>
  ELSE IF radius = 0 THEN <<center>>
  ELSE [k \in 1 .. IF 6 * radius > most THEN most ELSE 6 * radius |->
          LET side == (k - 1) \div radius + 1
          IN  Toward(RingCorner(center, radius, side), side, ((k - 1) % radius) + 1 + side \div 6)]

hex_ring(center, radius, most) ==
  IF radius < 0 \/ most <= 0 THEN <<>>
  ELSE IF radius = 0 THEN <<center>>
  ELSE [k \in 1 .. IF 6 * radius > most THEN most ELSE 6 * radius |->
          LET side == (k - 1) \div radius + 1
          IN  Toward(RingCorner(center, radius, side), side, (k - 1) % radius)]

hex_filled_grid(center, rings, most) ==
  FoldLeft(LAMBDA grid, r : grid \o hex_ring(center, r, most - Len(grid)), <<>>, [r \in 1 .. rings + 1 |-> r - 1])

-----------------------------------------------------------------------------
(* Frequency reuse: the pair with the least i that gives N *)

ShiftPairs(n) == {p \in (0 .. n) \X (0 .. n) : p[1] * p[1] + p[1] * p[2] + p[2] * p[2] = n}

(* Mutant: both shifts are added. *)
GroupsAdded(sites, n) ==
  [k \in DOMAIN sites |->
     IF ShiftPairs(n) = {} THEN (k - 1) % n
     ELSE LET p == CHOOSE p \in ShiftPairs(n) : \A o \in ShiftPairs(n) : p[1] <= o[1]
          IN  (sites[k].q * p[2] + sites[k].r * p[1]) % n]

freq_reuse_assign_groups(sites, n) ==
  [k \in DOMAIN sites |->
     IF ShiftPairs(n) = {} THEN (k - 1) % n
     ELSE LET p == CHOOSE p \in ShiftPairs(n) : \A o \in ShiftPairs(n) : p[1] <= o[1]
          IN  (sites[k].q * p[2] - sites[k].r * p[1]) % n]

(* The sites that interfere with site v: those of its group, and in the
   matrix, which knows no groups, all others.  All sites are active. *)
compute_cochannel_interference_dbm(groups, v) == {k \in DOMAIN groups \ {v} : groups[k] = groups[v]}
build_interference_matrix(sites, v) == {k \in DOMAIN sites \ {v} : k <= 64}

-----------------------------------------------------------------------------
(* The neighbour relation table *)

Relation(src, tgt) == [source |-> src, target |-> tgt, ho_type |-> "intra", x2 |-> FALSE, success |-> 0, failure |-> 0, rsrp |-> 0]

nrt_find(nrt, src, tgt) == {i \in DOMAIN nrt : nrt[i].source = src /\ nrt[i].target = tgt}

(* Mutant: a pair is entered each time. *)
EnteredTwice(nrt, src, tgt, type, x2) ==
  IF Len(nrt) < CplRelations THEN Append(nrt, [Relation(src, tgt) EXCEPT !.ho_type = type, !.x2 = x2]) ELSE nrt

nrt_add(nrt, src, tgt, type, x2) ==
  IF nrt_find(nrt, src, tgt) # {}
  THEN [nrt EXCEPT ![Min(nrt_find(nrt, src, tgt))].ho_type = type, ![Min(nrt_find(nrt, src, tgt))].x2 = x2]
  ELSE IF Len(nrt) < CplRelations THEN Append(nrt, [Relation(src, tgt) EXCEPT !.ho_type = type, !.x2 = x2])
  ELSE nrt

(* The level is that of the last handover, not an average. *)
nrt_update_ho_stats(nrt, src, tgt, success, rsrp) ==
  [i \in DOMAIN nrt |->
     IF i \notin nrt_find(nrt, src, tgt) THEN nrt[i]
     ELSE IF success THEN [nrt[i] EXCEPT !.success = @ + 1, !.rsrp = rsrp]
     ELSE [nrt[i] EXCEPT !.failure = @ + 1, !.rsrp = rsrp]]

-----------------------------------------------------------------------------
(* Capacity *)

(* Mutant: a channel too many is counted. *)
BlockingFromEmpty(channels, traffic) ==
  IF channels <= 0 \/ traffic[1] < 0 THEN Whole(0)
  ELSE FoldLeft(LAMBDA p, i : Over(Times(traffic, p), Plus(Whole(i + 1), Times(traffic, p))), Whole(1), [i \in 1 .. channels |-> i])

erlang_b_blocking_prob(channels, traffic) ==
  IF channels <= 0 \/ traffic[1] < 0 THEN Whole(0)
  ELSE FoldLeft(LAMBDA p, i : Over(Times(traffic, p), Plus(Whole(i), Times(traffic, p))), Whole(1), [i \in 1 .. channels |-> i])

(* 1000 channels are tried; those of an instance suffice below. *)
erlang_b_required_channels(traffic, target) ==
  IF traffic[1] <= 0 \/ target[1] <= 0 THEN 0
  ELSE CHOOSE c \in 1 .. 1000 :
         /\ AtMost(erlang_b_blocking_prob(c, traffic), target)
         /\ \A b \in 1 .. c - 1 : Below(target, erlang_b_blocking_prob(b, traffic))

(* a^k / k!, the terms of the sum of Erlang C. *)
ErlangTerm[a \in Seq(Int), k \in Nat] == IF k = 0 THEN Whole(1) ELSE Over(Times(ErlangTerm[a, k - 1], a), Whole(k))

erlang_c_waiting_prob(servers, traffic) ==
  IF servers <= 0 \/ traffic[1] <= 0 THEN Whole(0)
  ELSE IF AtMost(Whole(servers), traffic) THEN Whole(1)
  ELSE LET free == Total([k \in 1 .. servers |-> ErlangTerm[traffic, k - 1]])
           full == ErlangTerm[traffic, servers]
       IN  Over(full, Plus(full, Times(Minus(Whole(1), Over(traffic, Whole(servers))), free)))

erlang_c_avg_wait_time_ms(servers, traffic, ms) ==
  Over(Times(erlang_c_waiting_prob(servers, traffic), ms), Minus(Whole(servers), traffic))

Upward(x) == -((-x[1]) \div x[2])

(* Areas with users of a density and a traffic, cells of an area. *)
dimension_cell_capacity(area, density, perUser, target, cell) ==
  IF area <= 0 \/ cell <= 0 THEN [cells |-> 0, traffic |-> Whole(0), channels |-> 0]
  ELSE LET cells == Upward(Quotient(area, cell))
           traffic == Over(Times(Quotient(area * density, 10), perUser), Whole(cells))
       IN  [cells |-> cells, traffic |-> traffic, channels |-> erlang_b_required_channels(traffic, target)]

(* -1 stands for 1e9, the answer where the queue grows without end. *)
md1_avg_queue_length(arrival, service) ==
  IF service <= arrival THEN Whole(-1)
  ELSE LET rho == Quotient(arrival, service)
       IN  Over(Times(rho, rho), Times(Whole(2), Minus(Whole(1), rho)))

md1_avg_wait_time_ms(arrival, service) ==
  IF service <= arrival THEN Whole(-1)
  ELSE LET rho == Quotient(arrival, service)
       IN  Times(Over(rho, Times(Whole(2 * service), Minus(Whole(1), rho))), Whole(1000))

-----------------------------------------------------------------------------
(* Deployment *)

Reaches(a, b) == (a.x - b.x) * (a.x - b.x) + (a.y - b.y) * (a.y - b.y) <= CplRadius * CplRadius

Demand(candidates, places) == FoldFunctionOnSet(+, 0, [i \in DOMAIN candidates |-> candidates[i].demand], places)

(* What a candidate adds: its own demand, and that of all within its radius,
   itself once more. *)
Adds(candidates, covered, i) ==
  candidates[i].demand + Demand(candidates, {j \in DOMAIN candidates \ covered : Reaches(candidates[i], candidates[j])})

BestSite(candidates, covered) ==
  {i \in DOMAIN candidates \ covered :
     /\ Adds(candidates, covered, i) > 0
     /\ \A j \in DOMAIN candidates \ covered :
          \/ Adds(candidates, covered, j) < Adds(candidates, covered, i)
          \/ Adds(candidates, covered, j) = Adds(candidates, covered, i) /\ i <= j}

(* Mutant: what a chosen site covers is forgotten but for itself. *)
OnlyItself(candidates, s) ==
  IF BestSite(candidates, s.covered) = {} THEN s
  ELSE LET i == CHOOSE i \in BestSite(candidates, s.covered) : TRUE
       IN  [selected |-> Append(s.selected, i), covered |-> s.covered \cup {i}]

(* One round of select_sites_greedy *)
NextSite(candidates, s) ==
  IF BestSite(candidates, s.covered) = {} THEN s
  ELSE LET i == CHOOSE i \in BestSite(candidates, s.covered) : TRUE
       IN  [selected |-> Append(s.selected, i),
            covered |-> s.covered \cup {j \in DOMAIN candidates : Reaches(candidates[i], candidates[j])}]

select_sites_greedy(candidates, most) ==
  FoldLeft(LAMBDA s, k : NextSite(candidates, s), [selected |-> <<>>, covered |-> {}], [k \in 1 .. most |-> k])

(* Inter-site distances are tenths of a km: 8660 / 10000 of their square. *)
sites_for_area_hex_grid(area, isd) == IF isd <= 0 THEN -1 ELSE Upward(Quotient(area * 10000, 866 * isd * isd))

plan_nr_deployment(mhz, urban, suburban, rural) ==
  LET isd == IF mhz > 3000 THEN <<2, 8, 30>> ELSE <<5, 15, 50>>
      sites(area, d) == sites_for_area_hex_grid(area, d)
  IN  [urban |-> sites(urban, isd[1]), suburban |-> sites(suburban, isd[2]), rural |-> sites(rural, isd[3]),
       total |-> sites(urban, isd[1]) + sites(suburban, isd[2]) + sites(rural, isd[3])]

-----------------------------------------------------------------------------
(* Tables *)

pci_compute(id1, id2) == IF id1 \notin 0 .. 335 \/ id2 \notin 0 .. 2 THEN -1 ELSE 3 * id1 + id2
pci_decompose(pci) == IF pci > 1007 THEN <<-1, -1>> ELSE <<(pci - (pci % 3)) \div 3, pci % 3>>

(* five_qi, delay budget, exponent of the error rate, guaranteed, priority *)
Profiles ==
  <<<<1, 100, -2, TRUE, 20>>, <<2, 150, -3, TRUE, 40>>, <<3, 50, -3, TRUE, 30>>, <<4, 300, -6, TRUE, 50>>,
    <<65, 75, -2, TRUE, 7>>, <<5, 100, -6, FALSE, 10>>, <<6, 300, -6, FALSE, 60>>, <<7, 100, -3, FALSE, 70>>,
    <<8, 300, -6, FALSE, 80>>, <<9, 300, -6, FALSE, 90>>>>

qos_init_standard_profiles(most) == SubSeq(Profiles, 1, IF most < 10 THEN most ELSE 10)

numer_scs_khz(mu) == 15 * 2^mu

(* Nine tenths of the bandwidth carry blocks of twelve subcarriers. *)
nr_num_rbs(mhz, mu) == (mhz * 900) \div (12 * numer_scs_khz(mu))
SlotsPerSubframe(mu) == 2^mu
SlotsPerFrame(mu) == 10 * SlotsPerSubframe(mu)

-----------------------------------------------------------------------------
(* What a planner does *)

Center == [q |-> 0, r |-> 0]

CplInit == cpl = [step |-> "start"]

(* cell_cluster_init_hexagonal, then freq_reuse_assign_groups *)
PlanGrid == \E g \in CplGrids, n \in CplReuses :
  /\ cpl.step = "start"
  /\ \E sites \in {hex_filled_grid(Center, g[1], g[2])} :
       cpl' = [step |-> "grid", grid |-> g, n |-> n, sites |-> sites, ring |-> hex_ring(Center, g[1], g[2]),
               groups |-> freq_reuse_assign_groups(sites, n)]

OpenTable == cpl.step = "start" /\ cpl' = [step |-> "table", nrt |-> <<>>, log |-> <<>>]

Relate == \E src, tgt \in {1, 2}, x2 \in BOOLEAN :
  /\ cpl.step = "table" /\ Len(cpl.log) < CplEvents
  /\ cpl' = [cpl EXCEPT !.nrt = nrt_add(@, src, tgt, "intra", x2),
                        !.log = Append(@, [op |-> "add", pair |-> <<src, tgt>>, arg |-> x2])]

Report == \E src, tgt \in {1, 2}, success \in BOOLEAN :
  /\ cpl.step = "table" /\ Len(cpl.log) < CplEvents
  /\ cpl' = [cpl EXCEPT !.nrt = nrt_update_ho_stats(@, src, tgt, success, -90),
                        !.log = Append(@, [op |-> "report", pair |-> <<src, tgt>>, arg |-> success])]

Dimension == \E traffic \in CplTraffics, target \in CplTargets :
  /\ cpl.step = "start"
  /\ cpl' = [step |-> "channels", traffic |-> traffic, target |-> target,
             channels |-> erlang_b_required_channels(traffic, target),
             area |-> dimension_cell_capacity(25, 20, Over(traffic, Whole(40)), target, 10)]

Queue == \E arrival \in 0 .. 4, service \in 1 .. 4 :
  /\ cpl.step = "start"
  /\ cpl' = [step |-> "queue", arrival |-> arrival, service |-> service,
             queue |-> md1_avg_queue_length(arrival, service), wait |-> md1_avg_wait_time_ms(arrival, service)]

ChooseSites == \E candidates \in CplSites, most \in 0 .. 4 :
  /\ cpl.step = "start"
  /\ cpl' = [step |-> "sites", candidates |-> candidates, most |-> most, chosen |-> select_sites_greedy(candidates, most)]

Deploy == \E mhz \in {2600, 3500}, urban, suburban, rural \in CplAreas :
  /\ cpl.step = "start"
  /\ cpl' = [step |-> "deployed", mhz |-> mhz, areas |-> <<urban, suburban, rural>>,
             plan |-> plan_nr_deployment(mhz, urban, suburban, rural)]

Configure == \E id1 \in {-1, 0, 100, 335, 336}, id2 \in -1 .. 3, mhz \in {5, 20, 100}, mu \in 0 .. 4, most \in {0, 4, 10} :
  /\ cpl.step = "start"
  /\ cpl' = [step |-> "configured", ids |-> <<id1, id2>>, pci |-> pci_compute(id1, id2), mhz |-> mhz, mu |-> mu,
             rbs |-> nr_num_rbs(mhz, mu), profiles |-> qos_init_standard_profiles(most)]

CplNext == PlanGrid \/ OpenTable \/ Relate \/ Report \/ Dimension \/ Queue \/ ChooseSites \/ Deploy \/ Configure

CplSpec == CplInit /\ [][CplNext]_cpl

-----------------------------------------------------------------------------
(* Properties *)

(* A ring is a closed chain of neighbours that meets no cell twice.  It lies
   around the cell that is its radius away from the center along both axes,
   and around the center only for radius 0. *)
RingsClose ==
  cpl.step = "grid" =>
    LET ring == cpl.ring
        middle == [q |-> cpl.grid[1], r |-> cpl.grid[1]]
    IN  /\ \A k \in DOMAIN ring : hex_hop_distance(ring[k], middle) = cpl.grid[1]
        /\ \A k, m \in DOMAIN ring : ring[k] = ring[m] => k = m
        /\ \A k \in 1 .. Len(ring) - 1 : hex_hop_distance(ring[k], ring[k + 1]) = 1
        /\ ring # <<>> /\ Len(ring) = 6 * cpl.grid[1] => hex_hop_distance(ring[Len(ring)], ring[1]) = 1
        /\ Len(cpl.sites) = Min({cpl.grid[2], 1 + 3 * cpl.grid[1] * (cpl.grid[1] + 1)})

(* Sites of a group are the reuse distance apart, where the factor is given
   by shifts without common divisor: then two sites of a group that stand on
   different cells are at least sqrt(N) steps of the grid from each other. *)
GroupsApart ==
  cpl.step = "grid" =>
    /\ \A k \in DOMAIN cpl.groups : cpl.groups[k] \in 0 .. cpl.n - 1
    /\ (\E p \in ShiftPairs(cpl.n) : Gcd[p[1], p[2]] = 1) =>
         \A k \in DOMAIN cpl.sites : \A m \in compute_cochannel_interference_dbm(cpl.groups, k) :
           LET q == cpl.sites[k].q - cpl.sites[m].q
               r == cpl.sites[k].r - cpl.sites[m].r
           IN  m \in build_interference_matrix(cpl.sites, k) /\ (q # 0 \/ r # 0 => q * q + q * r + r * r >= cpl.n)

(* The table knows a pair of cells once, pairs that are missing found it full,
   its statistics count every handover reported since the pair was entered,
   and whether X2 is available is what was said last. *)
RelationsCounted ==
  cpl.step = "table" =>
    LET log == cpl.log
        of(e) == {i \in DOMAIN log : log[i].pair = <<e.source, e.target>>}
        added == {log[i].pair : i \in {i \in DOMAIN log : log[i].op = "add"}}
    IN  /\ \A i, j \in DOMAIN cpl.nrt : cpl.nrt[i].source = cpl.nrt[j].source /\ cpl.nrt[i].target = cpl.nrt[j].target => i = j
        /\ Len(cpl.nrt) = Min({CplRelations, Cardinality(added)})
        /\ \A k \in DOMAIN cpl.nrt :
             LET e == cpl.nrt[k]
                 adds == {i \in of(e) : log[i].op = "add"}
                 since == {i \in of(e) : i > Min(adds) /\ log[i].op = "report"}
             IN  /\ adds # {} /\ e.x2 = log[Max(adds)].arg
                 /\ e.success = Cardinality({i \in since : log[i].arg})
                 /\ e.failure = Cardinality({i \in since : ~log[i].arg})

(* The blocking is that of Erlang's formula, more channels block less, and
   the required number is the least that keeps to the target, for the traffic
   itself and for that of a cell of a dimensioned area.  Who may wait waits
   more often than who is turned away is turned away. *)
ChannelsSuffice ==
  /\ cpl.step = "channels" =>
       LET t == cpl.traffic
           b(c) == erlang_b_blocking_prob(c, t)
           term(k) == ErlangTerm[t, k]
       IN  \A c \in 1 .. cpl.channels :
             /\ b(c) = Over(term(c), Total([k \in 1 .. c + 1 |-> term(k - 1)]))
             /\ c > 1 => Below(b(c), b(c - 1))
             /\ AtMost(b(c), cpl.target) <=> c = cpl.channels
             /\ AtMost(b(c), erlang_c_waiting_prob(c, t)) /\ AtMost(erlang_c_waiting_prob(c, t), Whole(1))
             /\ Below(t, Whole(c)) => AtMost(Whole(0), erlang_c_avg_wait_time_ms(c, t, Whole(180)))
  /\ cpl.step = "channels" =>
       /\ 10 * cpl.area.cells >= 25 /\ 10 * (cpl.area.cells - 1) < 25
       /\ AtMost(erlang_b_blocking_prob(cpl.area.channels, cpl.area.traffic), cpl.target)

(* Little's law: the queue is what arrives during the wait. *)
QueueOfArrivals ==
  cpl.step = "queue" =>
    IF cpl.service <= cpl.arrival THEN cpl.queue = Whole(-1) /\ cpl.wait = Whole(-1)
    ELSE cpl.queue = Times(Whole(cpl.arrival), Over(cpl.wait, Whole(1000)))

(* Sites are chosen outside the reach of the others, what they reach is
   covered and nothing else, and if fewer are chosen than allowed no demand is
   left. *)
SitesCover ==
  cpl.step = "sites" =>
    LET c == cpl.candidates
        chosen == cpl.chosen.selected
    IN  /\ \A i, j \in DOMAIN chosen : i # j => ~Reaches(c[chosen[i]], c[chosen[j]])
        /\ cpl.chosen.covered = {k \in DOMAIN c : \E i \in DOMAIN chosen : Reaches(c[chosen[i]], c[k])}
        /\ Len(chosen) <= cpl.most
        /\ Len(chosen) < cpl.most => \A k \in DOMAIN c \ cpl.chosen.covered : c[k].demand = 0

(* The sites planned for an area reach all of it, one less would not, and in
   the upper bands no fewer are needed. *)
AreasCovered ==
  cpl.step = "deployed" =>
    LET isd == IF cpl.mhz > 3000 THEN <<2, 8, 30>> ELSE <<5, 15, 50>>
        n == <<cpl.plan.urban, cpl.plan.suburban, cpl.plan.rural>>
    IN  \A k \in 1 .. 3 : /\ 866 * isd[k] * isd[k] * n[k] >= 10000 * cpl.areas[k]
                          /\ 866 * isd[k] * isd[k] * (n[k] - 1) < 10000 * cpl.areas[k]

(* Cell identities come back from a valid physical identity and from no other,
   the blocks of a carrier fit into it, and of the profiles those with a
   guaranteed rate stand first, so that a short table keeps them. *)
ConfigurationFits ==
  cpl.step = "configured" =>
    /\ cpl.pci = -1 <=> cpl.ids[1] \notin 0 .. 335 \/ cpl.ids[2] \notin 0 .. 2
    /\ cpl.pci >= 0 => pci_decompose(cpl.pci) = cpl.ids
    /\ cpl.rbs * 12 * numer_scs_khz(cpl.mu) <= 900 * cpl.mhz
    /\ SlotsPerFrame(cpl.mu) * 15 = 10 * numer_scs_khz(cpl.mu)
    /\ \A i, j \in DOMAIN cpl.profiles :
         /\ cpl.profiles[i][1] = cpl.profiles[j][1] => i = j
         /\ i < j /\ cpl.profiles[j][4] => cpl.profiles[i][4]

PlanningSound ==
  /\ RingsClose /\ GroupsApart /\ RelationsCounted /\ ChannelsSuffice
  /\ QueueOfArrivals /\ SitesCover /\ AreasCovered /\ ConfigurationFits
=============================================================================
