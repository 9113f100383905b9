---------------------------- MODULE CellScheduler ----------------------------
(***************************************************************************)
(* The proportional fair scheduler of mini-cellular-network                 *)
(* (src/cell_network_scheduler.c) over a steady channel: all users are      *)
(* active and keep their channel quality.  Their rates differ, so a user is *)
(* named by its rate.                                                       *)
(*                                                                          *)
(* Rates are in kbit/s; averages are rounded down to 1 kbit/s.              *)
(***************************************************************************)
EXTENDS Integers, Sequences

CONSTANTS
  Rates,      \* of the users on one block; the table is in their order
  NumRbs,     \* resource blocks of the cell
  AlphaInv    \* 1 / alpha_pf: 100 by default

VARIABLES
  avg,        \* avg_rate_mbps
  served      \* the user of the last interval's blocks, 0 before the first

vars == <<avg, served>>

Users == Rates

(* sched_add_ue starts every average at 1 Mbit/s. *)
Init == avg = [u \in Users |-> 1000] /\ served = 0

-----------------------------------------------------------------------------
AtLeastOne(rate) == IF rate < 1 THEN 1 ELSE rate

(* The metric of u, its rate over its average, is greater than that of v. *)
Ahead(u, v) == u * AtLeastOne(avg[v]) > v * AtLeastOne(avg[u])

(* The first user of the greatest metric. *)
Best(u) == /\ \A v \in Users : ~Ahead(v, u)
           /\ \A v \in {w \in Users : w < u} : Ahead(u, v)

sched_update_avg_throughput(old, rate) == ((AlphaInv - 1) * old + rate) \div AlphaInv

(* Averages do not move between blocks, so all blocks of an interval go to
   one user; the averages of the others are left as they are. *)
sched_proportional_fair(u) ==
  /\ Best(u)
  /\ avg' = [avg EXCEPT ![u] = sched_update_avg_throughput(@, NumRbs * u)]
  /\ served' = u

Next == \E u \in Users : sched_proportional_fair(u)

(* Intervals follow each other. *)
FairSpec == Init /\ [][Next]_vars /\ WF_vars(Next)

-----------------------------------------------------------------------------
(* The example of the library says "PF balances throughput and fairness": a
   user with a channel of any quality is served again and again. *)
EveryoneServed == \A u \in Users : []<>(served = u)
=============================================================================
