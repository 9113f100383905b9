---------------------------- MODULE UserMobility ----------------------------
(***************************************************************************)
(* How users move in mini-handover-mobility, src/mobility_model.c, with the *)
(* positions and contexts of src/handover_types.c: random walk, random      *)
(* waypoint, Gauss-Markov, Levy walk, streets, groups, and the measures     *)
(* taken of a track.                                                        *)
(*                                                                          *)
(* Positions are whole metres and times whole seconds.  A heading is a      *)
(* number of quarter turns, from -2 to 2, except with waypoints, where it   *)
(* is a direction in fifths of its length (3-4-5 triangles).  What          *)
(* _mob_uniform and _mob_gaussian draw is an argument.                      *)
(***************************************************************************)
EXTENDS Exact, FiniteSets

CONSTANTS
  MobWidth, MobHeight,  \* the area, from 0
  MobSpeeds,            \* speeds that are drawn, in m/s
  MobTurns,             \* turns that are drawn, in quarter turns
  MobPlaces,            \* destinations that are drawn
  MobFlights,           \* lengths of flights that are drawn, in m
  MobSteps              \* bound on the steps of a user whose track is kept

ASSUME MobilityAssumption ==
  /\ MobWidth \in Nat \ {0} /\ MobHeight \in Nat \ {0} /\ MobSteps \in Nat
  /\ MobSpeeds \subseteq Int /\ MobTurns \subseteq Int

VARIABLE mob

-----------------------------------------------------------------------------
(* Positions *)

(* UEPosition, without the height, which nothing changes *)
UEPosition == [x : Int, y : Int, vx : Int, vy : Int, speed : Nat, heading : Int]

Hypot(dx, dy) == CHOOSE d \in 0 .. Size(dx) + Size(dy) : d * d = dx * dx + dy * dy

Cos(h) == CASE h % 4 = 0 -> 1 [] h % 4 = 2 -> -1 [] OTHER -> 0
Sin(h) == Cos(h - 1)

Wrapped(h) == IF h > 2 THEN ((h + 1) % 4) - 1 ELSE IF h < -2 THEN ((h + 2) % 4) - 2 ELSE h

Going(pos, speed, h) == [pos EXCEPT !.vx = speed * Cos(h), !.vy = speed * Sin(h), !.speed = speed]
Moved(pos, dt) == [pos EXCEPT !.x = @ + dt * pos.vx, !.y = @ + dt * pos.vy]

(* Mutant: the mirror stands at the origin. *)
MirrorAtOrigin(pos, xmin, xmax, ymin, ymax) ==
  [pos EXCEPT !.x = IF @ < xmin \/ @ > xmax THEN -@ ELSE @, !.y = IF @ < ymin \/ @ > ymax THEN -@ ELSE @]

(* Once, first at the low border; the heading is left as it is. *)
mob_reflect_boundary(pos, xmin, xmax, ymin, ymax) ==
  LET low(v, least) == IF v < least THEN 2 * least - v ELSE v
      high(v, most) == IF v > most THEN 2 * most - v ELSE v
      turned(v, s, least, most) == IF low(v, least) > most THEN -Size(s) ELSE IF v < least THEN Size(s) ELSE s
  IN  [pos EXCEPT !.x = high(low(@, xmin), xmax), !.vx = turned(pos.x, @, xmin, xmax),
                  !.y = high(low(@, ymin), ymax), !.vy = turned(pos.y, @, ymin, ymax)]

ue_context_init == [x |-> 0, y |-> 0, vx |-> 0, vy |-> 0, speed |-> 0, heading |-> 0]

(* The heading is a direction: of what the velocity is. *)
ue_update_position(pos, dt) ==
  IF dt <= 0 THEN pos
  ELSE LET speed == Hypot(pos.vx, pos.vy)
       IN  [Moved(pos, dt) EXCEPT !.speed = speed,
                                  !.heading = IF speed = 0 THEN <<5, 0>> ELSE <<(5 * pos.vx) \div speed, (5 * pos.vy) \div speed>>]

cell_info_init == [x |-> 0, y |-> 0, coverage_radius |-> 500]

cell_distance_to_ue(cell, pos) == Hypot(cell.x - pos.x, cell.y - pos.y)

-----------------------------------------------------------------------------
(* Models *)

(* The drawn speed may be negative, and its size is taken. *)
mob_random_walk_step(pos, dt, turn, speed, xmax, ymax) ==
  LET h == Wrapped(pos.heading + turn)
  IN  mob_reflect_boundary([Moved(Going(pos, Size(speed), h), dt) EXCEPT !.heading = h], 0, xmax, 0, ymax)

Arrived(pos, to) == [pos EXCEPT !.x = to[1], !.y = to[2], !.vx = 0, !.vy = 0]

(* A new speed and destination are drawn by a user whose speed is 0, as it is
   after a pause.  The user turns on the way only if one step falls short. *)
mob_random_waypoint_step(s, dt, pauseTime, speed, place) ==
  LET anew == s.pos.speed = 0
      v == IF anew THEN speed ELSE s.pos.speed
      to == IF anew THEN place ELSE s.dest
      d == Hypot(to[1] - s.pos.x, to[2] - s.pos.y)
      h == IF d = 0 THEN <<5, 0>> ELSE <<(5 * (to[1] - s.pos.x)) \div d, (5 * (to[2] - s.pos.y)) \div d>>
      on == [s.pos EXCEPT !.speed = v, !.heading = h, !.vx = (v * h[1]) \div 5, !.vy = (v * h[2]) \div 5]
  IN  CASE s.pause > 0 -> [s EXCEPT !.pause = @ - 1000 * dt, !.pos.speed = 0, !.pos.vx = 0, !.pos.vy = 0]
        [] s.pause <= 0 /\ v * dt >= d ->
             [pos |-> Arrived([s.pos EXCEPT !.speed = v, !.heading = IF anew THEN h ELSE @], to), dest |-> to, pause |-> pauseTime]
        [] OTHER -> [pos |-> Moved(on, dt), dest |-> to, pause |-> s.pause]

(* alpha is in fifths, cut to 0 .. 5; noise counts by sqrt(1 - alpha^2). *)
Memory(alpha, was, mean, noise) ==
  LET a == IF alpha < 0 THEN 0 ELSE IF alpha > 5 THEN 5 ELSE alpha
      scale == CHOOSE n \in 0 .. 5 : a * a + n * n = 25
  IN  (a * was + (5 - a) * mean + scale * noise) \div 5

mob_gauss_markov_step(pos, dt, alpha, meanSpeed, speedNoise, meanHeading, turnNoise, xmax, ymax) ==
  LET h == Wrapped(Memory(alpha, pos.heading, meanHeading, turnNoise))
  IN  mob_reflect_boundary([Moved(Going(pos, Size(Memory(alpha, pos.speed, meanSpeed, speedNoise)), h), dt) EXCEPT !.heading = h],
                           0, xmax, 0, ymax)

Around(v, most) == IF v < 0 THEN v % most ELSE IF v > most THEN ((v - 1) % most) + 1 ELSE v

(* Mutant: a flight is as long as it is drawn. *)
AnyLength(drawn, width, height) == drawn

FlightLength(drawn, width, height) == IF drawn > Hypot(width, height) THEN Hypot(width, height) ELSE drawn

(* A flight goes straight until its time is up.  One shorter than a step lasts
   the whole step and leaves speed and velocity as they were.  Only the step
   that starts a flight brings the user back into the area. *)
mob_levy_walk_step(s, dt, speed, h, drawn, width, height) ==
  LET way == IF s.left > 0 THEN s.heading ELSE h
      to == Moved([Going(s.pos, speed, way) EXCEPT !.heading = way], dt)
      back == [to EXCEPT !.x = Around(@, width), !.y = Around(@, height)]
      time == FlightLength(drawn, width, height) \div speed
  IN  CASE s.left > 0 -> [pos |-> to, left |-> s.left - dt, heading |-> way]
        [] s.left <= 0 /\ time < dt ->
             [pos |-> [back EXCEPT !.speed = s.pos.speed, !.vx = s.pos.vx, !.vy = s.pos.vy], left |-> 0, heading |-> way]
        [] OTHER -> [pos |-> back, left |-> time - dt, heading |-> way]

(* round(v / grid) * grid, halves away from zero *)
Crossing(v, grid) == LET n == ((2 * Size(v) + grid) \div (2 * grid)) * grid IN IF v < 0 THEN -n ELSE n

(* Mutant: a user turns before it is at the crossing. *)
TurnsAnywhere(pos, grid, turn) == [pos EXCEPT !.heading = Wrapped(@ + turn)]

AtCrossing(pos, grid, turn) ==
  [pos EXCEPT !.heading = Wrapped(@ + turn), !.x = Crossing(@, grid), !.y = Crossing(@, grid)]

(* turn is 1 for left, -1 for right and 0 for straight on, which is drawn like
   the others and goes to the crossing too. *)
mob_directional_step(pos, dt, speed, h, proximity, grid, drawn, turn) ==
  LET to == [Moved(Going(pos, speed, h), dt) EXCEPT !.heading = Wrapped(h)]
      near == Size(to.x - Crossing(to.x, grid)) < proximity /\ Size(to.y - Crossing(to.y, grid)) < proximity
  IN  IF near /\ drawn THEN AtCrossing(to, grid, turn) ELSE to

(* A member goes towards its place near the centre, along x. *)
Followed(m, x, speed, dt) ==
  LET way == IF x < m.x THEN 2 ELSE 0
  IN  [Going(m, speed, way) EXCEPT !.heading = way,
         !.x = IF speed * dt >= Size(x - @) THEN x ELSE @ + speed * dt * Cos(way)]

(* Mutant: the members follow the centre of the step before. *)
FollowOldCentre(g, dt, speed, h, deviations, speeds, xmax, ymax) ==
  [centre |-> mob_reflect_boundary([Moved(Going(g.centre, speed, h), dt) EXCEPT !.heading = h], 0, xmax, 0, ymax),
   members |-> [i \in DOMAIN g.members |-> Followed(g.members[i], g.centre.x + deviations[i], speeds[i], dt)]]

(* The centre moves and is reflected, then the members follow with places and
   speeds of their own, from once to one and a half times that of the group. *)
mob_group_rpgm_step(g, dt, speed, h, deviations, speeds, xmax, ymax) ==
  LET centre == mob_reflect_boundary([Moved(Going(g.centre, speed, h), dt) EXCEPT !.heading = h], 0, xmax, 0, ymax)
  IN  [centre |-> centre,
       members |-> [i \in DOMAIN g.members |-> Followed(g.members[i], centre.x + deviations[i], speeds[i], dt)]]

-----------------------------------------------------------------------------
(* Measures *)

(* The mean square displacement for each lag of a track. *)
mob_compute_msd(track, maxLag) ==
  [lag \in 1 .. (IF maxLag >= Len(track) THEN Len(track) - 1 ELSE maxLag) |->
     Over(Total([t \in 1 .. Len(track) - lag |-> Whole((track[t + lag].x - track[t].x) * (track[t + lag].x - track[t].x)
                                                      + (track[t + lag].y - track[t].y) * (track[t + lag].y - track[t].y))]),
          Whole(Len(track) - lag))]

MobilityState == [stationary |-> 0, normal |-> 1, medium |-> 2, high_speed |-> 3]

(* Speeds in m/s, of which 0.5 is no whole number. *)
mob_classify_state(speed, high, medium) ==
  CASE speed >= high -> MobilityState.high_speed
    [] speed < high /\ speed >= medium -> MobilityState.medium
    [] speed < high /\ speed < medium /\ speed > 0 -> MobilityState.normal
    [] OTHER -> MobilityState.stationary

(* For a frequency of f cycles while light goes a metre. *)
mob_compute_doppler_shift(speed, f, angle) == speed * f * Cos(angle)

(* Where the code answers 1e12 or 1e9 for "never", 10^3 stands for it. *)
mob_compute_coherence_time(doppler) == IF doppler <= 0 THEN Whole(1000) ELSE Quotient(423, 1000 * doppler)

(* In units of 1 / pi a second. *)
mob_handover_rate_estimate(speed, radius) == IF radius <= 0 THEN Whole(1000) ELSE Quotient(2 * speed, radius)

-----------------------------------------------------------------------------
(* Users *)

AtRest(x, y) == [ue_context_init EXCEPT !.x = x, !.y = y]

MobInit == mob = [as |-> "start"]

MobBegin ==
  /\ mob.as = "start"
  /\ mob' \in
       {[as |-> "walk", track |-> <<AtRest(x, y)>>, msd |-> <<>>] : x \in {0, MobWidth}, y \in {MobHeight \div 2}}
       \cup {[as |-> "waypoint", s |-> [pos |-> AtRest(0, 0), dest |-> <<0, 0>>, pause |-> 0], from |-> <<0, 0>>,
              asked |-> p, stays |-> 0, stayed |-> MobSteps, trips |-> 0] : p \in {0, 1500, 2000}}
       \cup {[as |-> "markov", alpha |-> a, first |-> f, pos |-> f] :
               a \in {-1, 0, 3, 5, 6}, f \in {Going([AtRest(3, 1) EXCEPT !.heading = h], 2, h) : h \in {0, -2}}}
       \cup {[as |-> "levy", s |-> [pos |-> AtRest(MobWidth, 0), left |-> 0, heading |-> 0]]}
       \cup {[as |-> "streets", pos |-> [AtRest(20, 0) EXCEPT !.heading = h], steps |-> 0] : h \in {0, 1, 2}}
       \cup {[as |-> "group", g |-> [centre |-> AtRest(5, 0), members |-> <<AtRest(5, 0), AtRest(4, 0)>>]]}
       \cup {[as |-> "drive", pos |-> [AtRest(0, 0) EXCEPT !.vx = v[1], !.vy = v[2]], time |-> 0, distance |-> 0] :
               v \in {<<0, 0>>, <<3, 4>>, <<-8, 6>>, <<0, -7>>}}

MobWalk == \E turn \in MobTurns, speed \in MobSpeeds :
  /\ mob.as = "walk" /\ Len(mob.track) <= MobSteps
  /\ \E track \in {Append(mob.track, mob_random_walk_step(mob.track[Len(mob.track)], 1, turn, speed, MobWidth, MobHeight))} :
       mob' = [mob EXCEPT !.track = track, !.msd = mob_compute_msd(track, MobSteps + 1)]

MobWaypoint == \E speed \in {5, 10}, place \in MobPlaces :
  /\ mob.as = "waypoint" /\ mob.trips <= MobSteps
  /\ \E s \in {mob_random_waypoint_step(mob.s, 1, mob.asked, speed, place)} :
       LET anew == mob.s.pause <= 0 /\ mob.s.pos.speed = 0
           there(p) == <<p.pos.x, p.pos.y>> = p.dest
       IN  mob' = [mob EXCEPT !.s = s, !.from = IF anew THEN <<mob.s.pos.x, mob.s.pos.y>> ELSE @,
                              !.trips = IF anew THEN @ + 1 ELSE @, !.stayed = IF anew /\ mob.trips > 0 THEN mob.stays ELSE @,
                              !.stays = IF mob.s.pause > 0 THEN @ + 1 ELSE 0]

(* Of the draws, those that lead to whole speeds and quarter turns. *)
MobMarkov == \E speedNoise \in -2 .. 1, turnNoise \in -2 .. 2 :
  /\ mob.as = "markov"
  /\ mob.alpha = 3 => (3 * mob.pos.speed + 2 * 2 + 4 * speedNoise) % 5 = 0 /\ (3 * mob.pos.heading + 2 + 4 * turnNoise) % 5 = 0
  /\ mob' = [mob EXCEPT !.pos = mob_gauss_markov_step(@, 1, mob.alpha, 2, speedNoise, 1, turnNoise, MobWidth, MobHeight)]

MobLevy == \E h \in 0 .. 3, drawn \in MobFlights :
  /\ mob.as = "levy"
  /\ mob' = [mob EXCEPT !.s = mob_levy_walk_step(@, 1, 2, h, drawn, MobWidth, MobHeight)]

MobStreets == \E turn \in -1 .. 1, drawn \in BOOLEAN :
  /\ mob.as = "streets" /\ mob.steps < 3 * MobSteps
  /\ mob' = [mob EXCEPT !.pos = mob_directional_step(@, 1, 6, mob.pos.heading, 3, 20, drawn, turn), !.steps = @ + 1]

MobGroup == \E h \in {0, 2}, d1, d2 \in {-2, 1}, v1, v2 \in {2, 3} :
  /\ mob.as = "group"
  /\ mob' = [mob EXCEPT !.g = mob_group_rpgm_step(@, 1, 2, h, <<d1, d2>>, <<v1, v2>>, 9, 9)]

MobDrive == \E dt \in {-1, 0, 1, 2} :
  /\ mob.as = "drive" /\ mob.time < 2 * MobSteps
  /\ \E pos \in {ue_update_position(mob.pos, dt)} :
       mob' = [mob EXCEPT !.pos = pos, !.time = IF dt > 0 THEN @ + dt ELSE @, !.distance = cell_distance_to_ue(cell_info_init, pos)]

MobMeasure == \E v, w \in {0, 1, 8, 9, 33, 34, 60} :
  /\ mob.as = "start" /\ v <= w
  /\ mob' = [as |-> "measured", class |-> <<mob_classify_state(v, 33, 8), mob_classify_state(w, 33, 8)>>,
             coherence |-> <<mob_compute_coherence_time(mob_compute_doppler_shift(v, 7, 0)),
                             mob_compute_coherence_time(mob_compute_doppler_shift(w, 7, 0))>>,
             rate |-> <<mob_handover_rate_estimate(v, 250), mob_handover_rate_estimate(w, 250)>>]

MobNext == \/ MobBegin \/ MobWalk \/ MobWaypoint \/ MobMarkov \/ MobLevy \/ MobStreets
           \/ MobGroup \/ MobDrive \/ MobMeasure

MobSpec == MobInit /\ [][MobNext]_mob

-----------------------------------------------------------------------------
(* Properties *)

Within(pos) == pos.x \in 0 .. MobWidth /\ pos.y \in 0 .. MobHeight

(* One reflection brings a user back whose steps are shorter than the area,
   and the velocity that is kept has the size of the speed.  A track that goes
   straight on has squares of displacement that grow with the square of the
   lag, and none has larger ones. *)
WalkInside ==
  mob.as = "walk" =>
    LET step(t) == <<mob.track[t + 1].x - mob.track[t].x, mob.track[t + 1].y - mob.track[t].y>>
        steps == 1 .. Len(mob.track) - 1
    IN  /\ \A t \in DOMAIN mob.track : Within(mob.track[t]) /\ Hypot(mob.track[t].vx, mob.track[t].vy) = mob.track[t].speed
        /\ DOMAIN mob.msd = steps
        /\ \A lag \in steps : AtMost(mob.msd[lag], Whole(lag * lag * 9))
        /\ (\A t \in steps : step(t) = step(1)) => \A lag \in steps : mob.msd[lag] = Times(Whole(lag * lag), mob.msd[1])

(* A user is on the straight way to its destination, rests only there and for
   at least the pause, and with no pause never leaves its first destination. *)
WaypointsKept ==
  mob.as = "waypoint" =>
    LET far(a, b) == Hypot(a[1] - b[1], a[2] - b[2])
        here == <<mob.s.pos.x, mob.s.pos.y>>
    IN  /\ far(mob.from, here) + far(here, mob.s.dest) = far(mob.from, mob.s.dest)
        /\ mob.s.pos.speed = 0 => here = mob.s.dest
        /\ mob.trips > 1 => 1000 * mob.stayed >= mob.asked /\ mob.asked > 0

(* With full memory, and beyond, speed and heading stay as they were; the user
   stays inside whatever is drawn. *)
MemoryHolds ==
  mob.as = "markov" =>
    /\ Within(mob.pos) /\ mob.pos.heading \in -2 .. 2
    /\ mob.alpha >= 5 => mob.pos.speed = mob.first.speed /\ mob.pos.heading = mob.first.heading

(* A flight may leave the area, by no more than the diagonal of the area, and
   the step that starts one ends inside. *)
FlightsBounded ==
  mob.as = "levy" =>
    LET d == Hypot(MobWidth, MobHeight)
        s == mob.s
    IN  /\ s.pos.x \in -d .. MobWidth + d /\ s.pos.y \in -d .. MobHeight + d
        /\ s.left >= (d \div 2) - 1 => Within(s.pos)

(* A user on a street stays on streets. *)
StaysOnStreets ==
  mob.as = "streets" => IF mob.pos.heading % 2 = 0 THEN mob.pos.y % 20 = 0 ELSE mob.pos.x % 20 = 0

(* No member is farther from the centre than a place can be. *)
GroupTogether ==
  mob.as = "group" =>
    /\ mob.g.centre.x \in 0 .. 9
    /\ \A i \in DOMAIN mob.g.members : Size(mob.g.members[i].x - mob.g.centre.x) <= 2

(* A user that drives on from the cell is as far from it as its speed says,
   and calls with no time leave it where it is. *)
DrivesStraight ==
  mob.as = "drive" => mob.distance = mob.time * Hypot(mob.pos.vx, mob.pos.vy) /\ mob.pos.speed \in {0, Hypot(mob.pos.vx, mob.pos.vy)}

(* Of two users the faster is in no lower class, has no longer coherence and
   no fewer handovers. *)
FasterIsHarder ==
  mob.as = "measured" =>
    /\ mob.class[1] <= mob.class[2]
    /\ AtMost(mob.coherence[2], mob.coherence[1]) /\ AtMost(mob.rate[1], mob.rate[2])

MobilitySound ==
  /\ WalkInside /\ WaypointsKept /\ MemoryHolds /\ FlightsBounded
  /\ StaysOnStreets /\ GroupTogether /\ DrivesStraight /\ FasterIsHarder
=============================================================================
