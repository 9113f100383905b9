---------------------------- MODULE LoraNode_proofs ----------------------------
(* The two nodes of the low power network. LoRaWAN: a link that stays poor is
   answered in time, for every delay and every width of the frame counter.
   NB-IoT: a device that sleeps comes back within its timer, its battery is
   never estimated longer than it lasts, and a search names only some of the
   identities, for every timer, every step of time and all samples.  And what
   a network accepts in a session was sent in one, once and in order; what is
   short enough for its code to depend on the key was sent in that session,
   for every set of nonces and every key of the application.
   The duty-cycle tracker keeps its budget for a sender alone, and what others
   add to it is bounded. *)
EXTENDS LoraAdr, NbiotNode, LoraFrames, LoraDutyCycle, Bits_proofs, FunctionTheorems

(* The counter goes up by one, or back to zero after CntMod - 1. *)
LEMMA CountedValue ==
  ASSUME cnt \in 0 .. CntMod - 1
  PROVE  /\ Counted \in 0 .. CntMod - 1
         /\ Counted = IF cnt = CntMod - 1 THEN 0 ELSE cnt + 1
<1>1. \A m \in Nat \ {0} : \A n \in 0 .. m - 1 :
        (n + 1) % m = IF n = m - 1 THEN 0 ELSE n + 1
  OBVIOUS
<1> QED BY <1>1, AdrAssumption DEF Counted

(* Levels in half decibels are whole numbers. *)
LEMMA MarginInt == AdrTypeOK => Margin \in Int
<1>1. AdrTypeOK => snr \in Int
  BY AdrAssumption DEF AdrTypeOK
<1>2. AdrTypeOK => RequiredSnr(sf) \in Int
  BY DEF AdrTypeOK, RequiredSnr, SpreadingFactors
<1> QED BY <1>1, <1>2 DEF Margin

(* The spreading factor stays in the table and the counter within its width. *)
THEOREM TypeCorrect == AdrSpec => []AdrTypeOK
<1>1. AdrInit => AdrTypeOK
  BY AdrAssumption DEF AdrInit, AdrTypeOK
<1>2. AdrTypeOK /\ [AdrNext]_adrVars => AdrTypeOK'
  <2> SUFFICES ASSUME AdrTypeOK, [AdrNext]_adrVars PROVE AdrTypeOK'
    OBVIOUS
  <2>1. Margin \in Int
    BY MarginInt
  <2>2. Counted \in 0 .. CntMod - 1
    BY CountedValue DEF AdrTypeOK
  <2>3. 0 \in 0 .. CntMod - 1
    BY AdrAssumption
  <2>4. CASE Measure
    BY <2>1, <2>2, <2>4 DEF Measure, AdrTypeOK
  <2>5. CASE Faster
    BY <2>1, <2>3, <2>5 DEF Faster, Decide, Good, AdrTypeOK, SpreadingFactors
  <2>6. CASE Slower
    BY <2>1, <2>3, <2>6 DEF Slower, Decide, Poor, AdrTypeOK, SpreadingFactors
  <2>7. CASE Slowest
    BY <2>1, <2>3, <2>7 DEF Slowest, Decide, AdrTypeOK, SpreadingFactors
  <2>8. CASE Keep
    BY <2>1, <2>2, <2>8 DEF Keep, AdrTypeOK
  <2>9. CASE LinkChanges
    BY <2>9 DEF LinkChanges, AdrTypeOK
  <2>10. CASE UNCHANGED adrVars
    BY <2>10 DEF adrVars, AdrTypeOK
  <2> QED BY <2>4, <2>5, <2>6, <2>7, <2>8, <2>9, <2>10 DEF AdrNext, Update
<1> QED BY <1>1, <1>2, PTL DEF AdrSpec

-----------------------------------------------------------------------------
(* A poor frame at a full count is acted upon at once, so none is pending
   when the counter wraps; from there the poor frames are counted along, and
   the one of the wrap itself comes on top. *)
PoorInv == /\ poor <= cnt + wraps
           /\ cnt >= Delay => poor = 0

(* lora_adr_update answers a poor link by the Delay-th frame, or by the one
   after it if the first took the counter past its width. *)
THEOREM PoorLink == AdrSpec => []PoorLinkAnswered
<1>1. AdrInit => PoorInv
  BY DEF AdrInit, PoorInv
<1>2. AdrTypeOK /\ AdrTypeOK' /\ PoorInv /\ [AdrNext]_adrVars => PoorInv'
  <2> SUFFICES ASSUME AdrTypeOK, AdrTypeOK', PoorInv, [AdrNext]_adrVars PROVE PoorInv'
    OBVIOUS
  <2>1. CASE Measure
    <3>1. Counted = IF cnt = CntMod - 1 THEN 0 ELSE cnt + 1
      BY CountedValue DEF AdrTypeOK
    <3>2. cnt' = Counted /\ Counted < Delay
      BY <2>1 DEF Measure
    <3>3. CASE ~Poor
      <4>1. poor' = 0 /\ wraps' = 0
        BY <2>1, <3>3 DEF Measure
      <4> QED BY <3>1, <3>2, <4>1, AdrAssumption DEF PoorInv, AdrTypeOK
    <3>4. CASE Poor
      <4>1. poor' = poor + 1 /\ wraps' = IF Counted = 0 THEN 1 ELSE wraps
        BY <2>1, <3>4 DEF Measure
      <4>2. CASE cnt = CntMod - 1
        <5>1. poor = 0 /\ Counted = 0
          BY <3>1, <4>2, AdrAssumption DEF PoorInv, AdrTypeOK
        <5> QED BY <3>2, <4>1, <5>1, AdrAssumption DEF PoorInv, AdrTypeOK
      <4>3. CASE cnt # CntMod - 1
        <5>1. Counted = cnt + 1 /\ Counted # 0
          BY <3>1, <4>3 DEF AdrTypeOK
        <5> QED BY <3>2, <4>1, <5>1, AdrAssumption DEF PoorInv, AdrTypeOK
      <4> QED BY <4>2, <4>3
    <3> QED BY <3>3, <3>4
  <2>2. CASE Faster \/ Slower \/ Slowest
    BY <2>2 DEF Faster, Slower, Slowest, Decide, PoorInv
  <2>3. CASE Keep
    BY <2>3 DEF Keep, PoorInv, AdrTypeOK
  <2>4. CASE LinkChanges
    BY <2>4 DEF LinkChanges, PoorInv
  <2>5. CASE UNCHANGED adrVars
    BY <2>5 DEF adrVars, PoorInv
  <2> QED BY <2>1, <2>2, <2>3, <2>4, <2>5 DEF AdrNext, Update
<1>3. AdrTypeOK /\ PoorInv => PoorLinkAnswered
  BY AdrAssumption DEF AdrTypeOK, PoorInv, PoorLinkAnswered
<1> QED BY <1>1, <1>2, <1>3, TypeCorrect, PTL DEF AdrSpec
-----------------------------------------------------------------------------
(* Least, largest and bounds *)

(* A finite set of natural numbers has a bound: otherwise some first stretch
   of its enumeration had none, and that stretch but its last element one. *)
LEMMA BoundOf ==
  ASSUME NEW S, S \subseteq Nat, IsFiniteSet(S)
  PROVE  \E b \in Nat : \A s \in S : s <= b
<1>1. PICK n \in Nat : ExistsBijection(1 .. n, S)
  BY FS_NatBijection
<1>2. PICK f \in Bijection(1 .. n, S) : TRUE
  BY <1>1 DEF ExistsBijection
<1>3. f \in [1 .. n -> S] /\ \A s \in S : \E i \in 1 .. n : f[i] = s
  BY <1>2 DEF Bijection, Surjection, Injection
<1> DEFINE Bounded(k) == \E b \in Nat : \A i \in 1 .. n : i <= k => f[i] <= b
           T == {k \in Nat : k <= n /\ ~Bounded(k)}
<1>4. Bounded(0)
  <2>1. 0 \in Nat /\ \A i \in 1 .. n : ~(i <= 0)
    OBVIOUS
  <2> QED BY <2>1
<1>5. \A k \in Nat : k + 1 <= n /\ Bounded(k) => Bounded(k + 1)
  <2> SUFFICES ASSUME NEW k \in Nat, k + 1 <= n, Bounded(k) PROVE Bounded(k + 1)
    OBVIOUS
  <2>1. PICK b \in Nat : \A i \in 1 .. n : i <= k => f[i] <= b
    OBVIOUS
  <2>2. k + 1 \in 1 .. n /\ f[k + 1] \in Nat
    <3> HIDE DEF Bounded
    <3>1. k + 1 \in 1 .. n
      BY <1>1
    <3> QED BY <1>3, <3>1
  <2>3. b + f[k + 1] \in Nat
    BY <2>2
  <2>4. \A i \in 1 .. n : i <= k + 1 => f[i] <= b + f[k + 1]
    <3> SUFFICES ASSUME NEW i \in 1 .. n, i <= k + 1 PROVE f[i] <= b + f[k + 1]
      OBVIOUS
    <3>1. f[i] \in Nat
      BY <1>3
    <3>2. CASE i <= k
      BY <2>1, <2>2, <3>1, <3>2
    <3>3. CASE i = k + 1
      BY <2>2, <3>3
    <3> QED BY <3>2, <3>3
  <2> QED BY <2>3, <2>4
<1>6. T = {}
  <2> SUFFICES ASSUME T # {} PROVE FALSE
    OBVIOUS
  <2>1. T \subseteq Nat
    OBVIOUS
  <2> HIDE DEF T
  <2>2. PICK k \in T : \A m \in T : k <= m
    BY <2>1, LeastOf
  <2> USE DEF T
  <2>3. k \in Nat /\ k <= n /\ ~Bounded(k)
    BY <2>2
  <2> HIDE DEF Bounded
  <2>4. k # 0
    BY <1>4, <2>3
  <2>5. k - 1 \in Nat /\ k - 1 <= n /\ ~(k <= k - 1) /\ k - 1 + 1 = k
    BY <2>3, <2>4
  <2>6. Bounded(k - 1)
    BY <2>2, <2>5
  <2> QED BY <1>5, <2>3, <2>5, <2>6
<1>7. Bounded(n)
  <2>1. n \in Nat /\ n <= n
    BY <1>1
  <2> HIDE DEF Bounded
  <2> QED BY <1>6, <2>1
<1>8. PICK b \in Nat : \A i \in 1 .. n : i <= n => f[i] <= b
  BY <1>7
<1>9. \A i \in 1 .. n : f[i] <= b
  BY <1>1, <1>8
<1> QED BY <1>3, <1>8, <1>9

(* ... and a largest element, unless it is empty. *)
LEMMA LargestOf ==
  ASSUME NEW S, S \subseteq Nat, IsFiniteSet(S), S # {}
  PROVE  Max(S) \in S /\ \A s \in S : s <= Max(S)
<1> DEFINE B == {b \in Nat : \A s \in S : s <= b}
<1>1. B # {} /\ B \subseteq Nat
  BY BoundOf
<1>2. PICK b \in B : \A c \in B : b <= c
  <2> HIDE DEF B
  <2> QED BY <1>1, LeastOf
<1>3. b \in S
  <2> SUFFICES ASSUME b \notin S PROVE FALSE
    OBVIOUS
  <2>1. \A s \in S : s <= b - 1 /\ b - 1 \in Nat
    BY <1>2
  <2>2. b - 1 \in B
    BY <2>1
  <2>3. ~(b <= b - 1)
    BY <1>2
  <2> QED BY <1>2, <2>2, <2>3
<1>4. \A s \in S : b >= s
  BY <1>2
<1>5. Max(S) \in S /\ \A s \in S : Max(S) >= s
  BY <1>3, <1>4, Zenon DEF Max
<1> QED BY <1>5

LEMMA MaxOfTwo ==
  ASSUME NEW a \in Int, NEW b \in Int
  PROVE  Max({a, b}) = IF a >= b THEN a ELSE b
<1> DEFINE m == IF a >= b THEN a ELSE b
<1>1. m \in {a, b} /\ \A s \in {a, b} : m >= s
  OBVIOUS
<1>2. Max({a, b}) \in {a, b} /\ \A s \in {a, b} : Max({a, b}) >= s
  BY <1>1, Zenon DEF Max
<1> QED BY <1>2

-----------------------------------------------------------------------------
(* The power saving machine: how long the device has been away, in terms of
   its timers.  PSM may be entered late and left late, by less than a step
   each. *)
PsmEnd == Max({NbT3412, NbT3324 + LongestStep}) - 1

PsmStates == [state : psm_state, t3324 : Nat, t3412 : Nat, tau_count : {0, 1}]

PsmTypeOK == nbPsm \in PsmStates /\ nbAway \in Nat

AwayInv ==
  /\ nbPsm.state = "ACTIVE" => nbAway <= PsmEnd + LongestStep + NbTau - 1 + LongestStep
  /\ nbPsm.state = "ACTIVE_TIMER" =>
       nbPsm.t3324 = nbAway /\ nbPsm.t3412 = nbAway /\ nbAway < NbT3324
  /\ nbPsm.state = "PSM" => nbPsm.t3324 = 0 /\ nbPsm.t3412 = nbAway /\ nbAway <= PsmEnd
  /\ nbPsm.state = "TAU" =>
       nbPsm.t3324 < NbTau /\ nbAway <= PsmEnd + LongestStep + nbPsm.t3324

LEMMA Steps ==
  /\ LongestStep \in Nat \ {0} /\ \A dt \in NbSteps : dt \in Nat \ {0} /\ dt <= LongestStep
  /\ NbT3324 \in Nat \ {0} /\ NbT3412 \in Nat \ {0} /\ NbTau \in Nat \ {0}
<1>1. NbSteps \subseteq Nat /\ IsFiniteSet(NbSteps) /\ NbSteps # {}
  BY NbAssumption
<1>2. LongestStep \in NbSteps /\ \A dt \in NbSteps : dt <= LongestStep
  BY <1>1, LargestOf DEF LongestStep
<1> QED BY <1>2, NbAssumption

LEMMA PsmEndValue ==
  /\ PsmEnd \in Nat
  /\ NbT3412 - 1 <= PsmEnd /\ NbT3324 + LongestStep - 1 <= PsmEnd
<1>1. NbT3324 + LongestStep \in Int /\ NbT3412 \in Int
  BY Steps
<1>2. Max({NbT3412, NbT3324 + LongestStep})
        = IF NbT3412 >= NbT3324 + LongestStep THEN NbT3412 ELSE NbT3324 + LongestStep
  BY <1>1, MaxOfTwo
<1> QED BY <1>2, Steps DEF PsmEnd

(* A step of time, state by state. *)
Advances(p, dt, q) ==
  /\ p.state = "ACTIVE" => q.state = "ACTIVE_TIMER" /\ q.t3324 = 0 /\ q.t3412 = 0
  /\ p.state = "ACTIVE_TIMER" =>
       /\ q.t3412 = p.t3412 + dt
       /\ IF p.t3324 + dt >= NbT3324 THEN q.state = "PSM" /\ q.t3324 = 0
          ELSE q.state = "ACTIVE_TIMER" /\ q.t3324 = p.t3324 + dt
  /\ p.state = "PSM" =>
       /\ q.t3324 = p.t3324
       /\ IF p.t3412 + dt >= NbT3412 THEN q.state = "TAU" /\ q.t3412 = 0
          ELSE q.state = "PSM" /\ q.t3412 = p.t3412 + dt
  /\ p.state = "TAU" =>
       IF p.t3324 + dt >= NbTau THEN q.state = "ACTIVE" /\ q.t3324 = 0
       ELSE q.state = "TAU" /\ q.t3324 = p.t3324 + dt

LEMMA Advanced ==
  ASSUME NEW p \in PsmStates, NEW dt \in Nat, NEW q, q = nbiot_psm_advance(p, dt)
  PROVE  q \in PsmStates /\ Advances(p, dt, q)
<1>1. p = [state |-> p.state, t3324 |-> p.t3324, t3412 |-> p.t3412, tau_count |-> p.tau_count]
  BY DEF PsmStates
<1>2. p.state \in psm_state /\ p.t3324 \in Nat /\ p.t3412 \in Nat /\ p.tau_count \in {0, 1}
  BY DEF PsmStates
<1>3. CASE p.state = "ACTIVE"
  <2>1. q = [p EXCEPT !.state = "ACTIVE_TIMER", !.t3324 = 0, !.t3412 = 0]
    BY <1>3 DEF nbiot_psm_advance
  <2>2. q = [state |-> "ACTIVE_TIMER", t3324 |-> 0, t3412 |-> 0, tau_count |-> p.tau_count]
    BY <1>1, <1>3, <2>1
  <2>3. q \in PsmStates
    BY <1>2, <2>2 DEF PsmStates, psm_state
  <2> QED BY <1>3, <2>2, <2>3 DEF Advances
<1>4. CASE p.state = "ACTIVE_TIMER"
  <2>1. q = IF p.t3324 + dt >= NbT3324
              THEN [p EXCEPT !.state = "PSM", !.t3324 = 0, !.t3412 = @ + dt]
            ELSE [p EXCEPT !.t3324 = @ + dt, !.t3412 = @ + dt]
    BY <1>4 DEF nbiot_psm_advance
  <2>2. q = IF p.t3324 + dt >= NbT3324
              THEN [state |-> "PSM", t3324 |-> 0, t3412 |-> p.t3412 + dt,
                    tau_count |-> p.tau_count]
            ELSE [state |-> "ACTIVE_TIMER", t3324 |-> p.t3324 + dt, t3412 |-> p.t3412 + dt,
                  tau_count |-> p.tau_count]
    BY <1>1, <1>4, <2>1
  <2>3. q \in PsmStates
    BY <1>2, <2>2 DEF PsmStates, psm_state
  <2> QED BY <1>4, <2>2, <2>3 DEF Advances
<1>5. CASE p.state = "PSM"
  <2>1. q = IF p.t3412 + dt >= NbT3412 THEN [p EXCEPT !.state = "TAU", !.t3412 = 0]
            ELSE [p EXCEPT !.t3412 = @ + dt]
    BY <1>5 DEF nbiot_psm_advance
  <2>2. q = IF p.t3412 + dt >= NbT3412
              THEN [state |-> "TAU", t3324 |-> p.t3324, t3412 |-> 0, tau_count |-> p.tau_count]
            ELSE [state |-> "PSM", t3324 |-> p.t3324, t3412 |-> p.t3412 + dt,
                  tau_count |-> p.tau_count]
    BY <1>1, <1>5, <2>1
  <2>3. q \in PsmStates
    BY <1>2, <2>2 DEF PsmStates, psm_state
  <2> QED BY <1>5, <2>2, <2>3 DEF Advances
<1>6. CASE p.state = "TAU"
  <2>1. q = IF p.t3324 + dt >= NbTau
              THEN [p EXCEPT !.state = "ACTIVE", !.t3324 = 0, !.tau_count = 1 - @]
            ELSE [p EXCEPT !.t3324 = @ + dt]
    BY <1>6 DEF nbiot_psm_advance
  <2>2. q = IF p.t3324 + dt >= NbTau
              THEN [state |-> "ACTIVE", t3324 |-> 0, t3412 |-> p.t3412,
                    tau_count |-> 1 - p.tau_count]
            ELSE [state |-> "TAU", t3324 |-> p.t3324 + dt, t3412 |-> p.t3412,
                  tau_count |-> p.tau_count]
    BY <1>1, <1>6, <2>1
  <2>3. q \in PsmStates
    BY <1>2, <2>2 DEF PsmStates, psm_state
  <2> QED BY <1>6, <2>2, <2>3 DEF Advances
<1> QED BY <1>2, <1>3, <1>4, <1>5, <1>6 DEF psm_state

LEMMA AwayKnown == NbSpec => [](PsmTypeOK /\ AwayInv)
<1>1. NbInit => PsmTypeOK /\ AwayInv
  <2> SUFFICES ASSUME NbInit PROVE PsmTypeOK /\ AwayInv
    OBVIOUS
  <2>1. PsmTypeOK
    BY DEF NbInit, PsmTypeOK, PsmStates, nbiot_psm_init, psm_state
  <2>2. AwayInv
    BY Steps, PsmEndValue DEF NbInit, AwayInv, nbiot_psm_init
  <2> QED BY <2>1, <2>2
<1>2. PsmTypeOK /\ AwayInv /\ [NbNext]_nbVars => PsmTypeOK' /\ AwayInv'
  <2> SUFFICES ASSUME PsmTypeOK, AwayInv, [NbNext]_nbVars PROVE PsmTypeOK' /\ AwayInv'
    OBVIOUS
  <2>1. ASSUME NbAdvance PROVE PsmTypeOK' /\ AwayInv'
    <3>1. PICK dt \in NbSteps : /\ nbPsm' = nbiot_psm_advance(nbPsm, dt)
                              /\ nbAway' = IF nbPsm.state = "ACTIVE" THEN 0 ELSE nbAway + dt
      BY <2>1 DEF NbAdvance
    <3>2. dt \in Nat \ {0} /\ dt <= LongestStep
      BY Steps
    <3>3. nbPsm \in PsmStates /\ nbAway \in Nat
      BY DEF PsmTypeOK
    <3> DEFINE End == PsmEnd
               Long == LongestStep
    <3>4. AwayInv' = (/\ nbPsm'.state = "ACTIVE" => nbAway' <= End + Long + NbTau - 1 + Long
                      /\ nbPsm'.state = "ACTIVE_TIMER" =>
                           nbPsm'.t3324 = nbAway' /\ nbPsm'.t3412 = nbAway' /\ nbAway' < NbT3324
                      /\ nbPsm'.state = "PSM" =>
                           nbPsm'.t3324 = 0 /\ nbPsm'.t3412 = nbAway' /\ nbAway' <= End
                      /\ nbPsm'.state = "TAU" =>
                           nbPsm'.t3324 < NbTau /\ nbAway' <= End + Long + nbPsm'.t3324)
      BY DEF AwayInv, PsmEnd, LongestStep
    <3>5. End \in Nat /\ NbT3412 - 1 <= End /\ NbT3324 + Long - 1 <= End /\ Long \in Nat \ {0}
            /\ dt <= Long
      BY <3>2, Steps, PsmEndValue
    <3> SUFFICES ASSUME NEW q \in PsmStates, NEW a \in Nat,
                        q = nbiot_psm_advance(nbPsm, dt),
                        a = IF nbPsm.state = "ACTIVE" THEN 0 ELSE nbAway + dt
                 PROVE  /\ q.state = "ACTIVE" => a <= End + Long + NbTau - 1 + Long
                        /\ q.state = "ACTIVE_TIMER" => q.t3324 = a /\ q.t3412 = a /\ a < NbT3324
                        /\ q.state = "PSM" => q.t3324 = 0 /\ q.t3412 = a /\ a <= End
                        /\ q.state = "TAU" => q.t3324 < NbTau /\ a <= End + Long + q.t3324
      <4>1. nbPsm' \in PsmStates
        BY <3>1, <3>2, <3>3, Advanced
      <4>2. nbAway' \in Nat
        BY <3>1, <3>2, <3>3
      <4>3. PsmTypeOK'
        BY <4>1, <4>2 DEF PsmTypeOK
      <4> QED BY <3>1, <3>4, <4>1, <4>2, <4>3
    <3> HIDE DEF End, Long
    <3>6. nbPsm.state \in psm_state /\ nbPsm.t3324 \in Nat /\ nbPsm.t3412 \in Nat
      BY <3>3 DEF PsmStates
    <3>7. /\ nbPsm.state = "ACTIVE_TIMER" =>
               nbPsm.t3324 = nbAway /\ nbPsm.t3412 = nbAway /\ nbAway < NbT3324
          /\ nbPsm.state = "PSM" => nbPsm.t3324 = 0 /\ nbPsm.t3412 = nbAway /\ nbAway <= End
          /\ nbPsm.state = "TAU" =>
               nbPsm.t3324 < NbTau /\ nbAway <= End + Long + nbPsm.t3324
      BY DEF AwayInv, End, Long
    <3>8. dt \in Nat /\ nbAway \in Nat /\ NbT3324 \in Nat \ {0} /\ NbTau \in Nat
      BY <3>2, <3>3, Steps
    <3>9. Advances(nbPsm, dt, q)
      BY <3>3, <3>8, Advanced
    <3>10. CASE nbPsm.state = "ACTIVE"
      <4>1. q.state = "ACTIVE_TIMER" /\ q.t3324 = 0 /\ q.t3412 = 0 /\ a = 0
        BY <3>9, <3>10 DEF Advances
      <4> QED BY <3>8, <4>1
    <3>11. CASE nbPsm.state = "ACTIVE_TIMER"
      <4>1. /\ q.t3412 = nbPsm.t3412 + dt /\ a = nbAway + dt
            /\ IF nbPsm.t3324 + dt >= NbT3324 THEN q.state = "PSM" /\ q.t3324 = 0
               ELSE q.state = "ACTIVE_TIMER" /\ q.t3324 = nbPsm.t3324 + dt
        BY <3>9, <3>11 DEF Advances
      <4>2. nbPsm.t3324 = nbAway /\ nbPsm.t3412 = nbAway /\ nbAway < NbT3324
        BY <3>7, <3>11
      <4> QED BY <3>5, <3>8, <4>1, <4>2
    <3>12. CASE nbPsm.state = "PSM"
      <4>1. /\ q.t3324 = nbPsm.t3324
            /\ IF nbPsm.t3412 + dt >= NbT3412 THEN q.state = "TAU"
               ELSE q.state = "PSM" /\ q.t3412 = nbPsm.t3412 + dt
        BY <3>9, <3>12 DEF Advances
      <4>2. nbPsm.t3324 = 0 /\ nbPsm.t3412 = nbAway /\ nbAway <= End /\ a = nbAway + dt
        BY <3>7, <3>12
      <4> QED BY <3>5, <3>8, <4>1, <4>2, Steps
    <3>13. CASE nbPsm.state = "TAU"
      <4>1. IF nbPsm.t3324 + dt >= NbTau THEN q.state = "ACTIVE"
            ELSE q.state = "TAU" /\ q.t3324 = nbPsm.t3324 + dt
        BY <3>9, <3>13 DEF Advances
      <4>2. nbPsm.t3324 < NbTau /\ nbAway <= End + Long + nbPsm.t3324 /\ a = nbAway + dt
        BY <3>7, <3>13
      <4> QED BY <3>5, <3>6, <3>8, <4>1, <4>2
    <3> QED BY <3>6, <3>10, <3>11, <3>12, <3>13 DEF psm_state
  <2>2. ASSUME NbSearch \/ UNCHANGED nbVars PROVE PsmTypeOK' /\ AwayInv'
    BY <2>2 DEF NbSearch, nbVars, PsmTypeOK, AwayInv, PsmEnd, LongestStep
  <2> QED BY <2>1, <2>2 DEF NbNext
<1> QED BY <1>1, <1>2, PTL DEF NbSpec

(* Whatever the steps, the device is back within its period. *)
THEOREM DeviceBack == NbSpec => []BackInTime
<1>1. PsmTypeOK /\ AwayInv => BackInTime
  <2> SUFFICES ASSUME PsmTypeOK, AwayInv PROVE BackInTime
    OBVIOUS
  <2>1. nbAway \in Nat /\ nbPsm.state \in psm_state /\ nbPsm.t3324 \in Nat
    BY DEF PsmTypeOK, PsmStates
  <2>2. nbAway <= PsmEnd + LongestStep + NbTau - 1 + LongestStep
    BY <2>1, Steps, PsmEndValue DEF AwayInv, psm_state
  <2> QED BY <2>2 DEF BackInTime, PsmEnd
<1> QED BY <1>1, AwayKnown, PTL

-----------------------------------------------------------------------------
(* A cycle that spends longer in PSM has the lower average: time there costs
   less than the average of the rest does. *)
LEMMA LongerIsCheaper ==
  ASSUME NEW a \in Nat, NEW b \in Nat, NEW p \in Nat, NEW q \in Nat, q <= p, 3 * b <= a
  PROVE  (a + 3 * p) * (b + q) <= (a + 3 * q) * (b + p)
<1> DEFINE d == p - q
<1>1. d \in Nat /\ p = q + d
  OBVIOUS
<1>2. \A x, y, z \in Nat : x <= y => x * z <= y * z
  OBVIOUS
<1>3. (3 * b + 3 * q) * d <= (a + 3 * q) * d
  <2>1. 3 * b + 3 * q \in Nat /\ a + 3 * q \in Nat /\ 3 * b + 3 * q <= a + 3 * q
    OBVIOUS
  <2> HIDE DEF d
  <2> QED BY <1>1, <1>2, <2>1
<1>4. (a + 3 * (q + d)) * (b + q) = (a + 3 * q) * (b + q) + (3 * b + 3 * q) * d
  <2> HIDE DEF d
  <2> QED BY <1>1
<1>5. (a + 3 * q) * (b + (q + d)) = (a + 3 * q) * (b + q) + (a + 3 * q) * d
  <2> HIDE DEF d
  <2> QED BY <1>1
<1> QED BY <1>1, <1>3, <1>4, <1>5

(* Time and charge of a cycle run in unit steps, state by state; x is the time
   it spent in PSM, which is what the estimate says or more. *)
Spent(p, u) ==
  /\ u \in [charge : Nat, time : Nat, fine : BOOLEAN]
  /\ p.state = "ACTIVE_TIMER" /\ u.fine =>
       u.time = 1 + p.t3324 /\ u.charge = 50000 + 5000 * p.t3324
  /\ p.state = "PSM" /\ u.fine =>
       /\ NbT3324 <= p.t3412 /\ u.time = 1 + p.t3412
       /\ u.charge = 50000 + 5000 * NbT3324 + 3 * (p.t3412 - NbT3324)
  /\ p.state = "TAU" /\ u.fine =>
       \E x \in Nat : /\ PsmTime <= x /\ u.time = 1 + NbT3324 + x + p.t3324
                      /\ u.charge = 50000 + 5000 * NbT3324 + 3 * x + 200000 * p.t3324
  /\ p.state = "ACTIVE" /\ u.fine /\ u.time > 0 =>
       \E x \in Nat : /\ PsmTime <= x /\ u.time = 1 + NbT3324 + x + NbTau
                      /\ u.charge = 50000 + 5000 * NbT3324 + 3 * x + 200000 * NbTau

UsedInv == Spent(nbPsm, nbUsed)

LEMMA PsmTimeValue ==
  PsmTime \in Nat /\ (\A p \in Nat : NbT3412 - NbT3324 <= p => PsmTime <= p)
<1>1. 0 \in Int /\ NbT3412 - NbT3324 - NbTau \in Int
  BY Steps
<1>2. PsmTime = IF 0 >= NbT3412 - NbT3324 - NbTau THEN 0 ELSE NbT3412 - NbT3324 - NbTau
  BY <1>1, MaxOfTwo DEF PsmTime
<1> QED BY <1>2, Steps

(* A step of time adds the charge of the state it leaves. *)
LEMMA SpentOn ==
  ASSUME PsmTypeOK, AwayInv, UsedInv, NEW dt \in NbSteps,
         NEW q, q = nbiot_psm_advance(nbPsm, dt),
         NEW u \in [charge : Nat, time : Nat, fine : BOOLEAN],
         u.fine => dt = 1 /\ (nbPsm.state # "ACTIVE" => nbUsed.fine),
         u.fine => u.time = 1 + IF nbPsm.state = "ACTIVE" THEN 0 ELSE nbUsed.time,
         u.fine => u.charge = nbiot_psm_current(nbPsm.state)
                                + IF nbPsm.state = "ACTIVE" THEN 0 ELSE nbUsed.charge
  PROVE  Spent(q, u)
<1>1. dt \in Nat \ {0} /\ NbT3324 \in Nat \ {0} /\ NbT3412 \in Nat \ {0} /\ NbTau \in Nat \ {0}
  BY Steps
<1>2. nbPsm \in PsmStates /\ nbPsm.state \in psm_state
        /\ nbPsm.t3324 \in Nat /\ nbPsm.t3412 \in Nat
  BY DEF PsmTypeOK, PsmStates
<1>3. nbUsed.charge \in Nat /\ nbUsed.time \in Nat
  BY DEF UsedInv, Spent
<1>4. nbPsm.t3324 \in Nat /\ nbPsm.t3412 \in Nat /\ dt \in Nat
  BY <1>1, <1>2
<1> DEFINE P == PsmTime
<1>5. q \in PsmStates /\ Advances(nbPsm, dt, q)
  BY <1>2, <1>4, Advanced
<1>6. q.t3324 \in Nat /\ q.t3412 \in Nat
  BY <1>5 DEF PsmStates
<1> SUFFICES ASSUME u.fine
             PROVE  /\ q.state = "ACTIVE_TIMER" =>
                         u.time = 1 + q.t3324 /\ u.charge = 50000 + 5000 * q.t3324
                    /\ q.state = "PSM" =>
                         /\ NbT3324 <= q.t3412 /\ u.time = 1 + q.t3412
                         /\ u.charge = 50000 + 5000 * NbT3324 + 3 * (q.t3412 - NbT3324)
                    /\ q.state = "TAU" =>
                         \E p \in Nat :
                           /\ P <= p /\ u.time = 1 + NbT3324 + p + q.t3324
                           /\ u.charge = 50000 + 5000 * NbT3324 + 3 * p + 200000 * q.t3324
                    /\ q.state = "ACTIVE" =>
                         \E p \in Nat :
                           /\ P <= p /\ u.time = 1 + NbT3324 + p + NbTau
                           /\ u.charge = 50000 + 5000 * NbT3324 + 3 * p + 200000 * NbTau
  BY DEF Spent
<1>7. dt = 1 /\ (nbPsm.state # "ACTIVE" => nbUsed.fine)
  OBVIOUS
<1>8. CASE nbPsm.state = "ACTIVE"
  <2>1. q.state = "ACTIVE_TIMER" /\ q.t3324 = 0
    BY <1>5, <1>8 DEF Advances
  <2>2. u.time = 1 /\ u.charge = 50000
    BY <1>7, <1>8 DEF nbiot_psm_current
  <2> QED BY <2>1, <2>2
<1>9. CASE nbPsm.state = "ACTIVE_TIMER"
  <2>1. /\ q.t3412 = nbPsm.t3412 + dt
        /\ IF nbPsm.t3324 + dt >= NbT3324 THEN q.state = "PSM" /\ q.t3324 = 0
           ELSE q.state = "ACTIVE_TIMER" /\ q.t3324 = nbPsm.t3324 + dt
    BY <1>5, <1>9 DEF Advances
  <2>2. nbPsm.t3412 = nbPsm.t3324 /\ nbPsm.t3324 < NbT3324
    BY <1>9 DEF AwayInv
  <2>3. u.time = 2 + nbPsm.t3324 /\ u.charge = 55000 + 5000 * nbPsm.t3324
    BY <1>2, <1>3, <1>7, <1>9 DEF nbiot_psm_current, UsedInv, Spent
  <2> QED BY <1>1, <1>2, <1>6, <1>7, <2>1, <2>2, <2>3
<1>10. CASE nbPsm.state = "PSM"
  <2>1. /\ q.t3324 = nbPsm.t3324
        /\ IF nbPsm.t3412 + dt >= NbT3412 THEN q.state = "TAU"
           ELSE q.state = "PSM" /\ q.t3412 = nbPsm.t3412 + dt
    BY <1>5, <1>10 DEF Advances
  <2>2. nbPsm.t3324 = 0
    BY <1>10 DEF AwayInv
  <2>3. /\ NbT3324 <= nbPsm.t3412 /\ u.time = 2 + nbPsm.t3412
        /\ u.charge = 50000 + 5000 * NbT3324 + 3 * (nbPsm.t3412 - NbT3324) + 3
    BY <1>1, <1>2, <1>3, <1>7, <1>10 DEF nbiot_psm_current, UsedInv, Spent
  <2>4. CASE nbPsm.t3412 + dt >= NbT3412
    <3> DEFINE p == nbPsm.t3412 + 1 - NbT3324
    <3>1. p \in Nat /\ NbT3412 - NbT3324 <= p
      BY <1>1, <1>2, <1>7, <2>3, <2>4
    <3>2. P <= p
      BY <3>1, PsmTimeValue
    <3>3. /\ u.time = 1 + NbT3324 + p + q.t3324
          /\ u.charge = 50000 + 5000 * NbT3324 + 3 * p + 200000 * q.t3324
      BY <1>1, <1>2, <2>1, <2>2, <2>3
    <3> HIDE DEF p, P
    <3> QED BY <2>1, <2>4, <3>1, <3>2, <3>3
  <2>5. CASE ~(nbPsm.t3412 + dt >= NbT3412)
    BY <1>1, <1>2, <1>7, <2>1, <2>3, <2>5
  <2> QED BY <2>4, <2>5
<1>11. CASE nbPsm.state = "TAU"
  <2>1. IF nbPsm.t3324 + dt >= NbTau THEN q.state = "ACTIVE"
        ELSE q.state = "TAU" /\ q.t3324 = nbPsm.t3324 + dt
    BY <1>5, <1>11 DEF Advances
  <2>2. nbPsm.t3324 < NbTau
    BY <1>11 DEF AwayInv
  <2>3. PICK p \in Nat :
          /\ P <= p /\ nbUsed.time = 1 + NbT3324 + p + nbPsm.t3324
          /\ nbUsed.charge = 50000 + 5000 * NbT3324 + 3 * p + 200000 * nbPsm.t3324
    BY <1>7, <1>11 DEF UsedInv, Spent
  <2>4. /\ u.time = 1 + NbT3324 + p + (nbPsm.t3324 + 1)
        /\ u.charge = 50000 + 5000 * NbT3324 + 3 * p + 200000 * (nbPsm.t3324 + 1)
    BY <1>1, <1>2, <1>7, <1>11, <2>3 DEF nbiot_psm_current
  <2>5. CASE nbPsm.t3324 + dt >= NbTau
    <3>1. nbPsm.t3324 + 1 = NbTau
      BY <1>1, <1>2, <1>7, <2>2, <2>5
    <3> HIDE DEF P
    <3> QED BY <2>1, <2>3, <2>4, <2>5, <3>1
  <2>6. CASE ~(nbPsm.t3324 + dt >= NbTau)
    <3>1. q.t3324 = nbPsm.t3324 + 1 /\ q.state = "TAU"
      BY <1>7, <2>1, <2>6
    <3> HIDE DEF P
    <3> QED BY <2>3, <2>4, <3>1
  <2> QED BY <2>5, <2>6
<1> QED BY <1>2, <1>8, <1>9, <1>10, <1>11 DEF psm_state

(* The estimate of the current is on the safe side, for all timers. *)
THEOREM EstimateSafe == NbSpec => []EstimateIsSafe
<1>1. PsmTypeOK /\ UsedInv => EstimateIsSafe
  <2> SUFFICES ASSUME PsmTypeOK, UsedInv, nbPsm.state = "ACTIVE", nbUsed.fine, nbUsed.time > 0
               PROVE  nbUsed.charge * CycleTime <= CycleCharge * nbUsed.time
    BY DEF EstimateIsSafe
  <2>1. PICK p \in Nat :
          /\ PsmTime <= p /\ nbUsed.time = 1 + NbT3324 + p + NbTau
          /\ nbUsed.charge = 50000 + 5000 * NbT3324 + 3 * p + 200000 * NbTau
    BY DEF UsedInv, Spent
  <2> DEFINE a == 50000 + 5000 * NbT3324 + 200000 * NbTau
             b == 1 + NbT3324 + NbTau
  <2>2. a \in Nat /\ b \in Nat /\ 3 * b <= a
    BY Steps
  <2>3. CycleTime = b + PsmTime /\ CycleCharge = a + 3 * PsmTime
    BY PsmTimeValue, Steps DEF CycleTime, CycleCharge, nbiot_psm_current
  <2>4. nbUsed.time = b + p /\ nbUsed.charge = a + 3 * p
    BY <2>1, Steps
  <2> HIDE DEF a, b
  <2>5. (a + 3 * p) * (b + PsmTime) <= (a + 3 * PsmTime) * (b + p)
    BY <2>1, <2>2, PsmTimeValue, LongerIsCheaper
  <2> QED BY <2>3, <2>4, <2>5
<1>2. NbInit => UsedInv
  BY DEF NbInit, UsedInv, Spent, nbiot_psm_init
<1>3. PsmTypeOK /\ AwayInv /\ UsedInv /\ [NbNext]_nbVars => UsedInv'
  <2> SUFFICES ASSUME PsmTypeOK, AwayInv, UsedInv, [NbNext]_nbVars PROVE UsedInv'
    OBVIOUS
  <2>1. ASSUME NbAdvance PROVE UsedInv'
    <3>1. PICK dt \in NbSteps :
            /\ nbPsm' = nbiot_psm_advance(nbPsm, dt)
            /\ LET old == IF nbPsm.state = "ACTIVE" THEN [charge |-> 0, time |-> 0, fine |-> TRUE]
                          ELSE nbUsed
               IN  nbUsed' = [charge |-> old.charge + dt * nbiot_psm_current(nbPsm.state),
                              time |-> old.time + dt, fine |-> old.fine /\ dt = 1]
      BY <2>1 DEF NbAdvance
    <3>2. UsedInv' = Spent(nbPsm', nbUsed')
      BY DEF UsedInv, Spent, PsmTime
    <3>3. nbPsm.state \in psm_state /\ dt \in Nat
      BY Steps DEF PsmTypeOK, PsmStates
    <3>4. nbiot_psm_current(nbPsm.state) \in Nat
      BY <3>3 DEF nbiot_psm_current, psm_state
    <3>5. nbUsed.charge \in Nat /\ nbUsed.time \in Nat /\ nbUsed.fine \in BOOLEAN
      BY DEF UsedInv, Spent
    <3> DEFINE old == IF nbPsm.state = "ACTIVE" THEN [charge |-> 0, time |-> 0, fine |-> TRUE]
                      ELSE nbUsed
               current == nbiot_psm_current(nbPsm.state)
    <3>6. old.charge \in Nat /\ old.time \in Nat /\ old.fine \in BOOLEAN
      BY <3>5
    <3>7. old.charge + dt * current \in Nat /\ old.time + dt \in Nat
      <4> HIDE DEF old, current
      <4> QED BY <3>3, <3>4, <3>6 DEF current
    <3>8. nbUsed' = [charge |-> old.charge + dt * current, time |-> old.time + dt,
                     fine |-> old.fine /\ dt = 1]
      BY <3>1, Zenon
    <3> HIDE DEF old, current
    <3>9. nbUsed'.charge = old.charge + dt * current /\ nbUsed'.time = old.time + dt
      BY <3>8, Zenon
    <3>10. nbUsed'.fine => old.fine /\ dt = 1
      BY <3>8, Zenon
    <3>11. nbUsed' \in [charge : Nat, time : Nat, fine : BOOLEAN]
      <4>1. (old.fine /\ dt = 1) \in BOOLEAN
        OBVIOUS
      <4> QED BY <3>7, <3>8, <4>1, Zenon
    <3>12. nbUsed'.fine => dt = 1 /\ (nbPsm.state # "ACTIVE" => nbUsed.fine)
      BY <3>10, Zenon DEF old
    <3>13. nbUsed'.fine => nbUsed'.time = 1 + IF nbPsm.state = "ACTIVE" THEN 0 ELSE nbUsed.time
      <4>1. old.time = IF nbPsm.state = "ACTIVE" THEN 0 ELSE nbUsed.time
        BY DEF old
      <4>2. \A n \in Nat : n + 1 = 1 + n
        OBVIOUS
      <4>3. old.time + 1 = 1 + old.time
        BY <3>6, <4>2, Zenon
      <4>4. nbUsed'.fine => nbUsed'.time = old.time + 1
        BY <3>9, <3>10, Zenon
      <4> QED BY <4>1, <4>3, <4>4, Zenon
    <3>14. nbUsed'.fine =>
             nbUsed'.charge = current + IF nbPsm.state = "ACTIVE" THEN 0 ELSE nbUsed.charge
      <4>1. old.charge = IF nbPsm.state = "ACTIVE" THEN 0 ELSE nbUsed.charge
        BY DEF old
      <4>2. \A n, c \in Nat : n + 1 * c = c + n
        OBVIOUS
      <4>3. current \in Nat
        BY <3>4 DEF current
      <4>4. old.charge + 1 * current = current + old.charge
        BY <3>6, <4>2, <4>3, Zenon
      <4>5. nbUsed'.fine => nbUsed'.charge = old.charge + 1 * current
        BY <3>9, <3>10, Zenon
      <4> QED BY <4>1, <4>4, <4>5, Zenon
    <3>15. Spent(nbPsm', nbUsed')
      BY <3>1, <3>11, <3>12, <3>13, <3>14, SpentOn DEF current
    <3> QED BY <3>2, <3>15
  <2>2. ASSUME NbSearch \/ UNCHANGED nbVars PROVE UsedInv'
    <3>1. nbPsm' = nbPsm /\ nbUsed' = nbUsed
      BY <2>2 DEF NbSearch, nbVars
    <3>2. UsedInv' = Spent(nbPsm', nbUsed')
      BY DEF UsedInv, Spent, PsmTime
    <3> QED BY <3>1, <3>2 DEF UsedInv
  <2> QED BY <2>1, <2>2 DEF NbNext
<1> QED BY <1>1, <1>2, <1>3, AwayKnown, PTL DEF NbSpec

-----------------------------------------------------------------------------
(* The cell search.  The root of a cell's signal, with the remainder written
   out. *)
Root(k) == IF k \in {0, 131} THEN 1 ELSE IF k > 131 THEN k - 131 ELSE k

LEMMA SignalOf ==
  ASSUME NEW pci \in 0 .. 503
  PROVE  \E k \in 0 .. 167 :
           /\ pci = 3 * k + (pci % 3) /\ pci % 3 \in 0 .. 2
           /\ nbiot_nsss_generate(pci, 0) = [root |-> Root(k), shift |-> 0, scrambling |-> pci % 3]
<1> DEFINE k == pci \div 3
<1>1. k \in 0 .. 167 /\ pci = 3 * k + (pci % 3) /\ pci % 3 \in 0 .. 2
  OBVIOUS
<1>2. k % 131 = IF k >= 131 THEN k - 131 ELSE k
  <2> HIDE DEF k
  <2> QED BY <1>1
<1>3. Max({1, k % 131}) = Root(k)
  <2>1. k % 131 \in Int
    BY <1>1, <1>2
  <2>2. Max({1, k % 131}) = IF 1 >= k % 131 THEN 1 ELSE k % 131
    BY <2>1, MaxOfTwo
  <2> HIDE DEF k
  <2> QED BY <1>1, <1>2, <2>2 DEF Root
<1>4. 33 * ((0 \div 2) % 4) = 0
  OBVIOUS
<1>5. nbiot_nsss_generate(pci, 0) = [root |-> Root(k), shift |-> 0, scrambling |-> pci % 3]
  BY <1>3, <1>4 DEF nbiot_nsss_generate
<1> HIDE DEF k
<1> QED BY <1>1, <1>5

(* The decoder names the first identity of a signal: none with a root of 131
   or more, and no second one of root 1. *)
Identities == 0 .. 503

LEMMA DecodedPci ==
  ASSUME NEW cell \in Identities, NEW d, d = nbiot_nsss_decode_pci(nbiot_nsss_generate(cell, 0), 0)
  PROVE  d \in 0 .. 2 \cup 6 .. 392
<1> USE DEF Identities
<1> DEFINE Alike == {pci \in 0 .. 503 : nbiot_nsss_generate(pci, 0) = nbiot_nsss_generate(cell, 0)}
<1>1. d = Min(Alike)
  BY DEF nbiot_nsss_decode_pci, MaxPcid
<1>2. cell \in Alike /\ Alike \subseteq Nat
  OBVIOUS
<1>3. \E n \in Alike : \A m \in Alike : n <= m
  <2> HIDE DEF Alike
  <2> QED BY <1>2, LeastOf
<1>4. d \in Alike /\ \A m \in Alike : d <= m
  <2> HIDE DEF Alike
  <2> QED BY <1>1, <1>3, Zenon DEF Min
<1>5. d \in 0 .. 503 /\ d <= cell /\ nbiot_nsss_generate(d, 0) = nbiot_nsss_generate(cell, 0)
  BY <1>2, <1>4
<1>6. PICK k \in 0 .. 167 :
        /\ cell = 3 * k + (cell % 3) /\ cell % 3 \in 0 .. 2
        /\ nbiot_nsss_generate(cell, 0) = [root |-> Root(k), shift |-> 0, scrambling |-> cell % 3]
  BY SignalOf
<1>7. PICK j \in 0 .. 167 :
        /\ d = 3 * j + (d % 3) /\ d % 3 \in 0 .. 2
        /\ nbiot_nsss_generate(d, 0) = [root |-> Root(j), shift |-> 0, scrambling |-> d % 3]
  BY <1>5, SignalOf
<1>8. Root(j) = Root(k) /\ d % 3 = cell % 3
  BY <1>5, <1>6, <1>7
<1> HIDE DEF Alike
<1> DEFINE r == cell % 3
<1>9. cell = 3 * k + r /\ d = 3 * j + r /\ r \in 0 .. 2 /\ k \in 0 .. 167 /\ j \in 0 .. 167
  BY <1>6, <1>7, <1>8
<1> HIDE DEF r
<1>10. j <= k
  BY <1>5, <1>9
<1>11. Root(k) = 1 => j = 0
  <2> SUFFICES ASSUME Root(k) = 1 PROVE j = 0
    OBVIOUS
  <2>1. r \in 0 .. 503 /\ 0 \in 0 .. 167
    BY <1>9
  <2>2. PICK i \in 0 .. 167 :
          /\ r = 3 * i + (r % 3) /\ r % 3 \in 0 .. 2
          /\ nbiot_nsss_generate(r, 0) = [root |-> Root(i), shift |-> 0, scrambling |-> r % 3]
    BY <2>1, SignalOf
  <2>3. i = 0 /\ r % 3 = r
    BY <1>9, <2>2
  <2>4. nbiot_nsss_generate(r, 0) = nbiot_nsss_generate(cell, 0)
    BY <1>6, <2>2, <2>3 DEF Root, r
  <2>5. d <= r
    BY <1>4, <2>1, <2>4 DEF Alike
  <2> QED BY <1>9, <2>5
<1>12. \/ k = j /\ k \in 2 .. 130
       \/ j = 0 /\ k \in {0, 1, 131, 132}
       \/ k = j + 131 /\ k \in 133 .. 167
  <2>1. CASE k \in {0, 1, 131, 132}
    BY <1>11, <2>1 DEF Root
  <2>2. CASE k \in 2 .. 130
    BY <1>8, <1>9, <1>10, <2>2 DEF Root
  <2>3. CASE k \in 133 .. 167
    <3>1. Root(k) = k - 131 /\ j # k
      <4>1. k - 131 \in 0 .. 503 /\ 3 * (k - 131) + r \in 0 .. 503
        BY <1>9, <2>3
      <4>2. PICK i \in 0 .. 167 :
              /\ 3 * (k - 131) + r = 3 * i + ((3 * (k - 131) + r) % 3)
              /\ (3 * (k - 131) + r) % 3 \in 0 .. 2
              /\ nbiot_nsss_generate(3 * (k - 131) + r, 0)
                   = [root |-> Root(i), shift |-> 0, scrambling |-> (3 * (k - 131) + r) % 3]
        BY <4>1, SignalOf
      <4>3. i = k - 131 /\ (3 * (k - 131) + r) % 3 = r
        BY <1>9, <2>3, <4>2
      <4>4. Root(i) = Root(k) /\ Root(k) = k - 131
        BY <2>3, <4>3 DEF Root
      <4>5. nbiot_nsss_generate(3 * (k - 131) + r, 0) = nbiot_nsss_generate(cell, 0)
        BY <1>6, <4>2, <4>3, <4>4 DEF r
      <4>6. d <= 3 * (k - 131) + r
        BY <1>4, <4>1, <4>5 DEF Alike
      <4> QED BY <1>9, <2>3, <4>4, <4>6
    <3> QED BY <1>8, <1>9, <1>10, <2>3, <3>1 DEF Root
  <2> QED BY <1>9, <2>1, <2>2, <2>3
<1> QED BY <1>9, <1>12

(* An identity is named by the decoder or is the first, 0. *)
LEMMA SearchOfNames == NbSpec => []SearchNames
<1>1. NbInit => SearchNames
  BY DEF NbInit, SearchNames, nbiot_cell_search_init
<1>2. SearchNames /\ [NbNext]_nbVars => SearchNames'
  <2> SUFFICES ASSUME SearchNames, [NbNext]_nbVars PROVE SearchNames'
    OBVIOUS
  <2>1. CASE NbSearch
    <3>1. PICK found \in BOOLEAN, nearest \in NbCells :
            nbSearch' = nbiot_cell_search_process(nbSearch, found, nearest)
      BY <2>1 DEF NbSearch
    <3> DEFINE d == nbiot_nsss_decode_pci(nbiot_nsss_generate(nearest, 0), 0)
    <3>2. d \in 0 .. 2 \cup 6 .. 392
      <4>1. nearest \in Identities
        BY NbAssumption DEF Identities
      <4> QED BY <4>1, DecodedPci
    <3>3. nbSearch'.detected_pci \in {nbSearch.detected_pci, d}
      <4> HIDE DEF d
      <4> QED BY <3>1 DEF nbiot_cell_search_process, d
    <3> QED BY <3>2, <3>3 DEF SearchNames
  <2>2. CASE NbAdvance \/ UNCHANGED nbVars
    BY <2>2 DEF NbAdvance, nbVars, SearchNames
  <2> QED BY <2>1, <2>2 DEF NbNext
<1> QED BY <1>1, <1>2, PTL DEF NbSpec



(* The node as a whole: power saving, its estimate, what the search names. *)
THEOREM NodeIsSound == NbSpec => []NodeSound
  BY DeviceBack, EstimateSafe, SearchOfNames, PTL DEF NodeSound

-----------------------------------------------------------------------------
(***************************************************************************)
(* Sessions.  The stand-in for CMAC mixes each byte with the one four places *)
(* on: from one block with four zero bytes at its end the first four bytes   *)
(* are told, and from two blocks the four bytes of the key.                  *)
(***************************************************************************)

(* The stand-in for CMAC: keys and states are sixteen bytes. *)
States == [1 .. 16 -> Byte]

LEMMA BytesSeq ==
  ASSUME NEW n \in Nat, NEW f \in [1 .. n -> Byte]
  PROVE  f \in Seq(Byte) /\ Len(f) = n
BY ArraySeq, Zenon

LEMMA ZerosSeq == ASSUME NEW n \in Nat PROVE Zeros(n) \in Seq(Byte) /\ Len(Zeros(n)) = n /\ \A i \in 1 .. n : Zeros(n)[i] = 0
<1>1. Zeros(n) \in [1 .. n -> Byte] /\ \A i \in 1 .. n : Zeros(n)[i] = 0
  BY DEF Zeros, Byte
<1> QED BY <1>1, BytesSeq

(* A block is filled up to sixteen bytes, and a whole one left alone. *)
LEMMA PaddedIs ==
  ASSUME NEW block \in Seq(Byte), Len(block) <= 16
  PROVE  Padded(block) \in States /\ (Len(block) = 16 => \A i \in 1 .. 16 : Padded(block)[i] = block[i])
<1> DEFINE one == <<128>>
           rest == Zeros(15)
           front == block \o one
           whole == front \o rest
           p == SubSeq(whole, 1, 16)
<1>1. one \in Seq(Byte) /\ Len(one) = 1
  BY DEF Byte
<1>2. rest \in Seq(Byte) /\ Len(rest) = 15
  BY ZerosSeq
<1> HIDE DEF one, rest
<1>3. front \in Seq(Byte) /\ Len(front) = Len(block) + 1 /\ \A i \in 1 .. Len(block) : front[i] = block[i]
  BY <1>1, Concat
<1>4. /\ whole \in Seq(Byte) /\ Len(whole) = Len(block) + 16
      /\ \A i \in 1 .. Len(block) : whole[i] = block[i]
  <2> HIDE DEF front
  <2>1. /\ whole \in Seq(Byte) /\ Len(whole) = Len(front) + Len(rest)
        /\ \A i \in 1 .. Len(front) : whole[i] = front[i]
    <3>1. front \in Seq(Byte) /\ rest \in Seq(Byte)
      BY <1>2, <1>3
    <3> QED BY <3>1, Concat
  <2> HIDE DEF whole
  <2>2. Len(block) \in Nat
    BY LenProperties
  <2>3. \A i \in 1 .. Len(block) : i \in 1 .. Len(front)
    BY <1>3, <2>2
  <2> QED BY <1>2, <1>3, <2>1, <2>2, <2>3
<1> HIDE DEF whole
<1>5. p \in Seq(Byte) /\ Len(p) = 16 /\ \A i \in 1 .. 16 : p[i] = whole[i]
  <2>1. 16 <= Len(whole)
    BY <1>4, LenProperties
  <2>2. /\ p \in Seq(Byte) /\ Len(p) = 16 - 1 + 1
        /\ \A i \in 1 .. 16 - 1 + 1 : p[i] = whole[1 + i - 1]
    BY <1>4, <2>1, PartIs
  <2> HIDE DEF p
  <2> QED BY <2>2
<1>6. Padded(block) = p
  BY Zenon DEF Padded, p, whole, front, one, rest
<1> HIDE DEF p
<1>7. p \in States
  BY <1>5, LenProperties DEF States
<1> QED BY <1>4, <1>5, <1>6, <1>7

(* A block of a message. *)
LEMMA BlockIs ==
  ASSUME NEW msg \in Seq(Byte), NEW b \in Nat, 16 * b < Len(msg)
  PROVE  /\ BlockOf(msg, b) \in Seq(Byte) /\ Len(BlockOf(msg, b)) <= 16
         /\ 16 * b + 16 <= Len(msg) =>
              /\ Len(BlockOf(msg, b)) = 16
              /\ \A i \in 1 .. 16 : BlockOf(msg, b)[i] = msg[16 * b + i]
<1> DEFINE m == 16 * b + 1
           n == IF 16 * b + 16 < Len(msg) THEN 16 * b + 16 ELSE Len(msg)
<1>1. Len(msg) \in Nat
  BY LenProperties
<1>2. m \in Nat \ {0} /\ n \in Nat /\ n <= Len(msg) /\ m <= n + 1
  BY <1>1
<1>3. n - m + 1 <= 16 /\ (16 * b + 16 <= Len(msg) => n - m + 1 = 16) /\ \A i \in 1 .. 16 : m + i - 1 = 16 * b + i
  BY <1>1
<1>4. BlockOf(msg, b) = SubSeq(msg, m, n)
  BY DEF BlockOf
<1> HIDE DEF m, n
<1>5. /\ SubSeq(msg, m, n) \in Seq(Byte) /\ Len(SubSeq(msg, m, n)) = n - m + 1
      /\ \A i \in 1 .. n - m + 1 : SubSeq(msg, m, n)[i] = msg[m + i - 1]
  BY <1>2, PartIs
<1> QED BY <1>3, <1>4, <1>5

(* One block, byte by byte. *)
Turned(i) == ((i + 11) % 16) + 1
Salt(b) == (37 * b) % 256
Mixed(key, state, p, z, i) ==
  XorByte(XorByte(XorByte(state[i], p[i]), XorByte(state[Turned(i)], p[Turned(i)])), XorByte(key[i], z))

LEMMA CmacBlockIs ==
  ASSUME NEW key \in States, NEW state \in States, NEW block, Padded(block) \in States, NEW b \in Nat
  PROVE  /\ CmacBlock(key, state, block, b) \in States
         /\ \A i \in 1 .. 16 :
              CmacBlock(key, state, block, b)[i] = Mixed(key, state, Padded(block), Salt(b), i)
<1> DEFINE p == Padded(block)
           x == XorBytes(state, p)
           z == Salt(b)
           e(i) == XorByte(XorByte(x[i], x[Turned(i)]), XorByte(key[i], z))
           f == [i \in 1 .. 16 |-> e(i)]
<1>1. Len(state) = 16 /\ Len(p) = 16
  <2>1. 16 \in Nat
    OBVIOUS
  <2> QED BY <2>1, BytesSeq DEF States
<1>2. z \in Byte
  <2>1. 37 * b \in Nat
    OBVIOUS
  <2>2. \A m \in Nat : m % 256 \in 0 .. 255
    OBVIOUS
  <2> QED BY <2>1, <2>2, Zenon DEF Byte, Salt
<1>3. \A i \in 1 .. 16 : Turned(i) \in 1 .. 16
  BY DEF Turned
<1> HIDE DEF p, z
<1>4. \A i \in 1 .. 16 : x[i] = XorByte(state[i], p[i]) /\ x[i] \in Byte
  <2>1. x = [i \in 1 .. 16 |-> XorByte(state[i], p[i])]
    BY <1>1 DEF XorBytes
  <2>2. \A i \in 1 .. 16 : state[i] \in Byte /\ p[i] \in Byte
    BY DEF States, p
  <2> HIDE DEF x
  <2>3. \A i \in 1 .. 16 : x[i] = XorByte(state[i], p[i])
    BY <2>1
  <2> QED BY <2>2, <2>3, XorIs
<1>5. \A i \in 1 .. 16 : e(i) \in Byte
  <2> SUFFICES ASSUME NEW i \in 1 .. 16 PROVE e(i) \in Byte
    OBVIOUS
  <2> HIDE DEF x
  <2>1. x[i] \in Byte /\ x[Turned(i)] \in Byte /\ key[i] \in Byte
    BY <1>3, <1>4 DEF States
  <2>2. XorByte(x[i], x[Turned(i)]) \in Byte /\ XorByte(key[i], z) \in Byte
    BY <1>2, <2>1, XorIs
  <2> QED BY <2>2, XorIs
<1>6. f \in [1 .. 16 -> Byte]
  <2> HIDE DEF e
  <2> QED BY <1>5
<1>7. CmacBlock(key, state, block, b) = Stored(f)
  BY Zenon DEF CmacBlock, p, Turned, z, Salt
<1>8. Stored(f) = f
  <2> HIDE DEF f
  <2>1. 16 \in Nat
    OBVIOUS
  <2> QED BY <1>6, <2>1, StoredIs, Zenon
<1>9. \A i \in 1 .. 16 : f[i] = e(i)
  OBVIOUS
<1>10. \A i \in 1 .. 16 : f[i] = Mixed(key, state, p, z, i)
  <2> HIDE DEF f, x
  <2> QED BY <1>3, <1>4, <1>9 DEF Mixed
<1> HIDE DEF f
<1> QED BY <1>6, <1>7, <1>8, <1>10 DEF States, p, z

(* Every run of blocks has its states. *)
LEMMA FoldStates ==
  ASSUME NEW Y, NEW T \in [States -> [Y -> States]], NEW base \in States, NEW n \in Nat, NEW seq \in [1 .. n -> Y]
  PROVE  \E f \in [SUBSET (1 .. n) -> States] : Folded(T, base, seq, n, f)
<1> DEFINE X == States
<1>1. T \in [X -> [Y -> X]] /\ base \in X
  OBVIOUS
<1> HIDE DEF X
<1>2. \E f \in [SUBSET (1 .. n) -> X] : Folded(T, base, seq, n, f)
  BY <1>1, FoldExists
<1> QED BY <1>2 DEF X

(* The blocks one after the other. *)
LEMMA CmacRuns ==
  ASSUME NEW key \in States, NEW msg \in Seq(Byte), NEW n \in Nat, n = (Len(msg) + 15) \div 16
  PROVE  \E c \in [0 .. n -> States] :
           /\ c[0] = key /\ c[n] = CmacState(key, msg)
           /\ \A i \in 1 .. n : c[i] = CmacBlock(key, c[i - 1], BlockOf(msg, i - 1), i - 1)
<1> DEFINE Y == 1 .. n
           Op(x, y) == CmacBlock(key, x, BlockOf(msg, y - 1), y - 1)
           T == [x \in States |-> [y \in Y |-> Op(x, y)]]
           seq == UpTo(n)
           Is(f) == f = [s \in SUBSET DOMAIN seq |->
                           IF s = {} THEN key ELSE Op(f[s \ {Max(s)}], seq[Max(s)])]
<1>1. \A x \in States, y \in Y : Op(x, y) \in States
  <2> SUFFICES ASSUME NEW x \in States, NEW y \in Y PROVE Op(x, y) \in States
    OBVIOUS
  <2>1. y - 1 \in Nat /\ 16 * (y - 1) < Len(msg)
    BY LenProperties
  <2> DEFINE b == y - 1
  <2> HIDE DEF b
  <2>2. BlockOf(msg, b) \in Seq(Byte) /\ Len(BlockOf(msg, b)) <= 16
    BY <2>1, BlockIs DEF b
  <2>3. Padded(BlockOf(msg, b)) \in States
    BY <2>2, PaddedIs
  <2>4. b \in Nat
    BY <2>1 DEF b
  <2>5. CmacBlock(key, x, BlockOf(msg, b), b) \in States
    BY <2>3, <2>4, CmacBlockIs
  <2> QED BY <2>5 DEF b
<1> HIDE DEF Op
<1>2. T \in [States -> [Y -> States]] /\ \A x \in States, y \in Y : T[x][y] = Op(x, y)
  BY <1>1
<1> HIDE DEF T
<1>3. seq \in [1 .. n -> Y] /\ \A i \in 1 .. n : seq[i] = i
  BY DEF UpTo
<1> HIDE DEF Y
<1>4. DOMAIN seq = 1 .. n
  BY <1>3
<1> HIDE DEF seq
<1>5. PICK f \in [SUBSET (1 .. n) -> States] : Folded(T, key, seq, n, f)
  <2>1. T \in [States -> [Y -> States]] /\ seq \in [1 .. n -> Y]
    BY <1>2, <1>3
  <2>2. \E f \in [SUBSET (1 .. n) -> States] : Folded(T, key, seq, n, f)
    BY <2>1, FoldStates
  <2> QED BY <2>2
<1>6. ASSUME NEW s \in SUBSET (1 .. n)
      PROVE  f[s] = IF s = {} THEN key ELSE Op(f[s \ {Max(s)}], seq[Max(s)])
  <2>1. CASE s = {}
    BY <1>5, <2>1 DEF Folded
  <2>2. CASE s # {}
    <3>1. Max(s) \in 1 .. n
      BY <2>2, MaxIs
    <3>2. f[s \ {Max(s)}] \in States /\ seq[Max(s)] \in Y
      BY <1>3, <3>1
    <3>3. f[s] = T[f[s \ {Max(s)}]][seq[Max(s)]]
      BY <1>5, <2>2, Zenon DEF Folded
    <3>4. T[f[s \ {Max(s)}]][seq[Max(s)]] = Op(f[s \ {Max(s)}], seq[Max(s)])
      BY <1>2, <3>2, Zenon
    <3> QED BY <2>2, <3>3, <3>4, Zenon
  <2> QED BY <2>1, <2>2
<1>7. Is(f)
  BY <1>4, <1>6, Zenon
<1>8. CmacState(key, msg) = (CHOOSE g : Is(g))[DOMAIN seq]
  BY Zenon DEF CmacState, FoldLeft, MapThenFoldSet, Op, seq
<1>9. PICK g : Is(g) /\ CmacState(key, msg) = g[DOMAIN seq]
  BY <1>7, <1>8, Zenon
<1>10. \A s \in SUBSET (1 .. n) : g[s] = IF s = {} THEN key ELSE Op(g[s \ {Max(s)}], seq[Max(s)])
  BY <1>4, <1>9, Zenon
<1> HIDE DEF Is
<1> DEFINE c == [i \in 0 .. n |-> g[1 .. i]]
<1>11. c[0] = key
  <2>1. 1 .. 0 = {} /\ {} \in SUBSET (1 .. n) /\ 0 \in 0 .. n
    OBVIOUS
  <2> QED BY <1>10, <2>1, Zenon
<1>12. ASSUME NEW i \in 1 .. n PROVE c[i] = Op(c[i - 1], i)
  <2>1. i \in 0 .. n /\ i - 1 \in 0 .. n
    OBVIOUS
  <2>2. Max(1 .. i) = i /\ (1 .. i) \ {i} = 1 .. i - 1 /\ 1 .. i # {} /\ 1 .. i \in SUBSET (1 .. n)
    BY MaxOfFirst
  <2>3. g[1 .. i] = Op(g[(1 .. i) \ {Max(1 .. i)}], seq[Max(1 .. i)])
    BY <1>10, <2>2, Zenon
  <2>4. c[i] = g[1 .. i] /\ c[i - 1] = g[1 .. i - 1]
    BY <2>1
  <2> HIDE DEF c
  <2>5. seq[i] = i
    BY <1>3
  <2> QED BY <2>2, <2>3, <2>4, <2>5, Zenon
<1>13. n \in 0 .. n /\ c[n] = CmacState(key, msg)
  BY <1>4, <1>9
<1> HIDE DEF c
<1>14. \A i \in 0 .. n : c[i] \in States
  <2> DEFINE S == {i \in 0 .. n : c[i] \in States}
  <2>1. 0 \in S
    BY <1>11
  <2>2. ASSUME NEW i \in 1 .. n, i - 1 \in S PROVE i \in S
    <3>1. c[i - 1] \in States /\ i \in Y /\ i \in 0 .. n
      BY <2>2 DEF Y
    <3>2. Op(c[i - 1], i) \in States
      BY <1>1, <3>1, Zenon
    <3> QED BY <1>12, <3>1, <3>2
  <2> HIDE DEF S
  <2>3. \A i \in 0 .. n : i \in S
    BY <2>1, <2>2, ByRounds
  <2> QED BY <2>3 DEF S
<1>15. c \in [0 .. n -> States]
  BY <1>14 DEF c
<1>16. \A i \in 1 .. n : c[i] = CmacBlock(key, c[i - 1], BlockOf(msg, i - 1), i - 1)
  BY <1>12, Zenon DEF Op
<1> QED BY <1>11, <1>13, <1>15, <1>16, Zenon

(* The first and the second block of a message. *)
LEMMA BlockMixed ==
  ASSUME NEW key \in States, NEW state \in States, NEW block, Padded(block) \in States
  PROVE  /\ \A i \in 1 .. 16 : CmacBlock(key, state, block, 0)[i] = Mixed(key, state, Padded(block), 0, i)
         /\ \A i \in 1 .. 16 : CmacBlock(key, state, block, 1)[i] = Mixed(key, state, Padded(block), 37, i)
<1>1. ASSUME NEW b \in Nat
      PROVE  \A i \in 1 .. 16 : CmacBlock(key, state, block, b)[i] = Mixed(key, state, Padded(block), Salt(b), i)
  <2>1. /\ CmacBlock(key, state, block, b) \in States
        /\ \A i \in 1 .. 16 : CmacBlock(key, state, block, b)[i] = Mixed(key, state, Padded(block), Salt(b), i)
    BY CmacBlockIs
  <2> QED BY <2>1
<1>2. 0 \in Nat /\ 1 \in Nat /\ Salt(0) = 0 /\ Salt(1) = 37
  BY DEF Salt
<1> QED BY <1>1, <1>2

(* The states of messages of one and of two blocks. *)
LEMMA OneBlock ==
  ASSUME NEW key \in States, NEW m \in Seq(Byte), Len(m) = 16
  PROVE  CmacState(key, m) \in States /\ CmacState(key, m) = CmacBlock(key, key, BlockOf(m, 0), 0)
<1> DEFINE n == 1
<1>1. n \in Nat /\ n = (Len(m) + 15) \div 16
  OBVIOUS
<1> HIDE DEF n
<1>2. PICK c \in [0 .. n -> States] :
        /\ c[0] = key /\ c[n] = CmacState(key, m)
        /\ \A i \in 1 .. n : c[i] = CmacBlock(key, c[i - 1], BlockOf(m, i - 1), i - 1)
  <2>1. \A k \in Nat : k = (Len(m) + 15) \div 16 =>
          \E c \in [0 .. k -> States] :
            /\ c[0] = key /\ c[k] = CmacState(key, m)
            /\ \A i \in 1 .. k : c[i] = CmacBlock(key, c[i - 1], BlockOf(m, i - 1), i - 1)
    BY CmacRuns, Zenon
  <2> QED BY <1>1, <2>1, Zenon
<1>3. n = 1 /\ 1 \in 1 .. n /\ 1 - 1 = 0 /\ n \in 0 .. n
  BY DEF n
<1>4. c[1] = CmacBlock(key, c[1 - 1], BlockOf(m, 1 - 1), 1 - 1)
  BY <1>2, <1>3, Zenon
<1> QED BY <1>2, <1>3, <1>4

LEMMA TwoBlocks ==
  ASSUME NEW key \in States, NEW m \in Seq(Byte), 17 <= Len(m), Len(m) <= 32
  PROVE  \E s \in States : /\ s = CmacBlock(key, key, BlockOf(m, 0), 0)
                           /\ CmacState(key, m) \in States
                           /\ CmacState(key, m) = CmacBlock(key, s, BlockOf(m, 1), 1)
<1> DEFINE n == 2
<1>1. n \in Nat /\ n = (Len(m) + 15) \div 16
  BY LenProperties
<1> HIDE DEF n
<1>2. PICK c \in [0 .. n -> States] :
        /\ c[0] = key /\ c[n] = CmacState(key, m)
        /\ \A i \in 1 .. n : c[i] = CmacBlock(key, c[i - 1], BlockOf(m, i - 1), i - 1)
  BY <1>1, CmacRuns
<1>3. n = 2 /\ 1 \in 1 .. n /\ 2 \in 1 .. n /\ 1 - 1 = 0 /\ 2 - 1 = 1 /\ 1 \in 0 .. n /\ 2 \in 0 .. n
  BY DEF n
<1>4. /\ c[1] = CmacBlock(key, c[1 - 1], BlockOf(m, 1 - 1), 1 - 1)
      /\ c[2] = CmacBlock(key, c[2 - 1], BlockOf(m, 2 - 1), 2 - 1)
  BY <1>2, <1>3, Zenon
<1>5. c[1] \in States /\ c[2] \in States
  BY <1>2, <1>3
<1>6. c[1] = CmacBlock(key, key, BlockOf(m, 0), 0) /\ c[2] = CmacBlock(key, c[1], BlockOf(m, 1), 1)
  BY <1>2, <1>3, <1>4
<1> QED BY <1>2, <1>3, <1>5, <1>6

LEMMA StatesEqual ==
  ASSUME NEW a \in States, NEW b \in States, \A i \in 1 .. 16 : a[i] = b[i]
  PROVE  a = b
BY DEF States

(* The code is the first four bytes of the last state. *)
LEMMA MicBytes ==
  ASSUME NEW key, NEW msg, CmacState(key, msg) \in States
  PROVE  /\ lora_aes128_cmac(key, msg) \in [1 .. 4 -> Byte]
         /\ \A i \in 1 .. 4 : lora_aes128_cmac(key, msg)[i] = CmacState(key, msg)[i]
<1> DEFINE s == CmacState(key, msg)
           p == SubSeq(s, 1, 4)
<1>1. s \in Seq(Byte) /\ Len(s) = 16
  <2>1. 16 \in Nat
    OBVIOUS
  <2> QED BY <2>1, BytesSeq DEF States
<1> HIDE DEF s
<1>2. p \in Seq(Byte) /\ Len(p) = 4 - 1 + 1 /\ \A i \in 1 .. 4 - 1 + 1 : p[i] = s[1 + i - 1]
  <2> DEFINE a == 1
             b == 4
  <2>1. a \in Nat \ {0} /\ b \in Nat /\ b <= Len(s) /\ a <= b + 1
    BY <1>1
  <2> HIDE DEF a, b
  <2>2. /\ SubSeq(s, a, b) \in Seq(Byte) /\ Len(SubSeq(s, a, b)) = b - a + 1
        /\ \A i \in 1 .. b - a + 1 : SubSeq(s, a, b)[i] = s[a + i - 1]
    BY <1>1, <2>1, PartIs
  <2> QED BY <2>2 DEF a, b
<1>3. lora_aes128_cmac(key, msg) = p
  BY Zenon DEF lora_aes128_cmac, p, s
<1> HIDE DEF p
<1>4. p \in [1 .. 4 -> Byte]
  <2>1. Len(p) = 4
    BY <1>2
  <2> QED BY <1>2, <2>1, LenProperties, Zenon
<1>5. \A i \in 1 .. 4 : p[i] = s[i]
  BY <1>2
<1> QED BY <1>3, <1>4, <1>5, Zenon DEF s

(* The places of a rotation, for the bytes of a code. *)
LEMMA TurnedIs ==
  \A i \in 1 .. 4 : i \in 1 .. 16 /\ Turned(i) \in 13 .. 16 /\ Turned(i) \in 1 .. 16 /\ Turned(Turned(i)) \in 9 .. 12
                      /\ Turned(Turned(i)) \in 1 .. 16
BY DEF Turned

(* One block, whose last bytes are zero: its code fixes its first bytes.  The
   keys of a session are told by the nonces they were derived from. *)
LEMMA InputOfCode ==
  ASSUME NEW key \in States, NEW a \in Seq(Byte), NEW b \in Seq(Byte), Len(a) = 16, Len(b) = 16,
         \A i \in 13 .. 16 : a[i] = b[i],
         lora_aes128_cmac(key, a) = lora_aes128_cmac(key, b)
  PROVE  \A i \in 1 .. 4 : a[i] = b[i]
<1>1. ASSUME NEW m \in Seq(Byte), Len(m) = 16
      PROVE  /\ CmacState(key, m) \in States
             /\ \A i \in 1 .. 16 : m[i] \in Byte
             /\ \A i \in 1 .. 16 : CmacState(key, m)[i] =
                  Mixed(key, key, m, 0, i)
  <2>3. CmacState(key, m) \in States /\ CmacState(key, m) = CmacBlock(key, key, BlockOf(m, 0), 0)
    BY <1>1, OneBlock
  <2> DEFINE p == Padded(BlockOf(m, 0))
  <2>4. /\ BlockOf(m, 0) \in Seq(Byte) /\ Len(BlockOf(m, 0)) = 16
        /\ \A i \in 1 .. 16 : BlockOf(m, 0)[i] = m[i]
        /\ Len(BlockOf(m, 0)) <= 16
    <3>1. 0 \in Nat /\ 16 * 0 < Len(m) /\ 16 * 0 + 16 <= Len(m) /\ \A i \in 1 .. 16 : 16 * 0 + i = i
      BY <1>1
    <3>2. /\ BlockOf(m, 0) \in Seq(Byte) /\ Len(BlockOf(m, 0)) = 16 /\ Len(BlockOf(m, 0)) <= 16
          /\ \A i \in 1 .. 16 : BlockOf(m, 0)[i] = m[16 * 0 + i]
      BY <3>1, BlockIs
    <3> QED BY <3>1, <3>2
  <2>5. p \in States /\ \A i \in 1 .. 16 : p[i] = m[i]
    <3> DEFINE block == BlockOf(m, 0)
    <3>1. block \in Seq(Byte) /\ Len(block) = 16 /\ Len(block) <= 16 /\ \A i \in 1 .. 16 : block[i] = m[i]
      BY <2>4
    <3> HIDE DEF block
    <3>2. Padded(block) \in States /\ \A i \in 1 .. 16 : Padded(block)[i] = m[i]
      BY <3>1, PaddedIs
    <3> QED BY <3>2 DEF block
  <2>7. /\ CmacState(key, m) \in States
        /\ \A i \in 1 .. 16 : CmacState(key, m)[i] = Mixed(key, key, p, 0, i)
    <3> DEFINE block == BlockOf(m, 0)
    <3>1. p = Padded(block) /\ Padded(block) \in States
      BY <2>5
    <3> HIDE DEF block, p
    <3>2. \A i \in 1 .. 16 : CmacBlock(key, key, block, 0)[i] = Mixed(key, key, Padded(block), 0, i)
      BY <3>1, BlockMixed
    <3> QED BY <2>3, <3>1, <3>2 DEF block
  <2>8. \A i \in 1 .. 16 : Turned(i) \in 1 .. 16
    BY DEF Turned
  <2>9. \A i \in 1 .. 16 : m[i] \in Byte
    BY <1>1, ElementOfSeq
  <2> HIDE DEF p
  <2>10. \A i \in 1 .. 16 : Mixed(key, key, p, 0, i) = Mixed(key, key, m, 0, i)
    BY <2>5, <2>8, Zenon DEF Mixed
  <2> QED BY <2>7, <2>9, <2>10, Zenon
<1>2. ASSUME NEW i \in 1 .. 4 PROVE a[i] = b[i]
  <2>1. CmacState(key, a)[i] = CmacState(key, b)[i]
    <3>1. CmacState(key, a) \in States /\ CmacState(key, b) \in States
      BY <1>1, Zenon
    <3>2. \A m : CmacState(key, m) \in States => lora_aes128_cmac(key, m)[i] = CmacState(key, m)[i]
      BY MicBytes
    <3> QED BY <3>1, <3>2, Zenon
  <2> DEFINE k == key[i]
             y == XorByte(key[Turned(i)], a[Turned(i)])
             z == XorByte(key[i], 0)
  <2>2. i \in 1 .. 16 /\ Turned(i) \in 13 .. 16 /\ Turned(i) \in 1 .. 16
    BY TurnedIs
  <2>3. XorByte(XorByte(XorByte(k, a[i]), y), z) = XorByte(XorByte(XorByte(k, b[i]), y), z)
    <3>1. a[Turned(i)] = b[Turned(i)]
      BY <2>2
    <3>2. Mixed(key, key, a, 0, i) = Mixed(key, key, b, 0, i)
      <4>1. CmacState(key, a)[i] = Mixed(key, key, a, 0, i) /\ CmacState(key, b)[i] = Mixed(key, key, b, 0, i)
        BY <1>1, <2>2, Zenon
      <4> QED BY <2>1, <4>1, Zenon
    <3> QED BY <3>1, <3>2, Zenon DEF Mixed
  <2>4. 0 \in Byte /\ \A j \in 1 .. 16 : key[j] \in Byte
    BY DEF Byte, States
  <2>5. a[i] \in Byte /\ b[i] \in Byte /\ k \in Byte /\ y \in Byte /\ z \in Byte
    BY <1>1, <2>2, <2>4, XorIs
  <2> HIDE DEF k, y, z
  <2>6. /\ XorByte(k, a[i]) \in Byte /\ XorByte(k, b[i]) \in Byte
        /\ XorByte(XorByte(k, a[i]), y) \in Byte /\ XorByte(XorByte(k, b[i]), y) \in Byte
    BY <2>5, XorIs
  <2>7. XorByte(XorByte(k, a[i]), y) = XorByte(XorByte(k, b[i]), y)
    BY <2>3, <2>5, <2>6, XorOnce
  <2>8. XorByte(k, a[i]) = XorByte(k, b[i])
    BY <2>5, <2>6, <2>7, XorOnce
  <2> QED BY <2>5, <2>8, XorOnce
<1> QED BY <1>2

(* Two blocks: the code of a message fixes the first four bytes of the key. *)
LEMMA KeyOfCode ==
  ASSUME NEW key \in States, NEW other \in States, \A i \in 5 .. 16 : key[i] = other[i],
         NEW m \in Seq(Byte), 17 <= Len(m), Len(m) <= 32,
         lora_aes128_cmac(key, m) = lora_aes128_cmac(other, m)
  PROVE  key = other
<1> DEFINE p == Padded(BlockOf(m, 0))
           q == Padded(BlockOf(m, 1))
<1>0. Len(m) \in Nat
  BY LenProperties
<1>1. p \in States /\ q \in States
  <2>1. 0 \in Nat /\ 1 \in Nat /\ 16 * 0 < Len(m) /\ 16 * 1 < Len(m)
    BY <1>0
  <2>2. /\ BlockOf(m, 0) \in Seq(Byte) /\ Len(BlockOf(m, 0)) <= 16
        /\ BlockOf(m, 1) \in Seq(Byte) /\ Len(BlockOf(m, 1)) <= 16
    BY <2>1, BlockIs
  <2> QED BY <2>2, PaddedIs
<1>2. 0 \in Byte /\ 37 \in Byte /\ (37 * 0) % 256 = 0 /\ (37 * 1) % 256 = 37
  BY DEF Byte
<1>3. \A i \in 1 .. 16 : Turned(i) \in 1 .. 16 /\ p[i] \in Byte /\ q[i] \in Byte
  BY <1>1 DEF Turned, States
<1>4. ASSUME NEW k \in States
      PROVE  \E s, t \in States :
               /\ t = CmacState(k, m)
               /\ \A i \in 1 .. 16 : s[i] = Mixed(k, k, p, 0, i) /\ t[i] = Mixed(k, s, q, 37, i)
  <2>1. PICK s \in States : /\ s = CmacBlock(k, k, BlockOf(m, 0), 0)
                            /\ CmacState(k, m) \in States
                            /\ CmacState(k, m) = CmacBlock(k, s, BlockOf(m, 1), 1)
    BY TwoBlocks
  <2>2. \A i \in 1 .. 16 : s[i] = Mixed(k, k, p, 0, i)
    BY <1>1, <2>1, BlockMixed
  <2>3. \A i \in 1 .. 16 : CmacState(k, m)[i] = Mixed(k, s, q, 37, i)
    BY <1>1, <2>1, BlockMixed
  <2> HIDE DEF p, q
  <2> QED BY <2>1, <2>2, <2>3, Zenon
<1> HIDE DEF p, q
<1>5. PICK s, t \in States :
        /\ t = CmacState(key, m)
        /\ \A i \in 1 .. 16 : s[i] = Mixed(key, key, p, 0, i) /\ t[i] = Mixed(key, s, q, 37, i)
  BY <1>4, Zenon
<1>6. PICK u, v \in States :
        /\ v = CmacState(other, m)
        /\ \A i \in 1 .. 16 : u[i] = Mixed(other, other, p, 0, i) /\ v[i] = Mixed(other, u, q, 37, i)
  BY <1>4, Zenon
<1>7. /\ \A i \in 1 .. 16 : key[i] \in Byte /\ other[i] \in Byte /\ s[i] \in Byte /\ u[i] \in Byte
  BY DEF States
(* After one block the bytes that the code depends on do not know the key. *)
<1>8. ASSUME NEW i \in 1 .. 4 PROVE s[i] = u[i] /\ s[Turned(i)] = u[Turned(i)]
  <2>1. /\ i \in 1 .. 16 /\ Turned(i) \in 13 .. 16 /\ Turned(i) \in 1 .. 16
        /\ Turned(Turned(i)) \in 9 .. 12 /\ Turned(Turned(i)) \in 1 .. 16
    BY TurnedIs
  <2>2. key[Turned(i)] = other[Turned(i)] /\ key[Turned(Turned(i))] = other[Turned(Turned(i))]
    <3>1. Turned(i) \in 5 .. 16 /\ Turned(Turned(i)) \in 5 .. 16
      BY <2>1
    <3> QED BY <3>1
  <2>3. s[Turned(i)] = u[Turned(i)]
    BY <1>5, <1>6, <2>1, <2>2, Zenon DEF Mixed
  <2> DEFINE y == XorByte(key[Turned(i)], p[Turned(i)])
  <2>4. y \in Byte
    BY <1>3, <1>7, <2>1, XorIs
  <2>5. s[i] = XorByte(XorByte(XorByte(key[i], p[i]), y), XorByte(key[i], 0))
    BY <1>5, <2>1, Zenon DEF Mixed
  <2>6. u[i] = XorByte(XorByte(XorByte(other[i], p[i]), y), XorByte(other[i], 0))
    BY <1>6, <2>1, <2>2, Zenon DEF Mixed
  <2> HIDE DEF y
  <2>7. key[i] \in Byte /\ other[i] \in Byte /\ p[i] \in Byte
    BY <1>3, <1>7, <2>1, Zenon
  <2>8. /\ XorByte(XorByte(XorByte(key[i], p[i]), y), XorByte(key[i], 0)) = XorByte(XorByte(p[i], y), 0)
        /\ XorByte(XorByte(XorByte(other[i], p[i]), y), XorByte(other[i], 0)) = XorByte(XorByte(p[i], y), 0)
    <3> DEFINE m1 == p[i]
    <3>1. \A k \in Byte : XorByte(XorByte(XorByte(k, m1), y), XorByte(k, 0)) = XorByte(XorByte(m1, y), 0)
      BY <1>2, <2>4, <2>7, XorCancels
    <3> QED BY <2>7, <3>1, Zenon
  <2> QED BY <2>3, <2>5, <2>6, <2>8, Zenon
<1>9. ASSUME NEW i \in 1 .. 4 PROVE key[i] = other[i]
  <2>1. i \in 1 .. 16 /\ Turned(i) \in 1 .. 16
    BY TurnedIs
  <2> DEFINE w == XorByte(XorByte(s[i], q[i]), XorByte(s[Turned(i)], q[Turned(i)]))
  <2>2. w \in Byte
    <3>1. s[i] \in Byte /\ q[i] \in Byte /\ s[Turned(i)] \in Byte /\ q[Turned(i)] \in Byte
      BY <1>3, <1>7, <2>1, Zenon
    <3>2. XorByte(s[i], q[i]) \in Byte /\ XorByte(s[Turned(i)], q[Turned(i)]) \in Byte
      BY <3>1, XorIs
    <3> QED BY <3>2, XorIs
  <2>3. t[i] = v[i]
    BY <1>5, <1>6, MicBytes
  <2>4. t[i] = XorByte(w, XorByte(key[i], 37)) /\ v[i] = XorByte(w, XorByte(other[i], 37))
    BY <1>5, <1>6, <1>8, <2>1, Zenon DEF Mixed
  <2> HIDE DEF w
  <2>5. key[i] \in Byte /\ other[i] \in Byte
    BY <1>7, <2>1, Zenon
  <2>6. XorByte(key[i], 37) \in Byte /\ XorByte(other[i], 37) \in Byte
    BY <1>2, <2>5, XorIs
  <2>7. XorByte(key[i], 37) = XorByte(other[i], 37)
    BY <2>2, <2>3, <2>4, <2>6, XorOnce
  <2> QED BY <1>2, <2>5, <2>7, XorOnce
<1>10. \A i \in 1 .. 16 : key[i] = other[i]
  <2>1. \A i \in 1 .. 16 : i \in 1 .. 4 \/ i \in 5 .. 16
    OBVIOUS
  <2> QED BY <1>9, <2>1, Zenon
<1> QED BY <1>10, StatesEqual

-----------------------------------------------------------------------------
(* Sessions, and what is sent in them.  A session is told by the nonce of its
   accept and by the frames it has counted. *)
SessionOf(n, c) == [Joined(Accept(n), 0) EXCEPT !.f_cnt_up = c]
AcceptOf(n) == [kind |-> "accept", data |-> Accept(n), in |-> n]
Unsigned(session, confirmed, len) ==
  lora_build_data_frame(session, 1, PayloadOf(session.f_cnt_up, len), confirmed)
MicOf(session, confirmed, len) == lora_calculate_mic(session, FullFrame(Unsigned(session, confirmed, len)), 0)
Signed(session, confirmed, len) ==
  SubSeq(Unsigned(session, confirmed, len), 1, Len(Unsigned(session, confirmed, len)) - 4)
    \o MicOf(session, confirmed, len)
UplinkOf(session, confirmed, len) ==
  [kind |-> "uplink", data |-> Signed(session, confirmed, len), in |-> session]

(* The parts of a session that its counter leaves alone. *)
LEMMA SessionParts ==
  ASSUME NEW n, NEW c
  PROVE  /\ SessionOf(n, c).f_cnt_up = c
         /\ SessionOf(n, c).nwk_s_key = SessionOf(n, 0).nwk_s_key
         /\ SessionOf(n, c).app_s_key = SessionOf(n, 0).app_s_key
         /\ SessionOf(n, c).dev_addr = SubSeq(Accept(n), 5, 8)
         /\ SessionOf(n, 0) = Joined(Accept(n), 0)
         /\ \A d : [SessionOf(n, c) EXCEPT !.f_cnt_up = d] = SessionOf(n, d)
<1> DEFINE base == Joined(Accept(n), 0)
           addr == SubSeq(Accept(n), 5, 8)
           nwk == base.nwk_s_key
           app == base.app_s_key
           adr == TRUE
           Form(x) == [dev_addr |-> addr, nwk_s_key |-> nwk, app_s_key |-> app, f_cnt_up |-> x,
                       f_cnt_down |-> 0, adr_enabled |-> adr, rx1_delay |-> 1]
<1>1. base = Form(0)
  BY DEF Joined
<1> HIDE DEF base, addr, nwk, app, adr
<1>2. \A x : [base EXCEPT !.f_cnt_up = x] = Form(x)
  BY <1>1
<1>3. \A x : SessionOf(n, x) = Form(x)
  BY <1>2, Zenon DEF SessionOf, base
<1>4. \A d : [Form(c) EXCEPT !.f_cnt_up = d] = Form(d)
  OBVIOUS
<1>5. /\ Form(c).f_cnt_up = c /\ Form(c).dev_addr = addr
      /\ Form(c).nwk_s_key = nwk /\ Form(0).nwk_s_key = nwk
      /\ Form(c).app_s_key = app /\ Form(0).app_s_key = app
  OBVIOUS
<1> HIDE DEF Form
<1> QED BY <1>1, <1>3, <1>4, <1>5, Zenon DEF base, addr, nwk, app, adr

LEMMA SessionCounted ==
  ASSUME NEW n, NEW c
  PROVE  \A d : [SessionOf(n, c) EXCEPT !.f_cnt_up = d] = SessionOf(n, d)
BY SessionParts, Zenon


LEMMA SessionAdr ==
  ASSUME NEW n, NEW c
  PROVE  SessionOf(n, c).adr_enabled = TRUE
<1> DEFINE base == Joined(Accept(n), 0)
<1>1. base.adr_enabled = TRUE /\ [base EXCEPT !.f_cnt_up = c].adr_enabled = base.adr_enabled
  BY Zenon DEF Joined
<1> QED BY <1>1 DEF SessionOf

(* Bytes one after the other. *)
Glued(g, s, t) ==
  /\ g \in Seq(Byte)
  /\ Len(g) = Len(s) + Len(t)
  /\ \A i \in 1 .. Len(s) : g[i] = s[i]
  /\ \A i \in 1 .. Len(t) : g[Len(s) + i] = t[i]

LEMMA Joint ==
  ASSUME NEW s \in Seq(Byte), NEW t \in Seq(Byte)
  PROVE  Glued(s \o t, s, t)
<1>1. s \o t \in Seq(Byte)
  BY Concat, Zenon
<1>2. Len(s \o t) = Len(s) + Len(t)
  BY Concat, Zenon
<1>3. \A i \in 1 .. Len(s) : (s \o t)[i] = s[i]
  BY Concat, Zenon
<1>4. \A i \in 1 .. Len(t) : (s \o t)[Len(s) + i] = t[i]
  BY Concat
<1> QED BY <1>1, <1>2, <1>3, <1>4, Zenon DEF Glued

LEMMA ByteSeq == ASSUME NEW x \in Byte PROVE <<x>> \in Seq(Byte) /\ Len(<<x>>) = 1 /\ <<x>>[1] = x
OBVIOUS

(* Constants are bytes, too. *)
LEMMA SomeBytes == /\ 0 \in Byte /\ 1 \in Byte /\ 32 \in Byte /\ 64 \in Byte /\ 73 \in Byte /\ 128 \in Byte
                   /\ \A x \in Nat : x % 256 \in Byte
BY DEF Byte

LEMMA LittleBytes == ASSUME NEW x \in Nat, NEW n \in {2, 4}
                     PROVE  LittleEndian(x, n) \in Seq(Byte) /\ Len(LittleEndian(x, n)) = n
<1>1. \A i \in 1 .. n : PowersOf256[i] \in Nat \ {0}
  BY DEF PowersOf256
<1>2. \A i \in 1 .. n : (IF i > 4 THEN 0 ELSE (x \div PowersOf256[i]) % 256) \in Byte
  <2> SUFFICES ASSUME NEW i \in 1 .. n PROVE (IF i > 4 THEN 0 ELSE (x \div PowersOf256[i]) % 256) \in Byte
    OBVIOUS
  <2>1. PICK d \in Nat \ {0} : d = PowersOf256[i]
    BY <1>1
  <2>2. x \div d \in Nat
    OBVIOUS
  <2> QED BY <2>1, <2>2, SomeBytes
<1>3. LittleEndian(x, n) \in [1 .. n -> Byte]
  BY <1>2 DEF LittleEndian
<1>4. n \in Nat
  OBVIOUS
<1> QED BY <1>3, <1>4, BytesSeq

LEMMA NonceSeq == ASSUME NEW n \in LsNonces PROVE n \in [1 .. 3 -> Byte] /\ n \in Seq(Byte) /\ Len(n) = 3
<1>1. n \in [1 .. 3 -> Byte]
  BY LsAssumption
<1>2. 3 \in Nat
  OBVIOUS
<1> QED BY <1>1, <1>2, BytesSeq

LEMMA AddrSeq == LsAddr \in Seq(Byte) /\ Len(LsAddr) = 4
<1>1. LsAddr \in [1 .. 4 -> Byte] /\ 4 \in Nat
  BY LsAssumption
<1> QED BY <1>1, BytesSeq

(* Some bytes of a sequence, as a sequence. *)
LEMMA PartSame ==
  ASSUME NEW s \in Seq(Byte), NEW t \in Seq(Byte), NEW a \in Nat \ {0}, NEW b \in Nat, b <= Len(s), a + Len(t) = b + 1,
         \A i \in 1 .. Len(t) : s[a + i - 1] = t[i]
  PROVE  SubSeq(s, a, b) = t
<1>1. Len(t) \in Nat /\ a <= b + 1 /\ b - a + 1 = Len(t)
  BY LenProperties
<1>2. /\ SubSeq(s, a, b) \in Seq(Byte) /\ Len(SubSeq(s, a, b)) = b - a + 1
      /\ \A i \in 1 .. b - a + 1 : SubSeq(s, a, b)[i] = s[a + i - 1]
  BY <1>1, PartIs
<1> QED BY <1>1, <1>2, SeqEqual

(* What an accept carries. *)
LEMMA AcceptParts ==
  ASSUME NEW n \in LsNonces
  PROVE  SubSeq(Accept(n), 2, 4) = n /\ SubSeq(Accept(n), 5, 8) = LsAddr
<1> DEFINE kind == <<32>>
           start == kind \o n
           named == start \o LsAddr
           rest == Zeros(9)
           whole == named \o rest
<1>1. n \in Seq(Byte) /\ Len(n) = 3 /\ LsAddr \in Seq(Byte) /\ Len(LsAddr) = 4
  BY NonceSeq, AddrSeq
<1>2. rest \in Seq(Byte) /\ Len(rest) = 9
  BY ZerosSeq
<1>3. kind \in Seq(Byte) /\ Len(kind) = 1
  BY SomeBytes, ByteSeq
<1> HIDE DEF kind, rest
<1>4. /\ start \in Seq(Byte) /\ Len(start) = 4 /\ \A i \in 1 .. 3 : start[1 + i] = n[i]
  <2>1. Glued(start, kind, n)
    BY <1>1, <1>3, Joint, Zenon
  <2> HIDE DEF start
  <2> QED BY <1>1, <1>3, <2>1 DEF Glued
<1> HIDE DEF start
<1>5. /\ named \in Seq(Byte) /\ Len(named) = 8
      /\ \A i \in 1 .. 4 : named[i] = start[i] /\ named[4 + i] = LsAddr[i]
  <2>1. Glued(named, start, LsAddr)
    BY <1>1, <1>4, Joint, Zenon
  <2> HIDE DEF named
  <2> QED BY <1>1, <1>4, <2>1 DEF Glued
<1> HIDE DEF named
<1>6. whole \in Seq(Byte) /\ Len(whole) = 17 /\ \A i \in 1 .. 8 : whole[i] = named[i]
  <2>1. Glued(whole, named, rest)
    BY <1>2, <1>5, Joint, Zenon
  <2> HIDE DEF whole
  <2> QED BY <1>2, <1>5, <2>1 DEF Glued
<1> HIDE DEF whole
<1>7. \A i \in 1 .. 3 : whole[2 + i - 1] = n[i]
  <2>1. \A i \in 1 .. 3 : 2 + i - 1 = 1 + i /\ 1 + i \in 1 .. 4 /\ 1 + i \in 1 .. 8
    OBVIOUS
  <2> QED BY <1>4, <1>5, <1>6, <2>1
<1>8. \A i \in 1 .. 4 : whole[5 + i - 1] = LsAddr[i]
  <2>1. \A i \in 1 .. 4 : 5 + i - 1 = 4 + i /\ 4 + i \in 1 .. 8
    OBVIOUS
  <2> QED BY <1>5, <1>6, <2>1
<1>9. SubSeq(whole, 2, 4) = n /\ SubSeq(whole, 5, 8) = LsAddr
  BY <1>1, <1>6, <1>7, <1>8, PartSame
<1>10. Accept(n) = whole
  BY Zenon DEF Accept, whole, named, start, kind, rest
<1> QED BY <1>9, <1>10, Zenon

(* What the network's key of a session is derived from. *)
DerivedFrom(n) == <<1>> \o n \o n \o LittleEndian(0, 2) \o Zeros(7)

LEMMA DerivedFromIs ==
  ASSUME NEW n \in LsNonces
  PROVE  /\ DerivedFrom(n) \in Seq(Byte) /\ Len(DerivedFrom(n)) = 16
         /\ \A i \in 1 .. 3 : DerivedFrom(n)[1 + i] = n[i]
         /\ \A i \in 13 .. 16 : DerivedFrom(n)[i] = 0
<1> DEFINE kind == <<1>>
           a == kind \o n
           b == a \o n
           le == LittleEndian(0, 2)
           c == b \o le
           rest == Zeros(7)
           d == c \o rest
<1>1. n \in Seq(Byte) /\ Len(n) = 3
  BY NonceSeq
<1>2. rest \in Seq(Byte) /\ Len(rest) = 7 /\ \A i \in 1 .. 7 : rest[i] = 0
  BY ZerosSeq
<1>3. kind \in Seq(Byte) /\ Len(kind) = 1
  BY SomeBytes, ByteSeq
<1>4. le \in Seq(Byte) /\ Len(le) = 2
  <2>1. 0 \in Nat /\ 2 \in {2, 4}
    OBVIOUS
  <2> QED BY <2>1, LittleBytes, Zenon
<1> HIDE DEF kind, rest, le
<1>5. a \in Seq(Byte) /\ Len(a) = 4 /\ \A i \in 1 .. 3 : a[1 + i] = n[i]
  <2>1. Glued(a, kind, n)
    BY <1>1, <1>3, Joint, Zenon
  <2> HIDE DEF a
  <2> QED BY <1>1, <1>3, <2>1 DEF Glued
<1> HIDE DEF a
<1>6. b \in Seq(Byte) /\ Len(b) = 7 /\ \A i \in 1 .. 4 : b[i] = a[i]
  <2>1. Glued(b, a, n)
    BY <1>1, <1>5, Joint, Zenon
  <2> HIDE DEF b
  <2> QED BY <1>1, <1>5, <2>1 DEF Glued
<1> HIDE DEF b
<1>7. c \in Seq(Byte) /\ Len(c) = 9 /\ \A i \in 1 .. 7 : c[i] = b[i]
  <2>1. Glued(c, b, le)
    BY <1>4, <1>6, Joint, Zenon
  <2> HIDE DEF c
  <2> QED BY <1>4, <1>6, <2>1 DEF Glued
<1> HIDE DEF c
<1>8. /\ d \in Seq(Byte) /\ Len(d) = 16 /\ \A i \in 1 .. 9 : d[i] = c[i]
      /\ \A i \in 1 .. 7 : d[9 + i] = rest[i]
  <2>1. Glued(d, c, rest)
    BY <1>2, <1>7, Joint, Zenon
  <2> HIDE DEF d
  <2> QED BY <1>2, <1>7, <2>1 DEF Glued
<1> HIDE DEF d
<1>9. \A i \in 1 .. 3 : d[1 + i] = n[i]
  <2>1. \A i \in 1 .. 3 : 1 + i \in 1 .. 4 /\ 1 + i \in 1 .. 7 /\ 1 + i \in 1 .. 9
    OBVIOUS
  <2> QED BY <1>5, <1>6, <1>7, <1>8, <2>1
<1>10. \A i \in 13 .. 16 : d[i] = 0
  <2>1. \A i \in 13 .. 16 : i - 9 \in 1 .. 7 /\ 9 + (i - 9) = i
    OBVIOUS
  <2> QED BY <1>2, <1>8, <2>1
<1>11. DerivedFrom(n) = d
  BY Zenon DEF DerivedFrom, d, c, b, a, kind, le, rest
<1> QED BY <1>8, <1>9, <1>10, <1>11, Zenon

(* The key of a session: four bytes of a code, and zeros. *)
LEMMA SessionKey ==
  ASSUME NEW n \in LsNonces
  PROVE  /\ SessionOf(n, 0).nwk_s_key \in States
         /\ \A i \in 5 .. 16 : SessionOf(n, 0).nwk_s_key[i] = 0
         /\ lora_aes128_cmac(LsAppKey, DerivedFrom(n)) \in [1 .. 4 -> Byte]
         /\ \A i \in 1 .. 4 : SessionOf(n, 0).nwk_s_key[i] = lora_aes128_cmac(LsAppKey, DerivedFrom(n))[i]
<1> DEFINE from == DerivedFrom(n)
           mic == lora_aes128_cmac(LsAppKey, from)
           rest == Zeros(12)
           key == mic \o rest
<1>1. LsAppKey \in States
  BY LsAssumption DEF States
<1>2. from \in Seq(Byte) /\ Len(from) = 16
  BY DerivedFromIs
<1> HIDE DEF from
<1>3. CmacState(LsAppKey, from) \in States
  BY <1>1, <1>2, OneBlock
<1>4. mic \in [1 .. 4 -> Byte]
  BY <1>3, MicBytes
<1> HIDE DEF mic
<1>5. mic \in Seq(Byte) /\ Len(mic) = 4
  <2>1. 4 \in Nat
    OBVIOUS
  <2> QED BY <1>4, <2>1, BytesSeq
<1>6. rest \in Seq(Byte) /\ Len(rest) = 12 /\ \A i \in 1 .. 12 : rest[i] = 0
  BY ZerosSeq
<1> HIDE DEF rest
<1>7. /\ key \in Seq(Byte) /\ Len(key) = 16
      /\ \A i \in 1 .. 4 : key[i] = mic[i]
      /\ \A i \in 1 .. 12 : key[4 + i] = rest[i]
  <2>1. Glued(key, mic, rest)
    BY <1>5, <1>6, Joint, Zenon
  <2> HIDE DEF key
  <2> QED BY <1>5, <1>6, <2>1 DEF Glued
<1> HIDE DEF key
<1>8. key \in States
  BY <1>7, LenProperties DEF States
<1>9. \A i \in 5 .. 16 : key[i] = 0
  <2>1. \A i \in 5 .. 16 : i - 4 \in 1 .. 12 /\ 4 + (i - 4) = i
    OBVIOUS
  <2> QED BY <1>6, <1>7, <2>1
<1>10. SessionOf(n, 0).nwk_s_key = key
  <2>1. SessionOf(n, 0) = Joined(Accept(n), 0)
    BY SessionParts, Zenon
  <2>2. SubSeq(Accept(n), 2, 4) = n
    BY AcceptParts
  <2>3. Joined(Accept(n), 0).nwk_s_key = lora_derive_session_keys(LsAppKey, n, n, 0).nwk
    <3> DEFINE k == lora_derive_session_keys(LsAppKey, n, n, 0)
    <3> HIDE DEF k
    <3>1. Joined(Accept(n), 0) = [dev_addr |-> SubSeq(Accept(n), 5, 8), nwk_s_key |-> k.nwk, app_s_key |-> k.app,
                                  f_cnt_up |-> 0, f_cnt_down |-> 0, adr_enabled |-> TRUE, rx1_delay |-> 1]
      BY <2>2, Zenon DEF Joined, k
    <3>2. Joined(Accept(n), 0).nwk_s_key = k.nwk
      BY <3>1
    <3> QED BY <3>2, Zenon DEF k
  <2>4. lora_derive_session_keys(LsAppKey, n, n, 0).nwk = key
    <3> DEFINE other == lora_aes128_cmac(LsAppKey, <<2>> \o n \o n \o LittleEndian(0, 2) \o Zeros(7)) \o Zeros(12)
    <3> HIDE DEF other
    <3>1. lora_derive_session_keys(LsAppKey, n, n, 0) = [nwk |-> key, app |-> other]
      BY Zenon DEF lora_derive_session_keys, key, mic, rest, other, from, DerivedFrom
    <3> QED BY <3>1
  <2> QED BY <2>1, <2>3, <2>4, Zenon
<1> QED BY <1>4, <1>7, <1>8, <1>9, <1>10, Zenon DEF mic, from

(* Every nonce has its own key. *)
LEMMA KeysApart ==
  ASSUME NEW n \in LsNonces, NEW k \in LsNonces, SessionOf(n, 0).nwk_s_key = SessionOf(k, 0).nwk_s_key
  PROVE  n = k
<1> DEFINE a == DerivedFrom(n)
           b == DerivedFrom(k)
           x == lora_aes128_cmac(LsAppKey, a)
           y == lora_aes128_cmac(LsAppKey, b)
<1>1. x \in [1 .. 4 -> Byte] /\ y \in [1 .. 4 -> Byte] /\ \A i \in 1 .. 4 : x[i] = y[i]
  BY SessionKey
<1>2. /\ a \in Seq(Byte) /\ Len(a) = 16 /\ b \in Seq(Byte) /\ Len(b) = 16
      /\ \A i \in 13 .. 16 : a[i] = b[i]
      /\ \A i \in 1 .. 3 : a[1 + i] = n[i] /\ b[1 + i] = k[i]
  BY DerivedFromIs
<1>3. x = y
  <2> HIDE DEF x, y
  <2> QED BY <1>1
<1>4. LsAppKey \in States
  BY LsAssumption DEF States
<1> HIDE DEF a, b
<1>5. \A i \in 1 .. 4 : a[i] = b[i]
  <2>1. lora_aes128_cmac(LsAppKey, a) = lora_aes128_cmac(LsAppKey, b)
    BY <1>3
  <2> QED BY <1>2, <1>4, <2>1, InputOfCode
<1>6. \A i \in 1 .. 3 : n[i] = k[i]
  <2>1. \A i \in 1 .. 3 : 1 + i \in 1 .. 4
    OBVIOUS
  <2> QED BY <1>2, <1>5, <2>1
<1>7. n \in [1 .. 3 -> Byte] /\ k \in [1 .. 3 -> Byte]
  BY NonceSeq
<1> QED BY <1>6, <1>7


(* Nothing of a sequence. *)
LEMMA NoPart == ASSUME NEW d PROVE SubSeq(d, 9, 8) = <<>>
OBVIOUS

LEMMA ConcatLen ==
  ASSUME NEW s \in Seq(Nat), NEW t \in Seq(Nat)
  PROVE  s \o t \in Seq(Nat) /\ Len(s \o t) = Len(s) + Len(t)
BY Concat, Zenon

LEMMA ConcatAt ==
  ASSUME NEW S, NEW s \in Seq(S), NEW t \in Seq(S), NEW i \in 1 .. Len(s)
  PROVE  (s \o t)[i] = s[i]
BY Concat, Zenon

LEMMA ConcatAfter ==
  ASSUME NEW S, NEW s \in Seq(S), NEW t \in Seq(S), NEW i \in 1 .. Len(t)
  PROVE  (s \o t)[Len(s) + i] = t[i]
<1>1. \A j \in 1 .. Len(t) : (s \o t)[Len(s) + j] = t[j]
  BY Concat
<1> QED BY <1>1, Zenon

(* A counter of two bytes is put together again. *)
LEMMA TwoBytes ==
  ASSUME NEW c \in Nat, c < FrameCounts
  PROVE  /\ LittleEndian(c, 2) \in Seq(Nat) /\ Len(LittleEndian(c, 2)) = 2
         /\ LittleEndian(c, 2)[1] + 256 * LittleEndian(c, 2)[2] = c
<1> DEFINE le == LittleEndian(c, 2)
           low == c % 256
           high == (c \div 256) % 256
<1>1. PowersOf256[1] = 1 /\ PowersOf256[2] = 256
  BY SMT DEF PowersOf256
<1>2. c \div 1 = c
  BY SMT
<1>3. low \in Nat /\ high \in Nat /\ low + 256 * high = c
  <2>1. \A x \in Nat : x < 65536 => (x \div 256) % 256 = x \div 256
    BY SMT
  <2>2. \A x \in Nat : x % 256 \in Nat /\ x \div 256 \in Nat /\ x = 256 * (x \div 256) + (x % 256)
    BY SMT
  <2> QED BY <2>1, <2>2, SMT DEF FrameCounts
<1> HIDE DEF low, high
<1>4. le = [i \in 1 .. 2 |-> IF i = 1 THEN low ELSE high]
  BY <1>1, <1>2, SMT DEF LittleEndian, low, high
<1> HIDE DEF le
<1>5. le \in [1 .. 2 -> Nat] /\ le[1] = low /\ le[2] = high
  BY <1>3, <1>4, SMT
<1>6. le \in Seq(Nat) /\ Len(le) = 2
  <2>1. 2 \in Nat
    OBVIOUS
  <2> QED BY <1>5, <2>1, ArraySeq, Zenon
<1> QED BY <1>3, <1>5, <1>6, Zenon DEF le

(* A session has the counter it is named for and the address of the device. *)
LEMMA SessionTold ==
  ASSUME NEW n \in LsNonces, NEW c
  PROVE  SessionOf(n, c).f_cnt_up = c /\ SessionOf(n, c).dev_addr = LsAddr
<1>1. SessionOf(n, c).f_cnt_up = c /\ SessionOf(n, c).dev_addr = SubSeq(Accept(n), 5, 8)
  BY SessionParts, Zenon
<1>2. SubSeq(Accept(n), 5, 8) = LsAddr
  BY AcceptParts
<1> QED BY <1>1, <1>2, Zenon

(* The bytes of a frame without options: its length and its counter.  Where it
   ends in its code, and where it is another frame. *)
Framed(d, len, c) == d \in Seq(Byte) /\ Len(d) = 13 + len /\ d[6] = 128 /\ d[7] + 256 * d[8] = c
Alike(d, e, len) == \A i \in 1 .. 9 + len : d[i] = e[i]

(* A frame, before its code is written. *)
LEMMA UnsignedIs ==
  ASSUME NEW n \in LsNonces, NEW c \in Nat, c < FrameCounts, NEW confirmed \in BOOLEAN, NEW len \in 0 .. 247
  PROVE  Framed(Unsigned(SessionOf(n, c), confirmed, len), len, c)
<1> DEFINE type == 32 * IF confirmed THEN 4 ELSE 2
           kind == <<type>>
           ctrl == <<128>>
           le == LittleEndian(c, 2)
           port == <<1>>
           payload == PayloadOf(c, len)
           rest == Zeros(4)
           s1 == kind \o LsAddr
           s2 == s1 \o ctrl
           s3 == s2 \o le
           s4 == s3 \o port
           s5 == s4 \o payload
           s6 == s5 \o rest
<1>1. kind \in Seq(Byte) /\ Len(kind) = 1
  <2>1. type \in Byte
    BY DEF Byte
  <2> HIDE DEF type
  <2> QED BY <2>1, ByteSeq
<1>2. ctrl \in Seq(Byte) /\ Len(ctrl) = 1 /\ ctrl[1] = 128
  BY SomeBytes, ByteSeq
<1>3. port \in Seq(Byte) /\ Len(port) = 1
  BY SomeBytes, ByteSeq
<1>4. le \in Seq(Byte) /\ Len(le) = 2 /\ le[1] + 256 * le[2] = c
  <2>1. 2 \in {2, 4}
    OBVIOUS
  <2>2. le \in Seq(Byte) /\ Len(le) = 2
    BY <2>1, LittleBytes, Zenon
  <2>3. le[1] + 256 * le[2] = c
    BY TwoBytes, Zenon
  <2> QED BY <2>2, <2>3, Zenon
<1>5. payload \in Seq(Byte) /\ Len(payload) = len
  <2>1. payload \in [1 .. len -> Byte] /\ len \in Nat
    BY SomeBytes DEF PayloadOf
  <2> QED BY <2>1, BytesSeq
<1>6. rest \in Seq(Byte) /\ Len(rest) = 4
  BY ZerosSeq
<1>7. LsAddr \in Seq(Byte) /\ Len(LsAddr) = 4
  BY AddrSeq
<1>8. Unsigned(SessionOf(n, c), confirmed, len) = s6
  <2> DEFINE session == SessionOf(n, c)
  <2>1. session.f_cnt_up = c /\ session.dev_addr = LsAddr
    BY SessionTold, Zenon
  <2>2. session.adr_enabled = TRUE
    BY SessionAdr, Zenon
  <2>3. c % FrameCounts = c
    BY SMT DEF FrameCounts
  <2>4. <<IF session.adr_enabled THEN 128 ELSE 0>> = ctrl
    BY <2>2, Zenon
  <2> HIDE DEF session
  <2>5. Unsigned(session, confirmed, len) = lora_build_data_frame(session, 1, PayloadOf(session.f_cnt_up, len), confirmed)
    BY Zenon DEF Unsigned
  <2>6. lora_build_data_frame(session, 1, payload, confirmed) = s6
    BY <2>1, <2>3, <2>4, Zenon DEF lora_build_data_frame
  <2>7. Unsigned(session, confirmed, len) = s6
    BY <2>1, <2>5, <2>6, Zenon
  <2> QED BY <2>7, Zenon DEF session
<1> HIDE DEF kind, ctrl, le, port, payload, rest
<1>9. s1 \in Seq(Byte) /\ Len(s1) = 5
  <2>1. Glued(s1, kind, LsAddr)
    BY <1>1, <1>7, Joint, Zenon
  <2> HIDE DEF s1
  <2> QED BY <1>1, <1>7, <2>1 DEF Glued
<1> HIDE DEF s1
<1>10. s2 \in Seq(Byte) /\ Len(s2) = 6 /\ s2[6] = 128
  <2>1. Glued(s2, s1, ctrl)
    BY <1>2, <1>9, Joint, Zenon
  <2> HIDE DEF s2
  <2> QED BY <1>2, <1>9, <2>1 DEF Glued
<1> HIDE DEF s2
<1>11. s3 \in Seq(Byte) /\ Len(s3) = 8 /\ s3[6] = 128 /\ s3[7] = le[1] /\ s3[8] = le[2]
  <2>1. Glued(s3, s2, le)
    BY <1>4, <1>10, Joint, Zenon
  <2> HIDE DEF s3
  <2> QED BY <1>4, <1>10, <2>1 DEF Glued
<1> HIDE DEF s3
<1>12. s4 \in Seq(Byte) /\ Len(s4) = 9 /\ \A i \in 6 .. 8 : s4[i] = s3[i]
  <2>1. Glued(s4, s3, port)
    BY <1>3, <1>11, Joint, Zenon
  <2> HIDE DEF s4
  <2> QED BY <1>3, <1>11, <2>1 DEF Glued
<1> HIDE DEF s4
<1>13. s5 \in Seq(Byte) /\ Len(s5) = 9 + len /\ \A i \in 6 .. 8 : s5[i] = s4[i]
  <2>1. Glued(s5, s4, payload)
    BY <1>5, <1>12, Joint, Zenon
  <2> HIDE DEF s5
  <2> QED BY <1>5, <1>12, <2>1 DEF Glued
<1> HIDE DEF s5
<1>14. s6 \in Seq(Byte) /\ Len(s6) = 13 + len /\ \A i \in 6 .. 8 : s6[i] = s5[i]
  <2>1. Glued(s6, s5, rest)
    BY <1>6, <1>13, Joint, Zenon
  <2> HIDE DEF s6
  <2> QED BY <1>6, <1>13, <2>1 DEF Glued
<1> HIDE DEF s6
<1>15. s6[6] = 128 /\ s6[7] + 256 * s6[8] = c
  <2>1. 6 \in 6 .. 8 /\ 7 \in 6 .. 8 /\ 8 \in 6 .. 8
    OBVIOUS
  <2>2. s6[6] = 128 /\ s6[7] = le[1] /\ s6[8] = le[2]
    BY <1>11, <1>12, <1>13, <1>14, <2>1
  <2> QED BY <1>4, <2>2, Zenon
<1>16. Framed(s6, len, c)
  BY <1>14, <1>15 DEF Framed
<1> QED BY <1>8, <1>16, Zenon

(* What the code of a frame without options is taken of, in bytes. *)
MessageOf(d) == <<d[1]>> \o SubSeq(d, 2, 5) \o <<d[6]>> \o LittleEndian(d[7] + 256 * d[8], 2)
                  \o <<>> \o <<d[9]>> \o SubSeq(d, 10, Len(d) - 4)
HeadOf(c, msg) == <<73, 0, 0, 0, 0, 0>> \o LsAddr \o LittleEndian(c, 4) \o <<0, Len(msg) % 256>>
CodedOf(c, d) == HeadOf(c, MessageOf(d)) \o MessageOf(d)
Ends(d, key, c) == SubSeq(d, Len(d) - 3, Len(d)) = lora_aes128_cmac(key, CodedOf(c, d))

LEMMA MessageIs ==
  ASSUME NEW d \in Seq(Byte), NEW len \in 0 .. 247, Len(d) = 13 + len
  PROVE  MessageOf(d) \in Seq(Byte) /\ Len(MessageOf(d)) = 9 + len
<1> DEFINE kind == <<d[1]>>
           addr == SubSeq(d, 2, 5)
           ctrl == <<d[6]>>
           counter == d[7] + 256 * d[8]
           le == LittleEndian(counter, 2)
           opts == <<>>
           port == <<d[9]>>
           payload == SubSeq(d, 10, Len(d) - 4)
           s1 == kind \o addr
           s2 == s1 \o ctrl
           s3 == s2 \o le
           s4 == s3 \o opts
           s5 == s4 \o port
           s6 == s5 \o payload
<1>1. \A i \in 1 .. 9 : d[i] \in Byte
  <2>1. \A i \in 1 .. 9 : i \in 1 .. Len(d)
    OBVIOUS
  <2> QED BY <2>1, ElementOfSeq
<1>2. kind \in Seq(Byte) /\ Len(kind) = 1 /\ ctrl \in Seq(Byte) /\ Len(ctrl) = 1 /\ port \in Seq(Byte) /\ Len(port) = 1
  BY <1>1, ByteSeq
<1>3. addr \in Seq(Byte) /\ Len(addr) = 4
  <2>1. 2 \in Nat \ {0} /\ 5 \in Nat /\ 5 <= Len(d) /\ 2 <= 5 + 1 /\ 5 - 2 + 1 = 4
    OBVIOUS
  <2>2. addr \in Seq(Byte) /\ Len(addr) = 5 - 2 + 1
    BY <2>1, PartIs
  <2> QED BY <2>1, <2>2
<1>4. le \in Seq(Byte) /\ Len(le) = 2
  <2>1. counter \in Nat /\ 2 \in {2, 4}
    <3>1. 7 \in 1 .. 9 /\ 8 \in 1 .. 9
      OBVIOUS
    <3>2. d[7] \in Byte /\ d[8] \in Byte
      BY <1>1, <3>1, Zenon
    <3>3. \A x, y \in Byte : x + 256 * y \in Nat
      BY DEF Byte
    <3> QED BY <3>2, <3>3, Zenon
  <2> HIDE DEF counter
  <2> QED BY <2>1, LittleBytes, Zenon
<1>5. opts \in Seq(Byte) /\ Len(opts) = 0
  OBVIOUS
<1>6. payload \in Seq(Byte) /\ Len(payload) = len
  <2> DEFINE b == Len(d) - 4
  <2>1. 10 \in Nat \ {0} /\ b \in Nat /\ b <= Len(d) /\ 10 <= b + 1 /\ b - 10 + 1 = len
    OBVIOUS
  <2> HIDE DEF b
  <2>2. SubSeq(d, 10, b) \in Seq(Byte) /\ Len(SubSeq(d, 10, b)) = b - 10 + 1
    BY <2>1, PartIs
  <2> QED BY <2>1, <2>2 DEF b
<1>7. MessageOf(d) = s6
  BY Zenon DEF MessageOf
<1> HIDE DEF kind, addr, ctrl, le, opts, port, payload
<1>8. s1 \in Seq(Byte) /\ Len(s1) = 5
  <2>1. Glued(s1, kind, addr)
    BY <1>2, <1>3, Joint, Zenon
  <2> HIDE DEF s1
  <2> QED BY <1>2, <1>3, <2>1 DEF Glued
<1> HIDE DEF s1
<1>9. s2 \in Seq(Byte) /\ Len(s2) = 6
  <2>1. Glued(s2, s1, ctrl)
    BY <1>2, <1>8, Joint, Zenon
  <2> HIDE DEF s2
  <2> QED BY <1>2, <1>8, <2>1 DEF Glued
<1> HIDE DEF s2
<1>10. s3 \in Seq(Byte) /\ Len(s3) = 8
  <2>1. Glued(s3, s2, le)
    BY <1>4, <1>9, Joint, Zenon
  <2> HIDE DEF s3
  <2> QED BY <1>4, <1>9, <2>1 DEF Glued
<1> HIDE DEF s3
<1>11. s4 \in Seq(Byte) /\ Len(s4) = 8
  <2>1. Glued(s4, s3, opts)
    BY <1>5, <1>10, Joint, Zenon
  <2> HIDE DEF s4
  <2> QED BY <1>5, <1>10, <2>1 DEF Glued
<1> HIDE DEF s4
<1>12. s5 \in Seq(Byte) /\ Len(s5) = 9
  <2>1. Glued(s5, s4, port)
    BY <1>2, <1>11, Joint, Zenon
  <2> HIDE DEF s5
  <2> QED BY <1>2, <1>11, <2>1 DEF Glued
<1> HIDE DEF s5
<1>13. s6 \in Seq(Byte) /\ Len(s6) = 9 + len
  <2>1. Glued(s6, s5, payload)
    BY <1>6, <1>12, Joint, Zenon
  <2> HIDE DEF s6
  <2> QED BY <1>6, <1>12, <2>1 DEF Glued
<1> HIDE DEF s6
<1> QED BY <1>7, <1>13, Zenon

(* It is that of the bytes before the code. *)
LEMMA MessageSame ==
  ASSUME NEW d, NEW e, NEW len \in 0 .. 247, NEW c, Framed(d, len, c), Framed(e, len, c), Alike(d, e, len)
  PROVE  MessageOf(d) = MessageOf(e)
<1>0. /\ d \in Seq(Byte) /\ Len(d) = 13 + len /\ e \in Seq(Byte) /\ Len(e) = 13 + len
      /\ \A i \in 1 .. 9 + len : d[i] = e[i]
  BY DEF Framed, Alike
<1>1. d[1] = e[1] /\ d[6] = e[6] /\ d[7] = e[7] /\ d[8] = e[8] /\ d[9] = e[9]
  BY <1>0
<1>2. ASSUME NEW a \in Nat \ {0}, NEW b \in Nat, b <= 9 + len, a <= b + 1
      PROVE  SubSeq(d, a, b) = SubSeq(e, a, b)
  <2>1. b <= Len(d) /\ b <= Len(e) /\ \A i \in 1 .. b - a + 1 : a + i - 1 \in 1 .. 9 + len
    BY <1>0, <1>2
  <2>2. /\ SubSeq(d, a, b) \in Seq(Byte) /\ Len(SubSeq(d, a, b)) = b - a + 1
        /\ \A i \in 1 .. b - a + 1 : SubSeq(d, a, b)[i] = d[a + i - 1]
    BY <1>0, <1>2, <2>1, PartIs
  <2>3. /\ SubSeq(e, a, b) \in Seq(Byte) /\ Len(SubSeq(e, a, b)) = b - a + 1
        /\ \A i \in 1 .. b - a + 1 : SubSeq(e, a, b)[i] = e[a + i - 1]
    BY <1>0, <1>2, <2>1, PartIs
  <2> DEFINE x == SubSeq(d, a, b)
             y == SubSeq(e, a, b)
  <2>4. x \in Seq(Byte) /\ y \in Seq(Byte) /\ Len(x) = Len(y) /\ \A i \in 1 .. Len(x) : x[i] = y[i]
    BY <1>0, <2>1, <2>2, <2>3
  <2> HIDE DEF x, y
  <2>5. x = y
    BY <2>4, SeqEqual
  <2> QED BY <2>5, Zenon DEF x, y
<1>3. SubSeq(d, 2, 5) = SubSeq(e, 2, 5)
  <2>1. 2 \in Nat \ {0} /\ 5 \in Nat /\ 5 <= 9 + len /\ 2 <= 5 + 1
    OBVIOUS
  <2> QED BY <1>2, <2>1, Zenon
<1>4. SubSeq(d, 10, Len(d) - 4) = SubSeq(e, 10, Len(e) - 4)
  <2> DEFINE b == Len(d) - 4
  <2>1. 10 \in Nat \ {0} /\ b \in Nat /\ b <= 9 + len /\ 10 <= b + 1 /\ Len(e) = Len(d)
    BY <1>0
  <2> HIDE DEF b
  <2>2. SubSeq(d, 10, b) = SubSeq(e, 10, b)
    BY <1>2, <2>1, Zenon
  <2> QED BY <2>1, <2>2 DEF b
<1> QED BY <1>1, <1>3, <1>4, Zenon DEF MessageOf

LEMMA CodedIs ==
  ASSUME NEW d, NEW len \in 0 .. 247, NEW c \in Nat, Framed(d, len, c)
  PROVE  CodedOf(c, d) \in Seq(Byte) /\ Len(CodedOf(c, d)) = 25 + len
<1> DEFINE msg == MessageOf(d)
           first == <<73, 0, 0, 0, 0, 0>>
           le == LittleEndian(c, 4)
           last == <<0, Len(msg) % 256>>
           s1 == first \o LsAddr
           s2 == s1 \o le
           s3 == s2 \o last
           s4 == s3 \o msg
<1>1. msg \in Seq(Byte) /\ Len(msg) = 9 + len
  BY MessageIs DEF Framed
<1>2. first \in Seq(Byte) /\ Len(first) = 6
  BY SomeBytes
<1>3. le \in Seq(Byte) /\ Len(le) = 4
  <2>1. 4 \in {2, 4}
    OBVIOUS
  <2> QED BY <2>1, LittleBytes, Zenon
<1>4. last \in Seq(Byte) /\ Len(last) = 2
  <2> HIDE DEF msg
  <2>1. Len(msg) % 256 \in Byte
    BY <1>1 DEF Byte
  <2> DEFINE x == Len(msg) % 256
  <2> HIDE DEF x
  <2>2. x \in Byte /\ last = <<0, x>>
    BY <2>1, Zenon DEF x
  <2> HIDE DEF last
  <2> QED BY <2>2, SomeBytes
<1>5. LsAddr \in Seq(Byte) /\ Len(LsAddr) = 4
  BY AddrSeq
<1>6. CodedOf(c, d) = s4
  BY Zenon DEF CodedOf, HeadOf
<1> HIDE DEF msg, first, le, last
<1>7. s1 \in Seq(Byte) /\ Len(s1) = 10
  <2>1. Glued(s1, first, LsAddr)
    BY <1>2, <1>5, Joint, Zenon
  <2> HIDE DEF s1
  <2> QED BY <1>2, <1>5, <2>1 DEF Glued
<1> HIDE DEF s1
<1>8. s2 \in Seq(Byte) /\ Len(s2) = 14
  <2>1. Glued(s2, s1, le)
    BY <1>3, <1>7, Joint, Zenon
  <2> HIDE DEF s2
  <2> QED BY <1>3, <1>7, <2>1 DEF Glued
<1> HIDE DEF s2
<1>9. s3 \in Seq(Byte) /\ Len(s3) = 16
  <2>1. Glued(s3, s2, last)
    BY <1>4, <1>8, Joint, Zenon
  <2> HIDE DEF s3
  <2> QED BY <1>4, <1>8, <2>1 DEF Glued
<1> HIDE DEF s3
<1>10. s4 \in Seq(Byte) /\ Len(s4) = 25 + len
  <2>1. Glued(s4, s3, msg)
    BY <1>1, <1>9, Joint, Zenon
  <2> HIDE DEF s4
  <2> QED BY <1>1, <1>9, <2>1 DEF Glued
<1> HIDE DEF s4
<1> QED BY <1>6, <1>10, Zenon

(* Two sessions with the same counter differ in the key of the code only. *)
LEMMA CodeIs ==
  ASSUME NEW n \in LsNonces, NEW c, NEW d, d[6] = 128
  PROVE  lora_calculate_mic(SessionOf(n, c), FullFrame(d), 0)
           = lora_aes128_cmac(SessionOf(n, 0).nwk_s_key, CodedOf(c, d))
<1> DEFINE session == SessionOf(n, c)
           frame == FullFrame(d)
           parsed == lora_parse_frame(d)
           counter == d[7] + 256 * d[8]
           addr == SubSeq(d, 2, 5)
           payload == SubSeq(d, 10, Len(d) - 4)
           mic == SubSeq(d, Len(d) - 3, Len(d))
           none == SubSeq(d, 9, 8)
           opts == IF Len(d) >= 8 + 0 THEN SubSeq(d, 9, 8 + 0) ELSE <<>>
<1>1. d[6] % 16 = 0
  BY SMT
<1>2. opts = <<>>
  <2>1. none = <<>>
    BY NoPart
  <2>2. 8 + 0 = 8
    OBVIOUS
  <2> QED BY <2>1, <2>2
<1>3. parsed = [mhdr |-> d[1], mtype |-> d[1] \div 32, dev_addr |-> addr, f_ctrl |-> d[6], f_cnt |-> counter,
                f_opts |-> opts, f_port |-> 0, payload |-> <<>>, mic |-> Zeros(4)]
  BY <1>1, Zenon DEF lora_parse_frame
<1>4. frame = [parsed EXCEPT !.f_port = d[9], !.payload = payload, !.mic = mic]
  BY Zenon DEF FullFrame
<1> HIDE DEF frame, parsed, counter, addr, payload, mic, none, opts
<1>5. /\ frame.mhdr = d[1] /\ frame.dev_addr = addr /\ frame.f_ctrl = d[6] /\ frame.f_cnt = counter
      /\ frame.f_opts = <<>> /\ frame.f_port = d[9] /\ frame.payload = payload
  BY <1>2, <1>3, <1>4
<1>6. <<frame.mhdr>> \o frame.dev_addr \o <<frame.f_ctrl>> \o LittleEndian(frame.f_cnt, 2)
        \o frame.f_opts \o <<frame.f_port>> \o frame.payload = MessageOf(d)
  BY <1>5, Zenon DEF MessageOf, counter, addr, payload
<1>7. session.f_cnt_up = c /\ session.dev_addr = LsAddr
  <2>1. SessionOf(n, c).f_cnt_up = c /\ SessionOf(n, c).dev_addr = LsAddr
    BY SessionTold
  <2> QED BY <2>1
<1>8. session.nwk_s_key = SessionOf(n, 0).nwk_s_key
  BY SessionParts, Zenon
<1> HIDE DEF session
<1>9. SignedPart(session, frame, 0) = CodedOf(c, d)
  <2>1. (IF 0 = 0 THEN session.f_cnt_up ELSE session.f_cnt_down) = c
    BY <1>7
  <2> QED BY <1>6, <1>7, <2>1, Zenon DEF SignedPart, CodedOf, HeadOf
<1>10. lora_calculate_mic(session, frame, 0) = lora_aes128_cmac(SessionOf(n, 0).nwk_s_key, CodedOf(c, d))
  BY <1>8, <1>9, Zenon DEF lora_calculate_mic
<1> QED BY <1>10, Zenon DEF session, frame

(* The state of a message of any length is a state. *)
LEMMA CmacIs ==
  ASSUME NEW key \in States, NEW m \in Seq(Byte)
  PROVE  CmacState(key, m) \in States
<1> DEFINE n == (Len(m) + 15) \div 16
<1>1. n \in Nat /\ n = (Len(m) + 15) \div 16
  BY LenProperties
<1> HIDE DEF n
<1>2. PICK c \in [0 .. n -> States] :
        /\ c[0] = key /\ c[n] = CmacState(key, m)
        /\ \A i \in 1 .. n : c[i] = CmacBlock(key, c[i - 1], BlockOf(m, i - 1), i - 1)
  BY <1>1, CmacRuns
<1>3. n \in 0 .. n
  BY <1>1
<1> QED BY <1>2, <1>3

(* What is sent is what the code was taken of, and the code. *)
LEMMA SignedIs ==
  ASSUME NEW n \in LsNonces, NEW c \in Nat, c < FrameCounts, NEW confirmed \in BOOLEAN, NEW len \in 0 .. 247
  PROVE  LET d == Signed(SessionOf(n, c), confirmed, len)
         IN  Framed(d, len, c) /\ Ends(d, SessionOf(n, 0).nwk_s_key, c)
<1> DEFINE session == SessionOf(n, c)
           u == Unsigned(session, confirmed, len)
           front == SubSeq(u, 1, Len(u) - 4)
           mic == MicOf(session, confirmed, len)
           d == Signed(session, confirmed, len)
           key == SessionOf(n, 0).nwk_s_key
<1>0. Framed(u, len, c)
  BY UnsignedIs, Zenon
<1>1. u \in Seq(Byte) /\ Len(u) = 13 + len /\ u[6] = 128 /\ u[7] + 256 * u[8] = c
  BY <1>0, Zenon DEF Framed
<1>2. mic = lora_aes128_cmac(key, CodedOf(c, u))
  <2>1. lora_calculate_mic(SessionOf(n, c), FullFrame(u), 0) = lora_aes128_cmac(key, CodedOf(c, u))
    <3> HIDE DEF u, key
    <3>1. u[6] = 128
      BY <1>1, Zenon
    <3>2. \A x : x[6] = 128 => lora_calculate_mic(SessionOf(n, c), FullFrame(x), 0)
                                 = lora_aes128_cmac(SessionOf(n, 0).nwk_s_key, CodedOf(c, x))
      BY CodeIs, Zenon
    <3> QED BY <3>1, <3>2, Zenon DEF key
  <2> QED BY <2>1, Zenon DEF MicOf
<1>3. d = front \o mic
  BY Zenon DEF Signed
<1>4. key \in States
  BY SessionKey
<1> HIDE DEF u, mic, d, key
<1>5. CodedOf(c, u) \in Seq(Byte)
  BY <1>0, CodedIs
<1>6. mic \in Seq(Byte) /\ Len(mic) = 4
  <2> DEFINE x == CodedOf(c, u)
  <2>1. x \in Seq(Byte) /\ mic = lora_aes128_cmac(key, x)
    BY <1>2, <1>5
  <2> HIDE DEF x
  <2>2. CmacState(key, x) \in States
    BY <1>4, <2>1, CmacIs
  <2>3. lora_aes128_cmac(key, x) \in [1 .. 4 -> Byte]
    BY <2>2, MicBytes
  <2>4. 4 \in Nat
    OBVIOUS
  <2> QED BY <2>1, <2>3, <2>4, BytesSeq
<1>7. front \in Seq(Byte) /\ Len(front) = 9 + len /\ \A i \in 1 .. 9 + len : front[i] = u[i]
  <2> DEFINE b == Len(u) - 4
  <2>1. 1 \in Nat \ {0} /\ b \in Nat /\ b <= Len(u) /\ 1 <= b + 1 /\ b - 1 + 1 = 9 + len /\ b = 9 + len
    BY <1>1
  <2> HIDE DEF b
  <2>2. /\ SubSeq(u, 1, b) \in Seq(Byte) /\ Len(SubSeq(u, 1, b)) = b - 1 + 1
        /\ \A i \in 1 .. b - 1 + 1 : SubSeq(u, 1, b)[i] = u[1 + i - 1]
    BY <1>1, <2>1, PartIs
  <2>3. front = SubSeq(u, 1, b)
    BY DEF b
  <2> HIDE DEF front
  <2>4. \A i \in 1 .. 9 + len : 1 + i - 1 = i
    OBVIOUS
  <2> QED BY <2>1, <2>2, <2>3, <2>4
<1> HIDE DEF front
<1>8. Glued(d, front, mic)
  BY <1>3, <1>6, <1>7, Joint, Zenon
<1>9. d \in Seq(Byte) /\ Len(d) = 13 + len /\ \A i \in 1 .. 9 + len : d[i] = u[i]
  BY <1>6, <1>7, <1>8 DEF Glued
<1>10. d[6] = 128 /\ d[7] + 256 * d[8] = c
  <2>1. d[6] = u[6] /\ d[7] = u[7] /\ d[8] = u[8]
    BY <1>9
  <2> QED BY <1>1, <2>1
<1>11. SubSeq(d, Len(d) - 3, Len(d)) = mic
  <2> DEFINE a == Len(d) - 3
             b == Len(d)
  <2>1. a \in Nat \ {0} /\ b \in Nat /\ b <= Len(d) /\ a + Len(mic) = b + 1
    BY <1>6, <1>9
  <2>2. \A i \in 1 .. Len(mic) : d[a + i - 1] = mic[i]
    <3>1. \A i \in 1 .. Len(mic) : d[Len(front) + i] = mic[i]
      BY <1>8 DEF Glued
    <3>2. \A i \in 1 .. Len(mic) : a + i - 1 = Len(front) + i
      BY <1>6, <1>7, <1>9
    <3> QED BY <3>1, <3>2
  <2> HIDE DEF a, b
  <2>3. SubSeq(d, a, b) = mic
    BY <1>6, <1>9, <2>1, <2>2, PartSame
  <2> QED BY <2>3 DEF a, b
<1>12. Framed(d, len, c) /\ Alike(d, u, len)
  BY <1>9, <1>10, Zenon DEF Framed, Alike
<1>13. MessageOf(d) = MessageOf(u)
  BY <1>0, <1>12, MessageSame, Zenon
<1>14. CodedOf(c, d) = CodedOf(c, u)
  BY <1>13, Zenon DEF CodedOf
<1>15. Framed(d, len, c) /\ Ends(d, key, c)
  BY <1>2, <1>11, <1>12, <1>14, Zenon DEF Ends
<1> QED BY <1>15, Zenon DEF d, session, key

(* The frame of a session carries the counter of the session. *)
LEMMA CounterCarried ==
  ASSUME NEW n \in LsNonces, NEW c \in Nat, c < FrameCounts, NEW confirmed \in BOOLEAN, NEW len \in 0 .. 247
  PROVE  FullFrame(Signed(SessionOf(n, c), confirmed, len)).f_cnt = c
<1> DEFINE d == Signed(SessionOf(n, c), confirmed, len)
<1>1. d[7] + 256 * d[8] = c
  <2>1. Framed(d, len, c)
    BY SignedIs, Zenon
  <2> HIDE DEF d
  <2> QED BY <2>1 DEF Framed
<1> HIDE DEF d
<1>2. FullFrame(d).f_cnt = d[7] + 256 * d[8]
  BY DEF FullFrame, lora_parse_frame
<1>3. FullFrame(d).f_cnt = c
  BY <1>1, <1>2, Zenon
<1> QED BY <1>3, Zenon DEF d

(* A short frame that passes the check of a session was sent in it: from a
   code of two blocks the key can be told. *)
LEMMA CodeTells ==
  ASSUME NEW n \in LsNonces, NEW k \in LsNonces, NEW c \in Nat, c < FrameCounts, NEW confirmed \in BOOLEAN,
         NEW len \in 0 .. 7,
         lora_verify_mic(SessionOf(k, c), FullFrame(Signed(SessionOf(n, c), confirmed, len)), 0).ok
  PROVE  n = k
<1> DEFINE d == Signed(SessionOf(n, c), confirmed, len)
           frame == FullFrame(d)
           own == SessionOf(n, 0).nwk_s_key
           key == SessionOf(k, 0).nwk_s_key
           coded == CodedOf(c, d)
<1>1. len \in 0 .. 247
  OBVIOUS
<1>2. Framed(d, len, c) /\ Ends(d, own, c)
  BY <1>1, SignedIs, Zenon
<1>3. /\ own \in States /\ key \in States
      /\ \A i \in 5 .. 16 : own[i] = 0
      /\ \A i \in 5 .. 16 : key[i] = 0
  BY SessionKey
<1>4. lora_verify_mic(SessionOf(k, c), frame, 0).ok
  OBVIOUS
<1> HIDE DEF d
<1>5. lora_calculate_mic(SessionOf(k, c), frame, 0) = lora_aes128_cmac(key, coded)
  BY <1>2, CodeIs DEF Framed
<1>6. frame.mic = SubSeq(d, Len(d) - 3, Len(d))
  BY DEF FullFrame
<1>7. lora_calculate_mic(SessionOf(k, c), frame, 0) = frame.mic
  <2> DEFINE mic == lora_calculate_mic(SessionOf(k, c), frame, 0)
             r == [ok |-> mic = frame.mic, frame |-> [frame EXCEPT !.mic = mic]]
  <2>1. lora_verify_mic(SessionOf(k, c), frame, 0) = r
    BY Zenon DEF lora_verify_mic
  <2>2. r.ok
    BY <1>4, <2>1, Zenon
  <2> HIDE DEF mic, frame
  <2>3. r.ok = (mic = frame.mic)
    BY Zenon
  <2> QED BY <2>2, <2>3 DEF mic
<1>8. coded \in Seq(Byte) /\ Len(coded) = 25 + len
  BY <1>1, <1>2, CodedIs
<1>9. 17 <= Len(coded) /\ Len(coded) <= 32
  BY <1>8
<1>10. \A i \in 5 .. 16 : own[i] = key[i]
  BY <1>3
<1>11. lora_aes128_cmac(own, coded) = lora_aes128_cmac(key, coded)
  BY <1>2, <1>5, <1>6, <1>7, Zenon DEF Ends
<1> HIDE DEF coded, own, key
<1>12. own = key
  BY <1>3, <1>8, <1>9, <1>10, <1>11, KeyOfCode
<1> QED BY <1>12, KeysApart, Zenon DEF own, key

(* The request carries the device's nonce, which is zero. *)
LEMMA RequestNonce ==
  LET request == lora_build_join_request(Zeros(8), Zeros(8), 0)
  IN  request[18] + 256 * request[19] = 0
<1> DEFINE kind == <<0>>
           eui == Reverse(Zeros(8))
           le == LittleEndian(0, 2)
           rest == Zeros(4)
           s1 == kind \o eui
           s2 == s1 \o eui
           s3 == s2 \o le
           s4 == s3 \o rest
<1>1. eui \in Seq(Nat) /\ Len(eui) = 8
  <2>1. Zeros(8) \in [1 .. 8 -> Nat]
    BY DEF Zeros
  <2>2. 8 \in Nat
    OBVIOUS
  <2>3. Len(Zeros(8)) = 8
    BY <2>1, <2>2, ArraySeq, Zenon
  <2>4. eui \in [1 .. 8 -> Nat]
    <3> DEFINE z == Zeros(8)
    <3>1. eui = [i \in 1 .. 8 |-> z[(8 - i) + 1]]
      BY <2>3, Zenon DEF Reverse
    <3>2. z \in [1 .. 8 -> Nat]
      BY <2>1, Zenon
    <3> HIDE DEF z, eui
    <3> QED BY <3>1, <3>2
  <2> QED BY <2>2, <2>4, ArraySeq, Zenon
<1>2. le \in Seq(Nat) /\ Len(le) = 2 /\ le[1] + 256 * le[2] = 0
  <2>1. 0 \in Nat /\ 0 < FrameCounts
    BY SMT DEF FrameCounts
  <2> QED BY <2>1, TwoBytes, Zenon
<1>3. kind \in Seq(Nat) /\ Len(kind) = 1
  OBVIOUS
<1>4. rest \in Seq(Nat) /\ Len(rest) = 4
  BY DEF Zeros
<1> HIDE DEF kind, eui, le, rest
<1>5. s1 \in Seq(Nat) /\ Len(s1) = Len(kind) + Len(eui)
  BY <1>1, <1>3, ConcatLen, Zenon
<1> HIDE DEF s1
<1>6. s2 \in Seq(Nat) /\ Len(s2) = 17
  <2>1. s2 \in Seq(Nat) /\ Len(s2) = Len(s1) + Len(eui)
    BY <1>1, <1>5, ConcatLen, Zenon
  <2> HIDE DEF s2
  <2> QED BY <1>1, <1>3, <1>5, <2>1
<1> HIDE DEF s2
<1>7. s3 \in Seq(Nat) /\ Len(s3) = 19 /\ s3[18] = le[1] /\ s3[19] = le[2]
  <2>1. s3 \in Seq(Nat) /\ Len(s3) = Len(s2) + Len(le)
    BY <1>2, <1>6, ConcatLen, Zenon
  <2>2. 1 \in 1 .. Len(le) /\ 2 \in 1 .. Len(le)
    BY <1>2
  <2>3. s2 \in Seq(Nat) /\ le \in Seq(Nat)
    BY <1>2, <1>6
  <2>4. \A i \in 1 .. Len(le) : s3[Len(s2) + i] = le[i]
    BY <2>3, ConcatAfter, Zenon
  <2> HIDE DEF s3
  <2> QED BY <1>2, <1>6, <2>1, <2>2, <2>4
<1> HIDE DEF s3
<1>8. s4[18] = s3[18] /\ s4[19] = s3[19]
  <2>1. 18 \in 1 .. Len(s3) /\ 19 \in 1 .. Len(s3)
    BY <1>7
  <2>2. s3 \in Seq(Nat) /\ rest \in Seq(Nat)
    BY <1>4, <1>7
  <2>3. \A i \in 1 .. Len(s3) : s4[i] = s3[i]
    BY <2>2, ConcatAt, Zenon
  <2> HIDE DEF s4
  <2> QED BY <2>1, <2>3, Zenon
<1>9. lora_build_join_request(Zeros(8), Zeros(8), 0) = s4
  BY Zenon DEF lora_build_join_request, s1, s2, s3, kind, eui, le, rest
<1> HIDE DEF s4
<1> QED BY <1>2, <1>7, <1>8, <1>9

-----------------------------------------------------------------------------
(* Sessions are those of nonces that were answered, frames those of sessions,
   and what was accepted under the network's present key was counted. *)
Takings ==
  {t \in [n : LsNonces, k : LsNonces, c : 0 .. LsMaxCnt - 1, confirmed : LsConfirmed, len : LsLengths] :
     t.len <= 7 => t.n = t.k}

(* The frame c of session n taken in session k. *)
EntryOf(n, k, c, confirmed, len) ==
  [sent |-> UplinkOf(SessionOf(n, c), confirmed, len), by |-> SessionOf(k, 0).nwk_s_key,
   app |-> SessionOf(k, 0).app_s_key]
Entries == {EntryOf(t.n, t.k, t.c, t.confirmed, t.len) : t \in Takings}

Answered == {n \in LsNonces : AcceptOf(n) \in lsAir}

LsAirInv ==
  \A m \in lsAir :
    \/ \E n \in LsNonces : m = AcceptOf(n)
    \/ \E n \in Answered, c \in 0 .. LsMaxCnt - 1, confirmed \in LsConfirmed, len \in LsLengths :
         m = UplinkOf(SessionOf(n, c), confirmed, len)

LsDevInv ==
  /\ lsDev = [state |-> lsDev.state, dev_nonce |-> 0, session |-> lsDev.session,
              retry_count |-> 0, max_retries |-> 8]
  /\ lsDev.state = "ACTIVE" =>
       \E n \in Answered, c \in 0 .. LsMaxCnt : lsDev.session = SessionOf(n, c)

LsNetInv ==
  \/ lsAir = {} /\ lsLog = <<>>
  \/ \E n \in Answered, c \in Nat : lsNet = SessionOf(n, c)

LsLogInv ==
  /\ lsLog \in Seq(Entries)
  /\ \A i \in 1 .. Len(lsLog) :
       /\ \E n \in Answered : lsLog[i].by = SessionOf(n, 0).nwk_s_key
       /\ lsLog[i].by = lsNet.nwk_s_key => lsLog[i].sent.in.f_cnt_up < lsNet.f_cnt_up
  /\ InOrder

LsInv == LsAirInv /\ LsDevInv /\ LsNetInv /\ LsLogInv

(* The counters of a session fit into a frame, and its payload, too. *)
LEMMA CounterFits ==
  /\ \A c \in 0 .. LsMaxCnt - 1 : c \in Nat /\ c < FrameCounts
  /\ LsConfirmed \subseteq BOOLEAN /\ LsLengths \subseteq 0 .. 247
<1>1. FrameCounts \in Nat
  BY SMT DEF FrameCounts
<1>2. LsMaxCnt \in 0 .. FrameCounts
  BY LsAssumption, Zenon
<1> QED BY <1>1, <1>2, LsAssumption

(* The code of a frame depends on the key up to seven bytes of payload. *)
LEMMA KeyedIs ==
  ASSUME NEW n \in LsNonces, NEW c \in 0 .. LsMaxCnt - 1, NEW confirmed \in LsConfirmed, NEW len \in LsLengths
  PROVE  Keyed(UplinkOf(SessionOf(n, c), confirmed, len)) => len <= 7
<1> DEFINE d == Signed(SessionOf(n, c), confirmed, len)
           m == UplinkOf(SessionOf(n, c), confirmed, len)
<1>1. c \in Nat /\ c < FrameCounts /\ confirmed \in BOOLEAN /\ len \in 0 .. 247
  BY CounterFits
<1>2. Framed(d, len, c)
  BY <1>1, SignedIs, Zenon
<1>3. m.data = d
  BY Zenon DEF UplinkOf
<1> HIDE DEF d, m
<1>4. Len(d) = 13 + len
  BY <1>2 DEF Framed
<1>5. Keyed(m) => 16 + Len(d) - 4 <= 32
  BY <1>3 DEF Keyed
<1>6. Keyed(m) => len <= 7
  BY <1>1, <1>4, <1>5
<1> QED BY <1>6, Zenon DEF m

(* An entry of the log. *)
LEMMA EntryParts ==
  ASSUME NEW e \in Entries
  PROVE  /\ e.sent.in.f_cnt_up \in Int
         /\ Keyed(e.sent) => e.sent.in.nwk_s_key = e.by /\ e.sent.in.app_s_key = e.app
<1>1. PICK n \in LsNonces, k \in LsNonces, c \in 0 .. LsMaxCnt - 1, confirmed \in LsConfirmed, len \in LsLengths :
        e = EntryOf(n, k, c, confirmed, len) /\ (len <= 7 => n = k)
  <2>1. PICK t \in Takings : e = EntryOf(t.n, t.k, t.c, t.confirmed, t.len)
    BY DEF Entries
  <2>2. /\ t.n \in LsNonces /\ t.k \in LsNonces /\ t.c \in 0 .. LsMaxCnt - 1 /\ t.confirmed \in LsConfirmed
        /\ t.len \in LsLengths /\ (t.len <= 7 => t.n = t.k)
    BY DEF Takings
  <2> QED BY <2>1, <2>2, Zenon
<1>2. UplinkOf(SessionOf(n, c), confirmed, len).in = SessionOf(n, c)
  BY DEF UplinkOf
<1>3. /\ e.sent = UplinkOf(SessionOf(n, c), confirmed, len)
      /\ e.by = SessionOf(k, 0).nwk_s_key /\ e.app = SessionOf(k, 0).app_s_key
  BY <1>1, Zenon DEF EntryOf
<1>4. /\ SessionOf(n, c).f_cnt_up = c
      /\ SessionOf(n, c).nwk_s_key = SessionOf(n, 0).nwk_s_key
      /\ SessionOf(n, c).app_s_key = SessionOf(n, 0).app_s_key
  BY SessionParts, Zenon
<1>5. e.sent.in.f_cnt_up \in Int
  <2>1. e.sent.in.f_cnt_up = c
    BY <1>2, <1>3, <1>4, Zenon
  <2> QED BY <2>1
<1>6. Keyed(e.sent) => n = k
  BY <1>1, <1>3, KeyedIs, Zenon
<1> QED BY <1>2, <1>3, <1>4, <1>5, <1>6, Zenon

(* The invariant is enough: two entries of one message are of one session,
   and there in order. *)
LEMMA LsInvSuffices == LsLogInv => SessionSound
<1> SUFFICES ASSUME LsLogInv PROVE SessionSound
  OBVIOUS
<1>1. \A i \in 1 .. Len(lsLog) : lsLog[i] \in Entries
  BY LenProperties DEF LsLogInv
<1>2. OwnSessionOnly
  BY <1>1, EntryParts, Zenon DEF OwnSessionOnly
<1>3. InOrder
  BY DEF LsLogInv
<1>4. AcceptedOnce
  <2> SUFFICES ASSUME NEW i \in 1 .. Len(lsLog), NEW j \in 1 .. Len(lsLog),
                      lsLog[i].sent = lsLog[j].sent,
                      Keyed(lsLog[i].sent) \/ lsLog[i].by = lsLog[j].by
               PROVE  i = j
    BY DEF AcceptedOnce
  <2>1. lsLog[i].by = lsLog[j].by
    BY <1>2, Zenon DEF OwnSessionOnly
  <2>2. lsLog[i].sent.in.f_cnt_up \in Int
    BY <1>1, EntryParts
  <2>3. ~(lsLog[i].sent.in.f_cnt_up < lsLog[j].sent.in.f_cnt_up)
        /\ ~(lsLog[j].sent.in.f_cnt_up < lsLog[i].sent.in.f_cnt_up)
    BY <2>2
  <2>4. ~(i < j) /\ ~(j < i)
    BY <1>3, <2>1, <2>3, Zenon DEF InOrder
  <2>5. Len(lsLog) \in Nat
    BY LenProperties DEF LsLogInv
  <2> QED BY <2>4, <2>5
<1> QED BY <1>2, <1>3, <1>4 DEF SessionSound

(* What is sent is an accept or a frame. *)
LEMMA SentKinds ==
  ASSUME LsAirInv
  PROVE  /\ \A m \in Sent("accept") : \E n \in Answered : m = AcceptOf(n)
         /\ \A m \in Sent("uplink") :
              \E n \in Answered, c \in 0 .. LsMaxCnt - 1, confirmed \in LsConfirmed, len \in LsLengths :
                m = UplinkOf(SessionOf(n, c), confirmed, len)
         /\ \A n \in Answered : AcceptOf(n) \in Sent("accept")
<1>1. \A n : AcceptOf(n).kind = "accept"
  BY DEF AcceptOf
<1>2. \A s, confirmed, len : UplinkOf(s, confirmed, len).kind = "uplink"
  BY DEF UplinkOf
<1>3. "accept" # "uplink"
  OBVIOUS
<1>4. \A m \in Sent("accept") : m \in lsAir /\ m.kind = "accept"
  BY DEF Sent
<1>5. \A m \in Sent("uplink") : m \in lsAir /\ m.kind = "uplink"
  BY DEF Sent
<1>6. \A m \in Sent("accept") : \E n \in Answered : m = AcceptOf(n)
  <2> SUFFICES ASSUME NEW m \in Sent("accept") PROVE \E n \in Answered : m = AcceptOf(n)
    OBVIOUS
  <2>1. m \in lsAir /\ m.kind # "uplink"
    BY <1>3, <1>4, Zenon
  <2>2. PICK n \in LsNonces : m = AcceptOf(n)
    <3> DEFINE Uplink(x) == \E k \in Answered, c \in 0 .. LsMaxCnt - 1, confirmed \in LsConfirmed, len \in LsLengths :
                              x = UplinkOf(SessionOf(k, c), confirmed, len)
    <3>1. \A x \in lsAir : Uplink(x) \/ \E n \in LsNonces : x = AcceptOf(n)
      BY Zenon DEF LsAirInv
    <3>2. ~Uplink(m)
      BY <1>2, <2>1
    <3> HIDE DEF Uplink
    <3> QED BY <2>1, <3>1, <3>2, Zenon
  <2>3. n \in Answered
    BY <2>1, <2>2 DEF Answered
  <2> QED BY <2>2, <2>3, Zenon
<1>7. \A m \in Sent("uplink") :
        \E n \in Answered, c \in 0 .. LsMaxCnt - 1, confirmed \in LsConfirmed, len \in LsLengths :
          m = UplinkOf(SessionOf(n, c), confirmed, len)
  BY <1>1, <1>3, <1>5, Zenon DEF LsAirInv
<1>8. \A n \in Answered : AcceptOf(n) \in Sent("accept")
  BY <1>1, Zenon DEF Sent, Answered
<1> QED BY <1>6, <1>7, <1>8, Zenon

(* A frame taken at the network: it was sent in a session with the counter it
   carries, and in the network's own if its code depends on the key. *)
LEMMA Received ==
  ASSUME LsInv, NEW m \in Sent("uplink"), NEW frame, frame = FullFrame(m.data),
         lora_verify_mic([lsNet EXCEPT !.f_cnt_up = frame.f_cnt], frame, 0).ok
  PROVE  \E n \in Answered, k \in Answered, c \in 0 .. LsMaxCnt - 1, d \in Nat,
            confirmed \in LsConfirmed, len \in LsLengths :
           /\ m = UplinkOf(SessionOf(n, c), confirmed, len) /\ frame.f_cnt = c
           /\ lsNet = SessionOf(k, d)
           /\ len <= 7 => n = k
<1>1. PICK n \in Answered, c \in 0 .. LsMaxCnt - 1, confirmed \in LsConfirmed, len \in LsLengths :
        m = UplinkOf(SessionOf(n, c), confirmed, len)
  BY SentKinds DEF LsInv
<1>2. m \in lsAir
  BY DEF Sent
<1>3. PICK k \in Answered, d \in Nat : lsNet = SessionOf(k, d)
  BY <1>2, Zenon DEF LsInv, LsNetInv
<1>4. n \in LsNonces /\ k \in LsNonces
  BY DEF Answered
<1>5. c \in Nat /\ c < FrameCounts /\ confirmed \in BOOLEAN /\ len \in 0 .. 247
  BY CounterFits
<1>6. m.data = Signed(SessionOf(n, c), confirmed, len)
  BY <1>1 DEF UplinkOf
<1>7. frame.f_cnt = c
  <2>1. FullFrame(Signed(SessionOf(n, c), confirmed, len)).f_cnt = c
    BY <1>4, <1>5, CounterCarried, Zenon
  <2> QED BY <1>6, <2>1, Zenon
<1>8. [lsNet EXCEPT !.f_cnt_up = c] = SessionOf(k, c)
  <2>1. \A x : [SessionOf(k, d) EXCEPT !.f_cnt_up = x] = SessionOf(k, x)
    BY SessionCounted, Zenon
  <2> QED BY <1>3, <2>1, Zenon
<1>9. lora_verify_mic(SessionOf(k, c), FullFrame(Signed(SessionOf(n, c), confirmed, len)), 0).ok
  BY <1>6, <1>7, <1>8, Zenon
<1>10. len <= 7 => n = k
  <2> SUFFICES ASSUME len <= 7 PROVE n = k
    OBVIOUS
  <2>1. len \in 0 .. 7
    BY <1>5
  <2> QED BY <1>4, <1>5, <1>9, <2>1, CodeTells, Zenon
<1> QED BY <1>1, <1>3, <1>7, <1>10, Zenon

(* The network answers a request: a nonce of its own, keys of their own. *)
LEMMA JoinKeeps ==
  ASSUME LsInv, NEW nonce \in LsNonces, LsJoin(nonce)
  PROVE  LsInv'
<1>1. lsDev.dev_nonce = 0 /\ lsDev' = lsDev /\ lsLog' = lsLog
  BY DEF LsInv, LsDevInv, LsJoin
<1>2. lsNet' = SessionOf(nonce, 0)
  <2>1. lsNet' = Joined(Accept(nonce), 0)
    BY <1>1, RequestNonce DEF LsJoin
  <2> QED BY <2>1, SessionParts, Zenon
<1>3. lsAir' = lsAir \cup {AcceptOf(nonce)}
  BY Zenon DEF LsJoin, AcceptOf
<1>4. AcceptOf(nonce) \notin lsAir
  <2>1. AcceptOf(nonce).kind = "accept" /\ AcceptOf(nonce).data = Accept(nonce)
    BY DEF AcceptOf
  <2> QED BY <2>1, Zenon DEF LsJoin, Sent
<1>5. Answered \subseteq Answered' /\ nonce \in Answered'
  BY <1>3 DEF Answered
<1>6. LsAirInv'
  BY <1>3, <1>5 DEF LsInv, LsAirInv
<1>7. LsDevInv'
  BY <1>1, <1>5 DEF LsInv, LsDevInv
<1>8. LsNetInv'
  <2>1. 0 \in Nat
    OBVIOUS
  <2> QED BY <1>2, <1>5, <2>1, Zenon DEF LsNetInv
<1>9. \A n \in Answered : SessionOf(n, 0).nwk_s_key # SessionOf(nonce, 0).nwk_s_key
  <2> SUFFICES ASSUME NEW n \in Answered,
                      SessionOf(n, 0).nwk_s_key = SessionOf(nonce, 0).nwk_s_key
               PROVE  FALSE
    OBVIOUS
  <2>1. n \in LsNonces /\ AcceptOf(n) \in lsAir
    BY DEF Answered
  <2>2. n = nonce
    BY <2>1, KeysApart, Zenon
  <2> QED BY <1>4, <2>1, <2>2, Zenon
<1>10. LsLogInv'
  <2>1. lsNet'.nwk_s_key = SessionOf(nonce, 0).nwk_s_key
    BY <1>2
  <2>2. \A i \in 1 .. Len(lsLog) :
          /\ \E n \in Answered' : lsLog[i].by = SessionOf(n, 0).nwk_s_key
          /\ lsLog[i].by # lsNet'.nwk_s_key
    BY <1>5, <1>9, <2>1, Zenon DEF LsInv, LsLogInv
  <2>3. InOrder'
    BY <1>1, Zenon DEF InOrder, LsInv, LsLogInv
  <2> QED BY <1>1, <2>2, <2>3, Zenon DEF LsInv, LsLogInv
<1> QED BY <1>6, <1>7, <1>8, <1>10 DEF LsInv

(* The device takes an accept, any number of times. *)
LEMMA AcceptKeeps ==
  ASSUME LsInv, LsAccepted
  PROVE  LsInv'
<1>1. PICK m \in Sent("accept") :
        lsDev' = [lsDev EXCEPT !.state = "ACTIVE", !.session = Joined(m.data, lsDev.dev_nonce)]
  BY DEF LsAccepted
<1>2. PICK n \in Answered : m = AcceptOf(n)
  BY SentKinds DEF LsInv
<1>3. Joined(m.data, lsDev.dev_nonce) = SessionOf(n, 0)
  <2>1. lsDev.dev_nonce = 0 /\ m.data = Accept(n)
    BY <1>2 DEF LsInv, LsDevInv, AcceptOf
  <2> QED BY <2>1, SessionParts, Zenon
<1>4. lsDev' = [state |-> "ACTIVE", dev_nonce |-> 0, session |-> SessionOf(n, 0),
                retry_count |-> 0, max_retries |-> 8]
  <2>1. lsDev = [state |-> lsDev.state, dev_nonce |-> 0, session |-> lsDev.session,
                 retry_count |-> 0, max_retries |-> 8]
    BY DEF LsInv, LsDevInv
  <2> DEFINE s == SessionOf(n, 0)
  <2> HIDE DEF s
  <2>2. lsDev' = [lsDev EXCEPT !.state = "ACTIVE", !.session = s]
    BY <1>1, <1>3 DEF s
  <2>3. lsDev' = [state |-> "ACTIVE", dev_nonce |-> 0, session |-> s,
                 retry_count |-> 0, max_retries |-> 8]
    <3> DEFINE old == lsDev.state was == lsDev.session
    <3>1. lsDev = [state |-> old, dev_nonce |-> 0, session |-> was,
                 retry_count |-> 0, max_retries |-> 8]
      BY <2>1, Zenon
    <3> HIDE DEF old, was
    <3> QED BY <2>2, <3>1
  <2> QED BY <2>3 DEF s
<1>5. lsNet' = lsNet /\ lsAir' = lsAir /\ lsLog' = lsLog
  BY DEF LsAccepted
<1>6. Answered' = Answered
  BY <1>5 DEF Answered
<1>7. LsDevInv'
  <2>1. 0 \in 0 .. LsMaxCnt
    BY LsAssumption
  <2>2. lsDev'.session = SessionOf(n, 0)
    BY <1>4
  <2> QED BY <1>4, <1>6, <2>1, <2>2 DEF LsDevInv
<1>8. LsAirInv' /\ LsNetInv' /\ LsLogInv'
  BY <1>5, <1>6, Zenon DEF LsInv, LsAirInv, LsNetInv, LsLogInv, InOrder
<1> QED BY <1>7, <1>8 DEF LsInv

(* The device sends a frame, and counts it. *)
LEMMA UplinkKeeps ==
  ASSUME LsInv, NEW confirmed \in LsConfirmed, NEW len \in LsLengths, LsUplink(confirmed, len)
  PROVE  LsInv'
<1>1. PICK n \in Answered, c \in 0 .. LsMaxCnt : lsDev.session = SessionOf(n, c)
  BY DEF LsInv, LsDevInv, LsUplink
<1>2. c \in 0 .. LsMaxCnt - 1 /\ c + 1 \in 0 .. LsMaxCnt
  <2>1. lsDev.session.f_cnt_up = c
    BY <1>1, SessionParts
  <2> QED BY <2>1, LsAssumption DEF LsUplink
<1>3. lsAir' = lsAir \cup {UplinkOf(SessionOf(n, c), confirmed, len)}
  BY <1>1, Zenon DEF LsUplink, UplinkOf, Signed, Unsigned, MicOf
<1>4. lsDev' = [state |-> lsDev.state, dev_nonce |-> 0, session |-> SessionOf(n, c + 1),
                retry_count |-> 0, max_retries |-> 8]
  <2> DEFINE s == lsDev.session
             t == [s EXCEPT !.f_cnt_up = s.f_cnt_up + 1]
  <2>1. lsDev = [state |-> lsDev.state, dev_nonce |-> 0, session |-> s,
                 retry_count |-> 0, max_retries |-> 8]
    BY DEF LsInv, LsDevInv
  <2>2. t = SessionOf(n, c + 1)
    <3>1. s.f_cnt_up + 1 = c + 1
      BY <1>1, SessionParts
    <3>2. t = [SessionOf(n, c) EXCEPT !.f_cnt_up = c + 1]
      BY <1>1, <3>1, Zenon
    <3>3. \A x : [SessionOf(n, c) EXCEPT !.f_cnt_up = x] = SessionOf(n, x)
      BY SessionCounted, Zenon
    <3> QED BY <3>2, <3>3, Zenon
  <2>3. lsDev' = [lsDev EXCEPT !.session = t]
    BY DEF LsUplink
  <2> HIDE DEF s, t
  <2>4. lsDev' = [state |-> lsDev.state, dev_nonce |-> 0, session |-> t,
                  retry_count |-> 0, max_retries |-> 8]
    BY <2>1, <2>3
  <2> QED BY <2>2, <2>4, Zenon
<1>5. lsNet' = lsNet /\ lsLog' = lsLog
  BY DEF LsUplink
<1>6. Answered \subseteq Answered'
  BY <1>3 DEF Answered
<1>7. LsAirInv'
  <2> DEFINE Uplink(m) == \E x \in Answered', y \in 0 .. LsMaxCnt - 1, z \in LsConfirmed, w \in LsLengths :
                            m = UplinkOf(SessionOf(x, y), z, w)
  <2>1. Uplink(UplinkOf(SessionOf(n, c), confirmed, len))
    BY <1>2, <1>6, Zenon
  <2>2. \A m \in lsAir : Uplink(m) \/ \E x \in LsNonces : m = AcceptOf(x)
    BY <1>6, Zenon DEF LsInv, LsAirInv
  <2> HIDE DEF Uplink
  <2>3. \A m \in lsAir' : Uplink(m) \/ \E x \in LsNonces : m = AcceptOf(x)
    BY <1>3, <2>1, <2>2
  <2> QED BY <2>3, Zenon DEF LsAirInv, Uplink
<1>8. LsDevInv'
  <2>1. lsDev'.session = SessionOf(n, c + 1)
    BY <1>4
  <2>2. lsDev'.state = lsDev.state
    BY <1>4
  <2> QED BY <1>2, <1>4, <1>6, <2>1, <2>2 DEF LsDevInv
<1>9. LsNetInv'
  <2>1. lsAir # {}
    BY <1>1 DEF Answered
  <2> QED BY <1>5, <1>6, <2>1 DEF LsInv, LsNetInv
<1>10. LsLogInv'
  BY <1>5, <1>6, Zenon DEF LsInv, LsLogInv, InOrder
<1> QED BY <1>7, <1>8, <1>9, <1>10 DEF LsInv

(* The network takes a frame with a counter it has not reached. *)
LEMMA ReceiveKeeps ==
  ASSUME LsInv, LsReceive
  PROVE  LsInv'
<1> DEFINE entry(x) == [sent |-> x, by |-> lsNet.nwk_s_key, app |-> lsNet.app_s_key]
<1>1. PICK m \in Sent("uplink") :
        LET frame == FullFrame(m.data)
        IN  /\ frame.f_cnt >= lsNet.f_cnt_up
            /\ lora_verify_mic([lsNet EXCEPT !.f_cnt_up = frame.f_cnt], frame, 0).ok
            /\ lsNet' = [lsNet EXCEPT !.f_cnt_up = frame.f_cnt + 1]
            /\ lsLog' = Append(lsLog, entry(m))
            /\ UNCHANGED <<lsDev, lsAir>>
  BY DEF LsReceive
<1> DEFINE frame == FullFrame(m.data)
<1>2. /\ frame.f_cnt >= lsNet.f_cnt_up
      /\ lora_verify_mic([lsNet EXCEPT !.f_cnt_up = frame.f_cnt], frame, 0).ok
      /\ lsNet' = [lsNet EXCEPT !.f_cnt_up = frame.f_cnt + 1]
      /\ lsLog' = Append(lsLog, entry(m))
      /\ lsDev' = lsDev /\ lsAir' = lsAir
  BY <1>1
<1> HIDE DEF frame
<1>3. PICK n \in Answered, k \in Answered, c \in 0 .. LsMaxCnt - 1, d \in Nat,
           confirmed \in LsConfirmed, len \in LsLengths :
        /\ m = UplinkOf(SessionOf(n, c), confirmed, len) /\ frame.f_cnt = c
        /\ lsNet = SessionOf(k, d)
        /\ len <= 7 => n = k
  <2>1. frame = FullFrame(m.data)
    BY DEF frame
  <2> QED BY <1>2, <2>1, Received
<1>4. d <= c /\ c \in Nat /\ c + 1 \in Nat
  BY <1>2, <1>3, SessionParts
<1>5. lsNet' = SessionOf(k, c + 1)
  <2>1. \A x : [SessionOf(k, d) EXCEPT !.f_cnt_up = x] = SessionOf(k, x)
    BY SessionCounted, Zenon
  <2> QED BY <1>2, <1>3, <2>1, Zenon
<1>6. /\ lsNet.nwk_s_key = SessionOf(k, 0).nwk_s_key /\ lsNet.app_s_key = SessionOf(k, 0).app_s_key
      /\ lsNet'.nwk_s_key = lsNet.nwk_s_key /\ lsNet.f_cnt_up = d /\ lsNet'.f_cnt_up = c + 1
  <2>1. \A x : /\ SessionOf(k, x).f_cnt_up = x
               /\ SessionOf(k, x).nwk_s_key = SessionOf(k, 0).nwk_s_key
               /\ SessionOf(k, x).app_s_key = SessionOf(k, 0).app_s_key
    BY SessionParts, Zenon
  <2> QED BY <1>3, <1>5, <2>1, Zenon
<1> DEFINE e == entry(m)
<1>7. e \in Entries /\ e.sent = m /\ e.by = lsNet.nwk_s_key /\ m.in.f_cnt_up = c
  <2>1. e = EntryOf(n, k, c, confirmed, len)
    BY <1>3, <1>6, Zenon DEF EntryOf
  <2>2. n \in LsNonces /\ k \in LsNonces
    BY DEF Answered
  <2>3. m.in = SessionOf(n, c)
    BY <1>3 DEF UplinkOf
  <2>4. e.sent = m /\ e.by = lsNet.nwk_s_key
    OBVIOUS
  <2>5. e \in Entries
    <3> DEFINE t == [n |-> n, k |-> k, c |-> c, confirmed |-> confirmed, len |-> len]
    <3>1. t \in Takings /\ t.n = n /\ t.k = k /\ t.c = c /\ t.confirmed = confirmed /\ t.len = len
      BY <1>3, <2>2 DEF Takings
    <3> HIDE DEF e, t
    <3>2. e = EntryOf(t.n, t.k, t.c, t.confirmed, t.len)
      BY <2>1, <3>1, Zenon
    <3> QED BY <3>1, <3>2 DEF Entries
  <2>6. SessionOf(n, c).f_cnt_up = c
    BY SessionParts, Zenon
  <2> QED BY <2>3, <2>4, <2>5, <2>6, Zenon
<1> HIDE DEF e
<1>8. lsLog \in Seq(Entries) /\ Len(lsLog) \in Nat
  BY LenProperties DEF LsInv, LsLogInv
<1>9. /\ lsLog' \in Seq(Entries) /\ Len(lsLog') = Len(lsLog) + 1
      /\ \A i \in 1 .. Len(lsLog) : lsLog'[i] = lsLog[i]
      /\ lsLog'[Len(lsLog) + 1] = e
  <2>1. lsLog' = Append(lsLog, e)
    BY <1>2 DEF e
  <2> QED BY <1>7, <1>8, <2>1, AppendProperties
<1>10. Answered' = Answered
  BY <1>2 DEF Answered
<1>11. LsAirInv' /\ LsDevInv'
  BY <1>2, <1>10, Zenon DEF LsInv, LsAirInv, LsDevInv
<1>12. LsNetInv'
  BY <1>4, <1>5, <1>10, Zenon DEF LsNetInv
<1>13. \A i \in 1 .. Len(lsLog) :
         /\ \E x \in Answered : lsLog[i].by = SessionOf(x, 0).nwk_s_key
         /\ lsLog[i].by = lsNet.nwk_s_key => lsLog[i].sent.in.f_cnt_up < d
  BY <1>6, Zenon DEF LsInv, LsLogInv
<1>14. \A i \in 1 .. Len(lsLog) : lsLog[i].sent.in.f_cnt_up \in Int
  <2>1. \A i \in 1 .. Len(lsLog) : lsLog[i] \in Entries
    BY <1>8, LenProperties
  <2>2. \A x \in Entries : x.sent.in.f_cnt_up \in Int
    BY EntryParts
  <2> QED BY <2>1, <2>2
<1>15. \A i \in 1 .. Len(lsLog') : i \in 1 .. Len(lsLog) \/ i = Len(lsLog) + 1
  BY <1>8, <1>9
<1>16. \A x, y \in Int : x < y /\ y <= c => x < c /\ x < c + 1
  BY <1>4
<1>17. \A i \in 1 .. Len(lsLog') :
         /\ \E x \in Answered' : lsLog'[i].by = SessionOf(x, 0).nwk_s_key
         /\ lsLog'[i].by = lsNet'.nwk_s_key => lsLog'[i].sent.in.f_cnt_up < lsNet'.f_cnt_up
  <2> SUFFICES ASSUME NEW i \in 1 .. Len(lsLog')
               PROVE  /\ \E x \in Answered' : lsLog'[i].by = SessionOf(x, 0).nwk_s_key
                      /\ lsLog'[i].by = lsNet'.nwk_s_key => lsLog'[i].sent.in.f_cnt_up < c + 1
    BY <1>6, Zenon
  <2>1. CASE i \in 1 .. Len(lsLog)
    <3>1. lsLog'[i] = lsLog[i]
      BY <1>9, <2>1
    <3>2. lsLog[i].by = lsNet'.nwk_s_key => lsLog[i].sent.in.f_cnt_up < c + 1
      <4>1. d \in Int
        OBVIOUS
      <4> QED BY <1>4, <1>6, <1>13, <1>14, <1>16, <2>1, <4>1, Zenon
    <3> QED BY <1>10, <1>13, <2>1, <3>1, <3>2, Zenon
  <2>2. CASE i = Len(lsLog) + 1
    <3>1. lsLog'[i] = e
      BY <1>9, <2>2
    <3>2. c < c + 1
      BY <1>4
    <3> QED BY <1>6, <1>7, <1>10, <3>1, <3>2, Zenon
  <2> QED BY <1>15, <2>1, <2>2
<1>18. InOrder'
  <2> SUFFICES ASSUME NEW i \in 1 .. Len(lsLog'), NEW j \in 1 .. Len(lsLog'),
                      i < j, lsLog'[i].by = lsLog'[j].by
               PROVE  lsLog'[i].sent.in.f_cnt_up < lsLog'[j].sent.in.f_cnt_up
    BY DEF InOrder
  <2>1. i \in 1 .. Len(lsLog) /\ lsLog'[i] = lsLog[i]
    BY <1>8, <1>9
  <2>2. CASE j \in 1 .. Len(lsLog)
    <3>1. lsLog'[j] = lsLog[j]
      BY <1>9, <2>2
    <3> QED BY <2>1, <2>2, <3>1, Zenon DEF InOrder, LsInv, LsLogInv
  <2>3. CASE j = Len(lsLog) + 1
    <3>1. lsLog'[j] = e
      BY <1>9, <2>3
    <3>2. lsLog[i].sent.in.f_cnt_up < d
      BY <1>7, <1>13, <2>1, <3>1, Zenon
    <3>3. lsLog[i].sent.in.f_cnt_up < c
      <4>1. d \in Int
        OBVIOUS
      <4> QED BY <1>4, <1>14, <1>16, <2>1, <3>2, <4>1, Zenon
    <3> QED BY <1>7, <2>1, <3>1, <3>3, Zenon
  <2> QED BY <1>15, <2>2, <2>3
<1> QED BY <1>9, <1>11, <1>12, <1>17, <1>18, Zenon DEF LsInv, LsLogInv

(* On a channel that loses, repeats, delays and reorders, the network takes a
   frame of a session once and in order there; and a frame of up to seven
   bytes of payload only in the session it was sent in: for every set of
   nonces, every key, every length of a session and of the payloads. *)
THEOREM SessionsKept == LsSpec => []SessionSound
<1>1. LsInit => LsInv
  <2> SUFFICES ASSUME LsInit PROVE LsInv
    OBVIOUS
  <2>1. lsAir = {} /\ lsLog = <<>> /\ Len(lsLog) = 0
    BY DEF LsInit
  <2>2. LsDevInv
    BY DEF LsDevInv, LsInit, lora_join_init
  <2>3. LsLogInv
    BY <2>1 DEF LsLogInv, InOrder
  <2> QED BY <2>1, <2>2, <2>3 DEF LsInv, LsAirInv, LsNetInv
<1>2. LsInv /\ [LsNext]_lsVars => LsInv'
  <2> SUFFICES ASSUME LsInv, [LsNext]_lsVars PROVE LsInv'
    OBVIOUS
  <2>1. CASE \E nonce \in LsNonces : LsJoin(nonce)
    BY <2>1, JoinKeeps
  <2>2. CASE LsAccepted
    BY <2>2, AcceptKeeps
  <2>3. CASE \E confirmed \in LsConfirmed, len \in LsLengths : LsUplink(confirmed, len)
    BY <2>3, UplinkKeeps
  <2>4. CASE LsReceive
    BY <2>4, ReceiveKeeps
  <2>5. CASE UNCHANGED lsVars
    BY <2>5 DEF lsVars, LsInv, LsAirInv, LsDevInv, LsNetInv, LsLogInv, Answered, InOrder
  <2> QED BY <2>1, <2>2, <2>3, <2>4, <2>5 DEF LsNext
<1>3. LsInv => SessionSound
  BY LsInvSuffices DEF LsInv
<1> QED BY <1>1, <1>2, <1>3, PTL DEF LsSpec

-----------------------------------------------------------------------------
(***************************************************************************)
(* The duty-cycle tracker, for every budget, set of callers and times on    *)
(* air: a sender alone keeps the budget; senders that check before another  *)
(* has recorded exceed it by no more than the frames of the others; and any *)
(* stretch of one period holds at most what two windows do.  Seconds are    *)
(* summed over callers and ages as the number of pairs of an index and a    *)
(* second.                                                                  *)
(***************************************************************************)

(* The period is a whole number of seconds. *)
LEMMA PeriodNat == Period \in Nat
  BY DutyCycleAssumption DEF Period

(* A waiting time never falls below zero. *)
LEMMA MaxZero == ASSUME NEW n \in Nat PROVE Max({0, n - 1}) \in Nat
  BY DEF Max

(* A grant is a time on air, hence a number of seconds within the budget. *)
LEMMA GrantNat == ASSUME TypeOK, NEW s \in Senders PROVE granted[s] \in Nat
<1>1. Toas \cup {0} \subseteq Nat
  BY DutyCycleAssumption
<1>2. granted[s] \in Toas \cup {0}
  BY DEF TypeOK
<1> QED BY <1>1, <1>2

(* The tracker and its history keep their types. *)
THEOREM TrackerTypeCorrect == Spec => []TypeOK
<1>1. Init => TypeOK
  <2> SUFFICES ASSUME Init PROVE TypeOK
    OBVIOUS
  <2>1. overlap \in BOOLEAN
    BY Zenon DEF Init
  <2> QED BY <2>1, PeriodNat DEF Init, TypeOK
<1>2. TypeOK /\ [Next]_vars => TypeOK'
  <2> SUFFICES ASSUME TypeOK, [Next]_vars PROVE TypeOK'
    OBVIOUS
  <2> USE DutyCycleAssumption, PeriodNat
  <2>1. CASE Tick
    <3>1. wait' \in [Senders -> Nat]
      BY <2>1, MaxZero DEF Tick, TypeOK
    <3>2. elapsed' \in 0 .. Period + 1
      BY <2>1 DEF Tick, TypeOK, Expired
    <3>3. log' \in [0 .. Period -> Nat]
      BY <2>1 DEF Tick, TypeOK
    <3> QED BY <2>1, <3>1, <3>2, <3>3 DEF Tick, TypeOK
  <2>2. ASSUME NEW s \in Senders, NEW toa \in Toas, CheckAllows(s, toa)
        PROVE TypeOK'
    BY <2>2 DEF CheckAllows, TypeOK, OpenWindow, WindowAcc, Expired
  <2>3. ASSUME NEW s \in Senders, NEW toa \in Toas, CheckBlocks(s, toa)
        PROVE TypeOK'
    <3>1. WaitSec(toa) \in Nat
      <4>1. WindowAcc + toa - Budget \in Nat
        BY <2>3 DEF CheckBlocks, Allowed, WindowAcc, TypeOK
      <4> QED BY <4>1 DEF WaitSec
    <3> QED BY <2>3, <3>1 DEF CheckBlocks, TypeOK, OpenWindow, WindowAcc, Expired
  <2>4. ASSUME NEW s \in Senders, Record(s)
        PROVE TypeOK'
    <3>1. granted[s] \in Nat
      BY GrantNat
    <3>2. log[0] + granted[s] \in Nat
      BY <3>1 DEF TypeOK
    <3>3. acc' \in Nat
      BY <2>4, <3>1 DEF Record, TypeOK, WindowAcc
    <3>4. log' \in [0 .. Period -> Nat]
      BY <2>4, <3>2 DEF Record, TypeOK
    <3> QED BY <2>4, <3>3, <3>4 DEF Record, TypeOK, OpenWindow, Expired
  <2>5. CASE UNCHANGED vars
    BY <2>5 DEF vars, TypeOK
  <2> QED BY <2>1, <2>2, <2>3, <2>4, <2>5 DEF Next, Check
<1> QED BY <1>1, <1>2, PTL DEF Spec

-----------------------------------------------------------------------------
(* As long as no check has overlapped a grant, at most one grant is pending
   and what it allows still fits in the window.  A window that turns between
   check and record only makes room. *)
OneGrant  == \A s, t \in Senders : granted[s] > 0 /\ granted[t] > 0 => s = t
GrantFits == \A s \in Senders : acc + granted[s] <= Budget

BudgetInv == ~overlap => acc <= Budget /\ OneGrant /\ GrantFits

(* The budget of each window is kept, for any number of callers, unless one
   checks a frame while another has a frame to record. *)
THEOREM BudgetKept == Spec => []WindowBudget
<1>1. Init => BudgetInv
  BY DutyCycleAssumption DEF Init, BudgetInv, OneGrant, GrantFits
<1>2. TypeOK /\ TypeOK' /\ BudgetInv /\ [Next]_vars => BudgetInv'
  <2> SUFFICES ASSUME TypeOK, TypeOK', BudgetInv, [Next]_vars PROVE BudgetInv'
    OBVIOUS
  <2>1. CASE Tick
    BY <2>1 DEF Tick, BudgetInv, OneGrant, GrantFits
  <2>2. ASSUME NEW s \in Senders, NEW toa \in Toas, CheckAllows(s, toa)
        PROVE BudgetInv'
    <3> SUFFICES ASSUME ~overlap' PROVE acc' <= Budget /\ OneGrant' /\ GrantFits'
      BY DEF BudgetInv
    <3>1. \A t \in Senders : granted[t] = 0
      <4>1. \A t \in Senders : ~(granted[t] > 0)
        BY <2>2, Zenon DEF CheckAllows
      <4> QED BY <4>1, GrantNat
    <3>2. toa \in Nat /\ Budget \in Nat
      BY DutyCycleAssumption
    <3>3. WindowAcc \in Nat /\ acc' = WindowAcc /\ acc' + toa <= Budget
      BY <2>2 DEF CheckAllows, Allowed, WindowAcc, TypeOK
    <3>4. acc' <= Budget /\ acc' + 0 <= Budget
      BY <3>2, <3>3
    <3>5. \A t \in Senders : granted'[t] = IF t = s THEN toa ELSE 0
      BY <2>2, <3>1 DEF CheckAllows, TypeOK
    <3>6. OneGrant'
      BY <3>5 DEF OneGrant
    <3>7. GrantFits'
      BY <3>3, <3>4, <3>5, Zenon DEF GrantFits
    <3> QED BY <3>4, <3>6, <3>7
  <2>3. ASSUME NEW s \in Senders, NEW toa \in Toas, CheckBlocks(s, toa)
        PROVE BudgetInv'
    <3>1. acc' <= acc /\ UNCHANGED <<granted, overlap>>
      BY <2>3 DEF CheckBlocks, WindowAcc, TypeOK
    <3>2. \A t \in Senders : granted[t] \in Nat
      BY GrantNat
    <3>3. acc \in Nat /\ acc' \in Nat /\ Budget \in Nat
      BY DutyCycleAssumption DEF TypeOK
    <3> QED BY <3>1, <3>2, <3>3 DEF BudgetInv, OneGrant, GrantFits
  <2>4. ASSUME NEW s \in Senders, Record(s)
        PROVE BudgetInv'
    <3> SUFFICES ASSUME ~overlap' PROVE acc' <= Budget /\ OneGrant' /\ GrantFits'
      BY DEF BudgetInv
    <3>1. ~overlap /\ granted[s] > 0
      BY <2>4 DEF Record
    <3>2. \A t \in Senders : granted'[t] = 0
      BY <2>4, <3>1, GrantNat DEF Record, BudgetInv, OneGrant, TypeOK
    <3>3. granted[s] \in Nat /\ acc + granted[s] <= Budget
      BY <3>1, GrantNat DEF BudgetInv, GrantFits
    <3>4. acc' <= Budget
      <4>1. acc' = IF Expired THEN 0 + granted[s] ELSE acc + granted[s]
        BY <2>4 DEF Record, WindowAcc
      <4>2. acc \in Nat /\ Budget \in Nat
        BY DutyCycleAssumption DEF TypeOK
      <4>3. 0 + granted[s] <= Budget
        BY <3>3, <4>2
      <4> QED BY <3>3, <4>1, <4>3, Zenon
    <3>5. acc' + 0 <= Budget
      <4>1. \A n \in Nat : n <= Budget => n + 0 <= Budget
        BY DutyCycleAssumption
      <4>2. acc' \in Nat
        BY DEF TypeOK
      <4> QED BY <3>4, <4>1, <4>2, Zenon
    <3>6. OneGrant'
      BY <3>2 DEF OneGrant
    <3>7. GrantFits'
      BY <3>2, <3>5, Zenon DEF GrantFits
    <3> QED BY <3>4, <3>6, <3>7
  <2>5. CASE UNCHANGED vars
    BY <2>5 DEF vars, BudgetInv, OneGrant, GrantFits
  <2> QED BY <2>1, <2>2, <2>3, <2>4, <2>5 DEF Next, Check
<1>3. BudgetInv => WindowBudget
  BY DEF BudgetInv, WindowBudget
<1> QED BY <1>1, <1>2, <1>3, TrackerTypeCorrect, PTL DEF Spec
-----------------------------------------------------------------------------
(* Sums over a set, as numbers of elements. *)
LEMMA SecondsMember ==
  ASSUME NEW f, NEW A, NEW p
  PROVE  p \in Seconds(f, A) <=> \E a \in A : \E i \in 1 .. f[a] : p = <<a, i>>
  BY DEF Seconds

LEMMA SecondsFinite ==
  ASSUME NEW A, IsFiniteSet(A), NEW f, \A a \in A : f[a] \in Nat
  PROVE  IsFiniteSet(Seconds(f, A)) /\ SecondsIn(f, A) \in Nat
<1> DEFINE Part(a) == {a} \X (1 .. f[a])
<1>1. \A a \in A : IsFiniteSet(Part(a))
  <2> SUFFICES ASSUME NEW a \in A PROVE IsFiniteSet(Part(a))
    OBVIOUS
  <2>1. IsFiniteSet({a})
    BY FS_Singleton
  <2>2. IsFiniteSet(1 .. f[a])
    BY FS_Interval
  <2> QED BY <2>1, <2>2, FS_Product
<1>2. IsFiniteSet({Part(a) : a \in A})
  <2> DEFINE h == [a \in A |-> Part(a)]
  <2> HIDE DEF Part
  <2>1. h \in Surjection(A, {Part(a) : a \in A})
    BY Fun_IsSurj
  <2> QED BY <2>1, FS_Surjection
<1>3. IsFiniteSet(UNION {Part(a) : a \in A})
  <2> HIDE DEF Part
  <2>1. \A S \in {Part(a) : a \in A} : IsFiniteSet(S)
    BY <1>1
  <2> QED BY <1>2, <2>1, FS_UNION
<1>4. IsFiniteSet(Seconds(f, A))
  BY <1>3 DEF Seconds
<1> QED BY <1>4, FS_CardinalityType DEF SecondsIn

(* A sum over fewer elements of smaller numbers is smaller. *)
LEMMA SumMonotonic ==
  ASSUME NEW B, IsFiniteSet(B), NEW A \in SUBSET B, NEW f, NEW g,
         \A b \in B : g[b] \in Nat, \A a \in A : f[a] \in Nat /\ f[a] <= g[a]
  PROVE  SecondsIn(f, A) <= SecondsIn(g, B)
<1>1. Seconds(f, A) \subseteq Seconds(g, B)
  <2> SUFFICES ASSUME NEW p \in Seconds(f, A) PROVE p \in Seconds(g, B)
    OBVIOUS
  <2>1. PICK a \in A : \E i \in 1 .. f[a] : p = <<a, i>>
    BY SecondsMember
  <2>2. PICK i \in 1 .. f[a] : p = <<a, i>>
    BY <2>1
  <2>3. a \in B /\ i \in 1 .. g[a]
    OBVIOUS
  <2> QED BY <2>2, <2>3, SecondsMember
<1>2. IsFiniteSet(Seconds(g, B))
  BY SecondsFinite
<1> QED BY <1>1, <1>2, FS_Subset DEF SecondsIn

(* What a function is elsewhere does not change its sum. *)
LEMMA SumEqual ==
  ASSUME NEW A, NEW f, NEW g, \A a \in A : f[a] = g[a]
  PROVE  SecondsIn(f, A) = SecondsIn(g, A)
  BY DEF SecondsIn, Seconds

LEMMA SumSplit ==
  ASSUME NEW A, IsFiniteSet(A), NEW B, IsFiniteSet(B), A \cap B = {}, NEW f,
         \A a \in A \cup B : f[a] \in Nat
  PROVE  SecondsIn(f, A \cup B) = SecondsIn(f, A) + SecondsIn(f, B)
<1>1. Seconds(f, A \cup B) = Seconds(f, A) \cup Seconds(f, B)
  BY DEF Seconds
<1>2. Seconds(f, A) \cap Seconds(f, B) = {}
  <2> SUFFICES ASSUME NEW p \in Seconds(f, A), p \in Seconds(f, B) PROVE FALSE
    OBVIOUS
  <2>1. PICK a \in A : \E i \in 1 .. f[a] : p = <<a, i>>
    BY SecondsMember
  <2>2. PICK b \in B : \E i \in 1 .. f[b] : p = <<b, i>>
    BY SecondsMember
  <2>3. a = b
    BY <2>1, <2>2
  <2> QED BY <2>3
<1>3. /\ IsFiniteSet(Seconds(f, A)) /\ SecondsIn(f, A) \in Nat
      /\ IsFiniteSet(Seconds(f, B)) /\ SecondsIn(f, B) \in Nat
  BY SecondsFinite
<1>4. SecondsIn(f, A \cup B) =
        SecondsIn(f, A) + SecondsIn(f, B) - Cardinality(Seconds(f, A) \cap Seconds(f, B))
  BY <1>1, <1>3, FS_Union DEF SecondsIn
<1>5. Cardinality(Seconds(f, A) \cap Seconds(f, B)) = 0
  BY <1>2, FS_EmptySet
<1> QED BY <1>3, <1>4, <1>5

LEMMA SumSingle ==
  ASSUME NEW a, NEW f, f[a] \in Nat
  PROVE  SecondsIn(f, {a}) = f[a]
<1>1. Seconds(f, {a}) = {a} \X (1 .. f[a])
  BY DEF Seconds
<1>2. IsFiniteSet({a}) /\ Cardinality({a}) = 1
  BY FS_Singleton
<1>3. IsFiniteSet(1 .. f[a]) /\ Cardinality(1 .. f[a]) = f[a]
  BY FS_Interval
<1>4. Cardinality({a} \X (1 .. f[a])) = Cardinality({a}) * Cardinality(1 .. f[a])
  BY <1>2, <1>3, FS_Product, Zenon
<1>5. \A n \in Nat : 1 * n = n
  OBVIOUS
<1>6. Cardinality({a}) * Cardinality(1 .. f[a]) = f[a]
  BY <1>2, <1>3, <1>5, Zenon
<1> QED BY <1>1, <1>4, <1>6 DEF SecondsIn

(* One element counts on its own. *)
LEMMA SumRemove ==
  ASSUME NEW A, IsFiniteSet(A), NEW a \in A, NEW f, \A b \in A : f[b] \in Nat
  PROVE  /\ SecondsIn(f, A) = f[a] + SecondsIn(f, A \ {a})
         /\ SecondsIn(f, A \ {a}) \in Nat
<1> DEFINE R == A \ {a}
<1>1. IsFiniteSet(R) /\ IsFiniteSet({a})
  BY FS_RemoveElement, FS_Singleton
<1>2. {a} \cup R = A /\ {a} \cap R = {} /\ \A b \in {a} \cup R : f[b] \in Nat
  OBVIOUS
<1> HIDE DEF R
<1>3. SecondsIn(f, {a} \cup R) = SecondsIn(f, {a}) + SecondsIn(f, R)
  BY <1>1, <1>2, SumSplit
<1>4. SecondsIn(f, {a}) = f[a]
  BY SumSingle
<1>5. SecondsIn(f, R) \in Nat
  BY <1>1, <1>2, SecondsFinite
<1> QED BY <1>2, <1>3, <1>4, <1>5 DEF R

LEMMA SumBound ==
  ASSUME NEW A, IsFiniteSet(A), NEW f, NEW m \in Nat,
         \A a \in A : f[a] \in Nat /\ f[a] <= m
  PROVE  SecondsIn(f, A) <= Cardinality(A) * m
<1>1. Seconds(f, A) \subseteq A \X (1 .. m)
  <2> SUFFICES ASSUME NEW p \in Seconds(f, A) PROVE p \in A \X (1 .. m)
    OBVIOUS
  <2>1. PICK a \in A : \E i \in 1 .. f[a] : p = <<a, i>>
    BY SecondsMember
  <2>2. PICK i \in 1 .. f[a] : p = <<a, i>>
    BY <2>1
  <2>3. i \in 1 .. m
    OBVIOUS
  <2> QED BY <2>2, <2>3
<1>2. IsFiniteSet(1 .. m) /\ Cardinality(1 .. m) = m
  BY FS_Interval
<1>3. IsFiniteSet(A \X (1 .. m)) /\ Cardinality(A \X (1 .. m)) = Cardinality(A) * m
  BY <1>2, FS_Product
<1> QED BY <1>1, <1>3, FS_Subset DEF SecondsIn

(* Nothing changes when all elements move on by one. *)
LEMMA SumShift ==
  ASSUME NEW A \in SUBSET Int, IsFiniteSet(A), NEW f, NEW g,
         NEW B, B = {a + 1 : a \in A},
         \A a \in A : f[a] \in Nat /\ g[a + 1] = f[a]
  PROVE  SecondsIn(g, B) = SecondsIn(f, A)
<1> DEFINE h == [p \in Seconds(f, A) |-> <<p[1] + 1, p[2]>>]
<1>1. \A p \in Seconds(f, A) : /\ p = <<p[1], p[2]>> /\ p[1] \in A
                               /\ p[2] \in 1 .. f[p[1]]
  BY SecondsMember
<1>2. h \in [Seconds(f, A) -> Seconds(g, B)]
  <2> SUFFICES ASSUME NEW p \in Seconds(f, A)
               PROVE  <<p[1] + 1, p[2]>> \in Seconds(g, B)
    OBVIOUS
  <2>1. p[1] + 1 \in B /\ p[2] \in 1 .. g[p[1] + 1]
    BY <1>1
  <2> QED BY <2>1, SecondsMember
<1>3. \A p, q \in Seconds(f, A) : h[p] = h[q] => p = q
  <2> SUFFICES ASSUME NEW p \in Seconds(f, A), NEW q \in Seconds(f, A), h[p] = h[q]
               PROVE  p = q
    OBVIOUS
  <2>1. p[1] + 1 = q[1] + 1 /\ p[2] = q[2]
    OBVIOUS
  <2>2. p[1] \in Int /\ q[1] \in Int
    BY <1>1
  <2>3. p[1] = q[1]
    BY <2>1, <2>2
  <2> QED BY <1>1, <2>1, <2>3
<1>4. \A q \in Seconds(g, B) : \E p \in Seconds(f, A) : h[p] = q
  <2> SUFFICES ASSUME NEW q \in Seconds(g, B) PROVE \E p \in Seconds(f, A) : h[p] = q
    OBVIOUS
  <2>1. PICK b \in B : \E i \in 1 .. g[b] : q = <<b, i>>
    BY SecondsMember
  <2>2. PICK i \in 1 .. g[b] : q = <<b, i>>
    BY <2>1
  <2>3. PICK a \in A : b = a + 1
    OBVIOUS
  <2>4. i \in 1 .. f[a]
    BY <2>3
  <2>5. <<a, i>> \in Seconds(f, A)
    BY <2>4, SecondsMember
  <2>6. h[<<a, i>>] = q
    BY <2>2, <2>3, <2>5
  <2> QED BY <2>5, <2>6
<1>5. h \in Bijection(Seconds(f, A), Seconds(g, B))
  BY <1>2, <1>3, <1>4, Fun_IsBij
<1>6. ExistsBijection(Seconds(f, A), Seconds(g, B))
  BY <1>5 DEF ExistsBijection
<1>7. IsFiniteSet(Seconds(f, A))
  BY SecondsFinite
<1> QED BY <1>6, <1>7, FS_Bijection DEF SecondsIn
-----------------------------------------------------------------------------
(* What is recorded and what is granted, together, exceed the budget by at
   most a frame of each sender but the one whose check was answered last: that
   answer takes the window as it is and not what the others will add to it. *)
Owed == SecondsIn(granted, Senders)

OwedInv == acc + Owed <= Overrun

LongestFrame == Max(Toas)

LEMMA LongestFrameBound ==
  /\ LongestFrame \in 1 .. Budget
  /\ \A toa \in Toas : toa <= LongestFrame
<1> DEFINE T == {n \in Nat : Budget - n \in Toas}
           R == OpToRel(<, Nat)
<1>1. Budget \in Nat /\ Toas \subseteq 1 .. Budget /\ Toas # {}
  BY DutyCycleAssumption
<1>2. T # {}
  <2>1. PICK toa \in Toas : TRUE
    BY <1>1
  <2>2. Budget - toa \in T
    BY <1>1, <2>1
  <2> QED BY <2>2
<1>3. PICK n \in T : \A m \in T : ~(<<m, n>> \in R)
  <2>1. IsWellFoundedOn(R, Nat)
    BY NatLessThanWellFounded
  <2>2. T \subseteq Nat
    OBVIOUS
  <2> HIDE DEF R, T
  <2> QED BY <1>2, <2>1, <2>2, WFMin
<1>4. \A m \in T : ~(m < n)
  <2>1. \A m \in Nat : m < n => <<m, n>> \in R
    BY DEF OpToRel
  <2> QED BY <1>3, <2>1
<1>5. Budget - n \in Toas /\ n \in Nat
  BY <1>3
<1>6. \A toa \in Toas : Budget - n >= toa
  <2> SUFFICES ASSUME NEW toa \in Toas PROVE Budget - n >= toa
    OBVIOUS
  <2>1. toa \in Int /\ toa <= Budget /\ Budget - (Budget - toa) = toa
    BY <1>1
  <2>2. Budget - toa \in T
    BY <1>1, <2>1
  <2>3. ~(Budget - toa < n)
    BY <1>4, <2>2
  <2> QED BY <1>1, <1>5, <2>1, <2>3
<1>7. LongestFrame \in Toas /\ \A toa \in Toas : LongestFrame >= toa
  BY <1>5, <1>6, Zenon DEF LongestFrame, Max
<1> QED BY <1>1, <1>7

(* The overrun is what the other senders may add. *)
LEMMA OverrunNat ==
  /\ Overrun \in Nat /\ Budget <= Overrun
  /\ Cardinality(Senders) - 1 \in Nat
<1>1. Cardinality(Senders) \in Nat /\ Cardinality(Senders) # 0
  BY DutyCycleAssumption, FS_CardinalityType, FS_EmptySet
<1>2. Cardinality(Senders) - 1 \in Nat /\ LongestFrame \in Nat /\ Budget \in Nat
  BY <1>1, LongestFrameBound, DutyCycleAssumption
<1>3. (Cardinality(Senders) - 1) * LongestFrame \in Nat
  BY <1>2
<1>4. Overrun = Budget + (Cardinality(Senders) - 1) * LongestFrame
  BY DEF Overrun, LongestFrame
<1> QED BY <1>2, <1>3, <1>4

(* The grants of the others. *)
LEMMA OthersOwed ==
  ASSUME TypeOK, NEW s \in Senders
  PROVE  /\ Owed = granted[s] + SecondsIn(granted, Senders \ {s})
         /\ Owed \in Nat
         /\ SecondsIn(granted, Senders \ {s}) \in Nat
         /\ SecondsIn(granted, Senders \ {s}) <= (Cardinality(Senders) - 1) * LongestFrame
<1>1. \A t \in Senders : granted[t] \in Nat /\ granted[t] <= LongestFrame
  <2> SUFFICES ASSUME NEW t \in Senders
               PROVE  granted[t] \in Nat /\ granted[t] <= LongestFrame
    OBVIOUS
  <2>1. granted[t] \in Toas \cup {0} /\ granted[t] \in Nat
    BY GrantNat DEF TypeOK
  <2> QED BY <2>1, LongestFrameBound
<1>2. IsFiniteSet(Senders)
  BY DutyCycleAssumption
<1>3. /\ Owed = granted[s] + SecondsIn(granted, Senders \ {s})
      /\ SecondsIn(granted, Senders \ {s}) \in Nat
  BY <1>1, <1>2, SumRemove DEF Owed
<1>4. /\ IsFiniteSet(Senders \ {s})
      /\ Cardinality(Senders \ {s}) = Cardinality(Senders) - 1
  BY <1>2, FS_RemoveElement
<1>5. SecondsIn(granted, Senders \ {s}) <= Cardinality(Senders \ {s}) * LongestFrame
  BY <1>1, <1>4, LongestFrameBound, SumBound
<1>6. granted[s] \in Nat
  BY <1>1
<1> QED BY <1>3, <1>4, <1>5, <1>6

(* A check that looks at the window before another caller has recorded its
   frame is wrong by no more than what the other callers have been granted,
   for any number of callers. *)
THEOREM OverrunKept == Spec => []OverrunBounded
<1>1. Init => OwedInv
  <2> SUFFICES ASSUME Init PROVE OwedInv
    OBVIOUS
  <2>1. \A s \in Senders : granted[s] \in Nat /\ granted[s] <= 0
    BY DEF Init
  <2>2. IsFiniteSet(Senders) /\ Cardinality(Senders) \in Nat
    BY DutyCycleAssumption, FS_CardinalityType
  <2>3. Owed <= Cardinality(Senders) * 0 /\ Owed \in Nat
    BY <2>1, <2>2, SumBound, SecondsFinite DEF Owed
  <2>4. Owed = 0
    BY <2>2, <2>3
  <2>5. acc = 0
    BY DEF Init
  <2> QED BY <2>4, <2>5, OverrunNat DEF OwedInv
<1>2. TypeOK /\ TypeOK' /\ OwedInv /\ [Next]_vars => OwedInv'
  <2> SUFFICES ASSUME TypeOK, TypeOK', OwedInv, [Next]_vars PROVE OwedInv'
    OBVIOUS
  <2>1. acc \in Nat /\ acc' \in Nat
    BY DEF TypeOK
  <2>2. Owed \in Nat
    BY DutyCycleAssumption, SecondsFinite, GrantNat DEF Owed
  <2>3. WindowAcc \in Nat /\ WindowAcc <= acc
    BY <2>1 DEF WindowAcc
  <2>4. acc' <= acc /\ granted' = granted => OwedInv'
    <3> SUFFICES ASSUME acc' <= acc, granted' = granted PROVE OwedInv'
      OBVIOUS
    <3>1. Owed' = Owed /\ Overrun' = Overrun
      BY DEF Owed, Overrun
    <3>2. Overrun \in Nat
      BY OverrunNat
    <3>3. acc + Owed <= Overrun
      BY DEF OwedInv
    <3>4. acc' + Owed <= Overrun
      <4>1. \A a, b, o, r \in Nat : a <= b /\ b + o <= r => a + o <= r
        OBVIOUS
      <4> QED BY <2>1, <2>2, <3>2, <3>3, <4>1, Zenon
    <3> QED BY <3>1, <3>4, Zenon DEF OwedInv
  <2>5. CASE Tick
    <3>1. acc' <= acc /\ granted' = granted
      BY <2>1, <2>5 DEF Tick
    <3> QED BY <2>4, <3>1, Zenon
  <2>6. ASSUME NEW s \in Senders, NEW toa \in Toas, CheckAllows(s, toa)
        PROVE OwedInv'
    <3>1. /\ Owed' = granted'[s] + SecondsIn(granted', Senders \ {s})
          /\ SecondsIn(granted', Senders \ {s}) \in Nat
      <4>1. IsFiniteSet(Senders) /\ \A t \in Senders : granted'[t] \in Nat
        <5>1. Toas \cup {0} \subseteq Nat
          BY DutyCycleAssumption
        <5>2. granted' \in [Senders -> Toas \cup {0}]
          BY DEF TypeOK
        <5> QED BY <5>1, <5>2, DutyCycleAssumption
      <4> QED BY <4>1, SumRemove DEF Owed
    <3>2. granted'[s] = toa /\ \A t \in Senders \ {s} : granted'[t] = granted[t]
      BY <2>6 DEF CheckAllows, TypeOK
    <3>3. SecondsIn(granted', Senders \ {s}) = SecondsIn(granted, Senders \ {s})
      BY <3>2, SumEqual
    <3>4. SecondsIn(granted, Senders \ {s}) <= (Cardinality(Senders) - 1) * LongestFrame
      BY OthersOwed
    <3>5. acc' + toa <= Budget
      BY <2>6 DEF CheckAllows, Allowed
    <3>6. toa \in Nat /\ Budget \in Nat
      BY DutyCycleAssumption
    <3>7. (Cardinality(Senders) - 1) * LongestFrame \in Nat
      BY OverrunNat, LongestFrameBound
    <3>8. Overrun' = Budget + (Cardinality(Senders) - 1) * LongestFrame
      BY DEF Overrun, LongestFrame
    <3>9. Owed' = toa + SecondsIn(granted, Senders \ {s})
      BY <3>1, <3>2, <3>3
    <3>10. SecondsIn(granted, Senders \ {s}) \in Nat
      BY <3>1, <3>3
    <3>11. acc' + (toa + SecondsIn(granted, Senders \ {s}))
             <= Budget + (Cardinality(Senders) - 1) * LongestFrame
      <4> DEFINE rest == SecondsIn(granted, Senders \ {s})
                 over == (Cardinality(Senders) - 1) * LongestFrame
      <4>1. rest \in Nat /\ over \in Nat /\ rest <= over
        BY <3>4, <3>7, <3>10
      <4> HIDE DEF rest, over
      <4>2. acc' + (toa + rest) <= Budget + over
        <5>1. \A a, b, c, r, o \in Nat :
                a + b <= c /\ r <= o => a + (b + r) <= c + o
          OBVIOUS
        <5> QED BY <2>1, <3>5, <3>6, <4>1, <5>1, Zenon
      <4> QED BY <4>2 DEF rest, over
    <3> QED BY <3>8, <3>9, <3>11, Zenon DEF OwedInv
  <2>7. ASSUME NEW s \in Senders, NEW toa \in Toas, CheckBlocks(s, toa)
        PROVE OwedInv'
    <3>1. acc' <= acc /\ granted' = granted
      BY <2>3, <2>7 DEF CheckBlocks
    <3> QED BY <2>4, <3>1, Zenon
  <2>8. ASSUME NEW s \in Senders, Record(s)
        PROVE OwedInv'
    <3>1. \A t \in Senders \ {s} : granted'[t] = granted[t]
      BY <2>8 DEF Record, TypeOK
    <3>2. granted'[s] = 0
      BY <2>8 DEF Record, TypeOK
    <3>3. /\ Owed' = granted'[s] + SecondsIn(granted', Senders \ {s})
          /\ SecondsIn(granted', Senders \ {s}) = SecondsIn(granted, Senders \ {s})
      <4>1. IsFiniteSet(Senders) /\ \A t \in Senders : granted'[t] \in Nat
        <5>1. \A t \in Senders \ {s} : granted'[t] \in Nat
          BY <3>1, GrantNat
        <5> QED BY <3>2, <5>1, DutyCycleAssumption
      <4> QED BY <3>1, <4>1, SumRemove, SumEqual DEF Owed
    <3>4. /\ Owed = granted[s] + SecondsIn(granted, Senders \ {s})
          /\ SecondsIn(granted, Senders \ {s}) \in Nat
      BY OthersOwed
    <3>5. acc' = WindowAcc + granted[s] /\ granted[s] \in Nat
      BY <2>8, GrantNat DEF Record
    <3>6. Overrun' = Overrun
      BY DEF Overrun
    <3>7. acc' + SecondsIn(granted, Senders \ {s}) <= acc + Owed
      BY <2>1, <2>3, <3>4, <3>5
    <3>8. acc' + SecondsIn(granted, Senders \ {s}) <= Overrun
      BY <2>1, <2>2, <3>4, <3>7, OverrunNat DEF OwedInv
    <3>9. Owed' = SecondsIn(granted, Senders \ {s})
      BY <3>2, <3>3, <3>4
    <3> QED BY <3>6, <3>8, <3>9, Zenon DEF OwedInv
  <2>9. CASE UNCHANGED vars
    <3>1. acc' <= acc /\ granted' = granted
      BY <2>1, <2>9 DEF vars
    <3> QED BY <2>4, <3>1, Zenon
  <2> QED BY <2>5, <2>6, <2>7, <2>8, <2>9 DEF Next, Check
<1>3. TypeOK /\ OwedInv => OverrunBounded
  <2> SUFFICES ASSUME TypeOK, OwedInv PROVE OverrunBounded
    OBVIOUS
  <2>1. Owed \in Nat /\ acc \in Nat
    BY DutyCycleAssumption, SecondsFinite, GrantNat DEF Owed, TypeOK
  <2> QED BY <2>1, OverrunNat DEF OwedInv, OverrunBounded
<1> QED BY <1>1, <1>2, <1>3, TrackerTypeCorrect, PTL DEF Spec
-----------------------------------------------------------------------------
(* What the log holds of the window that is open has been counted by it; what
   it holds of the time before it is from one window only, because a window
   lasts longer than the log reaches back, and was within that window's bound.
   A window that is over has not recorded anything in the present second: a
   call would have opened a new one. *)
Ages       == 0 .. Period
Recent(e)  == {a \in Ages : a <= e}
Earlier(e) == {a \in Ages : a > e}
Bound      == IF overlap THEN Overrun ELSE Budget

AirInv ==
  /\ Expired => log[0] = 0
  /\ SecondsIn(log, Recent(elapsed)) <= acc
  /\ SecondsIn(log, Earlier(elapsed)) <= Bound

LEMMA AgesFinite ==
  ASSUME NEW A \in SUBSET Ages
  PROVE  IsFiniteSet(A) /\ A \in SUBSET Int
<1>1. IsFiniteSet(Ages)
  BY PeriodNat, FS_Interval DEF Ages
<1>2. Ages \in SUBSET Int
  BY PeriodNat DEF Ages
<1> QED BY <1>1, <1>2, FS_Subset

(* The sums over parts of the log are numbers, ordered as the parts are. *)
LEMMA LogSums ==
  ASSUME NEW f \in [Ages -> Nat], NEW B \in SUBSET Ages, NEW A \in SUBSET B
  PROVE  /\ SecondsIn(f, A) \in Nat /\ SecondsIn(f, B) \in Nat
         /\ SecondsIn(f, A) <= SecondsIn(f, B)
<1>1. IsFiniteSet(A) /\ IsFiniteSet(B)
  BY AgesFinite
<1>2. \A a \in B : f[a] \in Nat /\ f[a] <= f[a]
  OBVIOUS
<1> QED BY <1>1, <1>2, SecondsFinite, SumMonotonic

LEMMA BoundNat ==
  ASSUME TypeOK, WindowBudget, OverrunBounded
  PROVE  Bound \in Nat /\ acc \in Nat /\ acc <= Bound
  BY OverrunNat, DutyCycleAssumption DEF Bound, WindowBudget, OverrunBounded, TypeOK

(* Once frames have overlapped the larger bound stays. *)
LEMMA BoundGrows ==
  ASSUME TypeOK, TypeOK', overlap => overlap'
  PROVE  Bound <= Bound' /\ Bound \in Nat /\ Bound' \in Nat
<1>1. overlap \in BOOLEAN /\ overlap' \in BOOLEAN
  BY Zenon DEF TypeOK
<1>2. Budget \in Nat /\ Overrun \in Nat /\ Budget <= Overrun
  BY OverrunNat, DutyCycleAssumption
<1>3. /\ Bound = IF overlap THEN Overrun ELSE Budget
      /\ Bound' = IF overlap' THEN Overrun ELSE Budget
  BY Zenon DEF Bound
<1>4. Budget <= Budget /\ Overrun <= Overrun
  BY <1>2
<1> QED BY <1>1, <1>2, <1>3, <1>4, Zenon

LEMMA TickAir ==
  ASSUME TypeOK, TypeOK', AirInv, Tick PROVE AirInv'
<1> DEFINE A == {a \in Ages : a + 1 <= Period /\ a + 1 <= elapsed'}
           B == {a \in Ages : a + 1 <= Period /\ a + 1 > elapsed'}
<1>1. Period \in Nat /\ elapsed \in 0 .. Period + 1 /\ elapsed' \in 0 .. Period + 1
  BY PeriodNat DEF TypeOK
<1>2. elapsed' = IF elapsed > Period THEN elapsed ELSE elapsed + 1
  BY DEF Tick, Expired
<1>3. log \in [Ages -> Nat] /\ log' \in [Ages -> Nat]
  BY DEF TypeOK, Ages
<1>4. log' = [a \in Ages |-> IF a = 0 THEN 0 ELSE log[a - 1]]
  BY DEF Tick, Ages
<1>5. log'[0] = 0
  BY <1>1, <1>4 DEF Ages
<1>6. \A a \in Ages : a + 1 <= Period => log[a] \in Nat /\ log'[a + 1] = log[a]
  <2> SUFFICES ASSUME NEW a \in Ages, a + 1 <= Period
               PROVE  log[a] \in Nat /\ log'[a + 1] = log[a]
    OBVIOUS
  <2>1. a + 1 \in Ages /\ a + 1 # 0 /\ (a + 1) - 1 = a
    BY <1>1 DEF Ages
  <2>2. log'[a + 1] = IF a + 1 = 0 THEN 0 ELSE log[(a + 1) - 1]
    BY <1>4, <2>1, Zenon
  <2> QED BY <1>3, <2>1, <2>2
<1>7. A \in SUBSET Ages /\ A \in SUBSET Recent(elapsed)
  BY <1>1, <1>2 DEF Ages, Recent
<1>8. B \in SUBSET Ages /\ B \in SUBSET Earlier(elapsed)
  BY <1>1, <1>2 DEF Ages, Earlier
<1>9. 0 \in Recent(elapsed') /\ Recent(elapsed') \ {0} = {a + 1 : a \in A}
  <2>1. 0 \in Recent(elapsed')
    BY <1>1 DEF Ages, Recent
  <2>2. \A a \in A : a + 1 \in Recent(elapsed') \ {0}
    BY <1>1 DEF Ages, Recent
  <2>3. \A r \in Recent(elapsed') \ {0} : r - 1 \in A /\ r = (r - 1) + 1
    BY <1>1 DEF Ages, Recent
  <2> HIDE DEF A
  <2> QED BY <2>1, <2>2, <2>3
<1>10. Earlier(elapsed') = {a + 1 : a \in B}
  <2>1. \A a \in B : a + 1 \in Earlier(elapsed')
    BY <1>1 DEF Ages, Earlier
  <2>2. \A r \in Earlier(elapsed') : r - 1 \in B /\ r = (r - 1) + 1
    BY <1>1 DEF Ages, Earlier
  <2> HIDE DEF B
  <2> QED BY <2>1, <2>2
<1>11. /\ \A a \in A : log[a] \in Nat /\ log'[a + 1] = log[a]
       /\ \A a \in B : log[a] \in Nat /\ log'[a + 1] = log[a]
  BY <1>6
<1>12. Recent(elapsed) \in SUBSET Ages /\ Earlier(elapsed) \in SUBSET Ages
  BY DEF Recent, Earlier
<1>13. Recent(elapsed') \in SUBSET Ages /\ Earlier(elapsed') \in SUBSET Ages
  BY DEF Recent, Earlier
<1> HIDE DEF A, B
<1>14. SecondsIn(log', Recent(elapsed') \ {0}) = SecondsIn(log, A)
  BY <1>7, <1>9, <1>11, AgesFinite, SumShift
<1>15. SecondsIn(log', Recent(elapsed')) = log'[0] + SecondsIn(log', Recent(elapsed') \ {0})
  <2>1. IsFiniteSet(Recent(elapsed')) /\ \A a \in Recent(elapsed') : log'[a] \in Nat
    BY <1>3, <1>13, AgesFinite
  <2> QED BY <1>9, <2>1, SumRemove
<1>16. SecondsIn(log, A) <= SecondsIn(log, Recent(elapsed)) /\ SecondsIn(log, A) \in Nat
       /\ SecondsIn(log, Recent(elapsed)) \in Nat
  BY <1>3, <1>7, <1>12, LogSums
<1>17. SecondsIn(log', Earlier(elapsed')) = SecondsIn(log, B)
  BY <1>8, <1>10, <1>11, AgesFinite, SumShift
<1>18. SecondsIn(log, B) <= SecondsIn(log, Earlier(elapsed)) /\ SecondsIn(log, B) \in Nat
       /\ SecondsIn(log, Earlier(elapsed)) \in Nat
  BY <1>3, <1>8, <1>12, LogSums
<1>19. SecondsIn(log', Recent(elapsed')) = SecondsIn(log, A)
  BY <1>5, <1>14, <1>15, <1>16
<1>20. acc' = acc /\ Bound' = Bound /\ acc \in Nat /\ Bound \in Nat
  <2>1. acc' = acc /\ overlap' = overlap
    BY DEF Tick
  <2>2. Bound \in Nat
    BY OverrunNat, DutyCycleAssumption DEF Bound
  <2> QED BY <2>1, <2>2 DEF Bound, TypeOK
<1>21. SecondsIn(log, A) <= acc /\ SecondsIn(log, B) <= Bound
  BY <1>16, <1>18, <1>20 DEF AirInv
<1> QED BY <1>5, <1>17, <1>19, <1>20, <1>21, Zenon DEF AirInv

(* A call opens a new window if the last is over; what it records counts. *)
LEMMA CallAir ==
  ASSUME TypeOK, TypeOK', AirInv, WindowBudget, OverrunBounded, OpenWindow,
         overlap => overlap', NEW g \in Nat,
         acc' = WindowAcc + g, log' = [log EXCEPT ![0] = @ + g]
  PROVE  AirInv'
<1>1. /\ Period \in Nat /\ elapsed \in 0 .. Period + 1
      /\ elapsed' = IF Expired THEN 0 ELSE elapsed
  BY PeriodNat DEF TypeOK, OpenWindow
<1>2. log \in [Ages -> Nat] /\ log' \in [Ages -> Nat] /\ 0 \in Ages
  BY PeriodNat DEF TypeOK, Ages
<1>3. log'[0] = log[0] + g /\ \A a \in Ages \ {0} : log'[a] = log[a]
  BY <1>2
<1>4. ~Expired'
  BY <1>1 DEF Expired
<1>5. Bound <= Bound' /\ Bound \in Nat /\ Bound' \in Nat /\ acc \in Nat /\ acc <= Bound
  BY BoundGrows, BoundNat
<1>6. \A e : Recent(e) \in SUBSET Ages /\ Earlier(e) \in SUBSET Ages
  BY DEF Recent, Earlier
<1>7. 0 \in Recent(elapsed') /\ 0 \notin Earlier(elapsed')
  BY <1>1, <1>2 DEF Recent, Earlier
<1>8. SecondsIn(log', Earlier(elapsed')) = SecondsIn(log, Earlier(elapsed'))
  BY <1>3, <1>6, <1>7, SumEqual
<1>9. SecondsIn(log, Earlier(elapsed')) \in Nat /\ SecondsIn(log, Earlier(elapsed')) <= Bound
  <2>1. CASE Expired
    <3>1. Recent(elapsed) = Ages
      BY <1>1, <2>1 DEF Recent, Ages, Expired
    <3>2. Earlier(elapsed') \in SUBSET Recent(elapsed) /\ Recent(elapsed) \in SUBSET Ages
      BY <1>6, <3>1
    <3>3. /\ SecondsIn(log, Earlier(elapsed')) \in Nat /\ SecondsIn(log, Recent(elapsed)) \in Nat
          /\ SecondsIn(log, Earlier(elapsed')) <= SecondsIn(log, Recent(elapsed))
      BY <1>2, <3>2, LogSums
    <3> QED BY <1>5, <3>3 DEF AirInv
  <2>2. CASE ~Expired
    BY <1>1, <1>2, <1>6, <2>2, LogSums DEF AirInv
  <2> QED BY <2>1, <2>2
<1>10. SecondsIn(log', Recent(elapsed')) <= acc'
  <2> DEFINE R == Recent(elapsed')
             rest == SecondsIn(log, R \ {0})
  <2>1. IsFiniteSet(R) /\ \A a \in R : log[a] \in Nat /\ log'[a] \in Nat
    BY <1>2, <1>6, AgesFinite
  <2>2. SecondsIn(log', R) = log'[0] + SecondsIn(log', R \ {0})
    BY <1>7, <2>1, SumRemove
  <2>3. SecondsIn(log, R) = log[0] + rest /\ rest \in Nat
    BY <1>7, <2>1, SumRemove
  <2>4. SecondsIn(log', R \ {0}) = rest
    BY <1>3, <1>6, SumEqual
  <2>5. log[0] \in Nat
    BY <1>2
  <2>6. SecondsIn(log, R) <= WindowAcc
    <3>1. CASE Expired
      <4>1. R = {0}
        BY <1>1, <1>2, <3>1 DEF Recent, Ages
      <4>2. SecondsIn(log, {0}) = log[0] /\ log[0] = 0
        BY <2>5, <3>1, SumSingle DEF AirInv
      <4>3. WindowAcc = 0
        BY <3>1 DEF WindowAcc
      <4> QED BY <4>1, <4>2, <4>3
    <3>2. CASE ~Expired
      BY <1>1, <3>2 DEF WindowAcc, AirInv
    <3> QED BY <3>1, <3>2
  <2>7. WindowAcc \in Nat
    BY <1>5 DEF WindowAcc
  <2> HIDE DEF R, rest
  <2>8. SecondsIn(log', R) = log[0] + g + rest
    BY <1>3, <2>2, <2>4
  <2>9. log[0] + g + rest <= WindowAcc + g
    BY <2>3, <2>5, <2>6, <2>7
  <2> QED BY <2>8, <2>9 DEF R
<1>11. SecondsIn(log, Earlier(elapsed')) <= Bound'
  <2>1. \A x, y, z \in Nat : x <= y /\ y <= z => x <= z
    OBVIOUS
  <2> QED BY <1>5, <1>9, <2>1, Zenon
<1> QED BY <1>4, <1>8, <1>10, <1>11, Zenon DEF AirInv

(* However windows and checks fall, a stretch of the length of the period
   never holds more than what two windows allow. *)
THEOREM TwoWindows == Spec => []TwoWindowsAtMost
<1>1. Init => AirInv
  <2> SUFFICES ASSUME Init PROVE AirInv
    OBVIOUS
  <2>1. \A a \in Ages : log[a] \in Nat /\ log[a] <= 0
    BY DEF Init, Ages
  <2>2. ASSUME NEW A \in SUBSET Ages PROVE SecondsIn(log, A) = 0
    <3>1. IsFiniteSet(A) /\ Cardinality(A) \in Nat
      BY AgesFinite, FS_CardinalityType
    <3>2. \A a \in A : log[a] \in Nat /\ log[a] <= 0
      BY <2>1
    <3>3. SecondsIn(log, A) \in Nat /\ SecondsIn(log, A) <= Cardinality(A) * 0
      BY <3>1, <3>2, SecondsFinite, SumBound
    <3> QED BY <3>1, <3>3
  <2>3. SecondsIn(log, Recent(elapsed)) = 0 /\ SecondsIn(log, Earlier(elapsed)) = 0
    BY <2>2 DEF Recent, Earlier
  <2>4. acc = 0 /\ log[0] = 0
    BY PeriodNat DEF Init
  <2>5. Bound \in Nat
    BY OverrunNat, DutyCycleAssumption DEF Bound
  <2> QED BY <2>3, <2>4, <2>5 DEF AirInv
<1>2. TypeOK /\ TypeOK' /\ WindowBudget /\ OverrunBounded /\ AirInv /\ [Next]_vars
        => AirInv'
  <2> SUFFICES ASSUME TypeOK, TypeOK', WindowBudget, OverrunBounded,
                      AirInv, [Next]_vars
               PROVE  AirInv'
    OBVIOUS
  <2>1. acc \in Nat /\ WindowAcc \in Nat /\ WindowAcc + 0 = WindowAcc
    BY DEF WindowAcc, TypeOK
  <2>2. log = [log EXCEPT ![0] = @ + 0]
    BY PeriodNat DEF TypeOK
  <2>3. CASE Tick
    BY <2>3, TickAir
  <2>4. ASSUME NEW s \in Senders, NEW toa \in Toas,
               CheckAllows(s, toa) \/ CheckBlocks(s, toa)
        PROVE  AirInv'
    <3>1. OpenWindow /\ acc' = WindowAcc /\ log' = log
      BY <2>4 DEF CheckAllows, CheckBlocks
    <3>2. acc' = WindowAcc + 0 /\ log' = [log EXCEPT ![0] = @ + 0] /\ 0 \in Nat
      BY <2>1, <2>2, <3>1
    <3>3. overlap => overlap'
      <4>1. CheckAllows(s, toa) => (overlap => overlap')
        BY Zenon DEF CheckAllows
      <4>2. CheckBlocks(s, toa) => (overlap => overlap')
        BY Zenon DEF CheckBlocks
      <4> QED BY <2>4, <4>1, <4>2
    <3> QED BY <3>1, <3>2, <3>3, CallAir
  <2>5. ASSUME NEW s \in Senders, Record(s)
        PROVE  AirInv'
    <3>1. /\ OpenWindow /\ (overlap => overlap') /\ acc' = WindowAcc + granted[s]
          /\ log' = [log EXCEPT ![0] = @ + granted[s]]
      BY <2>5, Zenon DEF Record
    <3> QED BY <3>1, GrantNat, CallAir
  <2>6. CASE UNCHANGED vars
    BY <2>6 DEF vars, AirInv, Bound, Expired
  <2> QED BY <2>3, <2>4, <2>5, <2>6 DEF Next, Check
<1>3. TypeOK /\ WindowBudget /\ OverrunBounded /\ AirInv => TwoWindowsAtMost
  <2> SUFFICES ASSUME TypeOK, WindowBudget, OverrunBounded, AirInv PROVE TwoWindowsAtMost
    OBVIOUS
  <2> DEFINE R == Recent(elapsed)
             E == Earlier(elapsed)
  <2>1. elapsed \in Int /\ Ages \in SUBSET Int
    <3>1. elapsed \in 0 .. Period + 1
      BY DEF TypeOK
    <3> QED BY <3>1, PeriodNat DEF Ages
  <2>2. R \cup E = Ages /\ R \cap E = {} /\ R \in SUBSET Ages /\ E \in SUBSET Ages
    <3>1. \A a \in Ages : (a <= elapsed \/ a > elapsed) /\ ~(a <= elapsed /\ a > elapsed)
      BY <2>1
    <3> QED BY <3>1 DEF Recent, Earlier
  <2>3. log \in [Ages -> Nat]
    BY DEF TypeOK, Ages
  <2> HIDE DEF R, E
  <2>4. SecondsIn(log, R \cup E) = SecondsIn(log, R) + SecondsIn(log, E)
    BY <2>2, <2>3, AgesFinite, SumSplit
  <2>5. SecondsIn(log, R) \in Nat /\ SecondsIn(log, E) \in Nat
    BY <2>2, <2>3, LogSums
  <2>6. AirTime = SecondsIn(log, R) + SecondsIn(log, E)
    BY <2>2, <2>4 DEF AirTime, Ages
  <2>7. SecondsIn(log, R) <= acc /\ SecondsIn(log, E) <= Bound
    BY DEF AirInv, R, E
  <2>8. AirTime <= 2 * Bound
    BY <2>5, <2>6, <2>7, BoundNat
  <2> QED BY <2>8 DEF Bound, TwoWindowsAtMost
<1> QED BY <1>1, <1>2, <1>3, TrackerTypeCorrect, BudgetKept, OverrunKept, PTL DEF Spec
=============================================================================
