--------------------------- MODULE HandoverTrigger ---------------------------
(***************************************************************************)
(* When a user changes cells in mini-handover-mobility: the measurement     *)
(* loop of demos/demo_handover_trace.c over event A3 and the time to        *)
(* trigger, ping-pong detection on the history of handovers, and the        *)
(* corrections of mobility robustness optimisation (MRO), which turn the    *)
(* parameters of the loop while it runs; the number of samples required is  *)
(* taken from the time to trigger of the moment.                            *)
(*                                                                          *)
(* Levels are what the L3 filter returns, in steps of 1 dB.  Time passes in *)
(* measurement periods; the time to trigger is kept in whole milliseconds.  *)
(***************************************************************************)
EXTENDS Integers, Sequences

CONSTANTS
  CellIds,        \* indices into the table of cells
  Levels,         \* filtered levels of a cell
  Hys,            \* hysteresis
  Offset0,        \* A3 offset the loop starts with
  OffsetLimit,    \* 30
  CioLimit,       \* 24
  Ttt0,           \* time to trigger the loop starts with
  TttMin,         \* 40
  TttMax,         \* 5120
  Period,         \* 40: one measurement period
  Window,         \* ping-pong window, in periods
  HistLen,        \* handovers the caller remembers
  AgeCap,         \* bound on ages: what is older counts as that old
  MaxCorrections  \* bound on MRO corrections

ASSUME TriggerAssumption ==
  /\ CellIds \subseteq Nat
  /\ \E c, d \in CellIds : c # d
  /\ Levels \subseteq Int
  /\ Hys \in Nat /\ OffsetLimit \in Nat /\ CioLimit \in Nat
  /\ Offset0 \in -OffsetLimit .. OffsetLimit
  /\ TttMin \in Nat /\ TttMax \in Nat /\ Ttt0 \in TttMin .. TttMax
  /\ Period \in Nat \ {0}
  /\ Period <= TttMin
  /\ Window \in Nat /\ HistLen \in Nat \ {0} /\ MaxCorrections \in Nat
  /\ AgeCap \in Nat
  /\ Window <= AgeCap
  /\ \A t \in TttMin .. TttMax : t \div Period <= AgeCap

VARIABLES
  level,       \* filtered_rsrp
  serving,     \* serving_idx
  counter,     \* ttt_counter
  ttt,         \* ttt_ms
  offset,      \* a3_offset_db
  cio,         \* offset of the neighbours, as MRO leaves it
  hist,        \* handovers, newest first: the cell, and the periods since
  flagged,     \* what ho_detect_pingpong said of the last handover
  elapsed,     \* periods since the last handover
  away,        \* history: per cell, periods since the user left it
  returned,    \* history: the last handover went to a cell left within the window
  corrections  \* history: MRO corrections made

params == <<ttt, offset, cio>>
hoVars == <<level, serving, counter, params, hist, flagged, elapsed, away,
            returned, corrections>>

Older(age) == IF age < AgeCap THEN age + 1 ELSE AgeCap

HoInit == /\ level \in [CellIds -> Levels]
          /\ serving \in CellIds
          /\ counter = 0
          /\ ttt = Ttt0 /\ offset = Offset0 /\ cio = 0
          /\ hist = <<>>
          /\ flagged = FALSE /\ returned = FALSE
          /\ elapsed = 0
          /\ away = [c \in CellIds |-> AgeCap]
          /\ corrections = 0

-----------------------------------------------------------------------------
(* The strongest neighbour, the first one if there are several. *)
Best(b) == /\ b # serving
           /\ \A c \in CellIds \ {serving} :
                level[c] < level[b] \/ (level[c] = level[b] /\ b <= c)

(* Mutant: the hysteresis is left out. *)
EntryNoHys(b) == level[b] + cio > level[serving] + offset

(* ho_decision_event_a3: the entering condition, frequency offsets cancelled. *)
Entry(b) == level[b] + cio - Hys > level[serving] + offset

(* Mutant: the counter is set where it should be advanced. *)
CountOnce(b) == IF Entry(b) THEN 1 ELSE 0

Count(b) == IF Entry(b) THEN counter + 1 ELSE 0

Required == ttt \div Period

(* Mutant: the window is not looked at. *)
PingPongEver(h) == \E j \in 2 .. Len(h) : h[j].cell = h[1].cell

(* ho_detect_pingpong, asked at the newest handover, from which ages count: the
   last handover to the same cell is in the window. *)
PingPong(h) ==
  \E j \in 2 .. Len(h) :
    /\ h[j].cell = h[1].cell
    /\ \A i \in 2 .. j - 1 : h[i].cell # h[1].cell
    /\ h[j].age \in 1 .. Window - 1

-----------------------------------------------------------------------------
(* A period passes for every handover in the history. *)
Aged == [j \in DOMAIN hist |-> [hist[j] EXCEPT !.age = Older(@)]]

(* An iteration of the loop that leaves the user where it is. *)
Measure ==
  /\ \E b \in CellIds : Best(b) /\ Count(b) < Required /\ counter' = Count(b)
  /\ elapsed' = Older(elapsed)
  /\ away' = [c \in CellIds |-> Older(away[c])]
  /\ hist' = Aged
  /\ UNCHANGED <<level, serving, params, flagged, returned, corrections>>

(* What a handover to b leaves of the history: the oldest entry goes. *)
Remembered(b) ==
  <<[cell |-> b, age |-> 0]>>
    \o SubSeq(Aged, 1, IF Len(hist) < HistLen THEN Len(hist) ELSE HistLen - 1)

(* Mutant: the counter runs on across a handover. *)
HandoverKeepsCount(b) ==
  /\ Best(b) /\ Count(b) >= Required
  /\ counter' = Count(b)
  /\ serving' = b
  /\ hist' = Remembered(b)
  /\ flagged' = PingPong(hist')
  /\ returned' = (Older(away[b]) < Window)
  /\ elapsed' = 0
  /\ away' = [c \in CellIds |-> IF c = serving THEN 0 ELSE Older(away[c])]
  /\ UNCHANGED <<level, params, corrections>>

(* An iteration that hands the user over, to the cell that is best now. *)
Handover(b) ==
  /\ Best(b) /\ Count(b) >= Required
  /\ counter' = 0
  /\ serving' = b
  /\ hist' = Remembered(b)
  /\ flagged' = PingPong(hist')
  /\ returned' = (Older(away[b]) < Window)
  /\ elapsed' = 0
  /\ away' = [c \in CellIds |-> IF c = serving THEN 0 ELSE Older(away[c])]
  /\ UNCHANGED <<level, params, corrections>>

(* The user moves, or the shadowing changes. *)
Fade ==
  /\ \E c \in CellIds, l \in Levels : level' = [level EXCEPT ![c] = l]
  /\ UNCHANGED <<serving, counter, params, hist, flagged, elapsed, away,
                 returned, corrections>>

-----------------------------------------------------------------------------
Reports == [before : BOOLEAN, after : BOOLEAN, source : BOOLEAN, other : BOOLEAN]

(* ho_mro_diagnose of a radio link failure report *)
Diagnose(r) ==
  IF r.before THEN "too_late"
  ELSE IF r.after /\ r.source THEN "too_early"
  ELSE IF r.after /\ r.other THEN "wrong_cell"
  ELSE "none"

Limit(x, lo, hi) == IF x < lo THEN lo ELSE IF x > hi THEN hi ELSE x

(* ho_mro_correct *)
Correct ==
  /\ corrections < MaxCorrections
  /\ corrections' = corrections + 1
  /\ \E r \in Reports :
       LET problem == Diagnose(r) IN
       /\ problem # "none"
       /\ ttt' = Limit(CASE problem = "too_late"   -> ttt \div 2
                         [] problem = "too_early"  -> 2 * ttt
                         [] problem = "wrong_cell" -> (3 * ttt) \div 2,
                       TttMin, TttMax)
       /\ offset' = Limit(IF problem = "too_late" THEN offset - 1 ELSE offset,
                          -OffsetLimit, OffsetLimit)
       /\ cio' = Limit(CASE problem = "too_early"  -> cio - 1
                         [] problem = "wrong_cell" -> cio - 2
                         [] OTHER                  -> cio,
                       -CioLimit, CioLimit)
  /\ UNCHANGED <<level, serving, counter, hist, flagged, elapsed, away, returned>>

Iteration == Measure \/ \E b \in CellIds : Handover(b)

HoNext == Iteration \/ Fade \/ Correct

HoSpec == HoInit /\ [][HoNext]_hoVars

(* The loop goes on: it makes an iteration in every measurement period. *)
HoFairSpec == HoSpec /\ WF_hoVars(Iteration)

-----------------------------------------------------------------------------
(* Properties *)

HoTypeOK ==
  /\ level \in [CellIds -> Levels]
  /\ serving \in CellIds
  /\ counter \in 0 .. AgeCap
  /\ ttt \in TttMin .. TttMax
  /\ offset \in -OffsetLimit .. OffsetLimit
  /\ cio \in -CioLimit .. CioLimit
  /\ hist \in Seq([cell : CellIds, age : 0 .. AgeCap]) /\ Len(hist) <= HistLen
  /\ flagged \in BOOLEAN /\ returned \in BOOLEAN
  /\ elapsed \in 0 .. AgeCap
  /\ away \in [CellIds -> 0 .. AgeCap]
  /\ corrections \in 0 .. MaxCorrections

(* Handovers are a time to trigger apart, whichever neighbours asked for them
   and however MRO turned the parameters in between. *)
Spaced == [][serving' # serving => Older(elapsed) >= Required]_hoVars

Margin == offset + Hys - cio

(* While nothing changes on the air the user comes to rest, provided that MRO
   has not turned the offsets into an invitation to leave every cell. *)
Settles ==
  <>[][UNCHANGED level]_level /\ <>[](Margin >= 0)
    => <>[][UNCHANGED serving]_serving

Wanted == \E b \in CellIds : Best(b) /\ Entry(b)

(* A better cell is not looked at for ever: the user moves or stops wanting. *)
NotStuck == []<>(~Wanted) \/ []<><<serving' # serving>>_serving

(* A handover that is flagged as a ping-pong went to a cell that the user had
   left within the window. *)
NoFalseAlarm == flagged => returned

(* The header: "Handover from cell A to B, then back to A within T_pingpong",
   for a user whose handover to A is still in the history. *)
PingPongFlagged ==
  returned /\ Len(hist) >= 3 /\ hist[3].cell = serving => flagged
=============================================================================
