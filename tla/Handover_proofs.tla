--------------------------- MODULE Handover_proofs ---------------------------
(***************************************************************************)
(* When a handover is decided, by the two parts of the code that decide it, *)
(* how it is carried out, and what assists it.                              *)
(***************************************************************************)
EXTENDS HandoverTrigger, CellHandover, X2Handover, NetworkSelection, SequenceTheorems, TLAPS

-----------------------------------------------------------------------------
(***************************************************************************)
(* What the decision engine does with reports that list every neighbour in  *)
(* its own place: it asks for a handover with the report that completes the *)
(* time to trigger of a cell, and to no other cell.  The engine counts by   *)
(* place, the properties by cell: that the two counts agree is the          *)
(* invariant.                                                               *)
(***************************************************************************)

LEMMA SamplesType == /\ Samples \in Nat /\ Samples > 0
                     /\ 0 \in 0 .. Samples /\ [i \in Places |-> 0] \in [Places -> 0 .. Samples]
<1>1. Samples \in Nat /\ Samples > 0
  <2>1. Samples \in Nat \ {0}
    BY EngineAssumption, Zenon
  <2> QED BY <2>1
<1>2. 0 \in 0 .. Samples
  BY <1>1
<1> QED BY <1>1, <1>2

LEMMA OneMoreType == ASSUME NEW n \in 0 .. Samples PROVE OneMore(n) \in 1 .. Samples
  BY SamplesType DEF OneMore

LEMMA CountedType ==
  ASSUME NEW r, count \in [Places -> 0 .. Samples]
  PROVE  Counted(r) \in [Places -> 0 .. Samples]
<1>1. \A i \in Places : OneMore(count[i]) \in 0 .. Samples /\ count[i] \in 0 .. Samples
  BY OneMoreType
<1> QED BY <1>1, SamplesType DEF Counted

LEMMA EngineInitType == EngineInit => EngineTypeOK
  BY SamplesType DEF EngineInit, EngineTypeOK, Places

LEMMA ProcessType ==
  ASSUME EngineTypeOK, NEW r \in MeasReports, ho_process_measurement(r)
  PROVE  EngineTypeOK'
<1>1. count' \in [Places -> 0 .. Samples]
  BY CountedType DEF ho_process_measurement, EngineTypeOK
<1>2. answer' \in BOOLEAN
  BY Zenon DEF ho_process_measurement
<1>3. target' \in Neighbours \cup {0}
  <2>1. ASSUME NEW i \in Places, Chosen(r, i) PROVE r[i].id \in Neighbours
    <3>1. i \in DOMAIN r
      BY <2>1 DEF Chosen, Triggered
    <3>2. PICK n \in 0 .. Cardinality(Neighbours) : r \in [1 .. n -> Measurements]
      BY DEF MeasReports
    <3>3. r[i] \in Measurements
      BY <3>1, <3>2
    <3> QED BY <3>3 DEF Measurements
  <2> QED BY <2>1 DEF ho_process_measurement, EngineTypeOK
<1>4. held' \in [Neighbours -> 0 .. Samples]
  <2>1. \A c \in Neighbours : OneMore(held[c]) \in 0 .. Samples
    BY OneMoreType DEF EngineTypeOK
  <2> QED BY <2>1, SamplesType DEF ho_process_measurement
<1>5. samples' \in {0, Samples}
  BY DEF ho_process_measurement, EngineTypeOK
<1> QED BY <1>1, <1>2, <1>3, <1>4, <1>5 DEF EngineTypeOK

LEMMA EngineNextType == EngineTypeOK /\ [EngineNext]_engineVars => EngineTypeOK'
<1> SUFFICES ASSUME EngineTypeOK, [EngineNext]_engineVars PROVE EngineTypeOK'
  OBVIOUS
<1>1. ASSUME NEW r \in MeasReports, ho_process_measurement(r) PROVE EngineTypeOK'
  BY <1>1, ProcessType
<1>2. ASSUME NEW c \in Neighbours, ho_set_target(c) PROVE EngineTypeOK'
  BY <1>2 DEF ho_set_target, EngineTypeOK
<1>3. CASE ho_reset_engine
  BY <1>3, SamplesType DEF ho_reset_engine, EngineTypeOK, Places
<1>4. CASE ho_config_init_default
  BY <1>4 DEF ho_config_init_default, EngineTypeOK
<1>5. CASE UNCHANGED engineVars
  BY <1>5 DEF engineVars, EngineTypeOK
<1> QED BY <1>1, <1>2, <1>3, <1>4, <1>5 DEF EngineNext

(* The engine keeps its types, whatever is reported, set and configured. *)
THEOREM EngineTypeCorrect == EngineSpec => []EngineTypeOK
  BY EngineInitType, EngineNextType, PTL DEF EngineSpec

-----------------------------------------------------------------------------
(* A place stands for its cell. *)
Agrees == \A c \in Neighbours : count[c] = held[c]

(* In a report of fixed order a cell is better exactly when its place is. *)
LEMMA InPlaceBetter ==
  ASSUME NEW r, InPlace(r), NEW c \in Neighbours
  PROVE  /\ c \in DOMAIN r /\ r[c].detected
         /\ Better(r, c) <=> A3(r[c])
  BY DEF InPlace, Better, Places

LEMMA ProcessAgrees ==
  ASSUME EngineTypeOK, Agrees, NEW r, InPlace(r), ho_process_measurement(r)
  PROVE  Agrees'
<1> SUFFICES ASSUME NEW c \in Neighbours PROVE count'[c] = held'[c]
  BY DEF Agrees
<1>1. count'[c] = IF A3(r[c]) THEN OneMore(count[c]) ELSE 0
  BY InPlaceBetter DEF ho_process_measurement, Counted, Places
<1>2. held'[c] = IF A3(r[c]) THEN OneMore(held[c]) ELSE 0
  BY InPlaceBetter DEF ho_process_measurement
<1> QED BY <1>1, <1>2 DEF Agrees

(* The cell that is chosen has been better for as long as it takes. *)
LEMMA ProcessHeld ==
  ASSUME EngineTypeOK, Agrees, NEW r \in MeasReports, InPlace(r), ho_process_measurement(r)
  PROVE  TargetHeld'
<1> SUFFICES ASSUME answer', samples' > 0
             PROVE  target' \in Neighbours /\ held'[target'] = Samples
  BY DEF TargetHeld
<1>1. PICK i \in Places : Chosen(r, i) /\ target' = r[i].id
  BY DEF ho_process_measurement
<1>2. target' = i /\ i \in Neighbours
  BY <1>1 DEF InPlace, Places
<1>3. samples = Samples
  BY DEF ho_process_measurement, EngineTypeOK
<1>4. Counted(r)[i] >= Samples
  BY <1>1, <1>3 DEF Chosen, Triggered
<1>5. Counted(r)[i] \in 0 .. Samples
  BY <1>1, CountedType DEF EngineTypeOK
<1>6. count'[i] = Samples
  <2>1. Counted(r)[i] = Samples
    BY <1>4, <1>5, SamplesType
  <2> QED BY <2>1, Zenon DEF ho_process_measurement
<1>7. count'[i] = held'[i]
  BY <1>2, ProcessAgrees DEF Agrees
<1> QED BY <1>2, <1>6, <1>7

EngineInv == EngineTypeOK /\ Agrees /\ TargetHeld

LEMMA EngineInitInv == EngineInit => EngineInv
  BY EngineInitType DEF EngineInit, EngineInv, Agrees, TargetHeld, Places

LEMMA EngineNextInv == Stable /\ EngineInv /\ [EngineNext]_engineVars => EngineInv'
<1> SUFFICES ASSUME Stable, EngineInv, [EngineNext]_engineVars PROVE EngineInv'
  OBVIOUS
<1>1. EngineTypeOK'
  BY EngineNextType DEF EngineInv
<1>2. ASSUME NEW r \in MeasReports, ho_process_measurement(r) PROVE Agrees' /\ TargetHeld'
  <2>1. InPlace(r)
    BY <1>2 DEF ho_process_measurement
  <2> QED BY <1>2, <2>1, ProcessAgrees, ProcessHeld DEF EngineInv
<1>3. ASSUME NEW c \in Neighbours, ho_set_target(c) PROVE Agrees' /\ TargetHeld'
  <2>1. Agrees'
    BY <1>3, Zenon DEF ho_set_target, EngineInv, Agrees
  <2>2. ~ answer'
    BY <1>3, Zenon DEF ho_set_target
  <2> QED BY <2>1, <2>2, Zenon DEF TargetHeld
<1>4. ASSUME ho_reset_engine PROVE Agrees' /\ TargetHeld'
  <2>1. Agrees'
    BY <1>4 DEF ho_reset_engine, Agrees, Places
  <2>2. ~ (samples' > 0)
    BY <1>4 DEF ho_reset_engine
  <2> QED BY <2>1, <2>2 DEF TargetHeld
<1>5. ASSUME ho_config_init_default PROVE Agrees' /\ TargetHeld'
  <2>1. Agrees'
    BY <1>5, Zenon DEF ho_config_init_default, EngineInv, Agrees
  <2>2. ~ answer'
    BY <1>5, Zenon DEF ho_config_init_default
  <2> QED BY <2>1, <2>2, Zenon DEF TargetHeld
<1>6. ASSUME UNCHANGED engineVars PROVE Agrees' /\ TargetHeld'
  BY <1>6, Zenon DEF engineVars, EngineInv, Agrees, TargetHeld
<1>7. Agrees' /\ TargetHeld'
  BY <1>2, <1>3, <1>4, <1>5, <1>6 DEF EngineNext
<1> QED BY <1>1, <1>7 DEF EngineInv

(* With reports of fixed order a handover is asked for only to a cell that was
   better in every report of the time to trigger. *)
THEOREM Held == ASSUME Stable PROVE EngineSpec => []TargetHeld
<1>1. EngineInv /\ [EngineNext]_engineVars => EngineInv'
  BY EngineNextInv
<1> QED BY <1>1, EngineInitInv, PTL DEF EngineSpec, EngineInv

(* With reports of fixed order no cell's time to trigger passes unanswered,
   however often the engine was set, reset and configured. *)
THEOREM Answered == ASSUME Stable PROVE EngineSpec => NoneMissed
<1>1. EngineInv /\ [EngineNext]_engineVars
        => [(\E c \in Neighbours : held[c] # held'[c] /\ held'[c] = Samples) => answer']_engineVars
  <2> SUFFICES ASSUME EngineInv, EngineNext,
                      NEW c \in Neighbours, held[c] # held'[c], held'[c] = Samples
               PROVE  answer'
    OBVIOUS
  <2>1. ~ ho_reset_engine
    <3>1. ho_reset_engine => held'[c] = 0
      BY DEF ho_reset_engine
    <3>2. Samples # 0
      BY SamplesType
    <3> QED BY <3>1, <3>2
  <2>2. PICK r \in MeasReports : ho_process_measurement(r)
    BY <2>1 DEF EngineNext, ho_set_target, ho_config_init_default
  <2>3. InPlace(r)
    BY <2>2 DEF ho_process_measurement
  <2>4. count'[c] = Samples
    BY <2>2, <2>3, ProcessAgrees DEF EngineInv, Agrees
  <2>5. Counted(r)[c] >= samples
    <3>1. samples = 0 \/ samples = Samples
      BY DEF EngineInv, EngineTypeOK
    <3>2. Counted(r)[c] = Samples
      BY <2>2, <2>4, Zenon DEF ho_process_measurement
    <3> QED BY <3>1, <3>2, SamplesType
  <2>6. c \in Triggered(r)
    BY <2>3, <2>5, InPlaceBetter DEF Triggered
  <2> QED BY <2>2, <2>6, Zenon DEF ho_process_measurement
<1>2. EngineInv /\ [EngineNext]_engineVars => EngineInv'
  BY EngineNextInv
<1> QED BY <1>1, <1>2, EngineInitInv, PTL DEF EngineSpec, NoneMissed

-----------------------------------------------------------------------------
(***************************************************************************)
(* For any cells, levels, parameters and corrections of them, handovers are *)
(* a time to trigger apart: the counter of the loop is no older than the    *)
(* last handover, which is what HoTypeOK lacks to be inductive for this.    *)
(* And a ping-pong is reported only of a user that left the cell within the *)
(* window: a cell of the history was left later than the user came to it.   *)
(***************************************************************************)

USE TriggerAssumption

LEMMA OlderType == ASSUME NEW a \in 0 .. AgeCap PROVE Older(a) \in 0 .. AgeCap
  BY DEF Older

(* Ages of all cells move on together. *)
LEMMA AwayType ==
  ASSUME away \in [CellIds -> 0 .. AgeCap]
  PROVE  /\ [c \in CellIds |-> Older(away[c])] \in [CellIds -> 0 .. AgeCap]
         /\ [c \in CellIds |-> IF c = serving THEN 0 ELSE Older(away[c])]
              \in [CellIds -> 0 .. AgeCap]
<1>1. \A c \in CellIds : Older(away[c]) \in 0 .. AgeCap
  BY OlderType
<1>2. 0 \in 0 .. AgeCap
  OBVIOUS
<1> QED BY <1>1, <1>2

(* What MRO asks for ends up within the limits. *)
LEMMA LimitType ==
  ASSUME NEW x \in Int, NEW lo \in Int, NEW hi \in Int, lo <= hi
  PROVE  Limit(x, lo, hi) \in lo .. hi
  BY DEF Limit

(* At least one sample is required, and never more than ages can count. *)
LEMMA RequiredRange == ASSUME ttt \in TttMin .. TttMax PROVE Required \in 1 .. AgeCap
<1>1. ttt \in Nat /\ Period \in Nat \ {0} /\ Period <= ttt
  OBVIOUS
<1>2. \A t \in Nat, p \in Nat \ {0} : p <= t => t \div p \in Nat \ {0}
  OBVIOUS
<1>3. Required \in Nat \ {0}
  BY <1>1, <1>2 DEF Required
<1>4. Required <= AgeCap
  BY DEF Required
<1> QED BY <1>3, <1>4

(* What the history looks like a period later. *)
LEMMA AgedType ==
  ASSUME HoTypeOK
  PROVE  /\ Aged \in Seq([cell : CellIds, age : 0 .. AgeCap])
         /\ Len(Aged) = Len(hist)
         /\ \A j \in 1 .. Len(hist) : /\ Aged[j].cell = hist[j].cell
                                      /\ Aged[j].age = Older(hist[j].age)
<1> DEFINE Entries == [cell : CellIds, age : 0 .. AgeCap]
<1>1. /\ hist \in Seq(Entries) /\ Len(hist) \in Nat
      /\ DOMAIN hist = 1 .. Len(hist)
  <2>1. hist \in Seq(Entries)
    BY Zenon DEF HoTypeOK
  <2> HIDE DEF Entries
  <2> QED BY <2>1, LenProperties, Zenon
<1>2. \A j \in 1 .. Len(hist) : hist[j] \in Entries
  <2> HIDE DEF Entries
  <2> QED BY <1>1, ElementOfSeq, Zenon
<1>3. \A e \in Entries : /\ [e EXCEPT !.age = Older(@)] \in Entries
                         /\ [e EXCEPT !.age = Older(@)].cell = e.cell
                         /\ [e EXCEPT !.age = Older(@)].age = Older(e.age)
  BY OlderType
<1> HIDE DEF Entries
<1>4. Aged = [j \in 1 .. Len(hist) |-> [hist[j] EXCEPT !.age = Older(@)]]
  BY <1>1 DEF Aged
<1>5. \A j \in 1 .. Len(hist) : Aged[j] = [hist[j] EXCEPT !.age = Older(@)]
  BY <1>4
<1>6. \A j \in 1 .. Len(hist) : Aged[j] \in Entries
  BY <1>2, <1>3, <1>5, Zenon
<1>7. Aged \in [1 .. Len(hist) -> Entries]
  BY <1>4, <1>6
<1>8. Aged \in Seq(Entries) /\ Len(Aged) = Len(hist)
  <2> HIDE TriggerAssumption
  <2> HIDE DEF HoTypeOK
  <2>1. Aged \in Seq(Entries)
    BY <1>1, <1>7
  <2>2. DOMAIN Aged = 1 .. Len(hist)
    BY <1>4
  <2> QED BY <1>1, <2>1, <2>2
<1> QED BY <1>2, <1>3, <1>5, <1>8, Zenon DEF Entries

(* The history takes the handover in and stays within its length; behind the
   new entry stand those of before, a period older. *)
LEMMA RememberedType ==
  ASSUME HoTypeOK, NEW b \in CellIds
  PROVE  /\ Remembered(b) \in Seq([cell : CellIds, age : 0 .. AgeCap])
         /\ Len(Remembered(b)) \in 1 .. HistLen
         /\ Remembered(b)[1] = [cell |-> b, age |-> 0]
         /\ \A j \in 2 .. Len(Remembered(b)) :
              /\ j - 1 \in 1 .. Len(hist)
              /\ Remembered(b)[j].cell = hist[j - 1].cell
              /\ Remembered(b)[j].age = Older(hist[j - 1].age)
<1> DEFINE Entries == [cell : CellIds, age : 0 .. AgeCap]
           entry == [cell |-> b, age |-> 0]
           n == IF Len(hist) < HistLen THEN Len(hist) ELSE HistLen - 1
           tail == SubSeq(Aged, 1, n)
<1>1. entry \in Entries
  OBVIOUS
<1>2. Aged \in Seq(Entries) /\ Len(Aged) = Len(hist) /\ Len(hist) \in Nat /\ Len(hist) <= HistLen
  <2>1. Aged \in Seq(Entries) /\ Len(Aged) = Len(hist)
    BY AgedType, Zenon
  <2>2. hist \in Seq(Entries) /\ Len(hist) <= HistLen
    BY Zenon DEF HoTypeOK
  <2> HIDE DEF Entries
  <2> QED BY <2>1, <2>2, LenProperties, Zenon
<1>3. n \in 0 .. Len(hist) /\ n <= HistLen - 1
  BY <1>2
<1> HIDE DEF Entries, entry, n
<1>4. /\ tail \in Seq(Entries) /\ Len(tail) = n
      /\ \A i \in 1 .. n : tail[i] = Aged[i]
  <2>1. n <= Len(Aged) /\ n \in Nat
    BY <1>2, <1>3
  <2>2. \A i \in 1 .. n : Aged[i] \in Entries
    BY <1>2, <2>1, ElementOfSeq
  <2>3. /\ SubSeq(Aged, 1, n) \in Seq(Entries)
        /\ Len(SubSeq(Aged, 1, n)) = IF 1 <= n THEN n - 1 + 1 ELSE 0
        /\ \A i \in 1 .. n - 1 + 1 : SubSeq(Aged, 1, n)[i] = Aged[1 + i - 1]
    <3>1. 1 \in Int /\ n \in Int
      BY <2>1
    <3> HIDE TriggerAssumption
    <3> HIDE DEF tail
    <3> QED BY <2>2, <3>1, SubSeqProperties
  <2>4. /\ \A i \in 1 .. n : 1 + i - 1 = i
        /\ n - 1 + 1 = n /\ (IF 1 <= n THEN n - 1 + 1 ELSE 0) = n
    BY <2>1
  <2> QED BY <2>3, <2>4, Zenon
<1> HIDE DEF tail
<1>5. <<entry>> \in Seq(Entries) /\ Len(<<entry>>) = 1 /\ <<entry>>[1] = entry
  BY <1>1
<1>6. /\ <<entry>> \o tail \in Seq(Entries)
      /\ Len(<<entry>> \o tail) = 1 + n
      /\ \A j \in 1 .. 1 + n :
           (<<entry>> \o tail)[j] = IF j <= 1 THEN <<entry>>[j] ELSE tail[j - 1]
  <2>1. /\ <<entry>> \o tail \in Seq(Entries)
        /\ Len(<<entry>> \o tail) = Len(<<entry>>) + Len(tail)
        /\ \A j \in 1 .. Len(<<entry>>) + Len(tail) :
             (<<entry>> \o tail)[j] =
               IF j <= Len(<<entry>>) THEN <<entry>>[j] ELSE tail[j - Len(<<entry>>)]
    BY <1>4, <1>5, ConcatProperties, Zenon
  <2>2. Len(<<entry>>) = 1 /\ Len(tail) = n
    BY <1>4, <1>5, Zenon
  <2> QED BY <2>1, <2>2, Zenon
<1>7. Remembered(b) = <<entry>> \o tail
  BY DEF Remembered, entry, n, tail
<1>8. 1 + n \in 1 .. HistLen
  BY <1>2, <1>3
<1>9. Remembered(b)[1] = entry
  BY <1>3, <1>5, <1>6, <1>7
<1>10. ASSUME NEW j \in 2 .. Len(Remembered(b))
       PROVE  /\ j - 1 \in 1 .. Len(hist)
              /\ Remembered(b)[j] = Aged[j - 1]
  <2>1. j \in 2 .. 1 + n
    BY <1>6, <1>7
  <2>2. j - 1 \in 1 .. n /\ j \in 1 .. 1 + n /\ ~(j <= 1) /\ j - 1 \in 1 .. Len(hist)
    BY <1>2, <1>3, <2>1
  <2> QED BY <1>4, <1>6, <1>7, <2>2
<1>11. \A j \in 2 .. Len(Remembered(b)) :
          /\ j - 1 \in 1 .. Len(hist)
          /\ Remembered(b)[j].cell = hist[j - 1].cell
          /\ Remembered(b)[j].age = Older(hist[j - 1].age)
  BY <1>10, AgedType, Zenon
<1> QED BY <1>6, <1>7, <1>8, <1>9, <1>11, Zenon DEF Entries, entry

-----------------------------------------------------------------------------
(* The counter does not go back behind the last handover. *)
Fresh == counter <= elapsed

IInv == HoTypeOK /\ Fresh

LEMMA InitInv == HoInit => IInv
<1> SUFFICES ASSUME HoInit PROVE IInv
  OBVIOUS
<1>1. hist \in Seq([cell : CellIds, age : 0 .. AgeCap]) /\ Len(hist) = 0
  BY DEF HoInit
<1>2. flagged \in BOOLEAN /\ returned \in BOOLEAN
  BY Zenon DEF HoInit
<1>3. /\ elapsed \in 0 .. AgeCap /\ corrections \in 0 .. MaxCorrections
      /\ counter \in 0 .. AgeCap /\ counter <= elapsed
      /\ cio \in -CioLimit .. CioLimit
      /\ away \in [CellIds -> 0 .. AgeCap] /\ 0 <= HistLen
  BY DEF HoInit
<1> QED BY <1>1, <1>2, <1>3 DEF HoInit, IInv, HoTypeOK, Fresh

(* A sample counts for one, and only since the last handover. *)
LEMMA CountRange ==
  ASSUME IInv, NEW b
  PROVE  Count(b) \in Nat /\ (Count(b) <= AgeCap => Count(b) <= Older(elapsed))
<1>1. counter \in 0 .. AgeCap /\ elapsed \in 0 .. AgeCap /\ counter <= elapsed
  BY DEF IInv, HoTypeOK, Fresh
<1>2. Count(b) = 0 \/ Count(b) = counter + 1
  BY DEF Count
<1>3. Older(elapsed) = AgeCap \/ Older(elapsed) = elapsed + 1
  BY DEF Older
<1>4. AgeCap \in Nat
  OBVIOUS
<1> HIDE TriggerAssumption
<1> QED BY <1>1, <1>2, <1>3, <1>4

LEMMA MeasureInv == IInv /\ Measure => IInv'
<1> SUFFICES ASSUME IInv, Measure PROVE IInv'
  OBVIOUS
<1>1. PICK b \in CellIds : Best(b) /\ Count(b) < Required /\ counter' = Count(b)
  BY DEF Measure
<1>2. Required \in 1 .. AgeCap
  BY RequiredRange DEF IInv, HoTypeOK
<1>3. counter' \in 0 .. AgeCap /\ counter' <= elapsed'
  <2>1. Count(b) \in Nat /\ (Count(b) <= AgeCap => Count(b) <= Older(elapsed))
    BY CountRange
  <2>2. Count(b) \in 0 .. AgeCap /\ Count(b) <= Older(elapsed)
    BY <1>1, <1>2, <2>1
  <2>3. elapsed' = Older(elapsed)
    BY DEF Measure
  <2> QED BY <1>1, <2>2, <2>3, Zenon
<1>4. elapsed' \in 0 .. AgeCap /\ away' \in [CellIds -> 0 .. AgeCap]
  <2>1. elapsed \in 0 .. AgeCap /\ away \in [CellIds -> 0 .. AgeCap]
    BY DEF IInv, HoTypeOK
  <2>2. /\ elapsed' = Older(elapsed)
        /\ away' = [c \in CellIds |-> Older(away[c])]
    BY DEF Measure
  <2> QED BY <2>1, <2>2, OlderType, AwayType, Zenon
<1>5. /\ hist' \in Seq([cell : CellIds, age : 0 .. AgeCap])
      /\ Len(hist') <= HistLen
  <2>1. hist' = Aged
    BY DEF Measure
  <2>2. HoTypeOK /\ Len(hist) <= HistLen
    BY DEF IInv, HoTypeOK
  <2> QED BY <2>1, <2>2, AgedType, Zenon
<1> QED BY <1>3, <1>4, <1>5 DEF Measure, IInv, HoTypeOK, Fresh, params

LEMMA HandoverInv ==
  ASSUME IInv, NEW b \in CellIds, Handover(b) PROVE IInv'
<1>1. /\ hist' \in Seq([cell : CellIds, age : 0 .. AgeCap])
      /\ Len(hist') <= HistLen
  <2>1. \A n \in 1 .. HistLen : n <= HistLen
    OBVIOUS
  <2> QED BY <2>1, RememberedType, Zenon DEF Handover, IInv
<1>2. flagged' \in BOOLEAN /\ returned' \in BOOLEAN
  <2>1. \A h : PingPong(h) \in BOOLEAN
    BY Zenon DEF PingPong
  <2>2. (Older(away[b]) < Window) \in BOOLEAN
    OBVIOUS
  <2> QED BY <2>1, <2>2, Zenon DEF Handover
<1>3. away' \in [CellIds -> 0 .. AgeCap]
  BY AwayType, Zenon DEF Handover, IInv, HoTypeOK
<1>4. 0 \in 0 .. AgeCap /\ 0 <= 0
  OBVIOUS
<1>5. counter' \in 0 .. AgeCap /\ elapsed' \in 0 .. AgeCap /\ counter' <= elapsed'
  BY <1>4, Zenon DEF Handover
<1> QED BY <1>1, <1>2, <1>3, <1>5, Zenon DEF Handover, IInv, HoTypeOK, Fresh, params

LEMMA CorrectInv == IInv /\ Correct => IInv'
<1> SUFFICES ASSUME IInv, Correct PROVE IInv'
  OBVIOUS
<1>1. PICK r \in Reports :
        /\ Diagnose(r) # "none"
        /\ ttt' = Limit(CASE Diagnose(r) = "too_late"   -> ttt \div 2
                          [] Diagnose(r) = "too_early"  -> 2 * ttt
                          [] Diagnose(r) = "wrong_cell" -> (3 * ttt) \div 2,
                        TttMin, TttMax)
        /\ offset' = Limit(IF Diagnose(r) = "too_late" THEN offset - 1 ELSE offset,
                           -OffsetLimit, OffsetLimit)
        /\ cio' = Limit(CASE Diagnose(r) = "too_early"  -> cio - 1
                          [] Diagnose(r) = "wrong_cell" -> cio - 2
                          [] OTHER                      -> cio,
                        -CioLimit, CioLimit)
  BY DEF Correct
<1>2. Diagnose(r) \in {"too_late", "too_early", "wrong_cell"}
  BY <1>1 DEF Diagnose
<1>3. ttt \in Nat /\ offset \in Int /\ cio \in Int
  BY DEF IInv, HoTypeOK
<1>4. \A t \in Nat : t \div 2 \in Int /\ 2 * t \in Int /\ (3 * t) \div 2 \in Int
  OBVIOUS
<1>5. ttt' \in TttMin .. TttMax
  <2> DEFINE x == CASE Diagnose(r) = "too_late"   -> ttt \div 2
                    [] Diagnose(r) = "too_early"  -> 2 * ttt
                    [] Diagnose(r) = "wrong_cell" -> (3 * ttt) \div 2
  <2>1. x \in Int
    BY <1>2, <1>3, <1>4
  <2> HIDE DEF x
  <2>2. ttt' = Limit(x, TttMin, TttMax)
    BY <1>1 DEF x
  <2> QED BY <2>1, <2>2, LimitType
<1>6. offset' \in -OffsetLimit .. OffsetLimit /\ cio' \in -CioLimit .. CioLimit
  <2> DEFINE y == IF Diagnose(r) = "too_late" THEN offset - 1 ELSE offset
             z == CASE Diagnose(r) = "too_early"  -> cio - 1
                    [] Diagnose(r) = "wrong_cell" -> cio - 2
                    [] OTHER                      -> cio
  <2>1. y \in Int /\ z \in Int
    BY <1>3
  <2> HIDE DEF y, z
  <2>2. /\ offset' = Limit(y, -OffsetLimit, OffsetLimit)
        /\ cio' = Limit(z, -CioLimit, CioLimit)
    BY <1>1 DEF y, z
  <2> QED BY <2>1, <2>2, LimitType
<1>7. corrections' \in 0 .. MaxCorrections
  <2>1. \A n \in 0 .. MaxCorrections :
          n < MaxCorrections => n + 1 \in 0 .. MaxCorrections
    OBVIOUS
  <2> QED BY <2>1, Zenon DEF Correct, IInv, HoTypeOK
<1> QED BY <1>5, <1>6, <1>7 DEF Correct, IInv, HoTypeOK, Fresh

LEMMA NextInv == IInv /\ [HoNext]_hoVars => IInv'
<1> SUFFICES ASSUME IInv, [HoNext]_hoVars PROVE IInv'
  OBVIOUS
<1>1. CASE Measure
  BY <1>1, MeasureInv
<1>2. ASSUME NEW b \in CellIds, Handover(b) PROVE IInv'
  BY <1>2, HandoverInv
<1>3. CASE Fade
  BY <1>3 DEF Fade, IInv, HoTypeOK, Fresh, params
<1>4. CASE Correct
  BY <1>4, CorrectInv
<1>5. CASE UNCHANGED hoVars
  BY <1>5 DEF hoVars, params, IInv, HoTypeOK, Fresh
<1> QED BY <1>1, <1>2, <1>3, <1>4, <1>5 DEF HoNext, Iteration

(* The loop and its parameters keep their types and limits. *)
THEOREM TriggerTypeCorrect == HoSpec => []HoTypeOK
  BY InitInv, NextInv, PTL DEF HoSpec, IInv

(* Handovers are a time to trigger apart. *)
THEOREM HandoversSpaced == HoSpec => Spaced
<1>1. IInv /\ [HoNext]_hoVars => [serving' # serving => Older(elapsed) >= Required]_hoVars
  <2> SUFFICES ASSUME IInv, HoNext, serving' # serving
               PROVE  Older(elapsed) >= Required
    OBVIOUS
  <2>1. PICK b \in CellIds : Handover(b)
    BY DEF HoNext, Iteration, Measure, Fade, Correct
  <2>2. Required \in 1 .. AgeCap
    BY RequiredRange DEF IInv, HoTypeOK
  <2>3. Count(b) >= Required /\ Count(b) \in Nat
    BY <2>1, CountRange DEF Handover
  <2>4. CASE Count(b) <= AgeCap
    <3>1. Count(b) <= Older(elapsed)
      BY <2>4, CountRange
    <3>2. Older(elapsed) \in 0 .. AgeCap
      BY OlderType DEF IInv, HoTypeOK
    <3> HIDE DEF IInv
    <3> QED BY <2>2, <2>3, <3>1, <3>2
  <2>5. CASE Count(b) > AgeCap
    <3>1. Older(elapsed) = AgeCap
      BY <2>5 DEF Count, Older, IInv, HoTypeOK, Fresh
    <3> QED BY <2>2, <3>1
  <2> QED BY <2>3, <2>4, <2>5
<1> QED BY <1>1, InitInv, NextInv, PTL DEF HoSpec, Spaced

-----------------------------------------------------------------------------
(* A cell in the history, other than the newest, has been left since the user
   came to it: it is no longer ago that the user left it than that it came. *)
HistInv ==
  /\ hist # <<>> => hist[1].cell = serving
  /\ \A j \in 2 .. Len(hist) : away[hist[j].cell] <= hist[j].age

AlarmInv == IInv /\ HistInv /\ NoFalseAlarm

(* Ages keep their order as they advance. *)
LEMMA OlderMonotonic ==
  ASSUME NEW a \in 0 .. AgeCap, NEW b \in 0 .. AgeCap, a <= b
  PROVE  Older(a) <= Older(b)
  BY DEF Older

(* The cells and ages in the history have their types. *)
LEMMA HistEntries ==
  ASSUME IInv, NEW j \in 1 .. Len(hist)
  PROVE  /\ hist[j].cell \in CellIds /\ hist[j].age \in 0 .. AgeCap
         /\ away[hist[j].cell] \in 0 .. AgeCap
<1>1. hist[j] \in [cell : CellIds, age : 0 .. AgeCap]
  BY ElementOfSeq, Zenon DEF IInv, HoTypeOK
<1>2. away \in [CellIds -> 0 .. AgeCap]
  BY DEF IInv, HoTypeOK
<1> QED BY <1>1, <1>2

LEMMA MeasureHist == AlarmInv /\ Measure => HistInv' /\ NoFalseAlarm'
<1> SUFFICES ASSUME AlarmInv, Measure PROVE HistInv' /\ NoFalseAlarm'
  OBVIOUS
<1>1. /\ hist' = Aged /\ serving' = serving
      /\ away' = [c \in CellIds |-> Older(away[c])]
      /\ flagged' = flagged /\ returned' = returned
  BY DEF Measure
<1>2. /\ Len(Aged) = Len(hist) /\ Len(hist) \in Nat
      /\ \A j \in 1 .. Len(hist) : /\ Aged[j].cell = hist[j].cell
                                   /\ Aged[j].age = Older(hist[j].age)
  <2>1. HoTypeOK /\ hist \in Seq([cell : CellIds, age : 0 .. AgeCap])
    BY Zenon DEF AlarmInv, IInv, HoTypeOK
  <2> QED BY <2>1, AgedType, LenProperties, Zenon
<1>3. NoFalseAlarm'
  BY <1>1 DEF AlarmInv, NoFalseAlarm
<1>4. hist' # <<>> => hist'[1].cell = serving'
  <2> SUFFICES ASSUME hist' # <<>> PROVE hist'[1].cell = serving'
    OBVIOUS
  <2>1. Len(hist) \in Nat \ {0}
    <3>1. Aged \in Seq([cell : CellIds, age : 0 .. AgeCap])
      BY AgedType, Zenon DEF AlarmInv, IInv
    <3> QED BY <1>1, <1>2, <3>1, EmptySeq, Zenon
  <2>2. hist # <<>> /\ 1 \in 1 .. Len(hist)
    <3>1. hist = <<>> => Len(hist) = 0
      BY EmptySeq, Zenon
    <3> HIDE TriggerAssumption
    <3> QED BY <2>1, <3>1
  <2> QED BY <1>1, <1>2, <2>2, Zenon DEF AlarmInv, HistInv
<1>5. ASSUME NEW j \in 2 .. Len(hist') PROVE away'[hist'[j].cell] <= hist'[j].age
  <2>1. j \in 2 .. Len(hist) /\ j \in 1 .. Len(hist)
    BY <1>1, <1>2
  <2>2. away[hist[j].cell] <= hist[j].age
    BY <2>1 DEF AlarmInv, HistInv
  <2>3. /\ hist[j].cell \in CellIds /\ hist[j].age \in 0 .. AgeCap
        /\ away[hist[j].cell] \in 0 .. AgeCap
    BY <2>1, HistEntries DEF AlarmInv
  <2>4. Older(away[hist[j].cell]) <= Older(hist[j].age)
    BY <2>2, <2>3, OlderMonotonic
  <2>5. hist'[j].cell = hist[j].cell /\ hist'[j].age = Older(hist[j].age)
    BY <1>1, <1>2, <2>1, Zenon
  <2>6. away'[hist[j].cell] = Older(away[hist[j].cell])
    BY <1>1, <2>3
  <2> QED BY <2>4, <2>5, <2>6
<1> QED BY <1>3, <1>4, <1>5 DEF HistInv

LEMMA HandoverHist ==
  ASSUME AlarmInv, NEW b \in CellIds, Handover(b) PROVE HistInv' /\ NoFalseAlarm'
<1>1. /\ hist' = Remembered(b) /\ serving' = b /\ b # serving
      /\ away' = [c \in CellIds |-> IF c = serving THEN 0 ELSE Older(away[c])]
      /\ flagged' = PingPong(hist') /\ returned' = (Older(away[b]) < Window)
  BY DEF Handover, Best
<1>2. /\ Len(hist') \in 1 .. HistLen /\ hist'[1] = [cell |-> b, age |-> 0]
      /\ \A j \in 2 .. Len(hist') : /\ j - 1 \in 1 .. Len(hist)
                                    /\ hist'[j].cell = hist[j - 1].cell
                                    /\ hist'[j].age = Older(hist[j - 1].age)
  BY <1>1, RememberedType, Zenon DEF AlarmInv, IInv
<1>3. hist'[1].cell = b
  BY <1>2
<1>4. hist # <<>> => hist[1].cell = serving
  BY DEF AlarmInv, HistInv
(* The user left the cell of an entry behind the newest in time for its age. *)
<1>5. ASSUME NEW j \in 2 .. Len(hist'), hist'[j].cell # serving
      PROVE  /\ hist'[j].cell \in CellIds
             /\ Older(away[hist'[j].cell]) <= hist'[j].age
             /\ Older(away[hist'[j].cell]) \in 0 .. AgeCap
  <2> DEFINE i == j - 1
  <2>1. /\ i \in 1 .. Len(hist) /\ hist'[j].cell = hist[i].cell
        /\ hist'[j].age = Older(hist[i].age)
    BY <1>2
  <2> HIDE DEF i
  <2>2. i # 1
    <3> SUFFICES ASSUME i = 1 PROVE FALSE
      OBVIOUS
    <3>1. hist # <<>>
      BY <2>1 DEF AlarmInv, IInv, HoTypeOK
    <3> QED BY <1>4, <1>5, <2>1, <3>1
  <2>3. i \in 2 .. Len(hist)
    BY <2>1, <2>2 DEF AlarmInv, IInv, HoTypeOK
  <2>4. away[hist[i].cell] <= hist[i].age
    BY <2>3 DEF AlarmInv, HistInv
  <2>5. /\ hist[i].cell \in CellIds /\ hist[i].age \in 0 .. AgeCap
        /\ away[hist[i].cell] \in 0 .. AgeCap
    BY <2>1, HistEntries DEF AlarmInv
  <2>6. Older(away[hist[i].cell]) <= Older(hist[i].age)
    BY <2>4, <2>5, OlderMonotonic
  <2> QED BY <2>1, <2>5, <2>6, OlderType
<1>6. ASSUME NEW j \in 2 .. Len(hist') PROVE away'[hist'[j].cell] <= hist'[j].age
  <2>1. CASE hist'[j].cell = serving
    <3>1. serving \in CellIds
      BY DEF AlarmInv, IInv, HoTypeOK
    <3>2. away'[hist'[j].cell] = 0
      BY <1>1, <2>1, <3>1
    <3>3. hist'[j].age \in 0 .. AgeCap
      <4>1. j - 1 \in 1 .. Len(hist) /\ hist'[j].age = Older(hist[j - 1].age)
        BY <1>2
      <4> QED BY <4>1, HistEntries, OlderType DEF AlarmInv
    <3>4. \A a \in 0 .. AgeCap : 0 <= a
      OBVIOUS
    <3> QED BY <3>2, <3>3, <3>4, Zenon
  <2>2. CASE hist'[j].cell # serving
    <3>1. /\ hist'[j].cell \in CellIds
          /\ Older(away[hist'[j].cell]) <= hist'[j].age
      BY <1>5, <2>2
    <3>2. away'[hist'[j].cell] = Older(away[hist'[j].cell])
      BY <1>1, <2>2, <3>1
    <3> QED BY <3>1, <3>2
  <2> QED BY <2>1, <2>2
<1>7. ASSUME flagged' PROVE returned'
  <2>1. PICK j \in 2 .. Len(hist') :
          hist'[j].cell = hist'[1].cell /\ hist'[j].age \in 1 .. Window - 1
    BY <1>1, <1>7, Zenon DEF PingPong
  <2>2. hist'[j].cell = b /\ hist'[j].cell # serving
    BY <1>1, <1>3, <2>1
  <2>3. Older(away[b]) <= hist'[j].age /\ Older(away[b]) \in 0 .. AgeCap
    BY <1>5, <2>2, Zenon
  <2>4. Older(away[b]) < Window
    <3>1. \A x \in 0 .. AgeCap, y \in 1 .. Window - 1 : x <= y => x < Window
      OBVIOUS
    <3> QED BY <2>1, <2>3, <3>1, Zenon
  <2> QED BY <1>1, <2>4
<1>8. NoFalseAlarm'
  BY <1>7, Zenon DEF NoFalseAlarm
<1> QED BY <1>1, <1>3, <1>6, <1>8 DEF HistInv

LEMMA AlarmNext == AlarmInv /\ [HoNext]_hoVars => AlarmInv'
<1> SUFFICES ASSUME AlarmInv, [HoNext]_hoVars PROVE AlarmInv'
  OBVIOUS
<1>1. IInv'
  BY NextInv DEF AlarmInv
<1>2. CASE Measure
  BY <1>1, <1>2, MeasureHist DEF AlarmInv
<1>3. ASSUME NEW b \in CellIds, Handover(b) PROVE AlarmInv'
  BY <1>1, <1>3, HandoverHist DEF AlarmInv
<1>4. CASE Fade
  BY <1>1, <1>4 DEF Fade, AlarmInv, HistInv, NoFalseAlarm
<1>5. CASE Correct
  BY <1>1, <1>5 DEF Correct, AlarmInv, HistInv, NoFalseAlarm
<1>6. CASE UNCHANGED hoVars
  BY <1>1, <1>6 DEF hoVars, AlarmInv, HistInv, NoFalseAlarm
<1> QED BY <1>2, <1>3, <1>4, <1>5, <1>6 DEF HoNext, Iteration

(* ho_detect_pingpong raises no false alarm: the user is back in a cell that it
   left within the window. *)
THEOREM AlarmsTrue == HoSpec => []NoFalseAlarm
<1>1. HoInit => AlarmInv
  <2> SUFFICES ASSUME HoInit PROVE AlarmInv
    OBVIOUS
  <2>1. hist = <<>> /\ Len(hist) = 0 /\ ~flagged
    BY DEF HoInit
  <2> QED BY <2>1, InitInv DEF AlarmInv, HistInv, NoFalseAlarm
<1> QED BY <1>1, AlarmNext, PTL DEF HoSpec, AlarmInv

HIDE TriggerAssumption

-----------------------------------------------------------------------------
(***************************************************************************)
(* What assists a handover: admission to a target cell, the balance of two  *)
(* loads, the 802.11r transition and single decisions.                      *)
(***************************************************************************)

(* A load that admits users is the first one until a user was admitted, which
   was never beside a single one. *)
AdmissionInv ==
  has.step = "serving" =>
    /\ has = [step |-> "serving", load |-> has.load, threshold |-> has.threshold, first |-> has.first]
    /\ has.load \in [num_active_ues : Nat, total_prbs : Nat, used_prbs : Nat]
    /\ has.threshold \in Nat
    /\ has.load = has.first \/ 100 * has.load.used_prbs <= has.threshold * has.load.total_prbs
    /\ has.first.num_active_ues = 1 => has.load = has.first

(* The offset is within its limits, and was before it was moved. *)
BalanceInv ==
  has.step = "balanced" =>
    /\ has.cio \in -60 .. 60
    /\ has.loads[1] < has.loads[2] => has.cio <= has.before
    /\ has.loads[1] > has.loads[2] => has.cio >= has.before

(* The states of a transition, in order. *)
FtOrder == <<"AUTH_REQUEST", "AUTH_RESPONSE", "REASSOC_REQUEST", "REASSOC_RESPONSE", "COMPLETE">>

(* A transition is as far as there were steps, or failed with the first. *)
RoamInv ==
  has.step = "roaming" =>
    /\ has.keys \in Seq(BOOLEAN) /\ Len(has.keys) \in 1 .. 5
    /\ IF has.keys[1] THEN has.ft = FtOrder[Len(has.keys)] ELSE has.ft = "FAILED"

AssistInv == AdmissionInv /\ BalanceInv /\ RoamInv /\ DecisionsConsistent

(* Other steps of the network leave these alone. *)
LEMMA OtherSteps ==
  ASSUME has'.step \notin {"serving", "balanced", "roaming", "decided"}
  PROVE  AssistInv'
BY DEF AssistInv, AdmissionInv, BalanceInv, RoamInv, DecisionsConsistent

(* A cell is opened, and users are admitted. *)
LEMMA OpenKeeps == HasOpen => AssistInv'
<1> SUFFICES ASSUME HasOpen PROVE AssistInv'
  OBVIOUS
<1>1. PICK load \in HasLoads, threshold \in {80, 95} :
        has' = [step |-> "serving", load |-> load, threshold |-> threshold, first |-> load]
  BY DEF HasOpen
<1>2. load \in [num_active_ues : Nat, total_prbs : Nat, used_prbs : Nat]
  BY AssistAssumption
<1>3. has'.step = "serving"
  BY <1>1
<1>4. AdmissionInv'
  BY <1>1, <1>2 DEF AdmissionInv
<1> QED BY <1>3, <1>4 DEF AssistInv, BalanceInv, RoamInv, DecisionsConsistent

LEMMA AdmitKeeps == AssistInv /\ HasAdmit => AssistInv'
<1> SUFFICES ASSUME AssistInv, HasAdmit PROVE AssistInv'
  OBVIOUS
<1>1. PICK prbs \in {0, 5, 20}, sinr \in {-7, 10} :
        /\ has.step = "serving" /\ ho_admission_control(has.load, prbs, has.threshold, sinr, 2)
        /\ has' = [has EXCEPT !.load.used_prbs = @ + prbs, !.load.num_active_ues = @ + 1]
  BY DEF HasAdmit
<1>2. /\ has = [step |-> "serving", load |-> has.load, threshold |-> has.threshold, first |-> has.first]
      /\ has.load \in [num_active_ues : Nat, total_prbs : Nat, used_prbs : Nat]
      /\ has.threshold \in Nat
      /\ has.load = has.first \/ 100 * has.load.used_prbs <= has.threshold * has.load.total_prbs
      /\ has.first.num_active_ues = 1 => has.load = has.first
  BY <1>1 DEF AssistInv, AdmissionInv
<1>3. PICK a, b, c, t : /\ a = has.load.num_active_ues /\ b = has.load.total_prbs /\ c = has.load.used_prbs
                        /\ t = has.threshold
  OBVIOUS
<1>4. a \in Nat /\ b \in Nat /\ c \in Nat /\ t \in Nat
  BY <1>2, <1>3
<1>5. 100 * (c + prbs) <= t * b /\ (a > 0 => a >= 2)
  BY <1>1, <1>3 DEF ho_admission_control
<1>6. has.first.num_active_ues # 1
  BY <1>2, <1>3, <1>4, <1>5
<1>7. has' = [step |-> "serving", load |-> [num_active_ues |-> a + 1, total_prbs |-> b, used_prbs |-> c + prbs],
              threshold |-> t, first |-> has.first]
  BY <1>1, <1>2, <1>3
<1>8. AdmissionInv'
  BY <1>4, <1>5, <1>6, <1>7 DEF AdmissionInv
<1> QED BY <1>7, <1>8 DEF AssistInv, BalanceInv, RoamInv, DecisionsConsistent

(* A number that is cut to its limits. *)
LEMMA CutIs ==
  ASSUME NEW x \in Int, NEW m \in Nat
  PROVE  /\ Cut(x, -m, m) \in -m .. m
         /\ \A y \in -m .. m : (x <= y => Cut(x, -m, m) <= y) /\ (x >= y => Cut(x, -m, m) >= y)
BY DEF Cut

(* The offset is moved by the difference of the loads. *)
LEMMA BalanceKeeps == AssistInv /\ HasBalance => AssistInv'
<1> SUFFICES ASSUME AssistInv, HasBalance PROVE AssistInv'
  OBVIOUS
<1> DEFINE before == IF has.step = "start" THEN 0 ELSE has.cio
<1>1. PICK ours \in {-10, 30, 90}, theirs \in {20, 90, 120}, step \in {1, 20} :
        /\ \/ has.step = "start"
           \/ has.step = "balanced" /\ has.round < HasTrials
        /\ has' = [step |-> "balanced", before |-> before, loads |-> <<ours, theirs>>,
                   cio |-> ho_optimize_cio(before, ours, theirs, step, 60),
                   round |-> IF has.step = "start" THEN 1 ELSE has.round + 1]
  BY DEF HasBalance
<1>2. before \in -60 .. 60
  BY <1>1 DEF AssistInv, BalanceInv
<1> HIDE DEF before
<1> DEFINE d == (step * (Cut(theirs, 0, 100) - Cut(ours, 0, 100))) \div 10
<1>3. d \in Int /\ (ours < theirs => d >= 0) /\ (ours > theirs => d <= 0)
  BY DEF Cut
<1>4. ho_optimize_cio(before, ours, theirs, step, 60) = Cut(before - d, -60, 60)
  BY DEF ho_optimize_cio
<1> HIDE DEF d
<1>5. PICK moved : moved = Cut(before - d, -60, 60)
  OBVIOUS
<1>6. moved \in -60 .. 60 /\ (before - d <= before => moved <= before) /\ (before - d >= before => moved >= before)
  BY <1>2, <1>3, <1>5 DEF Cut
<1>7. moved \in -60 .. 60 /\ (ours < theirs => moved <= before) /\ (ours > theirs => moved >= before)
  BY <1>2, <1>3, <1>6
<1>8. has'.step = "balanced" /\ has'.cio = moved /\ has'.before = before /\ has'.loads = <<ours, theirs>>
  BY <1>1, <1>4, <1>5
<1>9. BalanceInv'
  BY <1>7, <1>8 DEF BalanceInv
<1> QED BY <1>8, <1>9 DEF AssistInv, AdmissionInv, RoamInv, DecisionsConsistent

(* Each step of a transition is the next one. *)
LEMMA RoamKeeps == AssistInv /\ HasRoam => AssistInv'
<1> SUFFICES ASSUME AssistInv, HasRoam PROVE AssistInv'
  OBVIOUS
<1> DEFINE before == IF has.step = "start" THEN "INITIAL" ELSE has.ft
           old == IF has.step = "start" THEN <<>> ELSE has.keys
<1>1. PICK key \in BOOLEAN :
        /\ has.step \in {"start", "roaming"}
        /\ ho_wifi_ft_procedure_step(before, key).goes
        /\ has' = [step |-> "roaming", ft |-> ho_wifi_ft_procedure_step(before, key).next, keys |-> Append(old, key)]
  BY DEF HasRoam
<1>2. has'.step = "roaming" /\ has'.ft = ho_wifi_ft_procedure_step(before, key).next /\ has'.keys = Append(old, key)
  BY <1>1
<1>3. RoamInv'
  <2>1. CASE has.step = "start"
    <3>1. has'.ft = IF key THEN "AUTH_REQUEST" ELSE "FAILED"
      BY <1>2, <2>1 DEF ho_wifi_ft_procedure_step
    <3>2. has'.keys \in Seq(BOOLEAN) /\ Len(has'.keys) = 1 /\ has'.keys[1] = key
      BY <1>2, <2>1
    <3> QED BY <3>1, <3>2 DEF RoamInv, FtOrder
  <2>2. CASE has.step = "roaming"
    <3> DEFINE n == Len(has.keys)
    <3>1. has.keys \in Seq(BOOLEAN) /\ n \in 1 .. 5
          /\ IF has.keys[1] THEN has.ft = FtOrder[n] ELSE has.ft = "FAILED"
      BY <2>2 DEF AssistInv, RoamInv
    <3>2. /\ has'.keys \in Seq(BOOLEAN) /\ Len(has'.keys) = n + 1 /\ has'.keys[1] = has.keys[1]
      BY <1>2, <2>2, <3>1
    <3> HIDE DEF n
    <3>3. before = has.ft
      BY <2>2
    <3>4. ho_wifi_ft_procedure_step(has.ft, key).goes /\ has'.ft = ho_wifi_ft_procedure_step(has.ft, key).next
      BY <1>1, <1>2, <3>3
    <3>5. has.keys[1]
      BY <3>1, <3>4 DEF ho_wifi_ft_procedure_step
    <3>6. n # 5
      BY <3>1, <3>4, <3>5 DEF ho_wifi_ft_procedure_step, FtOrder
    <3>7. has'.ft = FtOrder[n + 1]
      <4>1. n \in {1, 2, 3, 4} /\ has.ft = FtOrder[n]
        BY <3>1, <3>5, <3>6
      <4> QED BY <3>4, <4>1 DEF ho_wifi_ft_procedure_step, FtOrder
    <3> QED BY <3>1, <3>2, <3>5, <3>6, <3>7 DEF RoamInv
  <2> QED BY <1>1, <2>1, <2>2
<1> QED BY <1>2, <1>3 DEF AssistInv, AdmissionInv, BalanceInv, DecisionsConsistent

(* Single decisions. *)
LEMMA DecideKeeps == HasDecide => AssistInv'
<1> SUFFICES ASSUME HasDecide PROVE AssistInv'
  OBVIOUS
<1>1. PICK a, b \in BOOLEAN, n \in {1, 2, 16, 17}, gain \in {-1, 0, 2, 3}, battery \in {10, 50} :
        /\ has.step = "start"
        /\ has' = [step |-> "decided", links |-> <<a, b>>, sessions |-> n, n2 |-> ho_nr_n2_procedure_step(a, b, n),
                   daps |-> ho_daps_evaluate(a, b, 16, n), gain |-> gain,
                   energy |-> ho_energy_efficient_decision(gain, battery, 2, 20),
                   energyFull |-> ho_energy_efficient_decision(gain, 100, 2, 20),
                   latency |-> [d \in BOOLEAN |-> ho_latency_estimate(40, 160, n, 20, 10, d)]]
  BY DEF HasDecide
<1>2. LET n2 == ho_nr_n2_procedure_step(a, b, n)
      IN  (n2.feasible <=> (a /\ n <= 16) \/ b) /\ (n2.n2 => b)
  BY DEF ho_nr_n2_procedure_step
<1>3. ho_energy_efficient_decision(gain, battery, 2, 20) => ho_energy_efficient_decision(gain, 100, 2, 20)
  BY DEF ho_energy_efficient_decision
<1>4. ho_latency_estimate(40, 160, n, 20, 10, TRUE) < ho_latency_estimate(40, 160, n, 20, 10, FALSE)
  BY DEF ho_latency_estimate, ho_latency_breakdown
<1>5. DecisionsConsistent'
  BY <1>1, <1>2, <1>3, <1>4 DEF DecisionsConsistent
<1>6. has'.step = "decided"
  BY <1>1
<1> QED BY <1>5, <1>6 DEF AssistInv, AdmissionInv, BalanceInv, RoamInv

(* THEOREM.  Admission never fills a cell beyond the threshold; balancing keeps
   the offset within its limits, and never raises it towards a fuller cell, as
   its purpose asks and its own formula does not (see BalancesLoad); a fast
   transition is decided by its first step; and single decisions on the energy,
   the latency and the ranking of candidates are consistent. *)
THEOREM AssistanceHolds ==
  HasSpec => [](AdmissionHolds /\ BalancesLoad /\ FastTransitionDecided /\ DecisionsConsistent)
<1>1. HasInit => AssistInv
  BY DEF HasInit, AssistInv, AdmissionInv, BalanceInv, RoamInv, DecisionsConsistent
<1>2. AssistInv /\ [HasNext]_has => AssistInv'
  <2> SUFFICES ASSUME AssistInv, [HasNext]_has PROVE AssistInv'
    OBVIOUS
  <2>1. CASE HasPrepare
    BY <2>1, OtherSteps DEF HasPrepare
  <2>2. CASE HasExecute
    <3>1. has'.step = "prepared"
      BY <2>2 DEF HasExecute
    <3> QED BY <3>1, OtherSteps
  <2>3. CASE HasPredict
    BY <2>3, OtherSteps DEF HasPredict
  <2>4. CASE HasCount
    BY <2>4, OtherSteps DEF HasCount
  <2>5. CASE HasNeighbor
    BY <2>5, OtherSteps DEF HasNeighbor
  <2>6. CASE UNCHANGED has
    BY <2>6 DEF AssistInv, AdmissionInv, BalanceInv, RoamInv, DecisionsConsistent
  <2> QED BY <2>1, <2>2, <2>3, <2>4, <2>5, <2>6, OpenKeeps, AdmitKeeps, BalanceKeeps, RoamKeeps, DecideKeeps
          DEF HasNext
<1>3. AssistInv => AdmissionHolds /\ BalancesLoad /\ FastTransitionDecided /\ DecisionsConsistent
  <2> SUFFICES ASSUME AssistInv PROVE AdmissionHolds /\ BalancesLoad /\ FastTransitionDecided /\ DecisionsConsistent
    OBVIOUS
  <2>1. AdmissionHolds /\ BalancesLoad /\ DecisionsConsistent
    BY DEF AssistInv, AdmissionInv, AdmissionHolds, BalanceInv, BalancesLoad
  <2>2. FastTransitionDecided
    <3>1. \A k \in 1 .. 5 : (FtOrder[k] = "COMPLETE" => k = 5) /\ FtOrder[k] # "FAILED"
      <4>1. \A k \in 1 .. 5 : k \in {1, 2, 3, 4, 5}
        OBVIOUS
      <4> QED BY <4>1 DEF FtOrder
    <3> QED BY <3>1 DEF AssistInv, RoamInv, FastTransitionDecided
  <2> QED BY <2>1, <2>2
<1> QED BY <1>1, <1>2, <1>3, PTL DEF HasSpec

-----------------------------------------------------------------------------
(***************************************************************************)
(* The X2 handover, for every set of cells, every counter width and every   *)
(* number of procedures and recoveries: the user goes where it was          *)
(* admitted, each procedure is counted once, the connection and the context *)
(* agree, and the procedure is a MobilityService.                           *)
(***************************************************************************)

USE X2Assumption

(* One more, or one less, stays within the width of the counter. *)
LEMMA CounterType ==
  ASSUME NEW n \in 0 .. CountMod - 1
  PROVE  /\ (n + 1) % CountMod \in 0 .. CountMod - 1
         /\ (n + CountMod - 1) % CountMod \in 0 .. CountMod - 1
<1>1. \A x \in Nat : x % CountMod \in 0 .. CountMod - 1
  OBVIOUS
<1>2. n + 1 \in Nat /\ n + CountMod - 1 \in Nat
  OBVIOUS
<1> QED BY <1>1, <1>2

LEMMA InitType == Init => TypeOK
<1> SUFFICES ASSUME Init PROVE TypeOK
  OBVIOUS
<1>1. ue \in UEContexts
  BY DEF Init, UEContexts, Phases
<1>2. procs \in 0 .. MaxProcs /\ recoveries \in 0 .. MaxRecoveries
  BY DEF Init
<1>3. admitted \in BOOLEAN /\ repair \in {"none", "due", "spurious"}
  BY Zenon DEF Init
<1>4. st \in X2States
  BY DEF Init, X2States, Finished
<1> QED BY <1>1, <1>2, <1>3, <1>4, Zenon DEF Init, TypeOK

LEMMA FailType == TypeOK /\ Fail => TypeOK'
<1> SUFFICES ASSUME TypeOK, Fail PROVE TypeOK'
  OBVIOUS
<1>1. ue' \in UEContexts
  BY CounterType DEF Fail, TypeOK, UEContexts, Phases
<1>2. repair' \in {"none", "due", "spurious"}
  BY Zenon DEF Fail, RepairDue, TypeOK
<1>3. st' \in X2States
  BY DEF Fail, Goto, X2States, Finished
<1> QED BY <1>1, <1>2, <1>3, Zenon DEF Fail, Goto, TypeOK

LEMMA NextType == TypeOK /\ [Next]_vars => TypeOK'
<1> SUFFICES ASSUME TypeOK, [Next]_vars PROVE TypeOK'
  OBVIOUS
<1> USE DEF TypeOK
<1>1. CASE Decide
  <2>1. ue' \in UEContexts
    BY <1>1 DEF Decide, DecisionTriggered, ReportSent, UEContexts, Phases
  <2> QED BY <1>1, <2>1 DEF Decide, DecisionTriggered, ReportSent, Goto,
                            X2States, Preparing
<1>2. CASE Admit
  <2>1. CASE Fail
    BY <2>1, FailType
  <2>2. CASE ~Fail
    BY <1>2, <2>2 DEF Admit, Goto, X2States, Preparing
  <2> QED BY <2>1, <2>2
<1>3. CASE Acknowledged \/ UeDetach \/ RachSucceeds \/ PathSwitched
  <2>1. /\ st' \in {"SN_STATUS", "RANDOM_ACCESS", "RRC_RECONF_COMPL",
                   "UE_CONTEXT_RELEASE"}
        /\ UNCHANGED <<goal, rrc, ue, cell, admitted, repair, procs, recoveries>>
    BY <1>3 DEF Acknowledged, UeDetach, RachSucceeds, PathSwitched, Goto
  <2>2. st' \in X2States
    BY <2>1 DEF X2States, Preparing, Detached, Switching
  <2> QED BY <2>1, <2>2
<1>4. CASE SnStatusTransfer \/ RrcReconfAccepted \/ RrcReconfComplete
  <2>1. ue' \in UEContexts
    <3>1. CASE SnStatusTransfer
      BY <3>1 DEF SnStatusTransfer, UEContexts, Phases
    <3>2. CASE RrcReconfAccepted
      BY <3>2 DEF RrcReconfAccepted, UEContexts, Phases
    <3>3. CASE RrcReconfComplete
      BY <3>3 DEF RrcReconfComplete, UEContexts, Phases
    <3> QED BY <1>4, <3>1, <3>2, <3>3
  <2>2. /\ st' \in {"RRC_RECONF", "UE_DETACH", "PATH_SWITCH"}
        /\ UNCHANGED <<goal, rrc, cell, admitted, repair, procs, recoveries>>
    BY <1>4 DEF SnStatusTransfer, RrcReconfAccepted, RrcReconfComplete, Goto
  <2>3. st' \in X2States
    BY <2>2 DEF X2States, Detached, Switching
  <2> QED BY <2>1, <2>2, <2>3
<1>5. CASE RrcReconfRejected \/ RachFails \/ PathSwitchFails
  BY <1>5, FailType DEF RrcReconfRejected, RachFails, PathSwitchFails
<1>6. CASE ContextRelease
  <2>1. ue' \in UEContexts
    BY <1>6, CounterType DEF ContextRelease, UEContexts, Phases
  <2> QED BY <1>6, <2>1 DEF ContextRelease, Goto, X2States, Finished
<1>7. CASE NewProcedure
  <2>1. st' \in X2States /\ goal' \in Cells \cup {NoCell}
    BY <1>7 DEF NewProcedure, X2States
  <2>2. procs' \in 0 .. MaxProcs
    BY <1>7 DEF NewProcedure
  <2>3. admitted' \in BOOLEAN /\ repair' \in {"none", "due", "spurious"}
    BY <1>7, Zenon DEF NewProcedure, RepairSettled
  <2> QED BY <1>7, <2>1, <2>2, <2>3, Zenon DEF NewProcedure
<1>8. CASE Settle
  <2>1. ue' \in UEContexts
    BY <1>8 DEF Settle, UEContexts, Phases
  <2> QED BY <1>8, <2>1 DEF Settle
<1>9. CASE Recover
  <2>1. ue' \in UEContexts
    BY <1>9, CounterType DEF Recover, UEContexts, Phases
  <2>2. recoveries' \in 0 .. MaxRecoveries
    BY <1>9 DEF Recover
  <2>3. repair' \in {"none", "due", "spurious"}
    BY <1>9, Zenon DEF Recover
  <2>4. rrc' \in {"IDLE", "INACTIVE", "CONNECTED"}
    BY <1>9 DEF Recover
  <2> QED BY <1>9, <2>1, <2>2, <2>3, <2>4, Zenon DEF Recover
<1>10. CASE CellChanges
  BY <1>10 DEF CellChanges
<1>11. ASSUME NEW to \in {"IDLE", "INACTIVE", "CONNECTED"}, RrcTransition(to)
       PROVE  TypeOK'
  <2>1. ue' \in UEContexts
    BY <1>11 DEF RrcTransition, UEContexts, Phases
  <2> QED BY <1>11, <2>1 DEF RrcTransition
<1>12. CASE UNCHANGED vars
  BY <1>12 DEF vars
<1> QED BY <1>1, <1>2, <1>3, <1>4, <1>5, <1>6, <1>7, <1>8, <1>9, <1>10, <1>11,
           <1>12 DEF Next, Execute

(* The procedure and the context keep their types. *)
THEOREM TypeCorrect == Spec => []TypeOK
  BY InitType, NextType, PTL DEF Spec
-----------------------------------------------------------------------------
(* Where a user that has left its cell is going *)

LEMMA InitTarget == Init => TargetAdmitted
  BY DEF Init, TargetAdmitted, Granted, Committed, Detached, Switching, Finished

(* A failed procedure has no target to be admitted to. *)
LEMMA FailTarget == Fail => TargetAdmitted'
  BY DEF Fail, Goto, TargetAdmitted, Granted, Committed, Detached, Switching,
         Finished

LEMMA NextTarget == TypeOK /\ TargetAdmitted /\ [Next]_vars => TargetAdmitted'
<1> SUFFICES ASSUME TypeOK, TargetAdmitted, [Next]_vars PROVE TargetAdmitted'
  OBVIOUS
<1> USE DEF Goto, TargetAdmitted, Granted, Committed, Detached, Switching, Finished
<1>1. CASE Decide \/ NewProcedure
  BY <1>1 DEF Decide, DecisionTriggered, ReportSent, NewProcedure
<1>2. CASE Admit
  <2>1. CASE Fail
    BY <2>1, FailTarget
  <2>2. CASE ~Fail
    BY <1>2, <2>2 DEF Admit
  <2> QED BY <2>1, <2>2
<1>3. CASE Acknowledged
  BY <1>3 DEF Acknowledged
<1>4. CASE SnStatusTransfer
  BY <1>4 DEF SnStatusTransfer
<1>5. CASE RrcReconfAccepted
  BY <1>5 DEF RrcReconfAccepted, TypeOK, UEContexts
<1>6. CASE UeDetach
  BY <1>6 DEF UeDetach
<1>7. CASE RachSucceeds
  BY <1>7 DEF RachSucceeds
<1>8. CASE RrcReconfComplete
  BY <1>8 DEF RrcReconfComplete, TypeOK, UEContexts
<1>9. CASE PathSwitched
  BY <1>9 DEF PathSwitched
<1>10. CASE RrcReconfRejected \/ RachFails \/ PathSwitchFails
  BY <1>10, FailTarget DEF RrcReconfRejected, RachFails, PathSwitchFails
<1>11. CASE ContextRelease
  BY <1>11 DEF ContextRelease
<1>12. CASE Settle
  BY <1>12 DEF Settle
<1>13. ASSUME UNCHANGED <<st, goal, admitted>>, ue'.target = ue.target
       PROVE  TargetAdmitted'
  BY <1>13
<1>14. CASE Recover
  <2>1. UNCHANGED <<st, goal, admitted>> /\ ue'.target = ue.target
    BY <1>14 DEF Recover, TypeOK, UEContexts
  <2> QED BY <2>1, <1>13
<1>15. CASE CellChanges \/ UNCHANGED vars
  BY <1>15, <1>13 DEF CellChanges, vars
<1>16. ASSUME NEW to \in {"IDLE", "INACTIVE", "CONNECTED"}, RrcTransition(to)
       PROVE  TargetAdmitted'
  <2>1. UNCHANGED <<st, goal, admitted>> /\ ue'.target = ue.target
    BY <1>16 DEF RrcTransition, TypeOK, UEContexts
  <2> QED BY <2>1, <1>13
<1> QED BY <1>1, <1>2, <1>3, <1>4, <1>5, <1>6, <1>7, <1>8, <1>9, <1>10, <1>11,
           <1>12, <1>14, <1>15, <1>16 DEF Next, Execute

(* A user that leaves its cell goes to the cell that admitted it. *)
THEOREM Admission == Spec => []TargetAdmitted
  BY InitTarget, NextTarget, TypeCorrect, PTL DEF Spec

-----------------------------------------------------------------------------
(* The phase never runs ahead of the procedure. *)

LEMMA InitPhase == Init => PhaseNotAhead
  BY DEF Init, PhaseNotAhead

LEMMA FailPhase == TypeOK /\ Fail => PhaseNotAhead'
  BY DEF Fail, Goto, PhaseNotAhead, TypeOK, UEContexts

LEMMA NextPhase == TypeOK /\ PhaseNotAhead /\ [Next]_vars => PhaseNotAhead'
<1> SUFFICES ASSUME TypeOK, PhaseNotAhead, [Next]_vars PROVE PhaseNotAhead'
  OBVIOUS
<1> USE DEF PhaseNotAhead, Preparing, Detached, Switching, Finished
<1>1. ue \in UEContexts
  BY DEF TypeOK
<1>2. CASE DecisionTriggered
  BY <1>1, <1>2 DEF DecisionTriggered, Goto, UEContexts
<1>3. CASE ReportSent
  BY <1>1, <1>3 DEF ReportSent, Goto, UEContexts
<1>4. CASE Admit
  <2>1. CASE Fail
    BY <2>1, FailPhase
  <2>2. CASE ~Fail
    BY <1>4, <2>2 DEF Admit, Goto
  <2> QED BY <2>1, <2>2
<1>5. CASE Acknowledged
  BY <1>1, <1>5 DEF Acknowledged, Goto, UEContexts
<1>6. CASE SnStatusTransfer
  BY <1>1, <1>6 DEF SnStatusTransfer, Goto, UEContexts
<1>7. CASE RrcReconfAccepted
  BY <1>1, <1>7 DEF RrcReconfAccepted, Goto, UEContexts
<1>8. CASE UeDetach
  BY <1>1, <1>8 DEF UeDetach, Goto, UEContexts
<1>9. CASE RachSucceeds
  BY <1>1, <1>9 DEF RachSucceeds, Goto, UEContexts
<1>10. CASE RrcReconfComplete
  BY <1>1, <1>10 DEF RrcReconfComplete, Goto, UEContexts
<1>11. CASE PathSwitched
  BY <1>1, <1>11 DEF PathSwitched, Goto, UEContexts
<1>12. CASE ContextRelease
  BY <1>1, <1>12 DEF ContextRelease, Goto, UEContexts
<1>13. CASE NewProcedure
  BY <1>1, <1>13 DEF NewProcedure, UEContexts
<1>14. CASE Settle
  BY <1>1, <1>14 DEF Settle, UEContexts
<1>15. CASE Recover
  BY <1>1, <1>15 DEF Recover, UEContexts
<1>16. CASE RrcReconfRejected \/ RachFails \/ PathSwitchFails
  BY <1>16, FailPhase DEF RrcReconfRejected, RachFails, PathSwitchFails
<1>17. CASE CellChanges \/ UNCHANGED vars
  BY <1>17 DEF CellChanges, vars
<1>18. ASSUME NEW to \in {"IDLE", "INACTIVE", "CONNECTED"}, RrcTransition(to)
       PROVE  PhaseNotAhead'
  BY <1>1, <1>18 DEF RrcTransition, UEContexts
<1> QED BY <1>2, <1>3, <1>4, <1>5, <1>6, <1>7, <1>8, <1>9, <1>10, <1>11,
           <1>12, <1>13, <1>14, <1>15, <1>16, <1>17, <1>18 DEF Next, Decide,
           Execute

(* The handover phase never runs ahead of the procedure. *)
THEOREM Phase == Spec => []PhaseNotAhead
  BY InitPhase, NextPhase, TypeCorrect, PTL DEF Spec

-----------------------------------------------------------------------------
(* Who is connected, and how many failures are counted *)

(* What no step of the procedure itself changes, the count of failures aside. *)
Attached == /\ UNCHANGED <<rrc, procs, recoveries>>
            /\ ue'.connected = ue.connected

LEMMA FailKeeps ==
  ASSUME TypeOK, Fail
  PROVE  /\ Attached
         /\ st' = "FAILED"
         /\ ue'.failCount = (ue.failCount + 1) % CountMod
         /\ repair' = IF repair = "spurious" THEN repair ELSE "due"
  BY DEF Attached, Fail, Goto, RepairDue, TypeOK, UEContexts

(* The steps of a procedure that go on with it. *)
LEMMA ExecuteKeeps ==
  ASSUME TypeOK, Execute \/ Decide, ~Fail
  PROVE  /\ Attached
         /\ UNCHANGED repair
         /\ ue'.failCount = ue.failCount
         /\ st \notin Finished
         /\ st' # "FAILED"
<1> USE DEF Attached, Goto, Finished
<1>1. ue \in UEContexts
  BY DEF TypeOK
<1>2. CASE Decide
  BY <1>1, <1>2 DEF Decide, DecisionTriggered, ReportSent, UEContexts
<1>3. CASE Admit
  BY <1>3 DEF Admit
<1>4. CASE Acknowledged \/ UeDetach \/ RachSucceeds \/ PathSwitched
  BY <1>4 DEF Acknowledged, UeDetach, RachSucceeds, PathSwitched
<1>5. CASE SnStatusTransfer
  BY <1>1, <1>5 DEF SnStatusTransfer, UEContexts
<1>6. CASE RrcReconfAccepted
  BY <1>1, <1>6 DEF RrcReconfAccepted, UEContexts
<1>7. CASE RrcReconfComplete
  BY <1>1, <1>7 DEF RrcReconfComplete, UEContexts
<1>8. CASE ContextRelease
  BY <1>1, <1>8 DEF ContextRelease, UEContexts
<1>9. CASE RrcReconfRejected \/ RachFails \/ PathSwitchFails
  BY <1>9 DEF RrcReconfRejected, RachFails, PathSwitchFails
<1> QED BY <1>2, <1>3, <1>4, <1>5, <1>6, <1>7, <1>8, <1>9 DEF Execute

LEMMA FailActive ==
  ASSUME TypeOK, Execute, Fail
  PROVE  st \notin Finished
  BY DEF Execute, Admit, Acknowledged, SnStatusTransfer, RrcReconfAccepted,
         RrcReconfRejected, UeDetach, RachSucceeds, RachFails, RrcReconfComplete,
         PathSwitched, PathSwitchFails, ContextRelease, Finished

LEMMA NextRrc == TypeOK /\ RrcAgrees /\ [Next]_vars => RrcAgrees'
<1> SUFFICES ASSUME TypeOK, RrcAgrees, [Next]_vars PROVE RrcAgrees'
  OBVIOUS
<1> USE DEF RrcAgrees
<1>1. ue \in UEContexts
  BY DEF TypeOK
<1>2. CASE Execute \/ Decide
  <2>1. Attached
    BY <1>2, FailKeeps, ExecuteKeeps
  <2> QED BY <2>1 DEF Attached
<1>3. CASE NewProcedure \/ CellChanges \/ UNCHANGED vars
  BY <1>3 DEF NewProcedure, CellChanges, vars
<1>4. CASE Settle
  <2>1. ue'.connected = ue.connected /\ rrc' = rrc
    BY <1>1, <1>4 DEF Settle, UEContexts
  <2> QED BY <2>1
<1>5. CASE Recover
  <2>1. ue'.connected = TRUE /\ rrc' = "CONNECTED"
    BY <1>1, <1>5 DEF Recover, UEContexts
  <2> QED BY <2>1
<1>6. ASSUME NEW to \in {"IDLE", "INACTIVE", "CONNECTED"}, RrcTransition(to)
      PROVE  RrcAgrees'
  <2>1. ue'.connected = (to = "CONNECTED") /\ rrc' = to
    BY <1>1, <1>6 DEF RrcTransition, UEContexts
  <2> QED BY <2>1
<1> QED BY <1>2, <1>3, <1>4, <1>5, <1>6 DEF Next

(* The RRC state and the context agree on who is connected. *)
THEOREM Connected == Spec => []RrcAgrees
<1>1. Init => RrcAgrees
  BY DEF Init, RrcAgrees
<1> QED BY <1>1, NextRrc, TypeCorrect, PTL DEF Spec

(* A procedure under way has not failed yet, so it is not counted; a recovery
   is due only after a failure, and only a counter that wrapped is 0 then. *)
FailInv ==
  repair # "spurious" =>
    /\ ue.failCount <= procs
    /\ st \notin Finished => ue.failCount + 1 <= procs
    /\ repair = "due" => st = "FAILED"
    /\ repair = "due" /\ ue.failCount = 0 => CountMod <= procs

LEMMA NextFail == TypeOK /\ FailInv /\ [Next]_vars => FailInv'
<1> SUFFICES ASSUME TypeOK, FailInv, [Next]_vars PROVE FailInv'
  OBVIOUS
<1> USE DEF FailInv
<1>1. /\ ue \in UEContexts
      /\ ue.failCount \in 0 .. CountMod - 1 /\ procs \in Nat
      /\ repair \in {"none", "due", "spurious"}
  BY DEF TypeOK, UEContexts
<1>2. ASSUME Execute, Fail
      PROVE  FailInv'
  <2>1. /\ ue'.failCount = (ue.failCount + 1) % CountMod
        /\ st' = "FAILED" /\ procs' = procs /\ st \notin Finished
        /\ repair' # "spurious" => repair # "spurious"
    BY <1>2, FailKeeps, FailActive DEF Attached
  <2>2. CASE ue.failCount + 1 < CountMod
    <3>1. ue'.failCount = ue.failCount + 1
      BY <1>1, <2>1, <2>2
    <3> QED BY <1>1, <2>1, <3>1 DEF Finished
  <2>3. CASE ue.failCount + 1 = CountMod
    <3>1. ue'.failCount = 0
      BY <1>1, <2>1, <2>3
    <3> QED BY <1>1, <2>1, <2>3, <3>1 DEF Finished
  <2> QED BY <1>1, <2>2, <2>3
<1>3. ASSUME Execute \/ Decide, ~Fail
      PROVE  FailInv'
  BY <1>1, <1>3, ExecuteKeeps DEF Attached, Finished
<1>4. CASE NewProcedure
  BY <1>1, <1>4 DEF NewProcedure, RepairSettled, Finished
<1>5. CASE Settle
  <2>1. ue'.failCount = ue.failCount /\ UNCHANGED <<st, repair, procs>>
    BY <1>1, <1>5 DEF Settle, UEContexts
  <2> QED BY <2>1
<1>6. CASE Recover
  <2>1. /\ ue'.failCount = (ue.failCount + CountMod - 1) % CountMod
        /\ UNCHANGED <<st, procs>>
        /\ repair' = IF repair = "due" THEN "none" ELSE "spurious"
    BY <1>1, <1>6 DEF Recover, UEContexts
  <2>2. CASE ue.failCount = 0
    <3>1. ue'.failCount = CountMod - 1
      BY <1>1, <2>1, <2>2
    <3> QED BY <1>1, <2>1, <2>2, <3>1 DEF Finished
  <2>3. CASE ue.failCount > 0
    <3>1. ue'.failCount = ue.failCount - 1
      BY <1>1, <2>1, <2>3
    <3> QED BY <1>1, <2>1, <2>3, <3>1 DEF Finished
  <2> QED BY <1>1, <2>2, <2>3
<1>7. ASSUME NEW to \in {"IDLE", "INACTIVE", "CONNECTED"}, RrcTransition(to)
      PROVE  FailInv'
  <2>1. ue'.failCount = ue.failCount /\ UNCHANGED <<st, repair, procs>>
    BY <1>1, <1>7 DEF RrcTransition, UEContexts
  <2> QED BY <2>1
<1>8. CASE CellChanges \/ UNCHANGED vars
  BY <1>8 DEF CellChanges, vars
<1>9. Decide => ~Fail
  BY DEF Decide, DecisionTriggered, ReportSent, Fail, Goto
<1> QED BY <1>2, <1>3, <1>4, <1>5, <1>6, <1>7, <1>8, <1>9 DEF Next

(* While recoveries answer failures, no more failures are counted than there
   were procedures, also when the counter wraps. *)
THEOREM FailuresStayBounded == Spec => []FailuresBounded
<1>1. Init => FailInv
  BY DEF Init, FailInv, Finished
<1>2. FailInv => FailuresBounded
  BY DEF FailInv, FailuresBounded
<1> QED BY <1>1, <1>2, NextFail, TypeCorrect, PTL DEF Spec

-----------------------------------------------------------------------------
(* Counting modulo the width of the counters *)

LEMMA OneTurn ==
  ASSUME NEW n \in Nat
  PROVE  \E q, r \in Nat : n = q * CountMod + r /\ r < CountMod /\ r = n % CountMod
<1>1. n % CountMod \in 0 .. CountMod - 1
  OBVIOUS
<1>2. n \div CountMod \in Int
  OBVIOUS
<1>3. n = (n \div CountMod) * CountMod + (n % CountMod)
  BY SMTT(30)
<1>4. n \div CountMod >= 0
  BY SMTT(30)
<1>5. n % CountMod < CountMod /\ n % CountMod \in Nat /\ n \div CountMod \in Nat
  BY <1>1, <1>2, <1>4
<1> QED BY <1>3, <1>5, Zenon

LEMMA Remainder ==
  \A n, q, r \in Nat : r < CountMod /\ n = q * CountMod + r => n % CountMod = r
  BY SMTT(30)

(* A whole turn of the counter leaves no trace, and one more is one more. *)
LEMMA Turn ==
  ASSUME NEW n \in Nat
  PROVE  /\ (n + CountMod) % CountMod = n % CountMod
         /\ (n + 1) % CountMod = IF n % CountMod = CountMod - 1
                                 THEN 0 ELSE (n % CountMod) + 1
<1>1. PICK q \in Nat, r \in Nat :
        n = q * CountMod + r /\ r < CountMod /\ r = n % CountMod
  BY OneTurn
<1> DEFINE a == q * CountMod
           b == (q + 1) * CountMod
<1>2. a \in Nat /\ b = a + CountMod /\ n = a + r
  BY <1>1, SMTT(30)
<1> HIDE DEF a, b
<1>3. n + CountMod = b + r /\ n + 1 = a + (r + 1) /\ (r + 1 = CountMod => n + 1 = b + 0)
  BY <1>2
<1>4. /\ q + 1 \in Nat /\ n + CountMod \in Nat
      /\ r + 1 \in Nat /\ n + 1 \in Nat /\ 0 \in Nat
  OBVIOUS
<1>5. (n + CountMod) % CountMod = r
  BY <1>1, <1>3, <1>4, Remainder, Zenon DEF b
<1>6. CASE r + 1 = CountMod
  <2>1. n + 1 = (q + 1) * CountMod + 0
    BY <1>3, <1>6 DEF b
  <2>2. 0 < CountMod /\ r = CountMod - 1
    BY <1>6
  <2>3. (n + 1) % CountMod = 0
    BY <2>1, <2>2, <1>4, Remainder, Zenon
  <2> QED BY <1>1, <1>5, <2>2, <2>3
<1>7. CASE r + 1 # CountMod
  <2>1. r + 1 < CountMod /\ r # CountMod - 1
    BY <1>1, <1>7
  <2>2. n + 1 = q * CountMod + (r + 1)
    BY <1>3 DEF a
  <2>3. (n + 1) % CountMod = r + 1
    BY <2>1, <2>2, <1>4, Remainder
  <2> QED BY <1>1, <1>5, <2>1, <2>3
<1> QED BY <1>6, <1>7

(* What the counters and the procedure under way add up to. *)
Tallied == ue.hoCount + ue.failCount + recoveries
             + IF st \in Finished THEN 0 ELSE 1

(* One more, and one less, on a counter. *)
LEMMA Wrapped ==
  ASSUME NEW n \in 0 .. CountMod - 1
  PROVE  /\ \/ (n + 1) % CountMod = n + 1
            \/ ((n + 1) % CountMod) + CountMod = n + 1
         /\ \/ ((n + CountMod - 1) % CountMod) + 1 = n
            \/ ((n + CountMod - 1) % CountMod) + 1 = n + CountMod
<1>1. CASE n + 1 < CountMod
  <2>1. (n + 1) % CountMod = n + 1
    BY <1>1
  <2>2. CASE n = 0
    <3>1. (n + CountMod - 1) % CountMod = CountMod - 1
      BY <2>2
    <3> QED BY <2>1, <2>2, <3>1
  <2>3. CASE n > 0
    <3>1. (n + CountMod - 1) % CountMod = n - 1
      BY <2>3
    <3> QED BY <2>1, <3>1
  <2> QED BY <2>2, <2>3
<1>2. CASE n + 1 = CountMod
  <2>1. (n + 1) % CountMod = 0
    BY <1>2
  <2>2. CASE n = 0
    <3>1. (n + CountMod - 1) % CountMod = 0
      BY <1>2, <2>2
    <3> QED BY <1>2, <2>1, <2>2, <3>1
  <2>3. CASE n > 0
    <3>1. (n + CountMod - 1) % CountMod = n - 1
      BY <2>3
    <3> QED BY <1>2, <2>1, <3>1
  <2> QED BY <2>2, <2>3
<1> QED BY <1>1, <1>2

LEMMA NextCounted == TypeOK /\ ProceduresCounted /\ [Next]_vars => ProceduresCounted'
<1> SUFFICES ASSUME TypeOK, ProceduresCounted, [Next]_vars PROVE ProceduresCounted'
  OBVIOUS
<1>1. /\ ue \in UEContexts
      /\ ue.failCount \in 0 .. CountMod - 1 /\ ue.hoCount \in 0 .. CountMod - 1
      /\ procs \in Nat /\ recoveries \in Nat
  BY DEF TypeOK, UEContexts
<1>2. /\ ue' \in UEContexts
      /\ ue'.failCount \in 0 .. CountMod - 1 /\ ue'.hoCount \in 0 .. CountMod - 1
      /\ procs' \in Nat /\ recoveries' \in Nat
  BY NextType DEF TypeOK, UEContexts
<1>3. Tallied \in Nat /\ Tallied' \in Nat
  BY <1>1, <1>2 DEF Tallied
<1>4. Tallied % CountMod = procs % CountMod
  BY Zenon DEF Tallied, ProceduresCounted
<1>5. SUFFICES Tallied' % CountMod = procs' % CountMod
  BY Zenon DEF Tallied, ProceduresCounted
<1>6. ASSUME \/ Tallied' = Tallied
             \/ Tallied' + CountMod = Tallied
             \/ Tallied' = Tallied + CountMod,
             procs' = procs
      PROVE  Tallied' % CountMod = procs' % CountMod
  BY <1>3, <1>4, <1>6, Turn
(* A failure or a handover takes the place of the procedure under way. *)
<1>7. ASSUME Execute, Fail
      PROVE  Tallied' % CountMod = procs' % CountMod
  <2>1. /\ ue'.failCount = (ue.failCount + 1) % CountMod /\ ue'.hoCount = ue.hoCount
        /\ st' \in Finished /\ st \notin Finished /\ UNCHANGED <<procs, recoveries>>
    BY <1>1, <1>7, FailActive DEF Fail, Goto, Finished, UEContexts
  <2>2. ue'.failCount = ue.failCount + 1 \/ ue'.failCount + CountMod = ue.failCount + 1
    BY <1>1, <2>1, Wrapped, Zenon
  <2>3. Tallied' = Tallied \/ Tallied' + CountMod = Tallied
    BY <1>1, <1>2, <2>1, <2>2 DEF Tallied
  <2> QED BY <2>1, <2>3, <1>6
<1>8. CASE ContextRelease
  <2>1. ue'.hoCount = (ue.hoCount + 1) % CountMod
    BY <1>1, <1>8 DEF ContextRelease, UEContexts
  <2>2. ue'.hoCount = ue.hoCount + 1 \/ ue'.hoCount + CountMod = ue.hoCount + 1
    BY <1>1, <2>1, Wrapped, Zenon
  <2>3. /\ ue'.failCount = ue.failCount /\ UNCHANGED <<procs, recoveries>>
        /\ st' \in Finished /\ st \notin Finished
    BY <1>1, <1>8 DEF ContextRelease, Goto, Finished, UEContexts
  <2>4. Tallied' = Tallied \/ Tallied' + CountMod = Tallied
    BY <1>1, <1>2, <2>2, <2>3 DEF Tallied
  <2> QED BY <2>3, <2>4, <1>6
<1>9. ASSUME Execute \/ Decide, ~Fail, ~ContextRelease
      PROVE  Tallied' % CountMod = procs' % CountMod
  <2>1. /\ UNCHANGED <<procs, recoveries>> /\ ue'.failCount = ue.failCount
        /\ st \notin Finished /\ st' # "FAILED"
    BY <1>9, ExecuteKeeps DEF Attached
  <2>2. ue'.hoCount = ue.hoCount /\ st' # "COMPLETE"
    BY <1>1, <1>9 DEF Execute, Decide, Goto, DecisionTriggered, ReportSent, Admit,
       Acknowledged, SnStatusTransfer, RrcReconfAccepted, RrcReconfRejected, UeDetach,
       RachSucceeds, RachFails, RrcReconfComplete, PathSwitched, PathSwitchFails, UEContexts
  <2>3. Tallied' = Tallied
    BY <1>1, <1>2, <2>1, <2>2 DEF Tallied, Finished
  <2> QED BY <2>1, <2>3, <1>6
<1>10. CASE NewProcedure
  <2>1. Tallied' = Tallied + 1 /\ procs' = procs + 1
    BY <1>1, <1>10 DEF NewProcedure, Tallied, Finished
  <2> QED BY <1>1, <1>3, <1>4, <2>1, Turn
<1>11. CASE Recover
  <2>1. ue'.failCount = (ue.failCount + CountMod - 1) % CountMod
    BY <1>1, <1>11 DEF Recover, UEContexts
  <2>2. ue'.failCount + 1 = ue.failCount \/ ue'.failCount + 1 = ue.failCount + CountMod
    BY <1>1, <2>1, Wrapped, Zenon
  <2>3. /\ ue'.hoCount = ue.hoCount /\ recoveries' = recoveries + 1
        /\ UNCHANGED <<st, procs>>
    BY <1>1, <1>11 DEF Recover, UEContexts
  <2>4. Tallied' = Tallied \/ Tallied' = Tallied + CountMod
    BY <1>1, <1>2, <2>2, <2>3 DEF Tallied
  <2> QED BY <2>3, <2>4, <1>6
<1>12. ASSUME UNCHANGED <<st, procs, recoveries>>,
              ue'.failCount = ue.failCount, ue'.hoCount = ue.hoCount
       PROVE  Tallied' % CountMod = procs' % CountMod
  BY <1>12, <1>6 DEF Tallied
<1>13. CASE Settle
  BY <1>1, <1>12, <1>13 DEF Settle, UEContexts
<1>14. ASSUME NEW to \in {"IDLE", "INACTIVE", "CONNECTED"}, RrcTransition(to)
       PROVE  Tallied' % CountMod = procs' % CountMod
  BY <1>1, <1>12, <1>14 DEF RrcTransition, UEContexts
<1>15. CASE CellChanges \/ UNCHANGED vars
  BY <1>12, <1>15 DEF CellChanges, vars
<1>16. Decide => ~Fail /\ ~ContextRelease
  BY DEF Decide, DecisionTriggered, ReportSent, Fail, ContextRelease, Goto
<1> QED BY <1>7, <1>8, <1>9, <1>10, <1>11, <1>13, <1>14, <1>15, <1>16 DEF Next

(* Every procedure ends as one handover or one failure, across every wrap of
   the counters, and a recovery takes a failure back. *)
THEOREM Accounted == Spec => []ProceduresCounted
<1>1. Init => ProceduresCounted
  BY DEF Init, ProceduresCounted, Finished
<1> QED BY <1>1, NextCounted, TypeCorrect, PTL DEF Spec

-----------------------------------------------------------------------------
(* The procedure implements the mobility service. *)

LEMMA InitService == Init => Service!SInit
  BY DEF Init, Service!SInit, Granted, Committed, Detached, Switching

(* The serving cell and the number of handovers stay as they are. *)
Kept == ue'.serving = ue.serving /\ ue'.hoCount = ue.hoCount

(* A failure gives up what was prepared, if anything was. *)
LEMMA FailService ==
  ASSUME TypeOK, TargetAdmitted, Fail
  PROVE  [Service!SNext]_(Service!svars)
<1>1. Kept /\ st' \notin Granted /\ UNCHANGED recoveries
  BY DEF Kept, Fail, Goto, TypeOK, UEContexts, Granted, Committed, Detached, Switching
<1>2. st \in Granted => goal # NoCell
  BY DEF TargetAdmitted, Granted, Committed, Detached, Switching, Finished
<1> QED BY <1>1, <1>2 DEF Kept, Service!SNext, Service!GiveUp, Service!svars

LEMMA NextService ==
  TypeOK /\ TargetAdmitted /\ [Next]_vars => [Service!SNext]_(Service!svars)
<1> SUFFICES ASSUME TypeOK, TargetAdmitted, [Next]_vars
             PROVE  [Service!SNext]_(Service!svars)
  OBVIOUS
<1>1. ue \in UEContexts
  BY DEF TypeOK
(* Steps that keep the serving cell and stay on one side of admission. *)
<1>2. ASSUME Kept, UNCHANGED <<goal, recoveries>>,
             (st \in Granted) <=> (st' \in Granted)
      PROVE  UNCHANGED Service!svars
  BY <1>2 DEF Kept, Service!svars
<1>3. ASSUME Kept, UNCHANGED recoveries,
             st \notin Granted, st' \notin Granted
      PROVE  UNCHANGED Service!svars
  BY <1>3 DEF Kept, Service!svars
<1>4. CASE Admit
  <2>1. CASE Fail
    BY <2>1, FailService
  <2>2. CASE ~Fail
    <3>1. /\ st = "HO_REQUEST" /\ st' = "HO_REQUEST_ACK"
          /\ UNCHANGED <<ue, goal, recoveries>> /\ goal \in Cells
      BY <1>4, <2>2 DEF Admit, Goto, TargetAdmitted, Finished
    <3>2. st \notin Granted /\ st' \in Granted
      BY <3>1 DEF Granted, Committed, Detached, Switching
    <3> QED BY <3>1, <3>2 DEF Service!SNext, Service!Prepare
  <2> QED BY <2>1, <2>2
<1>5. CASE RrcReconfRejected \/ RachFails \/ PathSwitchFails
  BY <1>5, FailService DEF RrcReconfRejected, RachFails, PathSwitchFails
<1>6. CASE ContextRelease
  <2>1. /\ ue'.serving = goal /\ goal # NoCell /\ UNCHANGED recoveries
        /\ ue'.hoCount = (ue.hoCount + 1) % CountMod
        /\ st \in Granted /\ st' \notin Granted
    BY <1>1, <1>6 DEF ContextRelease, Goto, TargetAdmitted, UEContexts, Granted,
                      Committed, Detached, Switching, Finished
  <2> QED BY <2>1 DEF Service!SNext, Service!Commit
<1>7. CASE Recover
  <2>1. /\ ue'.serving \in Cells /\ ue'.hoCount = ue.hoCount /\ UNCHANGED <<st, goal>>
        /\ recoveries' = recoveries + 1
    BY <1>1, <1>7 DEF Recover, UEContexts
  <2> QED BY <2>1 DEF Service!SNext, Service!Reestablish
<1>8. CASE Decide \/ NewProcedure
  <2>1. /\ Kept /\ UNCHANGED recoveries
        /\ st \notin Granted /\ st' \notin Granted
    BY <1>1, <1>8 DEF Kept, Decide, DecisionTriggered, ReportSent, NewProcedure, Goto,
       UEContexts, Granted, Committed, Detached, Switching, Finished
  <2> QED BY <2>1, <1>3
<1>9. CASE Acknowledged \/ UeDetach \/ RachSucceeds \/ PathSwitched
  <2>1. /\ Kept /\ UNCHANGED <<goal, recoveries>>
        /\ st \in Granted /\ st' \in Granted
    BY <1>9 DEF Kept, Acknowledged, UeDetach, RachSucceeds, PathSwitched, Goto, Granted,
                Committed, Detached, Switching
  <2> QED BY <2>1, <1>2
<1>10. CASE SnStatusTransfer \/ RrcReconfAccepted \/ RrcReconfComplete
  <2>1. /\ Kept /\ UNCHANGED <<goal, recoveries>>
        /\ st \in Granted /\ st' \in Granted
    BY <1>1, <1>10 DEF Kept, SnStatusTransfer, RrcReconfAccepted, RrcReconfComplete,
       Goto, UEContexts, Granted, Committed, Detached, Switching
  <2> QED BY <2>1, <1>2
<1>11. CASE Settle
  <2>1. Kept /\ UNCHANGED <<st, goal, recoveries>>
    BY <1>1, <1>11 DEF Kept, Settle, UEContexts
  <2> QED BY <2>1, <1>2
<1>12. ASSUME NEW to \in {"IDLE", "INACTIVE", "CONNECTED"}, RrcTransition(to)
       PROVE  UNCHANGED Service!svars
  <2>1. Kept /\ UNCHANGED <<st, goal, recoveries>>
    BY <1>1, <1>12 DEF Kept, RrcTransition, UEContexts
  <2> QED BY <2>1, <1>2
<1>13. CASE CellChanges \/ UNCHANGED vars
  <2>1. Kept /\ UNCHANGED <<st, goal, recoveries>>
    BY <1>13 DEF Kept, CellChanges, vars
  <2> QED BY <2>1, <1>2
<1> QED BY <1>4, <1>5, <1>6, <1>7, <1>8, <1>9, <1>10, <1>11, <1>12, <1>13
        DEF Next, Execute

(* The counters and the connection agree with what happened, in every order of
   procedures, recoveries and changes of the connection. *)
THEOREM ProcedureIsSound == Spec => []ProcedureSound
<1>1. TypeOK /\ ProceduresCounted /\ FailuresBounded /\ RrcAgrees => ProcedureSound
  BY DEF ProcedureSound
<1> QED BY <1>1, TypeCorrect, Accounted, FailuresStayBounded, Connected, PTL

(* Every behaviour of the procedure is one of the mobility service. *)
THEOREM Refinement == Spec => ImplementsMobilityService
  BY InitService, NextService, TypeCorrect, Admission, PTL
  DEF Spec, ImplementsMobilityService, Service!SSpec
=============================================================================
