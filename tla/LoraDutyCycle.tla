---------------------------- MODULE LoraDutyCycle ----------------------------
(***************************************************************************)
(* The duty-cycle tracker of mini-lora-nbiot (src/lora_mac.c) and the       *)
(* callers that share it: each checks its budget, transmits, then records.  *)
(*                                                                          *)
(* Time is in whole seconds and only differences matter, so the state holds *)
(* the age of the window and of each transmission instead of time stamps;   *)
(* ages beyond the period are alike.  The limit is the fraction 1 / Ratio *)
(* and the period a multiple of it: all quantities are integers.            *)
(***************************************************************************)
EXTENDS Integers, FiniteSetsExt

CONSTANTS
  Budget,   \* duty_cycle_limit * observation_period
  Ratio,    \* 1 / duty_cycle_limit
  Toas,     \* times on air of the frames a device may want to send
  Senders   \* the callers that share one tracker

Period == Budget * Ratio  \* observation_period

ASSUME DutyCycleAssumption ==
  /\ Budget \in Nat \ {0}
  /\ Ratio \in Nat \ {0}
  /\ Toas \subseteq 1 .. Budget /\ Toas # {}
  /\ IsFiniteSet(Senders) /\ Senders # {}

VARIABLES
  elapsed,  \* now - window_start, at most Period + 1
  acc,      \* toa_accumulated
  granted,  \* per sender: time on air allowed by a check and not yet recorded
  asked,    \* per sender: time on air refused by a check, 0 if none is pending
  wait,     \* per sender: seconds left of the wait wait_sec asked for
  log,      \* history: time on air recorded, by age
  overlap   \* history: a check was answered while a grant was not recorded

vars == <<elapsed, acc, granted, asked, wait, log, overlap>>

Init == /\ elapsed \in 0 .. Period + 1   \* window_start is 0, the clock is not
        /\ acc = 0
        /\ granted = [s \in Senders |-> 0]
        /\ asked = [s \in Senders |-> 0]
        /\ wait = [s \in Senders |-> 0]
        /\ log = [age \in 0 .. Period |-> 0]
        /\ overlap = FALSE

-----------------------------------------------------------------------------
(* Both check and record first open a new window if the period is exceeded. *)
Expired == elapsed > Period

(* Mutant: the window starts again at every call. *)
RestartWindow == elapsed' = 0

(* Mutant: the start of the window is not moved. *)
KeepWindow == elapsed' = elapsed

OpenWindow == elapsed' = IF Expired THEN 0 ELSE elapsed
WindowAcc  == IF Expired THEN 0 ELSE acc

(* Mutant: the frame to be sent is not counted. *)
AllowedBefore(toa) == WindowAcc <= Budget

Allowed(toa) == WindowAcc + toa <= Budget

(* A sender checks a new frame, or once more the frame it waited for. *)
Checking(s, toa) == granted[s] = 0 /\ wait[s] = 0 /\ asked[s] \in {0, toa}

(* lora_duty_cycle_check answers 1. *)
CheckAllows(s, toa) ==
  /\ Checking(s, toa)
  /\ Allowed(toa)
  /\ OpenWindow
  /\ acc' = WindowAcc
  /\ granted' = [granted EXCEPT ![s] = toa]
  /\ asked' = [asked EXCEPT ![s] = 0]
  /\ overlap' = (overlap \/ \E t \in Senders : granted[t] > 0)
  /\ UNCHANGED <<wait, log>>

(* lora_duty_cycle_wait_sec after a check that answers 0. *)
WaitSec(toa) == (WindowAcc + toa - Budget) * Ratio

CheckBlocks(s, toa) ==
  /\ Checking(s, toa)
  /\ ~Allowed(toa)
  /\ OpenWindow
  /\ acc' = WindowAcc
  /\ asked' = [asked EXCEPT ![s] = toa]
  /\ wait' = [wait EXCEPT ![s] = WaitSec(toa)]
  /\ UNCHANGED <<granted, log, overlap>>

(* lora_duty_cycle_record, once the frame is sent. *)
Record(s) ==
  /\ granted[s] > 0
  /\ OpenWindow
  /\ acc' = WindowAcc + granted[s]
  /\ granted' = [granted EXCEPT ![s] = 0]
  /\ log' = [log EXCEPT ![0] = @ + granted[s]]
  /\ UNCHANGED <<asked, wait, overlap>>

Tick == /\ elapsed' = IF Expired THEN elapsed ELSE elapsed + 1
        /\ wait' = [s \in Senders |-> Max({0, wait[s] - 1})]
        /\ log' = [age \in 0 .. Period |-> IF age = 0 THEN 0 ELSE log[age - 1]]
        /\ UNCHANGED <<acc, granted, asked, overlap>>

Check(s) == \E toa \in Toas : CheckAllows(s, toa) \/ CheckBlocks(s, toa)

Next == Tick \/ \E s \in Senders : Check(s) \/ Record(s)

Spec == Init /\ [][Next]_vars

(* Time passes, what is sent is recorded, and a refused frame is checked
   again when the wait is over. *)
Retry(s) == asked[s] > 0 /\ Check(s)

FairSpec == /\ Spec
            /\ WF_vars(Tick)
            /\ \A s \in Senders : WF_vars(Retry(s)) /\ WF_vars(Record(s))

-----------------------------------------------------------------------------
(* Properties *)

(* The tracker and its history stay within their ranges. *)
TypeOK ==
  /\ elapsed \in 0 .. Period + 1
  /\ acc \in Nat
  /\ granted \in [Senders -> Toas \cup {0}]
  /\ asked \in [Senders -> Toas \cup {0}]
  /\ wait \in [Senders -> Nat]
  /\ log \in [0 .. Period -> Nat]
  /\ overlap \in BOOLEAN

(* The budget of each observation window is kept, even if the window turns
   between a check and its record, as long as no frame is checked while
   another is still to be recorded. *)
WindowBudget == ~overlap => acc <= Budget

(* Frames checked before another is recorded overrun the budget, but by no
   more than one frame of each other sender. *)
Overrun == Budget + (Cardinality(Senders) - 1) * Max(Toas)

OverrunBounded == acc <= Overrun

(* A function from A to numbers of seconds as a set of single seconds, and
   their number: the sum of f over A. *)
Seconds(f, A) == UNION {{a} \X (1 .. f[a]) : a \in A}
SecondsIn(f, A) == Cardinality(Seconds(f, A))

AirTime == SecondsIn(log, 0 .. Period)

(* The period is no "sliding window": what is sent around a restart adds up.
   A stretch of its length can meet two windows, but never three. *)
TwoWindowsAtMost == AirTime <= (IF overlap THEN 2 * Overrun ELSE 2 * Budget)

(* While a frame waits after a refusal, some frame is sent sooner or later. *)
RefusalEnds ==
  (\E s \in Senders : asked[s] > 0) ~> (\E s \in Senders : granted[s] > 0)

(* The header says wait_sec returns "Seconds until transmission is allowed". *)
WaitSuffices == \A s \in Senders : asked[s] > 0 /\ wait[s] = 0 => Allowed(asked[s])
=============================================================================
