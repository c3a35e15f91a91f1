----------------------------- MODULE ButtonProofs ---------------------------
(***************************************************************************)
(* Proofs of Button, for every choice of the two ranges and every way main *)
(* disables interrupts.                                                    *)
(***************************************************************************)
EXTENDS Button, TLAPS

(***************************************************************************)
(* How far the driver's age of a press may be from the time the contacts   *)
(* are closed.                                                             *)
(***************************************************************************)

(* Never ahead by more than a tick, whatever edges were swallowed: a tick   *)
(* that is due is counted already, and none is served while an edge waits.  *)
Ahead ==
  /\ pressed => held <= longest
  /\ event = "down" => start <= longest + 1
  /\ event = "down" /\ ~flag => /\ pressed
                                /\ due => start <= held
                                /\ ~due => start <= held + 1

(* Of a press of which no edge was swallowed, behind by no more than the    *)
(* time the clock stood still, and the tick that is due.  While the down    *)
(* edge waits the contacts are closed only as long as that; the up edge     *)
(* finds the age as it was when the contacts opened.                        *)
Behind ==
  clean => /\ pressed /\ flag => held <= stood
           /\ pressed /\ ~flag /\ event = "down" => /\ due => held <= start + stood + 1
                                                    /\ ~due => held <= start + stood
           /\ ~pressed /\ flag /\ event = "down" => /\ start <= held + 1
                                                    /\ held <= start + stood + 1

ButtonInv == TypeOK /\ Ahead /\ Behind
-----------------------------------------------------------------------------
(* Constants and ages are natural numbers. *)
LEMMA Numbers ==
  /\ {MinShort, MaxShort, MinLong, MaxLong, Horizon} \subseteq Nat
  /\ 0 < MinShort /\ MinShort <= MaxShort /\ MaxShort < MinLong /\ MinLong <= MaxLong
  /\ Horizon = MaxLong + 1
BY ButtonAssumption, SMT DEF Horizon

(* The two parts of the types: what is true or false, and the rest. *)
Booleans ==
  /\ pressed \in BOOLEAN /\ flag \in BOOLEAN /\ due \in BOOLEAN
  /\ masked \in BOOLEAN /\ clean \in BOOLEAN
Ranges ==
  /\ event \in {"none", "down", "up", "short", "long"}
  /\ start \in 0 .. Horizon /\ ticks \in 0 .. Horizon
  /\ held \in 0 .. Horizon /\ stood \in 0 .. Horizon /\ longest \in 0 .. Horizon
  /\ buttonState \in {"none", "short", "long"}

LEMMA TypesAre == TypeOK <=> Booleans /\ Ranges
BY Zenon DEF TypeOK, Booleans, Ranges

LEMMA TypesBegin == Init => TypeOK
<1>1. Init => Booleans
  BY Zenon DEF Init, Booleans
<1>2. Init => Ranges
  BY Numbers DEF Init, Ranges
<1> QED BY <1>1, <1>2, TypesAre

LEMMA BooleansStep ==
  ASSUME Booleans, [Next]_vars
  PROVE  Booleans'
<1>1. ASSUME Interrupt PROVE Booleans'
  BY <1>1, Zenon DEF Interrupt, Booleans
<1>2. ASSUME Edge PROVE Booleans'
  <2>1. pressed' \in BOOLEAN /\ flag' \in BOOLEAN /\ due' \in BOOLEAN /\ masked' \in BOOLEAN
    BY <1>2, Zenon DEF Edge, Booleans
  <2>2. clean' \in BOOLEAN
    <3>1. CASE pressed
      BY <1>2, <3>1, Zenon DEF Edge, Booleans
    <3>2. CASE ~pressed
      BY <1>2, <3>2, Zenon DEF Edge, Booleans
    <3> QED BY <3>1, <3>2
  <2> QED BY <2>1, <2>2 DEF Booleans
<1>3. ASSUME Mask PROVE Booleans'
  BY <1>3, Zenon DEF Mask, history, Booleans
<1>4. ASSUME Unmask PROVE Booleans'
  BY <1>4, Zenon DEF Unmask, history, Booleans
<1>5. ASSUME Millisecond PROVE Booleans'
  BY <1>5, Zenon DEF Millisecond, Booleans
<1>6. ASSUME Tick \/ Consume PROVE Booleans'
  BY <1>6, Zenon DEF Tick, Consume, history, Booleans
<1>7. ASSUME UNCHANGED vars PROVE Booleans'
  BY <1>7, Zenon DEF vars, history, Booleans
<1> QED BY <1>1, <1>2, <1>3, <1>4, <1>5, <1>6, <1>7 DEF Next

LEMMA RangesStep ==
  ASSUME Ranges, [Next]_vars
  PROVE  Ranges'
<1> USE Numbers
<1>1. ASSUME Interrupt PROVE Ranges'
  <2>0. longest' \in 0 .. Horizon
    BY <1>1 DEF Interrupt, Ranges
  <2>1. CASE Pin
    BY <1>1, <2>0, <2>1 DEF Interrupt, HandleDown, Ranges
  <2>2. CASE ~Pin
    <3>1. event' \in {"up", "short", "long"} /\ ticks' \in {start, ticks} /\ start' = 0
      BY <1>1, <2>2 DEF Interrupt, HandleUp, Press
    <3>2. buttonState' \in {"none", "short", "long"}
      BY <1>1, <2>2, <3>1 DEF Interrupt, HandleUp, Ranges
    <3> QED BY <1>1, <2>0, <3>1, <3>2 DEF Interrupt, Ranges
  <2> QED BY <2>1, <2>2
<1>2. ASSUME Edge PROVE Ranges'
  BY <1>2 DEF Edge, driver, Ranges
<1>3. ASSUME Mask \/ Unmask PROVE Ranges'
  BY <1>3 DEF Mask, Unmask, driver, history, Ranges
<1>4. ASSUME Millisecond PROVE Ranges'
  <2>1. held' \in 0 .. Horizon /\ stood' \in 0 .. Horizon
    BY <1>4 DEF Millisecond, Later, Ranges
  <2>2. longest' \in 0 .. Horizon
    BY <1>4, <2>1 DEF Millisecond, Ranges
  <2> QED BY <1>4, <2>1, <2>2 DEF Millisecond, driver, Ranges
<1>5. ASSUME Tick PROVE Ranges'
  BY <1>5 DEF Tick, Later, history, Ranges
<1>6. ASSUME Consume PROVE Ranges'
  BY <1>6 DEF Consume, history, Ranges
<1>7. ASSUME UNCHANGED vars PROVE Ranges'
  BY <1>7 DEF vars, driver, history, Ranges
<1> QED BY <1>1, <1>2, <1>3, <1>4, <1>5, <1>6, <1>7 DEF Next

LEMMA TypeStep ==
  ASSUME TypeOK, [Next]_vars
  PROVE  TypeOK'
<1>1. Booleans /\ Ranges
  BY TypesAre
<1>2. Booleans' /\ Ranges'
  BY <1>1, BooleansStep, RangesStep
<1> QED BY <1>2, Zenon DEF TypeOK, Booleans, Ranges

LEMMA AheadStep ==
  ASSUME TypeOK, Ahead, [Next]_vars
  PROVE  Ahead'
<1> USE Numbers
<1>1. ASSUME Interrupt PROVE Ahead'
  <2>1. CASE Pin
    BY <1>1, <2>1 DEF Interrupt, HandleDown, Pin, Ahead, TypeOK
  <2>2. CASE ~Pin
    BY <1>1, <2>2 DEF Interrupt, HandleUp, Press, Pin, Ahead, TypeOK
  <2> QED BY <2>1, <2>2
<1>2. ASSUME Edge PROVE Ahead'
  BY <1>2 DEF Edge, driver, Ahead, TypeOK
<1>3. ASSUME Mask \/ Unmask PROVE Ahead'
  BY <1>3 DEF Mask, Unmask, driver, history, Ahead
<1>4. ASSUME Millisecond PROVE Ahead'
  BY <1>4 DEF Millisecond, Later, driver, Ahead, TypeOK
<1>5. ASSUME Tick PROVE Ahead'
  <2>1. start \in 0 .. Horizon /\ held \in Nat /\ longest \in Nat
    BY DEF TypeOK
  <2>2. /\ due /\ ~flag /\ ~due' /\ UNCHANGED <<pressed, flag, event, held, longest>>
        /\ start' = Later(start)
    BY <1>5 DEF Tick, history
  <2>3. start' <= start + 1
    BY <2>1, <2>2 DEF Later
  <2>4. event = "down" => pressed /\ start <= held /\ held <= longest
    BY <2>2 DEF Ahead
  <2> QED BY <2>1, <2>2, <2>3, <2>4 DEF Ahead, Later
<1>6. ASSUME Consume \/ UNCHANGED vars PROVE Ahead'
  BY <1>6 DEF Consume, vars, driver, history, Ahead
<1> QED BY <1>1, <1>2, <1>3, <1>4, <1>5, <1>6 DEF Next

LEMMA BehindStep ==
  ASSUME TypeOK, Ahead, Behind, [Next]_vars
  PROVE  Behind'
<1> USE Numbers
<1>1. ASSUME Interrupt PROVE Behind'
  <2>1. CASE Pin
    BY <1>1, <2>1 DEF Interrupt, HandleDown, Pin, Behind, TypeOK
  <2>2. CASE ~Pin
    BY <1>1, <2>2 DEF Interrupt, Pin, Behind, TypeOK
  <2> QED BY <2>1, <2>2
<1>2. ASSUME Edge PROVE Behind'
  <2>1. CASE pressed
    BY <1>2, <2>1 DEF Edge, driver, Ahead, Behind, TypeOK
  <2>2. CASE ~pressed
    BY <1>2, <2>2 DEF Edge, driver, Behind, TypeOK
  <2> QED BY <2>1, <2>2
<1>3. ASSUME Mask \/ Unmask PROVE Behind'
  BY <1>3 DEF Mask, Unmask, driver, history, Behind
<1>4. ASSUME Millisecond PROVE Behind'
  <2>1. CASE masked
    BY <1>4, <2>1 DEF Millisecond, Later, driver, Behind, TypeOK
  <2>2. CASE ~masked
    BY <1>4, <2>2 DEF Millisecond, Later, driver, Behind, TypeOK
  <2> QED BY <2>1, <2>2
<1>5. ASSUME Tick PROVE Behind'
  BY <1>5 DEF Tick, Later, history, Behind, TypeOK
<1>6. ASSUME Consume \/ UNCHANGED vars PROVE Behind'
  BY <1>6 DEF Consume, vars, driver, history, Behind
<1> QED BY <1>1, <1>2, <1>3, <1>4, <1>5, <1>6 DEF Next

(* The inductive invariant: the types, and how far the driver's age of a    *)
(* press is from the time the contacts are closed, either way.              *)
THEOREM ButtonInvariance == Spec => []ButtonInv
<1>1. Init => ButtonInv
  <2>1. Init => Ahead /\ Behind
    BY DEF Init, Ahead, Behind
  <2> QED BY <2>1, TypesBegin DEF ButtonInv
<1>2. ButtonInv /\ [Next]_vars => ButtonInv'
  BY TypeStep, AheadStep, BehindStep DEF ButtonInv
<1> QED BY <1>1, <1>2, PTL DEF Spec

(* The driver's variables keep their ranges. *)
THEOREM ButtonTypes == Spec => []TypeOK
<1>1. ButtonInv => TypeOK
  BY DEF ButtonInv
<1> QED BY <1>1, ButtonInvariance, PTL

(* However edges coalesce, with no interrupt pending the driver has a down  *)
(* event exactly while the contacts are closed.                             *)
THEOREM DriverAlwaysFollows == Spec => []DriverFollowsPin
<1>1. Init => DriverFollowsPin
  BY DEF Init, DriverFollowsPin
<1>2. DriverFollowsPin /\ [Next]_vars => DriverFollowsPin'
  <2> SUFFICES ASSUME DriverFollowsPin, [Next]_vars
               PROVE  DriverFollowsPin'
    OBVIOUS
  <2>1. ASSUME Interrupt PROVE DriverFollowsPin'
    <3>1. CASE Pin
      BY <2>1, <3>1 DEF Interrupt, HandleDown, Pin, DriverFollowsPin
    <3>2. CASE ~Pin
      BY <2>1, <3>2 DEF Interrupt, HandleUp, Press, Pin, DriverFollowsPin
    <3> QED BY <3>1, <3>2
  <2>2. ASSUME Edge PROVE DriverFollowsPin'
    BY <2>2 DEF Edge, DriverFollowsPin
  <2>3. ASSUME Mask \/ Unmask \/ Millisecond \/ Tick \/ Consume \/ UNCHANGED vars
        PROVE  DriverFollowsPin'
    BY <2>3 DEF Mask, Unmask, Millisecond, Tick, Consume, vars, driver, DriverFollowsPin
  <2> QED BY <2>1, <2>2, <2>3 DEF Next
<1> QED BY <1>1, <1>2, PTL DEF Spec

(* What the driver measures of a press. *)
LEMMA Measured ==
  ASSUME ButtonInv, Interrupt, ~pressed, event = "down", clean
  PROVE  /\ ticks' = start /\ event' = Press(start)
         /\ start \in held - stood - 1 .. held + 1
         /\ start \in 0 .. Horizon /\ held \in 0 .. Horizon /\ stood \in 0 .. Horizon
<1>1. start <= held + 1 /\ held <= start + stood + 1
  BY DEF Interrupt, ButtonInv, Behind
<1> QED BY <1>1, Numbers DEF Interrupt, Pin, HandleUp, EndsPress, ButtonInv, TypeOK

(* A press is timed as no longer than it was, and as no shorter than it was *)
(* without the time the clock stood still: button.c 36 and clock.c 13.      *)
THEOREM TimedAsTicked == Spec => TimedAsCounted
<1>1. ButtonInv /\ [Next]_vars
        => [Interrupt /\ ~pressed /\ event = "down" /\ clean
              => ticks' \in held - stood - 1 .. held + 1]_vars
  BY Measured
<1> QED BY <1>1, ButtonInvariance, PTL DEF Spec, TimedAsCounted

(* A press that stays on its side of every bound without the time main took *)
(* of it is reported as what it was, and one in the gap not at all.         *)
THEOREM PressReportedAsMade == Spec => ReportedAsMade
<1>1. ASSUME ButtonInv, Interrupt, ~pressed, event = "down", clean
      PROVE  /\ Surely("short", MinShort, MaxShort)
             /\ Surely("long", MinLong, MaxLong)
             /\ Surely("up", MaxShort + 1, MinLong - 1)
  BY <1>1, Measured, Numbers DEF Surely, Press
<1>2. ButtonInv /\ [Next]_vars
        => [Interrupt /\ ~pressed /\ event = "down" /\ clean
              => /\ Surely("short", MinShort, MaxShort)
                 /\ Surely("long", MinLong, MaxLong)
                 /\ Surely("up", MaxShort + 1, MinLong - 1)]_vars
  BY <1>1
<1> QED BY <1>2, ButtonInvariance, PTL DEF Spec, ReportedAsMade

(* Nothing is reported that was not made, whatever edges were swallowed. *)
THEOREM NothingElseReported == Spec => ReportedOnlyIfMade
<1>1. ASSUME ButtonInv, Interrupt
      PROVE  /\ event' = "short" => longest + 1 >= MinShort
             /\ event' = "long"  => longest + 1 >= MinLong
  <2>1. CASE Pin
    BY <1>1, <2>1 DEF Interrupt, HandleDown
  <2>2. CASE ~Pin /\ event = "down"
    <3>1. event' = Press(start)
      BY <1>1, <2>2 DEF Interrupt, HandleUp, EndsPress
    <3>2. start <= longest + 1 /\ start \in Nat /\ longest \in Nat
      BY <1>1, <2>2, Numbers DEF ButtonInv, Ahead, TypeOK
    <3> QED BY <3>1, <3>2, Numbers DEF Press
  <2>3. CASE ~Pin /\ event # "down"
    BY <1>1, <2>3 DEF Interrupt, HandleUp, EndsPress
  <2> QED BY <2>1, <2>2, <2>3
<1>2. ButtonInv /\ [Next]_vars
        => [Interrupt => /\ event' = "short" => longest + 1 >= MinShort
                         /\ event' = "long"  => longest + 1 >= MinLong]_vars
  BY <1>1
<1> QED BY <1>2, ButtonInvariance, PTL DEF Spec, ReportedOnlyIfMade
=============================================================================
