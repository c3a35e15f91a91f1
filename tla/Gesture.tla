------------------------------ MODULE Gesture ------------------------------
(***************************************************************************)
(* Gesture recognition (mugProcessAccelVector in main.c) with the numbers  *)
(* of the code: readings of three axes, a low-pass filter in 16 bits, and  *)
(* every ten samples the slope of each axis, in 16 bits too.  The time     *)
(* between two samples is whatever the main loop makes it; during the      *)
(* terminal, and while messages are shown, it makes it long.               *)
(***************************************************************************)
EXTENDS Integers

ACC_WINDOW_SIZE == 10       \* samples to a slope
ACC_FWA_RATIO == 10         \* weight of a new reading, in percent
ACC_SAMPLE_INTERVAL == 20   \* a sample is taken when more ms have passed
ActivityAt == 5             \* a slope beyond this is activity
GestureAt == 40             \* and two beyond this are a gesture
GestureDelay == 100         \* samples between two gestures

Axes == {"x", "y", "z"}
Readings == 0 .. 1023       \* of the converter

VARIABLES
  recognition,      \* aGesture.currentState
  filtered,         \* aGesture.x, y and z
  start,            \* sx, sy, sz: filtered values at the last window's end
  samples, cumDelay,
  msgSendDelay,
  result,           \* what the last sample was: still, moving or gesture
  low, high,        \* history: the range of the window's readings, and of start
  elapsed,          \* history: the length of the window
  since             \* history: samples since the last gesture, up to the delay

history == <<low, high, elapsed, since>>
vars == <<recognition, filtered, start, samples, cumDelay, msgSendDelay, result, history>>

Least(x, y) == IF x < y THEN x ELSE y
Greatest(x, y) == IF x < y THEN y ELSE x

(***************************************************************************)
(* int and unsigned have 16 bits.  A product too large for an int keeps    *)
(* its low bits: main.lst multiplies with mul and divides with             *)
(* __divmodhi4, whose quotient by zero is 1 or -1.                         *)
(***************************************************************************)
Word == 65536
Unsigned(n) == n % Word
Int16 == {n \in Int : -32768 <= n /\ n <= 32767}
Signed(n) == IF Unsigned(n) < 32768 THEN Unsigned(n) ELSE Unsigned(n) - Word

Size(n) == IF n < 0 THEN -n ELSE n
Quotients(a, b) ==
  IF b = 0 THEN {1, -1}
  ELSE {IF (a < 0) = (b < 0) THEN Size(a) \div Size(b) ELSE -(Size(a) \div Size(b))}

(* filter_fwa: the value moves a tenth of the way to the reading. *)
filter_fwa(old, new) ==
  Unsigned(old * (100 - ACC_FWA_RATIO) + new * ACC_FWA_RATIO) \div 100

(* The change of an axis over a window, per second. *)
Slopes(now, before, time) ==
  {Signed(q) : q \in Quotients(Signed(Signed(now - before) * 1000), time)}

Moving(slope) == \E a \in Axes : Size(slope[a]) > ActivityAt
RightHanded(slope) == Size(slope["x"]) > GestureAt /\ slope["y"] > GestureAt

Init ==
  /\ recognition = "INIT"
  /\ filtered = [a \in Axes |-> 0] /\ start = filtered
  /\ samples = 0 /\ cumDelay = 0 /\ msgSendDelay = 0
  /\ result = "still"
  /\ low = filtered /\ high = filtered /\ elapsed = 0 /\ since = GestureDelay

(* The first reading after the first window was to become the start of the *)
(* slope, unfiltered.                                                      *)
Seeding == recognition = "INIT" /\ samples > ACC_WINDOW_SIZE - 1

(* What a slope at the end of a window means; a gesture is accepted when   *)
(* the last one is long enough ago.                                        *)
Decremented == IF msgSendDelay <= 1 THEN 0 ELSE msgSendDelay - 1
Judge(slope) ==
  LET accepted == RightHanded(slope) /\ Decremented <= 0
  IN  /\ result' = IF accepted THEN "gesture" ELSE IF Moving(slope) THEN "moving" ELSE "still"
      /\ msgSendDelay' = IF accepted THEN GestureDelay ELSE Decremented

Remember(reading, delay) ==
  LET first == samples = 0
      bottom == IF first THEN filtered ELSE low
      top == IF first THEN filtered ELSE high
  IN  /\ low' = [a \in Axes |-> Least(bottom[a], reading[a])]
      /\ high' = [a \in Axes |-> Greatest(top[a], reading[a])]
      /\ elapsed' = IF first THEN delay ELSE elapsed + delay
      /\ since' = IF result' = "gesture" THEN 0 ELSE Least(since + 1, GestureDelay)

(* mugIdleState with msElapsed > ACC_SAMPLE_INTERVAL. *)
Sample(reading, delay) ==
  LET total == Signed(cumDelay + delay)
      from == IF Seeding THEN reading ELSE start
  IN  /\ filtered' = [a \in Axes |-> IF Seeding THEN reading[a]
                                     ELSE filter_fwa(filtered[a], reading[a])]
      /\ recognition' = IF Seeding THEN "NONE" ELSE recognition
      /\ IF samples + 1 >= ACC_WINDOW_SIZE
         THEN /\ \E slope \in [Axes -> Int] :
                   /\ \A a \in Axes : slope[a] \in Slopes(filtered'[a], from[a], total)
                   /\ Judge(slope)
              /\ start' = filtered' /\ samples' = 0 /\ cumDelay' = 0
         ELSE /\ result' = "still" /\ msgSendDelay' = Decremented
              /\ start' = from /\ samples' = samples + 1 /\ cumDelay' = total
      /\ Remember(reading, delay)

Next == \E reading \in [Axes -> Readings], delay \in Nat :
          delay > ACC_SAMPLE_INTERVAL /\ Sample(reading, delay)

Spec == Init /\ [][Next]_vars

(***************************************************************************)
(* Properties.                                                             *)
(***************************************************************************)
Results == {"still", "moving", "gesture"}

(* The variables keep to their ranges.  The state INIT is never left: the   *)
(* counter of samples goes back to zero before it gets to the branch that   *)
(* leaves it, and the first window is measured from zero instead.           *)
TypeOK ==
  /\ recognition = "INIT"
  /\ filtered \in [Axes -> 0 .. 655] /\ start \in [Axes -> 0 .. 655]
  /\ samples \in 0 .. ACC_WINDOW_SIZE - 1
  /\ cumDelay \in Int16
  /\ msgSendDelay \in 0 .. GestureDelay
  /\ result \in Results
  /\ low \in [Axes -> Int] /\ high \in [Axes -> Int]
  /\ elapsed \in Nat /\ since \in 0 .. GestureDelay

(* Nothing overflows: no reading so large that its weighted sum leaves 16   *)
(* bits, which takes one and a half times the earth's pull, and no pause so *)
(* long that the time leaves them.                                          *)
Tame == elapsed <= 32767 /\ \A a \in Axes : high[a] <= 655
Spread(a) == high[a] - low[a]

(* A mug that is put down is left in peace: as long as every reading, and   *)
(* the filtered value they started from, stay within one unit, no sample is *)
(* activity, whatever the main loop's delays.                               *)
RestIsStill == Tame /\ (\A a \in Axes : Spread(a) <= 1) => result = "still"

(* A gesture needs a movement of both axes: although a slope of more than   *)
(* 32 units overflows, and may come out with the wrong sign, none of eight  *)
(* or less is taken for a gesture, however fast the loop.                   *)
GestureNeedsMovement ==
  Tame /\ result = "gesture" => Spread("x") > 8 /\ Spread("y") > 8

(* Between two gestures there are a hundred samples, in which the user can  *)
(* put the mug down.                                                        *)
GesturesApart == [][result' = "gesture" => since >= GestureDelay - 1]_vars
=============================================================================
