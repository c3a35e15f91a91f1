---------------------------- MODULE GestureProofs ---------------------------
(***************************************************************************)
(* Proofs about Gesture, for every reading and every delay: what the       *)
(* filter and the slope make of numbers of 16 bits, the invariant of a     *)
(* window, and from it that a mug at rest is left in peace and that a      *)
(* gesture needs a movement.                                               *)
(***************************************************************************)
EXTENDS Gesture, TLAPS

(* Within 16 bits a number is itself. *)
LEMMA SignedSame ==
  ASSUME NEW n \in Int, n >= -32768, n <= 32767
  PROVE  Signed(n) = n
<1>1. CASE n >= 0
  BY <1>1 DEF Signed, Unsigned, Word
<1>2. CASE n < 0
  <2>1. n % 65536 = n + 65536
    BY <1>2
  <2> QED BY <1>2, <2>1 DEF Signed, Unsigned, Word
<1> QED BY <1>1, <1>2

(* An int has 16 bits. *)
LEMMA SignedRange ==
  ASSUME NEW n \in Int
  PROVE  Signed(n) \in Int16
BY DEF Signed, Unsigned, Word, Int16

(* A filtered value is at most 655, since the sum it is a hundredth of has *)
(* 16 bits.                                                                *)
LEMMA FilterRange ==
  ASSUME NEW old \in 0 .. 655, NEW new \in Readings
  PROVE  filter_fwa(old, new) \in 0 .. 655
BY DEF filter_fwa, Unsigned, Word, ACC_FWA_RATIO, Readings

(* If that sum does not overflow the value stays between the old one and   *)
(* the reading.                                                            *)
LEMMA FilterBetween ==
  ASSUME NEW old \in 0 .. 655, NEW new \in 0 .. 655
  PROVE  /\ Least(old, new) <= filter_fwa(old, new)
         /\ filter_fwa(old, new) <= Greatest(old, new)
<1>1. filter_fwa(old, new) = (old * 90 + new * 10) \div 100
  BY DEF filter_fwa, Unsigned, Word, ACC_FWA_RATIO
<1> QED BY <1>1 DEF Least, Greatest

(* A quotient of truncating division, held to its bound: with a divisor of *)
(* 210 or more, a dividend below 41 * 210 has a quotient up to 40.         *)
LEMMA QuotientBound ==
  ASSUME NEW a \in Int, NEW b \in Nat, b >= 210,
         NEW bound \in Nat, Size(a) < (bound + 1) * 210,
         NEW q \in Quotients(a, b)
  PROVE  q \in Int /\ Size(q) <= bound
<1> DEFINE p == Size(a) \div b
<1>1. Size(a) \in Nat /\ Size(b) = b /\ b # 0 /\ b > 0
  BY DEF Size
<1>2. p \in Nat /\ p * b <= Size(a)
  BY <1>1
<1>3. p <= bound
  <2>1. SUFFICES ASSUME p >= bound + 1 PROVE FALSE
    BY <1>2
  <2>2. p * b >= (bound + 1) * b
    BY <1>1, <1>2, <2>1
  <2>3. (bound + 1) * b >= (bound + 1) * 210
    BY <1>1
  <2> QED BY <1>1, <1>2, <2>2, <2>3
<1>4. q \in {p, -p}
  BY <1>1 DEF Quotients
<1> HIDE DEF p
<1> QED BY <1>2, <1>3, <1>4 DEF Size

(* In a window that is not too long, a change of eight units or less is no *)
(* gesture's, and one of one unit is no activity.                          *)
LEMMA SlopeBound ==
  ASSUME NEW now \in 0 .. 655, NEW before \in 0 .. 655, NEW time \in Nat, time >= 210,
         NEW q \in Slopes(now, before, time)
  PROVE  /\ Size(now - before) <= 8 => Size(q) <= GestureAt
         /\ Size(now - before) <= 1 => Size(q) <= ActivityAt
<1> DEFINE change == now - before
<1>1. Signed(change) = change
  <2>1. change \in Int /\ change >= -32768 /\ change <= 32767
    OBVIOUS
  <2> QED BY <2>1, SignedSame
<1>2. ASSUME Size(change) <= 8 PROVE Signed(change * 1000) = change * 1000
  <2>1. change * 1000 \in Int /\ change * 1000 >= -32768 /\ change * 1000 <= 32767
    BY <1>2 DEF Size
  <2> QED BY <2>1, SignedSame
<1>3. ASSUME Size(change) <= 8
      PROVE  \E p \in Quotients(change * 1000, time) : q = Signed(p)
  BY <1>1, <1>2, <1>3 DEF Slopes
<1>4. ASSUME NEW bound \in 0 .. 40, Size(change) <= 8, Size(change * 1000) < (bound + 1) * 210
      PROVE  Size(q) <= bound
  <2>1. PICK p \in Quotients(change * 1000, time) : q = Signed(p)
    BY <1>3, <1>4
  <2>2. p \in Int /\ Size(p) <= bound
    <3>1. change * 1000 \in Int /\ bound \in Nat
      OBVIOUS
    <3>2. Size(change * 1000) < (bound + 1) * 210
      BY <1>4
    <3> HIDE DEF change
    <3> QED BY <2>1, <3>1, <3>2, QuotientBound
  <2>3. p >= -32768 /\ p <= 32767
    BY <2>2 DEF Size
  <2> QED BY <2>1, <2>2, <2>3, SignedSame
<1>5. ASSUME Size(change) <= 8 PROVE Size(q) <= 40
  <2>1. Size(change * 1000) < (40 + 1) * 210
    BY <1>5 DEF Size
  <2> QED BY <1>4, <1>5, <2>1
<1>6. ASSUME Size(change) <= 1 PROVE Size(q) <= 5
  <2>1. Size(change * 1000) < (5 + 1) * 210 /\ Size(change) <= 8
    BY <1>6 DEF Size
  <2> QED BY <1>4, <2>1
<1> QED BY <1>5, <1>6 DEF GestureAt, ActivityAt
-----------------------------------------------------------------------------
(* What holds inside a window: its readings, and where it started, are     *)
(* within its range; as long as nothing overflows the filtered value is    *)
(* too, and the time is the code's.                                        *)
InWindow ==
  /\ \A a \in Axes : low[a] <= start[a] /\ start[a] <= high[a]
  /\ Tame => /\ \A a \in Axes : low[a] <= filtered[a] /\ filtered[a] <= high[a]
             /\ cumDelay = elapsed
  /\ elapsed >= samples * (ACC_SAMPLE_INTERVAL + 1)
  /\ result = "still"

(* At its end the next one starts where this one ended. *)
AtWindowEnd == start = filtered /\ cumDelay = 0 /\ RestIsStill /\ GestureNeedsMovement

WindowInv == IF samples = 0 THEN AtWindowEnd ELSE InWindow

(* The debounce counter never runs ahead of the samples. *)
DebounceInv == since + msgSendDelay >= GestureDelay

GestureInv == TypeOK /\ WindowInv /\ DebounceInv

LEMMA GestureBegins == Init => GestureInv
<1> SUFFICES ASSUME Init PROVE GestureInv
  OBVIOUS
<1>1. TypeOK
  BY DEF Init, TypeOK, Results, ACC_WINDOW_SIZE, GestureDelay, Int16
<1>2. WindowInv
  BY DEF Init, WindowInv, AtWindowEnd, RestIsStill, GestureNeedsMovement
<1>3. DebounceInv
  BY DEF Init, DebounceInv, GestureDelay
<1> QED BY <1>1, <1>2, <1>3 DEF GestureInv

(* The branch that leaves INIT is out of reach. *)
LEMMA NeverSeeding == TypeOK => ~Seeding
BY DEF TypeOK, Seeding, ACC_WINDOW_SIZE

(* A sample, without that branch: the filter and the window. *)
Sampled(reading, delay) ==
  /\ delay \in Nat /\ delay > ACC_SAMPLE_INTERVAL
  /\ reading \in [Axes -> Readings] /\ Sample(reading, delay)

Filters(reading) == filtered' = [a \in Axes |-> filter_fwa(filtered[a], reading[a])]
EndsWindow(delay) ==
  /\ \E slope \in [Axes -> Int] :
       /\ \A a \in Axes : slope[a] \in Slopes(filtered'[a], start[a], Signed(cumDelay + delay))
       /\ Judge(slope)
  /\ start' = filtered' /\ samples' = 0 /\ cumDelay' = 0
InsideWindow(delay) ==
  /\ result' = "still" /\ msgSendDelay' = Decremented
  /\ start' = start /\ samples' = samples + 1 /\ cumDelay' = Signed(cumDelay + delay)

LEMMA SampleIs ==
  ASSUME TypeOK, NEW reading, NEW delay, Sampled(reading, delay)
  PROVE  /\ recognition' = "INIT" /\ Filters(reading) /\ Remember(reading, delay)
         /\ samples + 1 >= ACC_WINDOW_SIZE => EndsWindow(delay)
         /\ samples + 1 < ACC_WINDOW_SIZE => InsideWindow(delay)
<1>1. ~Seeding
  BY NeverSeeding
<1>0. recognition = "INIT"
  BY DEF TypeOK
<1>2. Filters(reading) /\ recognition' = "INIT" /\ Remember(reading, delay)
  BY <1>0, <1>1 DEF Sampled, Sample, Filters
<1>3. samples + 1 >= ACC_WINDOW_SIZE => EndsWindow(delay)
  BY <1>1, Zenon DEF Sampled, Sample, EndsWindow
<1>4. samples + 1 < ACC_WINDOW_SIZE => ~(samples + 1 >= ACC_WINDOW_SIZE)
  BY DEF TypeOK, ACC_WINDOW_SIZE
<1>5. samples + 1 < ACC_WINDOW_SIZE => InsideWindow(delay)
  BY <1>1, <1>4, Zenon DEF Sampled, Sample, InsideWindow
<1> QED BY <1>2, <1>3, <1>5

(* What a slope makes of result and debounce counter. *)
LEMMA JudgeIs ==
  ASSUME NEW slope, Judge(slope)
  PROVE  \/ /\ result' = "gesture" /\ msgSendDelay' = GestureDelay
            /\ RightHanded(slope) /\ Decremented <= 0
         \/ result' \in {"still", "moving"} /\ msgSendDelay' = Decremented
BY DEF Judge

LEMMA SampleJudges ==
  ASSUME TypeOK, NEW reading, NEW delay, Sampled(reading, delay)
  PROVE  \/ result' = "gesture" /\ msgSendDelay' = GestureDelay /\ Decremented <= 0
         \/ result' \in {"still", "moving"} /\ msgSendDelay' = Decremented
<1>1. CASE samples + 1 >= ACC_WINDOW_SIZE
  <2>1. EndsWindow(delay)
    BY <1>1, SampleIs
  <2> QED BY <2>1, JudgeIs DEF EndsWindow
<1>2. CASE samples + 1 < ACC_WINDOW_SIZE
  BY <1>2, SampleIs DEF InsideWindow
<1> QED BY <1>1, <1>2 DEF TypeOK, ACC_WINDOW_SIZE

LEMMA HistoryTypes ==
  ASSUME TypeOK, NEW reading, NEW delay, Sampled(reading, delay)
  PROVE  /\ low' \in [Axes -> Int] /\ high' \in [Axes -> Int]
         /\ elapsed' \in Nat /\ since' \in 0 .. GestureDelay
<1>1. Remember(reading, delay)
  BY SampleIs
<1>2. /\ \A a \in Axes : low[a] \in Int /\ high[a] \in Int /\ filtered[a] \in Int
      /\ elapsed \in Nat /\ since \in Int /\ since >= 0
  BY DEF TypeOK, GestureDelay
<1>3. (\A a \in Axes : reading[a] \in Int) /\ delay \in Nat
  BY DEF Sampled, Readings
<1>4. low' \in [Axes -> Int]
  BY <1>1, <1>2, <1>3 DEF Remember, Least
<1>5. high' \in [Axes -> Int]
  BY <1>1, <1>2, <1>3 DEF Remember, Greatest
<1>6. elapsed' \in Nat
  BY <1>1, <1>2, <1>3 DEF Remember
<1>7. since' \in 0 .. GestureDelay
  BY <1>1, <1>2 DEF Remember, Least, GestureDelay
<1> QED BY <1>4, <1>5, <1>6, <1>7

LEMMA TypeStep ==
  ASSUME TypeOK, NEW reading, NEW delay, Sampled(reading, delay)
  PROVE  TypeOK'
<1>1. recognition' = "INIT"
  BY SampleIs
<1>2. filtered' \in [Axes -> 0 .. 655]
  <2>1. \A a \in Axes : filtered[a] \in 0 .. 655 /\ reading[a] \in Readings
    BY DEF TypeOK, Sampled
  <2>2. \A a \in Axes : filter_fwa(filtered[a], reading[a]) \in 0 .. 655
    BY <2>1, FilterRange
  <2>3. Filters(reading)
    BY SampleIs
  <2> QED BY <2>2, <2>3 DEF Filters
<1>3. Signed(cumDelay + delay) \in Int16
  <2>1. cumDelay + delay \in Int
    BY DEF TypeOK, Sampled, Int16
  <2> QED BY <2>1, SignedRange
<1>4. /\ start' \in [Axes -> 0 .. 655] /\ samples' \in 0 .. ACC_WINDOW_SIZE - 1
      /\ cumDelay' \in Int16
  <2>1. CASE samples + 1 >= ACC_WINDOW_SIZE
    <3>1. EndsWindow(delay)
      BY <2>1, SampleIs
    <3> QED BY <1>2, <3>1 DEF EndsWindow, ACC_WINDOW_SIZE, Int16
  <2>2. CASE samples + 1 < ACC_WINDOW_SIZE
    <3>1. InsideWindow(delay)
      BY <2>2, SampleIs
    <3> QED BY <1>3, <2>2, <3>1 DEF InsideWindow, TypeOK, ACC_WINDOW_SIZE
  <2> QED BY <2>1, <2>2 DEF TypeOK, ACC_WINDOW_SIZE
<1>5. msgSendDelay' \in 0 .. GestureDelay /\ result' \in Results
  <2>1. Decremented \in 0 .. GestureDelay
    BY DEF Decremented, GestureDelay, TypeOK
  <2> QED BY <2>1, SampleJudges DEF GestureDelay, Results
<1> QED BY <1>1, <1>2, <1>4, <1>5, HistoryTypes DEF TypeOK

LEMMA DebounceStep ==
  ASSUME TypeOK, DebounceInv, NEW reading, NEW delay, Sampled(reading, delay)
  PROVE  DebounceInv' /\ (result' = "gesture" => since >= GestureDelay - 1)
<1>1. msgSendDelay \in 0 .. 100 /\ since \in 0 .. 100 /\ since + msgSendDelay >= 100
  BY DEF TypeOK, DebounceInv, GestureDelay
<1>2. since' = IF result' = "gesture" THEN 0 ELSE Least(since + 1, 100)
  BY SampleIs DEF Remember, GestureDelay
<1>3. \/ result' = "gesture" /\ msgSendDelay' = 100 /\ Decremented <= 0
      \/ result' # "gesture" /\ msgSendDelay' = Decremented
  BY SampleJudges DEF GestureDelay
<1> QED BY <1>1, <1>2, <1>3 DEF Decremented, Least, DebounceInv, GestureDelay

(* After a sample the window's range holds where it started, the reading   *)
(* and, unless something overflows, the filtered value; and the time the   *)
(* code divides by is the time that has passed.                            *)
LEMMA RangeStep ==
  ASSUME TypeOK, WindowInv, NEW reading, NEW delay, Sampled(reading, delay)
  PROVE  /\ \A a \in Axes : low'[a] <= start[a] /\ start[a] <= high'[a]
         /\ elapsed' >= (samples + 1) * (ACC_SAMPLE_INTERVAL + 1)
         /\ Tame' => /\ \A a \in Axes : low'[a] <= filtered'[a] /\ filtered'[a] <= high'[a]
                     /\ Signed(cumDelay + delay) = elapsed'
<1>1. /\ \A a \in Axes : /\ low[a] \in Int /\ high[a] \in Int
                         /\ filtered[a] \in 0 .. 655 /\ start[a] \in 0 .. 655
                         /\ reading[a] \in Readings
      /\ elapsed \in Nat /\ delay \in Nat /\ delay >= 21 /\ samples \in 0 .. 9
  BY DEF TypeOK, Sampled, ACC_SAMPLE_INTERVAL, ACC_WINDOW_SIZE
<1>0. ASSUME NEW a \in Axes
      PROVE  /\ low[a] \in Int /\ high[a] \in Int /\ reading[a] \in Int
             /\ filtered[a] \in Int /\ start[a] \in Int
  <2>1. low[a] \in Int /\ high[a] \in Int
    BY <1>1
  <2>2. reading[a] \in Int
    <3>1. reading[a] \in 0 .. 1023
      BY <1>1 DEF Readings
    <3> QED BY <3>1
  <2>3. filtered[a] \in Int /\ start[a] \in Int
    <3>1. filtered[a] \in 0 .. 655 /\ start[a] \in 0 .. 655
      BY <1>1
    <3> QED BY <3>1
  <2> QED BY <2>1, <2>2, <2>3
<1>2. Filters(reading) /\ Remember(reading, delay)
  BY SampleIs
<1>3. \A a \in Axes : filtered'[a] = filter_fwa(filtered[a], reading[a])
  BY <1>2 DEF Filters
<1>4. \A a \in Axes : reading[a] <= 655 =>
        /\ Least(filtered[a], reading[a]) <= filtered'[a]
        /\ filtered'[a] <= Greatest(filtered[a], reading[a])
  <2>1. ASSUME NEW a \in Axes, reading[a] <= 655
        PROVE  /\ Least(filtered[a], reading[a]) <= filtered'[a]
               /\ filtered'[a] <= Greatest(filtered[a], reading[a])
    <3>1. reading[a] \in 0 .. 1023
      BY <1>1 DEF Readings
    <3>2. reading[a] \in 0 .. 655
      BY <2>1, <3>1
    <3>3. filtered[a] \in 0 .. 655
      BY <1>1
    <3> QED BY <1>3, <3>2, <3>3, FilterBetween
  <2> QED BY <2>1
<1>5. CASE samples = 0
  <2>1. start = filtered /\ cumDelay = 0
    BY <1>5 DEF WindowInv, AtWindowEnd
  <2>2. /\ \A a \in Axes : /\ low'[a] = Least(filtered[a], reading[a])
                           /\ high'[a] = Greatest(filtered[a], reading[a])
        /\ elapsed' = delay
    BY <1>2, <1>5 DEF Remember
  <2>3. \A a \in Axes : low'[a] <= start[a] /\ start[a] <= high'[a]
    <3>1. ASSUME NEW a \in Axes PROVE low'[a] <= start[a] /\ start[a] <= high'[a]
      <4>1. filtered[a] \in Int /\ reading[a] \in Int /\ start[a] = filtered[a]
        BY <1>0, <2>1
      <4> QED BY <2>2, <4>1 DEF Least, Greatest
    <3> QED BY <3>1
  <2>4. ASSUME Tame'
        PROVE  /\ \A a \in Axes : low'[a] <= filtered'[a] /\ filtered'[a] <= high'[a]
               /\ Signed(cumDelay + delay) = elapsed'
    <3>1. delay <= 32767 /\ \A a \in Axes : reading[a] <= 655
      <4>1. elapsed' <= 32767 /\ \A a \in Axes : high'[a] <= 655
        BY <2>4 DEF Tame
      <4>2. ASSUME NEW a \in Axes PROVE reading[a] <= 655
        <5>1. filtered[a] \in Int /\ reading[a] \in Int
          BY <1>0
        <5> QED BY <2>2, <4>1, <5>1 DEF Greatest
      <4> QED BY <2>2, <4>1, <4>2
    <3>2. Signed(delay) = delay
      BY <1>1, <3>1, SignedSame
    <3> QED BY <1>1, <1>4, <2>1, <2>2, <3>1, <3>2
  <2> QED BY <1>1, <1>5, <2>2, <2>3, <2>4 DEF ACC_SAMPLE_INTERVAL
<1>6. CASE samples # 0
  <2>1. InWindow
    BY <1>6 DEF WindowInv
  <2>2. /\ \A a \in Axes : /\ low'[a] = Least(low[a], reading[a])
                           /\ high'[a] = Greatest(high[a], reading[a])
        /\ elapsed' = elapsed + delay
    BY <1>2, <1>6 DEF Remember
  <2>3. \A a \in Axes : low'[a] <= start[a] /\ start[a] <= high'[a]
    <3>1. ASSUME NEW a \in Axes PROVE low'[a] <= start[a] /\ start[a] <= high'[a]
      <4>1. /\ low[a] \in Int /\ high[a] \in Int /\ reading[a] \in Int /\ start[a] \in Int
            /\ low[a] <= start[a] /\ start[a] <= high[a]
        BY <1>0, <2>1 DEF InWindow
      <4> QED BY <2>2, <4>1 DEF Least, Greatest
    <3> QED BY <3>1
  <2>4. ASSUME Tame'
        PROVE  /\ \A a \in Axes : low'[a] <= filtered'[a] /\ filtered'[a] <= high'[a]
               /\ Signed(cumDelay + delay) = elapsed'
    <3>1. elapsed + delay <= 32767 /\ \A a \in Axes : reading[a] <= 655 /\ high[a] <= 655
      <4>1. elapsed' <= 32767 /\ \A a \in Axes : high'[a] <= 655
        BY <2>4 DEF Tame
      <4>2. ASSUME NEW a \in Axes PROVE reading[a] <= 655 /\ high[a] <= 655
        <5>1. high[a] \in Int /\ reading[a] \in Int
          BY <1>0
        <5> QED BY <2>2, <4>1, <5>1 DEF Greatest
      <4> QED BY <2>2, <4>1, <4>2
    <3>2. Tame
      BY <1>1, <3>1 DEF Tame
    <3>3. cumDelay = elapsed /\ \A a \in Axes : low[a] <= filtered[a] /\ filtered[a] <= high[a]
      BY <2>1, <3>2 DEF InWindow
    <3>4. Signed(elapsed + delay) = elapsed + delay
      BY <1>1, <3>1, SignedSame
    <3>5. \A a \in Axes : low'[a] <= filtered'[a] /\ filtered'[a] <= high'[a]
      <4>1. ASSUME NEW a \in Axes PROVE low'[a] <= filtered'[a] /\ filtered'[a] <= high'[a]
        <5>1. /\ low[a] \in Int /\ high[a] \in Int /\ reading[a] \in Int /\ filtered[a] \in Int
              /\ low[a] <= filtered[a] /\ filtered[a] <= high[a]
          BY <1>0, <3>3
        <5>2. filtered'[a] \in Int
          <6>1. filtered' \in [Axes -> 0 .. 655]
            BY TypeStep DEF TypeOK
          <6>2. filtered'[a] \in 0 .. 655
            BY <6>1
          <6> QED BY <6>2
        <5>3. /\ Least(filtered[a], reading[a]) <= filtered'[a]
              /\ filtered'[a] <= Greatest(filtered[a], reading[a])
          BY <1>4, <3>1
        <5> QED BY <2>2, <5>1, <5>2, <5>3 DEF Least, Greatest
      <4> QED BY <4>1
    <3> QED BY <2>2, <3>3, <3>4, <3>5
  <2>5. elapsed' >= (samples + 1) * 21
    BY <1>1, <2>1, <2>2 DEF InWindow, ACC_SAMPLE_INTERVAL
  <2> QED BY <2>3, <2>4, <2>5 DEF ACC_SAMPLE_INTERVAL
<1> QED BY <1>5, <1>6

LEMMA WindowStep ==
  ASSUME TypeOK, WindowInv, NEW reading, NEW delay, Sampled(reading, delay)
  PROVE  WindowInv'
<1>1. samples \in 0 .. 9
  BY DEF TypeOK, ACC_WINDOW_SIZE
<1>2. CASE samples + 1 < ACC_WINDOW_SIZE
  <2>1. InsideWindow(delay)
    BY <1>2, SampleIs
  <2>2. samples' # 0
    BY <1>1, <2>1 DEF InsideWindow
  <2>3. InWindow'
    BY <2>1, RangeStep DEF InsideWindow, InWindow
  <2> QED BY <2>2, <2>3 DEF WindowInv
<1>3. CASE samples + 1 >= ACC_WINDOW_SIZE
  <2>1. EndsWindow(delay)
    BY <1>3, SampleIs
  <2>2. PICK slope \in [Axes -> Int] :
          /\ \A a \in Axes : slope[a] \in Slopes(filtered'[a], start[a],
                                                 Signed(cumDelay + delay))
          /\ Judge(slope)
    BY <2>1 DEF EndsWindow
  <2>3. /\ \A a \in Axes : /\ filtered'[a] \in 0 .. 655 /\ start[a] \in 0 .. 655
                           /\ low'[a] \in Int /\ high'[a] \in Int /\ slope[a] \in Int
        /\ elapsed' \in Nat
    BY <2>2, TypeStep DEF TypeOK
  <2>4. elapsed' >= 210
    BY <1>1, <1>3, RangeStep DEF ACC_WINDOW_SIZE, ACC_SAMPLE_INTERVAL
  <2>5. ASSUME Tame', NEW a \in Axes
        PROVE  /\ high'[a] - low'[a] <= 8 => Size(slope[a]) <= GestureAt
               /\ high'[a] - low'[a] <= 1 => Size(slope[a]) <= ActivityAt
    <3>1. /\ low'[a] <= start[a] /\ start[a] <= high'[a]
          /\ low'[a] <= filtered'[a] /\ filtered'[a] <= high'[a]
      BY <2>5, RangeStep
    <3>2. slope[a] \in Slopes(filtered'[a], start[a], elapsed')
      BY <2>2, <2>5, RangeStep
    <3>3. /\ Size(filtered'[a] - start[a]) <= 8 => Size(slope[a]) <= GestureAt
          /\ Size(filtered'[a] - start[a]) <= 1 => Size(slope[a]) <= ActivityAt
      BY <2>3, <2>4, <3>2, SlopeBound
    <3>4. /\ filtered'[a] \in Int /\ start[a] \in Int
          /\ low'[a] \in Int /\ high'[a] \in Int
      <4>1. filtered'[a] \in 0 .. 655 /\ start[a] \in 0 .. 655
        BY <2>3
      <4> QED BY <2>3, <4>1
    <3>5. Size(filtered'[a] - start[a]) <= high'[a] - low'[a]
      BY <3>1, <3>4 DEF Size
    <3>6. Size(filtered'[a] - start[a]) \in Int
      BY <3>4 DEF Size
    <3> QED BY <3>3, <3>4, <3>5, <3>6
  <2>6. RestIsStill'
    <3>1. SUFFICES ASSUME Tame', \A a \in Axes : high'[a] - low'[a] <= 1
                   PROVE  result' = "still"
      BY DEF RestIsStill, Spread
    <3>2. \A a \in Axes : Size(slope[a]) <= 5 /\ Size(slope[a]) \in Int
      BY <2>3, <2>5, <3>1 DEF ActivityAt, Size
    <3>3. ~Moving(slope) /\ ~RightHanded(slope)
      BY <3>2 DEF Moving, RightHanded, ActivityAt, GestureAt, Axes
    <3> QED BY <2>2, <3>3 DEF Judge
  <2>7. GestureNeedsMovement'
    <3>1. SUFFICES ASSUME Tame', result' = "gesture"
                   PROVE  high'["x"] - low'["x"] > 8 /\ high'["y"] - low'["y"] > 8
      BY DEF GestureNeedsMovement, Spread
    <3>2. RightHanded(slope)
      BY <2>2, <3>1 DEF Judge
    <3>3. Size(slope["x"]) > GestureAt /\ Size(slope["y"]) > GestureAt
      BY <2>3, <3>2 DEF RightHanded, Size, GestureAt, Axes
    <3>4. \A a \in {"x", "y"} : Size(slope[a]) \in Int /\ a \in Axes
      BY <2>3 DEF Size, Axes
    <3> QED BY <2>3, <2>5, <3>1, <3>3, <3>4 DEF GestureAt
  <2>8. start' = filtered' /\ cumDelay' = 0 /\ samples' = 0
    BY <2>1 DEF EndsWindow
  <2> QED BY <2>6, <2>7, <2>8 DEF WindowInv, AtWindowEnd
<1> QED BY <1>1, <1>2, <1>3 DEF ACC_WINDOW_SIZE
-----------------------------------------------------------------------------
LEMMA Stutters ==
  ASSUME GestureInv, UNCHANGED vars
  PROVE  GestureInv'
<1>1. TypeOK'
  BY DEF GestureInv, TypeOK, vars, history
<1>2. WindowInv'
  BY DEF GestureInv, WindowInv, AtWindowEnd, InWindow, RestIsStill, GestureNeedsMovement,
         Tame, Spread, vars, history
<1>3. DebounceInv'
  BY DEF GestureInv, DebounceInv, vars, history
<1> QED BY <1>1, <1>2, <1>3 DEF GestureInv

LEMMA GestureStep == GestureInv /\ [Next]_vars => GestureInv'
<1> SUFFICES ASSUME GestureInv, [Next]_vars PROVE GestureInv'
  OBVIOUS
<1>1. CASE Next
  <2>1. PICK reading \in [Axes -> Readings], delay \in Nat :
          delay > ACC_SAMPLE_INTERVAL /\ Sample(reading, delay)
    BY <1>1 DEF Next
  <2>2. Sampled(reading, delay)
    BY <2>1 DEF Sampled
  <2> QED BY <2>2, TypeStep, WindowStep, DebounceStep DEF GestureInv
<1>2. CASE UNCHANGED vars
  BY <1>2, Stutters
<1> QED BY <1>1, <1>2

(* The invariant of windows and debouncing holds for every reading and     *)
(* every delay of the loop.                                                *)
THEOREM GestureInvariance == Spec => []GestureInv
BY GestureBegins, GestureStep, PTL DEF Spec

(* The variables keep their ranges, and the state INIT is never left (the  *)
(* branch at 550 of main.c is dead).                                       *)
THEOREM GestureTypes == Spec => []TypeOK
<1>1. GestureInv => TypeOK
  BY DEF GestureInv
<1> QED BY <1>1, GestureInvariance, PTL

(* Inside a window the result is still, at its end what WindowInv says. *)
LEMMA WindowResults == GestureInv => RestIsStill /\ GestureNeedsMovement
<1>1. CASE samples = 0
  BY <1>1 DEF GestureInv, WindowInv, AtWindowEnd
<1>2. CASE samples # 0
  BY <1>2 DEF GestureInv, WindowInv, InWindow, RestIsStill, GestureNeedsMovement
<1> QED BY <1>1, <1>2

(* A mug at rest is never taken for active. *)
THEOREM RestAlwaysStill == Spec => []RestIsStill
BY GestureInvariance, WindowResults, PTL

(* No gesture without a movement of more than eight units of both axes. *)
THEOREM GestureAlwaysNeedsMovement == Spec => []GestureNeedsMovement
BY GestureInvariance, WindowResults, PTL

(* A hundred samples lie between two gestures. *)
THEOREM GesturesAlwaysApart == Spec => GesturesApart
<1>1. GestureInv /\ [Next]_vars => [result' = "gesture" => since >= GestureDelay - 1]_vars
  <2> SUFFICES ASSUME GestureInv, Next, result' = "gesture"
               PROVE  since >= GestureDelay - 1
    OBVIOUS
  <2>1. PICK reading \in [Axes -> Readings], delay \in Nat :
          delay > ACC_SAMPLE_INTERVAL /\ Sample(reading, delay)
    BY DEF Next
  <2>2. Sampled(reading, delay)
    BY <2>1 DEF Sampled
  <2> QED BY <2>2, DebounceStep DEF GestureInv
<1> QED BY <1>1, GestureInvariance, PTL DEF Spec, GesturesApart
=============================================================================
