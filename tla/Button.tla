------------------------------- MODULE Button -------------------------------
(***************************************************************************)
(* The push button: contacts on pin PB2, the external interrupt flag INTF2 *)
(* (gpio.c) and the press detection of button.c.  The flag holds one edge  *)
(* only, and the handler looks at the pin when it runs, not when the edge  *)
(* came: while main has interrupts disabled (every display command, half a *)
(* second for a sent message) edges coalesce.  The clock that presses are  *)
(* timed with is counted by an interrupt too (clock.c): of the timer's     *)
(* ticks that come in one disabled stretch, one stays pending in OCF0A and *)
(* the others are lost, so that the clock stands still meanwhile.          *)
(***************************************************************************)
EXTENDS Integers

CONSTANTS
  MinShort, MaxShort,   \* BUTTON_PRESS_SHORT_MIN and _MAX
  MinLong, MaxLong,     \* BUTTON_PRESS_LONG_MIN and _MAX
  Bounces               \* TRUE: contacts may change while an edge is pending

ASSUME ButtonAssumption ==
  /\ {MinShort, MaxShort, MinLong, MaxLong} \subseteq Nat
  /\ 0 < MinShort /\ MinShort <= MaxShort /\ MaxShort < MinLong /\ MinLong <= MaxLong
  /\ Bounces \in BOOLEAN

Horizon == MaxLong + 1    \* ages are not told apart from here on

VARIABLES
  pressed,          \* the contacts
  flag,             \* INTF2: an edge waits for its interrupt
  due,              \* OCF0A: a tick waits for its interrupt
  masked,           \* main has interrupts disabled
  event,            \* aButton->event.event
  start,            \* ticks counted since aButton->event.start
  ticks,            \* aButton->event.ticks
  buttonState,      \* what the callback has written, until main clears it
  (* History: how long the contacts are, or were, closed; how long of that *)
  (* with interrupts disabled; whether no edge of this press was swallowed; *)
  (* the longest they were closed since the driver last saw them open.      *)
  held, stood, clean, longest

driver == <<event, start, ticks, buttonState>>
history == <<held, stood, clean, longest>>
vars == <<pressed, flag, due, masked, driver, history>>

Later(t) == IF t < Horizon THEN t + 1 ELSE t

(* __button_handle_up_event: the range a press belongs to.  Mutants: a      *)
(* single bound between the ranges, the DOWN bit left set.                  *)
PressKeepsDown(t) == IF t \in MinShort..MaxShort THEN "down and short" ELSE "up"
PressNoGap(t) == IF t < MinShort THEN "up" ELSE IF t < MinLong THEN "short" ELSE "long"
Press(t) ==
  CASE t \in MinShort..MaxShort -> "short"
    [] t \in MinLong..MaxLong   -> "long"
    [] OTHER -> "up"

(* Only an up event that follows a down event is a press. *)
EndsAnyPress == TRUE
EndsPress == event = "down"

HandleUp ==
  /\ event' = IF EndsPress THEN Press(start) ELSE "up"
  /\ ticks' = IF EndsPress THEN start ELSE ticks
  /\ start' = 0
  /\ buttonState' = IF event' \in {"short", "long"} THEN event' ELSE buttonState

HandleDownKeepsStart == event' = "down" /\ UNCHANGED <<start, ticks, buttonState>>
HandleDown ==
  /\ event' = "down" /\ start' = 0
  /\ UNCHANGED <<ticks, buttonState>>

(* The pin as __call_interrupt_handler reads it. *)
PinNotRead == event # "down"
Pin == pressed

Interrupt ==
  /\ flag /\ ~masked
  /\ flag' = FALSE
  /\ IF Pin THEN HandleDown ELSE HandleUp
  /\ longest' = IF pressed THEN longest ELSE 0
  /\ UNCHANGED <<pressed, due, masked, held, stood, clean>>

(* An edge at the pin.  One that comes while the flag is set is lost. *)
Edge ==
  /\ Bounces \/ ~flag \/ masked
  /\ pressed' = ~pressed /\ flag' = TRUE
  /\ IF pressed THEN UNCHANGED <<held, stood>> ELSE held' = 0 /\ stood' = 0
  /\ clean' = IF pressed THEN clean /\ ~flag ELSE ~flag
  /\ UNCHANGED <<due, masked, driver, longest>>

(* ATOMIC_BLOCK in main, cli to the restored sei, for any time and as often *)
(* as main likes.  The first interrupt that waits for the end of one block  *)
(* runs before the cli of the next; the tick, if it waits too, may not.     *)
Mask ==
  /\ ~masked /\ ~flag
  /\ masked' = TRUE
  /\ UNCHANGED <<pressed, flag, due, driver, history>>
Unmask ==
  /\ masked /\ masked' = FALSE
  /\ UNCHANGED <<pressed, flag, due, driver, history>>

(* A millisecond passes and the timer matches.  Pending interrupts that are *)
(* not masked take no time.                                                 *)
Millisecond ==
  /\ masked \/ (~flag /\ ~due)
  /\ due' = TRUE
  /\ held' = IF pressed THEN Later(held) ELSE held
  /\ stood' = IF pressed /\ masked THEN Later(stood) ELSE stood
  /\ longest' = IF pressed /\ held' > longest THEN held' ELSE longest
  /\ UNCHANGED <<pressed, flag, masked, driver, clean>>

(* The timer's interrupt; an edge that waits too goes first. *)
Tick ==
  /\ due /\ ~masked /\ ~flag
  /\ due' = FALSE
  /\ start' = Later(start)
  /\ UNCHANGED <<pressed, flag, masked, event, ticks, buttonState, history>>

Consume ==      \* main: aMug.buttonState = 0
  /\ buttonState # "none" /\ buttonState' = "none"
  /\ UNCHANGED <<pressed, flag, due, masked, event, start, ticks, history>>

Init ==
  /\ pressed \in BOOLEAN      \* the button may be held while the mug boots
  /\ flag = FALSE /\ due = FALSE /\ masked = FALSE
  /\ event = "none" /\ start = 0 /\ ticks = 0 /\ buttonState = "none"
  /\ held = 0 /\ stood = 0 /\ clean = FALSE /\ longest = 0

Next == Interrupt \/ Edge \/ Mask \/ Unmask \/ Millisecond \/ Tick \/ Consume

Spec == Init /\ [][Next]_vars
-----------------------------------------------------------------------------
TypeOK ==
  /\ pressed \in BOOLEAN /\ flag \in BOOLEAN /\ due \in BOOLEAN
  /\ masked \in BOOLEAN /\ clean \in BOOLEAN
  /\ event \in {"none", "down", "up", "short", "long"}
  /\ start \in 0 .. Horizon /\ ticks \in 0 .. Horizon
  /\ held \in 0 .. Horizon /\ stood \in 0 .. Horizon /\ longest \in 0 .. Horizon
  /\ buttonState \in {"none", "short", "long"}

(* However edges coalesce, the driver never stays behind the contacts: with *)
(* no interrupt pending it has a down event exactly while they are closed,  *)
(* a button held since boot excepted.                                       *)
DriverFollowsPin ==
  ~flag => /\ event = "down" => pressed
           /\ pressed => event \in {"down", "none"}

(* A press of which no edge was swallowed is timed, up to a tick, as no     *)
(* longer than it was, and as no shorter than it was without the time that  *)
(* the clock stood still, in however many blocks of main that came.         *)
TimedAsCounted ==
  [][Interrupt /\ ~pressed /\ event = "down" /\ clean
       => ticks' \in held - stood - 1 .. held + 1]_vars

(* A press is reported as what it was, unless what main took of it brings   *)
(* it below a bound; a press in the gap between short and long is not       *)
(* reported.                                                                *)
Surely(kind, low, high) ==
  low <= held - stood - 1 /\ held + 1 <= high => event' = kind
ReportedAsMade ==
  [][Interrupt /\ ~pressed /\ event = "down" /\ clean
       => /\ Surely("short", MinShort, MaxShort)
          /\ Surely("long", MinLong, MaxLong)
          /\ Surely("up", MaxShort + 1, MinLong - 1)]_vars

(* Whatever edges were swallowed, nothing is reported that was not made: a  *)
(* press is reported, and as a long one, only if the contacts really were   *)
(* closed for so long without a break since they were last seen open.  In   *)
(* particular bounces and noise while interrupts are disabled power nothing *)
(* off.                                                                     *)
ReportedOnlyIfMade ==
  [][Interrupt => /\ event' = "short" => longest + 1 >= MinShort
                  /\ event' = "long"  => longest + 1 >= MinLong]_vars
=============================================================================
