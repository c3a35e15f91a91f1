# Ad-Hoc Dark Roast Network Travel Mug: a TLA+ verification

The mug is an AVR (ATmega1284P) with a push button, an accelerometer, an OLED
display with a controller of its own, an XBee radio and a USB host port that
can turn it into a configuration terminal. This directory holds TLA+ models of
its firmware (`Code/Mug/firmware`), the TLC configurations that check them and
TLAPS proofs. Source lines below are those of `Code/Mug/firmware/main.c` unless
another file is named.

## 1. Inventory

| component | state | operations | interacts with |
|---|---|---|---|
| main loop and state machine, `main.c` | `aMug.currentState`, `previousState`, `console`, `usbHostConnected`, the static `elapsed` of two functions, `powerState`, `activityTimer` | one pass: poll the radio, `switch` on the state, `mugIdleState` (button, received message, accelerometer, contrast) | everything |
| watchdog interrupt, 1209 | - | once a second: push `CHECK_BATTERY` onto the state, count activity | main loop, through the same `mugSetCurrentState` |
| push button, `button.c`, `gpio.c` | last event, its time, the interrupt flag | classify a press, write `aMug.buttonState` | main loop, through that one byte |
| battery, 435-515 | `batteryLevel`, `batteryIcon` | measure, hysteresis, show the icon | display, host pin |
| gesture recognition, 517-615 | sample window, `msgSendDelay` | filter, threshold, start a send | main loop |
| stored messages, 664-705 | EEPROM, `msgIndex`, `selectedMessage` | select next, store, read | terminal, display, radio |
| terminal, 904-1207 | line buffer, `terminalStatus` | read a line, execute a command | console UART, state machine, EEPROM |
| display link, `oled/oled.c` | frame buffer | build frame, send, wait for the answer line | display firmware |
| display firmware, `Code/Display/mugDisplay3` | icons, text areas, frame buffer | parse a frame, draw, answer OK or ERR | display link |
| radio link, `xbee/xbee.c` | line buffer | command dialogue, read a line, send | radio module, other mugs |
| serial ports, `usart/usart1284p.c` | hardware buffers (the ring buffer is not compiled) | read, read-and-wait, send | display link, radio link, terminal |
| clock, power, GPIO | tick counter, pins | read time, host pin, power off | all |
| older firmware (`oldmain.c`, `usart128.c`), `test_wrap.c`, other display versions | | | not part of the mug's build |
| `Code/Mug_tdd` | | | a copy of CppUTest with headers that stand for the AVR's |
| RFID programmer, `Hardware/rfid` | | | a separate device |
| SkyeTek C API, `Docs/manuals` | | | a manufacturer's library kept with its manual; nothing includes it |

### What is hard here

* **Two writers of one state.** `mugSetCurrentState` (305) compares, saves and
  overwrites without a lock, in the main loop and in the watchdog interrupt.
* **A state on top of a state.** The battery check displaces the current state
  and later restores it. Whatever main does between must not be undone, lost
  or done twice; and the meaning of a press depends on a state that may just
  then be displaced.
* **Timers in static variables** that are reset on some of the ways out only.
* **One-deep buffers:** the button byte, the received message, the edge flag.
* **Interrupts disabled for long:** each display command is sent and answered
  inside an `ATOMIC_BLOCK`; a message takes half a second. Button edges
  coalesce and are handled late, the clock stands still; bytes of the radio and
  of the host are overrun.
* **One UART for two devices:** display and host terminal share it through a
  switch that is turned in four places, and any line feed ends the wait for the
  display's answer.
* **Blocking reads without timeout** of display and radio.
* **EEPROM writes byte by byte**, with the power switched off by a button.
* **16-bit arithmetic** in the battery's hysteresis and the gesture's slopes.

What makes each component correct: the state machine changes modes only as the
user was told, the battery check is invisible, what was started ends, each
event is handled once; the button driver reports each press once and as what it
was; the icon tells the truth and does not flicker; a display command is paired
with its own answer and carried out at most once, a line of the radio is one
message, the selected message is the one sent and wraps without losing letters,
settings survive a loss of power, the terminal carries out whole lines only; a
mug at rest is left in peace and a gesture needs a movement.

## 2. Modules

| module | models | role |
|---|---|---|
| `MugModes` | what the user sees of the state machine | abstract specification |
| `Mug` | the loop of `main`, `mugIdleState`, watchdog and button interrupts | detailed specification; implements `MugModes` |
| `MugInv` | - | the inductive invariant of `Mug` |
| `MugProofs` | - | its proofs, and a further invariant for fresh countdowns |
| `MCMug` | - | input sets for TLC |
| `Button` | `button.c`, the edge interrupt of `gpio.c`, masking by main | component specification |
| `MCButton` | - | its TLC instance |
| `Battery` | `updateBatteryStatus` with its numbers, converter and charge | component specification |
| `BatteryProofs`, `MCBattery` | - | its proofs and TLC instance |
| `ButtonProofs` | - | the proofs of `Button` |
| `Wrap` | the line breaking in `mugSendMessage`, 784-800 and 810-828 | algorithm, a loop pass per step |
| `Messages` | EEPROM, selection, settings, the texts of a gesture; extends `Wrap` | component specification |
| `WrapProofs`, `MessagesProofs`, `MCMessages` | - | their proofs and TLC instance |
| `Uart` | the polled receiver of `usart1284p.c` | shared by the two below |
| `XBeeLink` | `xbee.c`, the boot's dialogue, the reading of messages | component specification |
| `XBeeLinkProofs`, `MCXBeeLink` | - | its proofs and TLC instance |
| `Commands` | what the display makes of the mug's commands | abstract specification |
| `Console` | `oled.c`, the terminal's reader, the switch, the display's command loop | composes them; implements `Commands` |
| `ConsoleProofs`, `MCConsole` | - | its proofs and TLC instance |
| `Gesture` | `mugProcessAccelVector` with its numbers | component specification, proved only |
| `GestureProofs` | - | its proofs |

### Mug

`pc` is the place main has reached; the table below gives the labels. A step of
main has at most one access to a variable that an interrupt also writes
(`currentState`, `previousState`, `buttonState`, `activityTimer`), or it is one
`ATOMIC_BLOCK`; interrupts are actions of their own, enabled at every label. So
every interleaving of the code that differs in a value read is an interleaving
of the model. The listing `main.lst` shows that the compiler does what the
model assumes of `mugSetCurrentState`: it loads `currentState` once, stores
that register to `previousState` and then stores the new state (lines 49-57),
which are the labels `compare`, `store` and `commit` with the register
`cached`. An enumeration is one byte, so each load and store is indivisible.
The exceptions are `activityTimer`, four bytes that `mugWakeUpIfNeeded` reads
without a lock (see the limits below), and the two tests of `buttonState` (863,
869), one load since `aMug` is not volatile.

| label | code |
|---|---|
| `boot` | 1216-1250, ends with the call at 1250 |
| `poll` | 1253-1261 |
| `dispatch` | the `switch` 1263-1325 and the handlers it calls |
| `host`, `restore` | 1287, 1288 |
| `offer` | 637, the return of `currentState` |
| `send` | 1277-1279 |
| `line` | 1319, `mugTerminal` |
| `button`, `short`, `cycled`, `long`, `clear` | 863-873 |
| `gate` | 875 |
| `message`, `accel`, `moved`, `wake` | 878-894 |
| `compare`, `store`, `commit` | `mugSetCurrentState`, 307-309 |
| `off` | `systemMainPower(MAIN_POWER_OFF)`, 302 |

`pdElapsed` and `scElapsed` are the static `elapsed` of `mugPowerDown` and
`switchToConsole`: 0 is the code's 0, else the age of the stored time plus one.
(A timer armed at the very instant the clock reads 0 is ignored: it would have to
be armed in the first millisecond after reset.)
The order of the early returns, and the direct writes of `currentState` by the
terminal commands `q` and `a`, are those of the code.

Abstracted: message texts (only whether the selected one is `MUG_EMSG_EMPTY`),
battery numbers (module `Battery`), the accelerometer (each sampling interval
the mug lies still, moves or makes a gesture), whether the sampling interval has
passed (free), terminal commands that change no mode (a line does nothing),
display commands (part of the step that sends them: they succeed). Switching
off ends the run: that the mug goes on while it is powered from outside (296) is
not modelled.

### MugModes and the refinement

The modes are the reachable values of `mugStateType` without `CHECK_BATTERY`. `Mug`
implements `MugModes` under the mapping

    mode    <- currentState, or the state CHECK_BATTERY will restore, or, when
               both are CHECK_BATTERY, the one about to be stored
    console <- console
    powered <- pc # "off"

so `ImplementsModes` says that the check displaces nothing the user can see: it
never loses, repeats or invents a mode change, whichever instruction the
watchdog interrupts. `MugModes` lets a gesture or a long press replace every
mode but `INIT`: that is what the code does (also with the terminal), and no
document says otherwise.

### Button

The contacts change (`Edge`), an edge sets the flag, a second edge while it is
set is lost; the handler reads the pin when it runs. `Mask`/`Unmask` are main's
`ATOMIC_BLOCK`s, as many and as long as main likes; a pending edge is handled
before the next block starts. Time has two sides: `Millisecond` is the hardware,
which sets the flag `due` of the timer, and `Tick` the interrupt that counts it
(`clock.c:13`), which the same blocks hold off. `due` holds one tick, so in a
block the clock of the driver stands still, and what it loses in all the blocks
of one press adds up (`stood`). With `Bounces` the contacts may change again
before the handler runs. `held`, `longest`, `stood` and `clean` are history
variables: how long the contacts are closed, the longest they were since the
driver last saw them open, how much of `held` main had interrupts disabled, and
whether no edge of this press was swallowed.

### Battery

A check reads the host pin once and the converter at most once, so it is one
step. `charge` is the environment's; a reading lies within `Noise` of it. The
hysteresis is computed modulo 2^16. `settled` and `drained` are history.

### Messages and Wrap

The EEPROM is a function from addresses to bytes. `mugWriteMessage` and
`mugWriteConfig` are a first step that builds the block in memory, with
`snprintf`'s cut and whatever the stack holds behind the text (`Junk`), and a
`WriteByte` for each byte; `PowerLoss` is enabled at every one of them, and
`Boot` reads back what is there. `Select` is the search of `mugSelectMessage`,
as the first index from the one of the press on that is accepted; it writes
`selectedMessage` and the display's line together, the line as far as
`OLEDConstructMessage` takes it (`Framed`, 59 characters of up to 62;
`oled.c:91-102`). A gesture (`Gesture`,
`WrapText`, `Send`) makes the text for the radio, wraps it, and then the one for
the mug's own screen. One pass of the loop of 784-800 is one step of `Wrap`
(`LookAt`, `BreakAtSpace`, `BreakHere`), with the code's `i`, `j` and
`foundSpace`; the same loop stands at 810-828. The number of a message is what
the user types (`Indices`), cut to the 16 bits of an `int` (`Int16`): the check
(1088) refuses what is above `Count`, lets `Count` and everything negative
through, and `mugStoreMessage` takes a byte of it. 40000 is -25536, and slot 64;
65282 is -254, and slot 2. Behind the table the address is one of
`WildAddresses`; afterwards `wild` is set, and `ConfigTerminated` says nothing.

Assumed: a block is written in ascending order of addresses, a byte that is
being written when the power fails is old or new (erasing and writing it is one
step), and the linker puts the messages in front of the configuration, none of
which `src/` decides. Commands that only print are left out.

### XBeeLink and Uart

`usart1284p.h` leaves `USART_USE_ISR` undefined, so no ring buffer stands
between the hardware and its readers: two bytes and a third in the shift
register, which a fourth replaces. `XBeeLink` has the nine waits of
`mugInitializeXBee` (`Dialogue` gives the answers to each: 364 sends two
commands and waits once, 371 waits without sending), then the loop: `Poll`
(1253), `ReadByte` and `ReadEnd` (`xbee.c:56`), and `busy`, everything main does
while it does not read. A byte is the message it belongs to and its place; the
module's answers are message 0. A mug sends its carriage
return on its own (803), and it may be lost. `received` is the message as far as a
display command takes it, 59 characters (`Kept`; `oled.c:91-102`): one of 64 or
more has no end in `msgReceive` (1258), but the copy ends before that shows.

Assumed: a mug that is not busy reads a byte before the next has come. Bytes of
the line arrive as the module sent them; what the radio loses, it loses in
whole packets. A message has at least one character and two less than `buffer`
holds (`XBeeLinkAssumption`): the longest one a mug sends is a star, its name and
the selected text, 78 characters for a buffer of 128.

### Console and Commands

One serial port, two devices, three processors. The mug's `pc` is its place in
`mugDisplayCommand`'s kin (`StartCommand`, `SendByte`, `WaitRead`) or in the
terminal (`EnterTerminal`, `ReadChar`, `GiveUpLine`, `OutputDone`, `Flush`,
`LeaveTerminal`); `mux` is the switch, `back` where a command turns it back to.
The terminal also ends without the switch (`LeaveUnswitched`: the command `a`, 1142,
and whatever else replaces the mode): it may then be entered again with the
switch at the host, with bytes in the receiver and with a line begun before,
which 1303 gives up. Display commands may come at any pass of the loop, also
between the command `q` and the flush.
Every byte carries its origin, so that one that reaches the wrong reader is
told. The display (`disp`, `pack`, `reply`, `comError`) is the loop of
`mugDisplay.4dg`: hunt for `$`, collect, check sum, parse, answer; on
`COM_ERROR` refuse at once and hunt again. `Type` is the host, at any time, and
the switch decides whether a byte arrives. `Console` composes the display link,
the display's command loop, the terminal's line reader and the port.

`Commands` says what may come of commands: they are issued with numbers, and
carried out in ascending order, each at most once. `ImplementsCommands` maps
`sent` and `done` to it: no frame that was cut short, garbled, or mixed with the
next or with the terminal's output is ever taken for a command, as far as the
check sum tells (see the end of section 4).

Restrictions: a host line has letters only and ends with CR or CR LF (a
terminal's return key), never with LF alone, and a payload no `$`; an echoed `$`
would make the display collect what follows as a frame (`Garble` and frames cut
short reach its resynchronisation without that). The check sum is as good as the
modelled bytes show, not against every error. A garbled byte is one the display
drops and reports. Answers have three and four bytes, more than the receiver
holds, instead of the texts' lengths. Host bytes are slower than the terminal
except while it writes, carries out a command or is switched away. Entries 4 and 5
of the display's command table are 0 (`mugDisplay.4dg:75-76`) though
`oled.h` numbers commands 0x04 and 0x05; the parser's check of arguments lets
them through. Commands are as `OLEDConstructMessage` builds them (`Constructed`:
a number from 1 to 11 with the arguments it asks for, or a text with its NUL, cut
to the 64 bytes of the frame), which is all the proofs assume of them.

### Gesture

A `Sample` is one call of `mugProcessAccelVector`: the filter (210), the window
of ten samples, slopes and thresholds (564-615), and the debouncing of
`mugIdleState` (887-890). `Signed` and `Unsigned` cut every intermediate to the 16 bits of an
`int` of the AVR; `main.lst` shows that the product `dx * 1000` keeps its low
word (`mul`) and is divided by `__divmodhi4`. Readings are all values of the
converter, delays all numbers above the sampling interval. `low`, `high`,
`elapsed` and `since` are history. The numbers are those of the code and too
many for TLC: no run checks `Gesture`, its properties are proved.

## 3. Runs

| run | question | instance | states |
|---|---|---|---|
| `mug_core` | safety and refinement, every input, watchdog between any two steps (`WdtGap` 0) | countdowns 1, gesture delay 2, sleep 1 | 3.3 million |
| `mug_countdown` | are countdowns fresh when only the button is used? | delay 3 | 11 thousand |
| `mug_live` | do countdowns and offers end, is the host noticed, does the screen dim? | button and cable, `WdtGap` 2, delays 1 | 390 thousand |
| `mug_session` | presses, console and messages in a session | short press, cable, radio, q, a, s, `WdtGap` 2 | 104 thousand |
| `mug_stale_countdown`, `mug_stale_offer`, `mug_cancel` | violations, section 5 | delays 1 | found within seconds |
| `button_masked` | bounces, late handling, a clock that stands still | ranges 2..5 and 10..13 | 2.2 million |
| `battery_drain` | noise, thresholds, host | thresholds 6, 9, 12, 15, hysteresis 2, noise 1 | 1000 |
| `messages` | does the selection stay true, do settings survive a loss of power, what does the wrap cost? | 3 slots of 8 bytes, 5 characters shown, lines of 3, 2 writes | 1.6 million |
| `radio_link` | does the mug come back, is what is shown one message? | 3 messages of 4 or 5 characters, of which 4 are shown, 1 lost end | 1.2 million |
| `console_shared` | does each answer belong to its command, does the terminal carry out whole lines? | 2 lines, 2 commands, 1 garbled byte | 2.7 million |

**Bounds.** `PromptDelay` stands for 5000 ms: what matters is whether a timer is
unarmed, running or over, which 1 to 3 ticks give. `GestureDelay` (100 samples):
0, 1 and 2 tell debouncing, its last sample and its end apart. `SleepTime`:
above or not above. Ages and the activity timer stop where no comparison can
tell them apart any more. `WdtGap` is the least number of passes between two
watchdog interrupts: 0 is the most hostile (several in one pass), and more than
the hardware can do, so safety holds a fortiori. The button's ranges and the gap
between them are wide enough for a press in each of them that is reported
although the clock lost a tick; ages stop one above the longest press
(`Horizon`), where no comparison can tell them apart.
The battery's scale has readings below, above and on every threshold, and the
widest noise the hysteresis takes out.

`messages`: three slots, so that one lies between two others; a text may be
empty, a word, several words, a word that fills a line, or cut by its slot; two
writes let one message be half written over another, and a message under the
index `Count` come before a write of the configuration; the typed numbers are all
slots, `Count`, one that is refused, one that overflows to a slot behind the
table and one that overflows to a slot in it; a selection may be longer than the
display takes. `radio_link`: three messages, since a lost end joins two and the
third must come out whole again; four and five characters are a message that a
display command takes and one that is cut; a burst of any message overruns the
receiver. `console_shared`: a line that
fits the buffer and one that does not, of which the first quits; two commands,
so that an answer can be taken for the next one's; one garbled byte at any place
of either frame.

**Fairness.** `FairSpec` has weak fairness of `Main` (the CPU runs) and of `Tick`
(timer 0 runs), and strong fairness of the watchdog falling at `dispatch`. The
watchdog has its own RC oscillator, not synchronised with the loop's 16 MHz
clock, and the loop's length varies with its inputs; a watchdog that for ever
avoided the moments at which main is about to dispatch would need the two
clocks locked. Without it `HostNoticed` fails: the check would always find its
state replaced by an interrupt elsewhere in the pass. Liveness runs use
`WdtGap` 2, since the loop (milliseconds to half a second) is faster than the
watchdog's second; with 0 the watchdog could take each dispatch and nothing else
would happen. Nothing is assumed of the user, the cable or the radio.

`XBeeLink` has weak fairness of main's steps (the processor runs, and being busy
ends) and of `Arrive` (the module sends what it has). Nobody has to send a
message. `Console` has weak fairness of the steps of both processors that finish
what they have begun, and of `Transmit`; no user has to type, and no command has
to be given.

**Restrictions that matter.** `mug_session` leaves out gestures and long presses:
with them `ConsoleReturned` fails, since a gesture or long press in the pass after the
cable was pulled replaces the `SWITCH_CONSOLE_CANCEL` and nothing asks for it
again; of the ways to leave the terminal without the switch it is about the
command `a` alone. That a long press during a battery check starts a countdown
instead of leaving the terminal (711) no property rules out: `MugModes` allows it.
`OnlySpacesLost` leaves out texts with a word of a line's length or more: when a
line was broken inside a word, such a word does lose a letter. `mug_countdown` has button presses only; with gestures the same property is a
finding. `ReceivedShown` excuses the terminal, which keeps the main loop from
showing messages for as long as it lasts. `radio_link` says nothing of the mug
while a carriage return is missing, nor of the buffer then: two long messages
joined overrun its 128 bytes. `AnsweredByItsOwn` and `RunsWholeLines` end when an
answer is disturbed: a garbled byte, or a line feed of a host that ends its lines
with CR LF and typed `q`, which the wait for the display takes for the answer.
What still holds then is `CommandReturns`, and `ImplementsCommands` for commands whose
check sums do not fit a cut frame.
`ConfigTerminated` ends with a message stored behind the table. `ReportedAsMade` is
about presses of which no edge was swallowed and which what the clock lost
cannot bring over a bound; for the others there is `ReportedOnlyIfMade`.

**Deadlock.** The `Mug` configurations do not check it: the mug switches itself
off. `radio_link` does not: after a lost carriage return, with no message to
come, the mug waits. All others check it.

## 4. Proofs

`MugProofs` proves, for all delays, gaps and input sets (`MugAssumption`: positive
naturals, inputs among those listed), `Spec => []IInv`, and from it type
correctness, `BatteryCheckReturns`, `OneSendPerGesture`, `TerminalOwnsConsole`
and `ImplementsModes` (initial state to initial state, each step to a step of
`MugModes` or a stutter).

None of these is inductive. `IInv` adds what main knows at each place in spite of
the interrupt: inside `mugSetCurrentState` the register still equals what it read,
or the watchdog has put `CHECK_BATTERY` on top of exactly that (`RegisterInv`);
`INIT` is left once and is never saved (`BootInv`); at `host` and `restore` the
state below the check is a real mode (`CheckInv`); within a handler the state is
the dispatched one, or hidden under the check (`HandlerInv`); a call that is under
way will make a change `MugModes` has an edge for (`EdgeInv`); a gesture not yet
sent is still owed (`OwedInv`); the terminal has the console (`ConsoleInv`). The run
`mug_core` checks `IInv` as well. The proof has one step per action: `TypeStep` for
the types, `CheckStep` for the check, `ModeStep` for the rest, `EdgeAllowed` and
`ModesStep` for the refinement.

`BatteryProofs` proves, for every increasing set of thresholds and every
hysteresis of at least twice the noise (`BatteryAssumption`; the readings of a
running mug are not below the hysteresis, 600 against 5 in practice, so the
16-bit subtraction does not wrap), that the external icon means a host
(`ExternalIconMeansHost`), that a level follows the charge (`LevelTracksCharge`)
and that the icon never climbs while the battery drains (`IconDrainsDown`). The
invariant needs, beyond its parts, that a level measured on battery is at least
the charge less the noise: only then is every later reading within the hysteresis
from above.

`MugProofs` also proves `FreshCountdown` from `ButtonAlone`, that the inputs are
short and long presses and nothing else. `CountdownInv` says, place by place,
when the timer may be armed: in `POWER_DOWN`, or hidden under a battery check, or
in the few steps of a call that is about to enter or leave it; without gestures
and cables no other way out of `POWER_DOWN` exists.

`ButtonProofs` proves all properties of `Button`, for all ranges and any masking:
types, `DriverFollowsPin`, `TimedAsCounted`, `ReportedAsMade` and `ReportedOnlyIfMade`.
Besides the types the invariant says how far the driver's age of a press may be
from the time the contacts have been closed: ahead by the tick that was pending
when they closed (`Ahead`), behind by the time interrupts were disabled and the
tick that is pending now (`Behind`).

`WrapProofs` and `MessagesProofs` prove `LinesFit`, `OnlySpacesLost`,
`WrapAdvances`, `SelectionCurrent`, `ConfigTerminated`, `NothingSkipped` and the
types, for every number and size of slots, layout of the configuration, texts
and width of a line. `WrapInv` says what the loop knows: the lines ended so far
fit, the current one has `j` characters without a new line, and the remembered
space is in it. `MInv` adds that a block on its way to the EEPROM is either the whole
configuration with its ends in place, or lies in front of it (`WriteInv`). The old
and the new configuration have NUL at the same places, and no write touches
those bytes otherwise, so every mixture that a loss of power leaves has them too.

`GestureProofs` proves, for all readings and delays, that the filtered values keep
to 0..655 and the recognition never leaves `INIT` (`GestureTypes`), that readings
within one unit are never activity (`RestAlwaysStill`), that a gesture needs a
movement of more than eight units on both axes although slopes overflow
(`GestureAlwaysNeedsMovement`), and that gestures lie a hundred samples apart
(`GesturesAlwaysApart`). The invariant of a window is that its start and, while
nothing overflows, its filtered value lie within the range of its readings, that
its time is at least 21 ms per sample, and that the debounce counter is not ahead
of the samples. The second and third theorem are about windows of at most
32767 ms and readings of at most 655 (`Tame`).

`XBeeLinkProofs` proves the types, `LineFits` and `ShownWhole` for any number and
lengths of messages and any bytes overrun. The invariant looks at one sequence, `Coming`:
the line begun in `buffer`, the receiver behind it and what the module has still
to send. Every byte of an undamaged message has its neighbours on both sides
(`WholeInv`); so a line that begins with such a message is a beginning of it
(`BufferInv`), and what is shown of one is all of it. For the length, `RunInv`:
while no carriage return is lost, the bytes are messages without a gap from
`RunStart` on, that is but for at most two bytes that were in the receiver when
the third was overrun; so a line has at most two characters more than a
message, and fits.

`ConsoleProofs` proves, for every size of the terminal's buffer, lines and
commands, numbers of garbled bytes and interleaving:

* the types (`ConsoleTypes`), with where each byte comes from: `Heard` is what the
  mug can hear, a byte of the host being the one its place in its line says;
* `AnsweredByItsOwn` (`EachGetsItsOwn`). `ExchangeInv` says which of three stages the
  exchange is in: `AtRest`, nothing under way but the terminal's own text, which
  has no `$`; `Asked`, of the frame that was sent the display has the first `i`
  bytes and the port the others; `Answering`, the command is carried out, the
  line to the display empty, and exactly one end of line is to come, or has
  come. That the display accepts the frame needs its check sum (`Accepted`):
  `Sum` is a recursive function, and instead of an induction, which the provers
  cannot do over data, the proof takes the least length for which the function
  would not exist (`LeastNumber`, `SumsExist`);
* `RunsWholeLines` (`OnlyWholeLines`). `LinesInv` looks at `Line`, the terminal's buffer and
  the receiver behind it, and `Coming`, the byte the host types next: the bytes
  are in the order they were typed (`Ordered`); a byte missing between two of
  them, or between the last and `Coming`, has damaged its line (`NoGap`); the
  first of them stands at the start of a line or of a further buffer full of it
  (`WellBegun`), and so does what the buffer holds, without a gap (`OneLine`).
  The lemmas `Thinned`, `Dropped`, `CutOff` and `TypedHeard` are about any such
  sequence that loses or gets bytes;
* that display and mug implement `Commands` until an answer is disturbed
  (`ImplementsUndisturbed`, step by step), and therefore `ImplementsCommands` where
  nothing can disturb one: the line garbles no byte and the host ends its lines
  with CR alone (`ImplementsQuiet`).

TLC checked each part of these invariants on the instances of `radio_link` and
`console_shared` before it was proved.

Every invariant and action property of the passing runs is a theorem. Only
model-checked are the liveness properties of `mug_live`, `mug_session`, `radio_link`
and `console_shared`, which are out of the prover's reach, and `ImplementsCommands`
when answers are disturbed. It is not true for all commands then: a host's line
feed may cut off the check sum of a frame, and the display takes in its place
what comes next, the `$` of the next frame. A command whose check sum is just
that (36) is then carried out, and the next one is not; TLC finds this with the
payload `<<6, 107, 107, 0>>`, the message "kk". The command of `console_shared`,
which shows the selected message, is not of that kind.

## 5. Findings

* **A countdown may be stale** (`mug_stale_countdown`). Long press, then a gesture
  while "Shutdown in 5 seconds" is shown: the mug sends and is idle again, but
  `elapsed` (642) stays. The next long press shows nothing and powers the mug off
  at once when five seconds have passed since the first one (`hardware.h:7`).
* **An offer may be stale** (`mug_stale_offer`). Pull the cable during the offer and plug
  it again: the new offer has what is left of the old time, or none (464, 619).
* **A press may not cancel** (`mug_cancel`). When the watchdog fires in the pass that
  handles the press, `currentState` is `CHECK_BATTERY`, the press selects the next
  message, and the countdown goes on (726, `hardware.h:8`).

Observations about code for which no document says what was meant:

* The counter of samples is back at zero before it can reach the branch that
  leaves `INIT` (546-555), so the first window after the boot is measured from
  zero and may look like a gesture.
* The filter's weighted sum wraps for readings above 655, and `dx * 1000` for
  slopes beyond 32 units; after a window of more than 32 s, which a terminal
  session makes, the time wraps too.
* Message 0 can be stored and is shown, but never sent (776).
* The notice of a cancelled shutdown overwrites the shown selection (430), which
  stays selected.
* The address of message `MUG_EMSG_COUNT`, one behind the last, is accepted (1088),
  and so is a number that overflows an `int` to a negative one, as 40000 does.
* `Code/Mug/doc/oled_commands.txt` (54-56) gives a message 64 characters; `oled.c:91` sends 59, so
  the end of a long selection or of a received message is not shown.
* While main has interrupts disabled the clock stands still too: a press held
  through display commands is timed short, and may count for nothing or for a
  short one.
* Two radio messages merged by a lost carriage return may overrun `buffer[128]`
  (`xbee.c:59`).
* A host that ends lines with CR LF ends the display's wait after `q` early (1138).
  The frame cut short by that is refused only if its check sum is not completed
  by the beginning of the next frame.

## 6. Limits

* A torn read of `activityTimer` (847) is not modelled: it needs the counter to
  pass a multiple of 256 seconds between two byte loads, and costs at most an
  early dimming.
* The modules share variables of the code (`buttonState`, `usbHost`,
  `msgSendDelay`, the moments at which main is busy); each has the others' part as
  its environment, in the most general form: any press at any time, any moment
  of masking, any moment of a check, any reading and delay. What holds in one
  therefore holds in the whole, but a property that needs what two of them
  know together is not stated.

### Not modelled, and why

* What the program does after `mugShutdown` when external power stays (296): it
  uses freed objects, and the model ends there.
* The clock's 32-bit wrap (49 days) and its counter: the timers are ages.
* The drawing, scrolling and animation of the display: output without a way
  back to the mug. Its command loop and answers are in `Console`.
* Register set-up of ports, UARTs, converter and timers: no behaviour to check.
* The ring buffer of `usart1284p.c`: not compiled, as `USART_USE_ISR` is undefined.
* Commands of the terminal that only print, and the scanning of arguments.
* Older firmware, test programs, the CppUTest copy, the RFID programmer and the
  SkyeTek library: not part of the mug, and together by far the most C of the
  repository. The definitions of these modules cover three quarters of `main.c` and the control of the
  drivers it uses, which is a small share of all C files.

## 7. Status and what is left

Every part of the mug's own firmware that keeps state is modelled. Left for a
continuation:

1. `MugSystem`: `Mug` with `Button`'s driver in place of its free presses, so that
   the one byte `buttonState` has its two real ends, and with `Messages`, so that
   what is sent in `GESTURE_IS_VALID` is what was selected when the gesture was made.
2. `ImplementsCommands` after a disturbance for sets of commands whose check
   sums do not collide, with a bound on what a frame cut short can be mixed with.
3. `Gesture` with a loop whose delays come from `Mug`'s and `Console`'s blocking.
