------------------------------ MODULE Console -------------------------------
(***************************************************************************)
(* The serial port that the display and the terminal share.  A switch      *)
(* connects it to one of them; for each command to the display the mug     *)
(* turns the switch there, sends the frame, waits for a line in answer     *)
(* with interrupts disabled, and turns it back.  The terminal reads lines  *)
(* from the host in between.  Bytes carry where they come from, so that a  *)
(* byte that gets to the wrong reader can be told.                         *)
(***************************************************************************)
EXTENDS Uart

CONSTANTS
  BufferSize,     \* of the terminal's line
  LineLengths,    \* the lines the host types, by their lengths
  Quits,          \* which of them are the command q
  LineEnds,       \* what the host may send for a line end
  Payloads,       \* commands with their arguments, as bytes
  MaxCommands,    \* bound: commands to the display
  MaxErrors       \* bound: bytes garbled on their way to the display

NL == 10
CR == 13
DOLLAR == 36
LETTER == 99

(* Commands as OLEDConstructMessage builds them: a number, then as many      *)
(* arguments as the number asks for, or a text with its NUL, cut to fit.     *)
Constructed(p) ==
  /\ Len(p) \in 1 .. 61 /\ p[1] \in 1 .. 11
  /\ p[1] = 1 => Len(p) = 3
  /\ p[1] \in {2, 3, 9} => Len(p) = 2
  /\ p[1] \in {6, 8, 11} => Len(p) > 1 /\ p[Len(p)] = 0

ASSUME ConsoleAssumption ==
  /\ BufferSize \in Nat \ {0} /\ MaxCommands \in Nat /\ MaxErrors \in Nat
  /\ LineLengths \in Seq(Nat \ {0}) /\ Quits \subseteq DOMAIN LineLengths
  /\ LineEnds \subseteq {<<CR>>, <<CR, NL>>}
  /\ \A p \in Payloads : p \in Seq(0 .. 255) /\ Constructed(p)

VARIABLES
  pc,             \* the mug: loop, output (of the terminal), flushed, send or wait
  mode,           \* idle, terminal, or leaving (MUG_STATE_SWITCH_CONSOLE_CANCEL)
  mux, back,      \* the switch: oled or host, and where a command will turn it back
  frame, tx,      \* still to be written to the port, still to go over the line
  fifo,           \* the port's receiver
  buf,            \* terminalReceivedBuffer; empty when WAITING or DONE
  disp, pack,     \* the display: hunt, pack, full or answer; bytes behind the '$'
  reply, comError,\* what it has still to send; com_Error()
  typed, end,     \* the host: line and place of its last byte, its line end
  sent, done,     \* history: commands sent, and those carried out; 0 is none of them
  errors,         \* bound
  damaged,        \* history: lines that have lost a byte
  disturbed,      \* history: an answer was cut short, or a byte garbled
  ran             \* history: the last line the terminal carried out

mug == <<pc, mode, mux, back, frame>>
display == <<disp, pack, reply, comError>>
host == <<typed, end>>
history == <<errors, damaged, disturbed, ran>>
vars == <<mug, tx, fifo, buf, display, host, sent, done, history>>

Byte(from, id, at, val) == [from |-> from, id |-> id, at |-> at, val |-> val]
LinesOf(s) == {s[k].id : k \in {l \in DOMAIN s : s[l].from = "host" /\ s[l].val # NL}}

(* What happens to the lines counts until an answer is disturbed. *)
Damage(lines) == damaged' = IF disturbed' THEN {} ELSE damaged \union lines

(***************************************************************************)
(* OLEDConstructMessage: '$', the length with the checksum, the payload,   *)
(* and the checksum, which brings the sum to zero.                         *)
(***************************************************************************)
Sums(s) == LET f[k \in 0 .. Len(s)] == IF k = 0 THEN 0 ELSE f[k - 1] + s[k] IN f
Sum(s) == Sums(s)[Len(s)]
Frame(p) ==
  LET bytes == <<DOLLAR, Len(p) + 1>> \o p \o <<(256 - (Sum(p) % 256)) % 256>>
  IN  [k \in DOMAIN bytes |-> Byte("mug", sent + 1, 0, bytes[k])]

Text(n) == [k \in 1 .. n |-> Byte("display", 0, 0, IF k = n THEN NL ELSE LETTER)]
Ack == Text(3)              \* "OK\n"
Nack == Text(4)             \* "ERR:...\n"
LineOut == <<Byte("mug", 0, 0, NL), Byte("mug", 0, 0, CR)>>    \* "\n\r"

Init ==
  /\ pc = "wait" /\ mode = "idle" /\ mux = "oled" /\ back = "oled" /\ frame = << >>
  /\ tx = << >> /\ fifo = << >> /\ buf = << >>
  /\ disp = "hunt" /\ pack = << >> /\ reply = Ack /\ comError = FALSE
  /\ typed = <<1, 0>> /\ end \in LineEnds
  /\ sent = 0 /\ done = << >>
  /\ errors = 0 /\ damaged = {} /\ disturbed = FALSE /\ ran = << >>

(***************************************************************************)
(* mugDisplayCommand and its kin.                                          *)
(***************************************************************************)
StartCommand ==
  /\ sent < MaxCommands /\ sent' = sent + 1
  /\ \E p \in Payloads : frame' = Frame(p)
  /\ pc' = "send" /\ back' = mux /\ mux' = "oled"

Command ==
  /\ pc = "loop"
  /\ StartCommand
  /\ UNCHANGED <<mode, tx, fifo, buf, display, host, done, history>>

(* usart_send_byte: a byte in the data register, one in the shift register. *)
SendByte ==
  /\ pc = "send" /\ Len(tx) < 2
  /\ tx' = Append(tx, Head(frame)) /\ frame' = Tail(frame)
  /\ pc' = IF frame' = << >> THEN "wait" ELSE "send"
  /\ UNCHANGED <<mode, mux, back, fifo, buf, display, host, sent, done, history>>

(* OLEDWaitForResponse: any new line ends it, whoever sent it.              *)
(* Mutant: the first byte does.                                             *)
EndsAnyWait(b) == TRUE
EndsWait(b) == b.val = NL
WaitRead ==
  /\ pc = "wait" /\ fifo # << >>
  /\ fifo' = Tail(fifo)
  /\ IF EndsWait(Head(fifo)) THEN pc' = "loop" /\ mux' = back /\ back' = "oled"
                             ELSE UNCHANGED <<pc, mux, back>>
  /\ disturbed' = (disturbed \/ (Head(fifo).from = "host" /\ Head(fifo).val = NL))
  /\ Damage(LinesOf(<<Head(fifo)>>))
  /\ ran' = IF disturbed' THEN << >> ELSE ran
  /\ UNCHANGED <<mode, frame, tx, buf, display, host, sent, done, errors>>

(***************************************************************************)
(* The terminal.                                                           *)
(***************************************************************************)

(* MUG_STATE_SWITCH_CONSOLE_ACCEPT.  The switch may be with the host already, *)
(* and a line begun in an earlier session be left in the buffer.             *)
EnterTerminal ==
  /\ pc = "loop" /\ mode = "idle"
  /\ mode' = "terminal" /\ mux' = "host" /\ pc' = "output"
  /\ buf' = << >>
  /\ UNCHANGED <<back, frame, tx, fifo, display, host, sent, done, errors, disturbed, ran>>
  /\ Damage(LinesOf(buf))

(* The command a, a gesture, a long press in a battery check and a host     *)
(* found anew end the terminal and leave the switch where it is.            *)
LeaveUnswitched ==
  /\ pc = "loop" /\ mode # "idle"
  /\ mode' = "idle"
  /\ UNCHANGED <<pc, mux, back, frame, tx, fifo, buf, display, host, sent, done, history>>

(* MUG_STATE_SWITCH_CONSOLE_CANCEL, which pulling the cable brings in every *)
(* mode: what has come is thrown away, and then the switch is turned.       *)
Flush ==
  /\ pc = "loop" /\ pc' = "flushed"
  /\ fifo' = << >>
  /\ UNCHANGED <<mode, mux, back, frame, tx, buf, display, host, sent, done, errors, disturbed, ran>>
  /\ Damage(LinesOf(fifo))
LeaveTerminal ==
  /\ pc = "flushed" /\ pc' = "loop"
  /\ mode' = "idle" /\ mux' = "oled"
  /\ UNCHANGED <<back, frame, tx, fifo, buf, display, host, sent, done, history>>

(* A pass of mugTerminal's loop.  A full buffer is given up before the next *)
(* byte is read; that byte starts a line of its own.  Mutant: one too late. *)
OverflowLate == Len(buf) > BufferSize
Overflow == Len(buf) >= BufferSize
TerminalReads == pc = "loop" /\ mode = "terminal" /\ fifo # << >>

(* terminalBytesReceived = 0.  Mutant: the first byte stays. *)
StartOfLineKept == SubSeq(buf, 1, 1)
StartOfLine == << >>
GiveUpLine ==
  /\ TerminalReads /\ Overflow
  /\ buf' = StartOfLine /\ pc' = "output"
  /\ UNCHANGED <<mode, mux, back, frame, tx, fifo, display, host, sent, done, history>>

(* Each byte is echoed.  An end of line ends a line, unless it is empty. *)
ReadChar ==
  /\ TerminalReads /\ ~Overflow /\ Len(tx) < 2
  /\ tx' = Append(tx, Byte("mug", 0, 0, Head(fifo).val)) /\ fifo' = Tail(fifo)
  /\ CASE Head(fifo).val \notin {NL, CR} ->
            /\ buf' = Append(buf, Head(fifo))
            /\ UNCHANGED <<mug, sent, ran>>
       [] Head(fifo).val \in {NL, CR} /\ buf = << >> -> UNCHANGED <<mug, buf, sent, ran>>
       [] OTHER ->
            /\ ran' = (IF disturbed THEN << >> ELSE buf) /\ buf' = << >>
            /\ IF buf[1].from = "host" /\ buf[1].at = 1 /\ buf[1].id \in Quits
               THEN StartCommand /\ mode' = "leaving"
               ELSE pc' = "output" /\ UNCHANGED <<mode, mux, back, frame, sent>>
  /\ UNCHANGED <<display, host, done, errors, damaged, disturbed>>

(* The terminal's own text takes its time; its last two bytes may still be  *)
(* on their way when the mug goes on.                                       *)
OutputDone ==
  /\ pc = "output" /\ tx = << >>
  /\ tx' = LineOut /\ pc' = "loop"
  /\ UNCHANGED <<mode, mux, back, frame, fifo, buf, display, host, sent, done, history>>

(***************************************************************************)
(* The lines: a byte of the mug goes where the switch is, bytes of the     *)
(* others come to the mug if the switch is theirs.                         *)
(***************************************************************************)
Arrives(b) == IF mux = (IF b.from = "host" THEN "host" ELSE "oled")
              THEN Receive(fifo, b) ELSE fifo
LostFor(b) == LinesOf(IF mux # "host" /\ b.from = "host" THEN <<b>>
                      ELSE IF Full(fifo) /\ Arrives(b) # fifo THEN <<fifo[Depth]>> ELSE << >>)

(* The host types: a line's letters, then its end. *)
Type ==
  LET l == typed[1]
      n == typed[2] + 1
      b == Byte("host", l, n, IF n <= LineLengths[l] THEN LETTER ELSE end[n - LineLengths[l]])
  IN  /\ l <= Len(LineLengths)
      /\ typed' = IF n = LineLengths[l] + Len(end) THEN <<l + 1, 0>> ELSE <<l, n>>
      /\ fifo' = Arrives(b)
      /\ UNCHANGED <<mug, tx, buf, display, end, sent, done, errors, disturbed, ran>>
      /\ Damage(LostFor(b))

(* com_Init(serial_buffer, 0, '$'): the display looks for '$', takes the    *)
(* next byte as the length, and is full when so many have come.  What it    *)
(* has when it sees an error it throws away.                                *)
DisplayTakes(b) ==
  CASE comError -> UNCHANGED <<disp, pack>>
    [] disp = "hunt" -> disp' = (IF b.val = DOLLAR THEN "pack" ELSE "hunt") /\ pack' = << >>
    [] disp = "pack" -> /\ pack' = Append(pack, b)
                        /\ disp' = IF Len(pack') = pack'[1].val + 1 THEN "full" ELSE "pack"
    [] OTHER -> UNCHANGED <<disp, pack>>

Transmit ==
  /\ tx # << >> /\ tx' = Tail(tx)
  /\ IF mux = "oled" THEN DisplayTakes(Head(tx)) ELSE UNCHANGED <<disp, pack>>
  /\ UNCHANGED <<mug, fifo, buf, reply, comError, host, sent, done, history>>

(* A byte of a frame is garbled: com_Error. *)
Garble ==
  /\ tx # << >> /\ mux = "oled" /\ Head(tx).id # 0
  /\ errors < MaxErrors /\ errors' = errors + 1
  /\ tx' = Tail(tx) /\ comError' = TRUE
  /\ disturbed' = TRUE /\ damaged' = {} /\ ran' = << >>
  /\ UNCHANGED <<mug, fifo, buf, disp, pack, reply, host, sent, done>>

(***************************************************************************)
(* The loop of the display (mugDisplay.4dg main).                          *)
(***************************************************************************)
DisplayFree == reply = << >> /\ disp # "answer"

(* com_Error: the frame is given up and refused; the rest of it, which has  *)
(* no '$', is passed over.  Mutant: it is not refused.                      *)
NoRefusal == << >>
Refusal == Nack
DisplayError ==
  /\ DisplayFree /\ comError
  /\ comError' = FALSE /\ disp' = "hunt" /\ pack' = << >> /\ reply' = Refusal
  /\ UNCHANGED <<mug, tx, fifo, buf, host, sent, done, history>>

(* com_Checksum, then the parser of the command and its check of arguments. *)
Values(s) == [k \in DOMAIN s |-> s[k].val]
ChecksumIgnored == TRUE
ChecksumGood == (Sum(Values(Tail(pack))) % 256) = 0
Parsed ==
  LET cmd == pack[2].val
      args == Len(pack) - 3
  IN  /\ Len(pack) > 2 /\ cmd \in 1 .. 11
      /\ cmd = 1 => args = 2
      /\ cmd \in {2, 3, 9} => args = 1

Origin == IF \A k \in DOMAIN pack : pack[k].id = pack[1].id THEN pack[1].id ELSE 0
DisplayCommand ==
  /\ DisplayFree /\ ~comError /\ disp = "full"
  /\ disp' = "answer" /\ pack' = << >>
  /\ IF ChecksumGood /\ Parsed
     THEN done' = Append(done, Origin) /\ reply' = Ack
     ELSE reply' = Nack /\ UNCHANGED done
  /\ UNCHANGED <<mug, tx, fifo, buf, comError, host, sent, history>>

(* The answer; with its last byte resetSerialBuffer.  A mug that waits      *)
(* reads faster than the line.                                              *)
DisplayAnswers ==
  /\ reply # << >> /\ (pc = "wait" => fifo = << >>)
  /\ reply' = Tail(reply)
  /\ fifo' = Arrives(Head(reply))
  /\ IF reply' = << >> /\ disp = "answer" THEN disp' = "hunt" /\ pack' = << >>
                                          ELSE UNCHANGED <<disp, pack>>
  /\ UNCHANGED <<mug, tx, buf, comError, host, sent, done, errors, disturbed, ran>>
  /\ Damage(LostFor(Head(reply)))

Next ==
  \/ Command \/ SendByte \/ WaitRead
  \/ EnterTerminal \/ LeaveUnswitched \/ Flush \/ LeaveTerminal \/ GiveUpLine \/ ReadChar \/ OutputDone
  \/ Type \/ Transmit \/ Garble
  \/ DisplayError \/ DisplayCommand \/ DisplayAnswers

(* Processors go on and bytes arrive; nobody has to type or to send. *)
Fairness ==
  /\ WF_vars(SendByte) /\ WF_vars(WaitRead) /\ WF_vars(OutputDone) /\ WF_vars(LeaveTerminal)
  /\ WF_vars(Transmit)
  /\ WF_vars(DisplayError) /\ WF_vars(DisplayCommand) /\ WF_vars(DisplayAnswers)

Spec == Init /\ [][Next]_vars /\ Fairness

(***************************************************************************)
(* Properties.                                                             *)
(***************************************************************************)
TypeOK ==
  /\ pc \in {"loop", "flushed", "output", "send", "wait"} /\ mode \in {"idle", "terminal", "leaving"}
  /\ mux \in {"oled", "host"} /\ back \in {"oled", "host"}
  /\ pc = "send" => frame # << >>
  /\ pc \in {"send", "wait"} => mux = "oled"
  /\ Len(tx) <= 2 /\ Len(fifo) <= Depth /\ Len(buf) <= BufferSize
  /\ disp \in {"hunt", "pack", "full", "answer"}
  /\ sent \in 0 .. MaxCommands /\ errors \in 0 .. MaxErrors

(* When the mug goes on after a command, the display has carried it out:   *)
(* the line that ended the wait was its answer and not something left from *)
(* before, whatever the host was typing; unless a byte was garbled or a    *)
(* line feed of the host came for an answer.  Until then the terminal gets *)
(* no byte of an answer either.                                            *)
AnsweredByItsOwn ==
  ~disturbed => /\ pc \notin {"send", "wait"} => sent = 0 \/ (done # << >> /\ done[Len(done)] = sent)
                /\ \A k \in DOMAIN buf : buf[k].from = "host"

(* Of a line that lost no byte, like the one before it, the terminal        *)
(* carries out the whole, or if it is too long for the buffer, what is left *)
(* when the buffer was given up as often as it was full; never two lines in *)
(* one.  This, too, as long as the answers of the display go to those who   *)
(* wait for them.                                                           *)
RunsWholeLines ==
  LET from == LinesOf(ran)
  IN  ~disturbed /\ (from \union {l - 1 : l \in from}) \intersect damaged = {} =>
        /\ Len(ran) < BufferSize
        /\ \A l \in from : \E skipped \in {n * BufferSize : n \in 0 .. LineLengths[l]} :
             ran = [k \in 1 .. LineLengths[l] - skipped |-> Byte("host", l, skipped + k, LETTER)]

(* The display carries out commands in the order they were sent, and none   *)
(* twice; and only commands as they were sent: a frame that was cut short   *)
(* or garbled is refused, never taken together with a piece of the next or  *)
(* with the terminal's text.  Of cut frames this is so unless the next one  *)
(* happens to complete the check sum, as its '$' does for a frame that      *)
(* lacks just that.                                                         *)
Abstract == INSTANCE Commands
ImplementsCommands == Abstract!Spec

(* Every command comes back, though the wait has no timeout and interrupts *)
(* are disabled: after a garbled byte or a frame cut short, too, there is  *)
(* an answer to wait for.                                                  *)
CommandReturns == pc = "wait" ~> pc # "wait"
=============================================================================
